------------------------------ MODULE PeerStore ------------------------------
(***************************************************************************)
(* The store of paired peers (internal/pairing/store.go): peers.json, the  *)
(* active selection and the identity, shared by the Hub and the command    *)
(* line.  Every change is a load, a modification and an atomic replacement *)
(* under a directory lock; reads take no lock across processes.            *)
(*                                                                         *)
(* Where the platform cannot replace a file (Windows), the old one is      *)
(* moved to a backup before the new one is renamed into place, and the     *)
(* next load puts a backup without its file back.                          *)
(***************************************************************************)
EXTENDS Integers, FiniteSets, Functions

CONSTANTS Tools,       \* processes that open the store: the Hub, a command
          Fingerprints,
          Aliases, NoAlias, Addresses,
          MaxStoreCalls,   \* bound: calls made
          MaxToolCrashes   \* bound: crashes

ASSUME StoreConstants == IsFiniteSet(Fingerprints) /\ NoAlias \in Aliases /\ MaxStoreCalls \in Nat /\ MaxToolCrashes \in Nat

VARIABLES replaces,    \* does a rename replace its destination here
          slow,        \* processes that may keep a lock beyond peerMutationStale
                       \* (suspended in the middle of a call)
          peersFile,   \* {} or {peers.json}
          peersBackup, \* {} or {peers.json.bak}
          activeFile,  \* {} or {the fingerprint in active.json}
          identity,    \* {} or {the key in identity.json}
          storeLock,   \* [{"peers", "identity"} -> {} or {the process that made it}]
          lockOld,     \* locks older than peerMutationStale
          doing,       \* [Tools -> the call in progress]
          got,         \* [Tools -> identities LoadOrCreateIdentity returned]
          saved, everSaved, \* the peer list renamed into place last, and all of them
          reflagged,   \* peers a re-add from an older list made the default again
          up, storeCalls
storeVars == <<replaces, slow, peersFile, peersBackup, activeFile, identity, storeLock, lockOld,
               doing, got, saved, everSaved, reflagged, up, storeCalls>>
platform == <<replaces, slow>>
fileVars == <<peersFile, peersBackup, activeFile, identity, saved, everSaved, reflagged>>

Peer == [alias : Aliases, address : Addresses, isDefault : BOOLEAN]
PeerMaps == UNION {[fps -> Peer] : fps \in SUBSET Fingerprints}
NoPeers == [fp \in {} |-> 0]

Nothing == [at |-> "idle", op |-> "none", fp |-> {}, base |-> NoPeers, new |-> NoPeers]
Doing(t, where) == t \in up /\ doing[t].at = where
Then(t, where) == doing' = [doing EXCEPT ![t].at = where]

\* A store as earlier calls left it: no file yet, or a list with one default at most.
StoreInit ==
    /\ replaces \in BOOLEAN /\ slow \in SUBSET Tools
    /\ saved \in {m \in PeerMaps : \A f, g \in DOMAIN m : m[f].isDefault /\ m[g].isDefault => f = g}
    /\ peersFile \in {{saved}, IF saved = NoPeers THEN {} ELSE {saved}} /\ everSaved = peersFile
    /\ peersBackup = {} /\ activeFile = {} /\ identity = {} /\ reflagged = {}
    /\ storeLock = [n \in {"peers", "identity"} |-> {}] /\ lockOld = {}
    /\ doing = [t \in Tools |-> Nothing] /\ got = [t \in Tools |-> {}]
    /\ up = Tools /\ storeCalls = 0

(* ------------------------ what the calls compute ----------------------- *)

\* The peer list a load finds: a missing file is an empty list.
Listed == IF peersFile = {} THEN NoPeers ELSE CHOOSE m \in peersFile : TRUE
\* What it finds after restoreBackupIfMissing.
LoadPeersMap ==
    IF peersFile = {} /\ peersBackup # {} THEN CHOOSE m \in peersBackup : TRUE ELSE Listed

With(m, fp, p) == [f \in DOMAIN m \cup {fp} |-> IF f = fp THEN p ELSE m[f]]

\* Re-pairing keeps the alias and the default flag the user chose; a flag that
\* comes with p stays beside the one another peer may have by now.
AddPeer(m, fp, p) ==
    With(m, fp, IF fp \notin DOMAIN m THEN p
                ELSE [p EXCEPT !.alias = IF @ = NoAlias THEN m[fp].alias ELSE @,
                               !.isDefault = @ \/ m[fp].isDefault])
NewPeer(address) == [alias |-> NoAlias, address |-> address, isDefault |-> FALSE]
\* NormalizePeers, and a pairing over the legacy listener, give a peer of a list
\* they read earlier another address and add it.
NormalizePeer(m, read, fp, address) == AddPeer(m, fp, [read[fp] EXCEPT !.address = address])
RemovePeer(m, fp) == [f \in DOMAIN m \ {fp} |-> m[f]]
SetAlias(m, fp, alias) == With(m, fp, [m[fp] EXCEPT !.alias = alias])
SetDefault(m, fp) == [f \in DOMAIN m |-> [m[f] EXCEPT !.isDefault = (f = fp)]]
UpdatePeerAddress(m, fp, address) == With(m, fp, [m[fp] EXCEPT !.address = address])
\* An authenticated handshake moves the address, or confirms the one stored.
ConfirmPeerAddress(m, fp, observed) ==
    IF m[fp].address = observed THEN m ELSE UpdatePeerAddress(m, fp, observed)

\* The lists an operation may turn m into; none: the call ends with an error.
Results(op, m, fp, read) ==
    IF op = "add" THEN {AddPeer(m, fp, NewPeer(a)) : a \in Addresses}
    ELSE IF op = "readd" THEN {NormalizePeer(m, read, fp, a) : a \in Addresses}
    ELSE IF op = "remove" THEN {RemovePeer(m, fp)}
    ELSE IF fp \notin DOMAIN m THEN {}
    ELSE CASE op = "alias" -> {SetAlias(m, fp, a) : a \in Aliases}
           [] op = "default" -> {SetDefault(m, fp)}
           [] op = "address" -> {UpdatePeerAddress(m, fp, a) : a \in Addresses}
           [] op = "confirm" -> {ConfirmPeerAddress(m, fp, a) : a \in Addresses}
PeerOps == {"add", "readd", "remove", "alias", "default", "address", "confirm"}
ActiveOps == {"load_active", "save_active", "clear_active"}

\* ResolvePeer: a query matches peers in five tiers.  `hits' gives the peers it
\* matches in each; a tier's first match in the order of fingerprints is First.
Tiers == {"exact", "prefix", "sas", "alias", "name", "address"}
First(ps) == {CHOOSE p \in ps : TRUE}
ResolvePeer(hits) ==
    CASE hits["exact"] # {} -> First(hits["exact"])
      [] OTHER ->
         IF Cardinality(hits["prefix"]) > 1 \/ Cardinality(hits["sas"]) > 1
            \/ (hits["prefix"] # {} /\ hits["sas"] # {} /\ hits["prefix"] # hits["sas"]) THEN {}
         ELSE LET matching == {tier \in Tiers : hits[tier] # {}} IN
              CASE "prefix" \in matching -> hits["prefix"]
                [] "prefix" \notin matching /\ "sas" \in matching -> hits["sas"]
                [] OTHER -> IF "alias" \in matching THEN First(hits["alias"])
                            ELSE IF "name" \in matching THEN First(hits["name"])
                            ELSE IF "address" \in matching THEN First(hits["address"]) ELSE {}
HitsOf(q, prefix, sas, name) ==
    LET m == LoadPeersMap IN
    [exact |-> {fp \in DOMAIN m : fp = q}, prefix |-> prefix, sas |-> sas, name |-> name,
     alias |-> {fp \in DOMAIN m : m[fp].alias = q /\ q # NoAlias},
     address |-> {fp \in DOMAIN m : m[fp].address = q}]
\* The empty query: the default peer, or the only one.
ResolveDefault(m) ==
    LET defaults == {fp \in DOMAIN m : m[fp].isDefault} IN
    IF defaults # {} THEN First(defaults)
    ELSE IF Cardinality(DOMAIN m) = 1 THEN DOMAIN m ELSE {}

(* ------------------------------ the lock ------------------------------- *)

LockOf(op) == IF op = "identity" THEN "identity" ELSE "peers"
FreeLock(t) == /\ storeLock' = [storeLock EXCEPT ![LockOf(doing[t].op)] = {}]
               /\ lockOld' = lockOld \ {LockOf(doing[t].op)}

StartCall(t) ==
    /\ Doing(t, "idle") /\ storeCalls < MaxStoreCalls
    /\ \E op \in PeerOps \cup ActiveOps \cup {"identity"}, fp \in Fingerprints :
          /\ op = "readd" => fp \in DOMAIN Listed
          /\ doing' = [doing EXCEPT ![t] = [Nothing EXCEPT !.at = "waiting", !.op = op, !.fp = {fp},
                                            !.new = IF op = "readd" THEN Listed ELSE NoPeers]]
    /\ storeCalls' = storeCalls + 1
    /\ UNCHANGED <<platform, fileVars, storeLock, lockOld, got, up>>

TakeStoreLock(t) ==
    /\ Doing(t, "waiting")
    /\ LET n == LockOf(doing[t].op) IN
          /\ storeLock[n] = {}
          /\ storeLock' = [storeLock EXCEPT ![n] = {t}]
    /\ Then(t, "locked")
    /\ UNCHANGED <<platform, fileVars, lockOld, got, up, storeCalls>>

\* A lock seen to be older than 30 seconds is removed, and the directory made
\* anew.  What is removed is whatever lock is there by then.
JudgeStoreLock(t) ==
    /\ Doing(t, "waiting") /\ LockOf(doing[t].op) \in lockOld
    /\ Then(t, "judged")
    /\ UNCHANGED <<platform, fileVars, storeLock, lockOld, got, up, storeCalls>>
RemoveStoreLock(t) ==
    /\ Doing(t, "judged")
    /\ FreeLock(t)
    /\ Then(t, "waiting")
    /\ UNCHANGED <<platform, fileVars, got, up, storeCalls>>

StoreLockTimeout(t) ==
    /\ Doing(t, "waiting")
    /\ LET n == LockOf(doing[t].op) IN storeLock[n] # {} /\ n \notin lockOld
    /\ doing' = [doing EXCEPT ![t] = Nothing]
    /\ UNCHANGED <<platform, fileVars, storeLock, lockOld, got, up, storeCalls>>

\* The end of a call under the lock, with or without an error.
EndCall(t) == FreeLock(t) /\ doing' = [doing EXCEPT ![t] = Nothing]

(* ------------------------- load, modify, write ------------------------- *)

\* restoreBackupIfMissing has seen no file and a backup: it renames the backup
\* over whatever is at the file's path when it gets there.
SeeBackup(t) ==
    /\ doing[t].at \in {"idle", "locked"} /\ t \in up
    /\ doing[t].at = "locked" => doing[t].op \in PeerOps \cup {"load_active", "save_active"}
    /\ peersFile = {} /\ peersBackup # {}
    /\ Then(t, IF doing[t].at = "idle" THEN "restore_read" ELSE "restore")
    /\ UNCHANGED <<platform, fileVars, storeLock, lockOld, got, up, storeCalls>>
RestoreBackup(t) ==
    /\ Doing(t, "restore_read") \/ Doing(t, "restore")
    /\ peersFile' = IF peersBackup = {} THEN peersFile ELSE peersBackup
    /\ peersBackup' = {}
    /\ Then(t, IF doing[t].at = "restore" THEN "locked" ELSE "idle")
    /\ UNCHANGED <<platform, activeFile, identity, saved, everSaved, reflagged, storeLock, lockOld, got, up, storeCalls>>

\* The peer a re-add makes the default although the list names it no more.
Reflags(op, m, new, fp) ==
    {f \in {fp} : op = "readd" /\ new[f].isDefault /\ ~(f \in DOMAIN m /\ m[f].isDefault)}

LoadPeers(t) ==
    /\ Doing(t, "locked") /\ doing[t].op \in PeerOps
    /\ ~(peersFile = {} /\ peersBackup # {})
    /\ \E fp \in doing[t].fp :
          \/ \E m \in Results(doing[t].op, Listed, fp, doing[t].new) :
                /\ doing' = [doing EXCEPT ![t].at = "write", ![t].base = Listed, ![t].new = m]
                /\ reflagged' = reflagged \cup Reflags(doing[t].op, Listed, m, fp)
                /\ UNCHANGED <<storeLock, lockOld>>
          \/ /\ Results(doing[t].op, Listed, fp, doing[t].new) = {} /\ EndCall(t)
             /\ UNCHANGED reflagged
    /\ UNCHANGED <<platform, peersFile, peersBackup, activeFile, identity, saved, everSaved, got, up, storeCalls>>

\* The rename that publishes the new list; RemovePeer goes on to active.json.
Publish(t) ==
    /\ peersFile' = {doing[t].new}
    /\ saved' = doing[t].new /\ everSaved' = everSaved \cup {doing[t].new}
    /\ Then(t, IF doing[t].op = "remove" THEN "clear" ELSE "unlock")

ReplacePeers(t) ==
    /\ Doing(t, "write") /\ (replaces \/ peersFile = {})
    /\ Publish(t)
    /\ UNCHANGED <<platform, peersBackup, activeFile, identity, reflagged, storeLock, lockOld, got, up, storeCalls>>

PreserveDestination_Removes(t) ==
    /\ Doing(t, "write") /\ ~replaces /\ peersFile # {}
    /\ peersFile' = {}
    /\ Then(t, "aside")
    /\ UNCHANGED <<platform, peersBackup, activeFile, identity, saved, everSaved, reflagged, storeLock, lockOld, got, up, storeCalls>>

PreserveDestination(t) ==
    /\ Doing(t, "write") /\ ~replaces /\ peersFile # {}
    /\ peersBackup' = peersFile /\ peersFile' = {}
    /\ Then(t, "aside")
    /\ UNCHANGED <<platform, activeFile, identity, saved, everSaved, reflagged, storeLock, lockOld, got, up, storeCalls>>
\* The retry; when it fails, the backup is renamed back, if it is still there.
RetryRename(t) ==
    /\ Doing(t, "aside")
    /\ \/ Publish(t) /\ UNCHANGED <<peersBackup, storeLock, lockOld>>
       \/ /\ peersFile' = IF peersBackup = {} THEN peersFile ELSE peersBackup
          /\ peersBackup' = {} /\ EndCall(t)
          /\ UNCHANGED <<saved, everSaved>>
    /\ UNCHANGED <<platform, activeFile, identity, reflagged, got, up, storeCalls>>

\* RemovePeer forgets a selection that names the removed peer.
ClearActiveIfMatches(t) ==
    /\ Doing(t, "clear")
    /\ activeFile' = activeFile \ doing[t].fp
    /\ Then(t, "unlock")
    /\ UNCHANGED <<platform, peersFile, peersBackup, identity, saved, everSaved, reflagged, storeLock, lockOld, got, up, storeCalls>>

\* The backup goes once the replacement is in place, then the lock.
EndMutation(t) ==
    /\ Doing(t, "unlock")
    /\ peersBackup' = {} /\ EndCall(t)
    /\ UNCHANGED <<platform, peersFile, activeFile, identity, saved, everSaved, reflagged, got, up, storeCalls>>

LoadActivePeer(t) ==
    /\ Doing(t, "locked") /\ doing[t].op = "load_active"
    /\ ~(peersFile = {} /\ peersBackup # {})
    /\ activeFile' = activeFile \cap DOMAIN Listed     \* a stale selection is removed
    /\ EndCall(t)
    /\ UNCHANGED <<platform, peersFile, peersBackup, identity, saved, everSaved, reflagged, got, up, storeCalls>>
SaveActivePeer(t) ==
    /\ Doing(t, "locked") /\ doing[t].op = "save_active"
    /\ ~(peersFile = {} /\ peersBackup # {})
    /\ activeFile' = IF doing[t].fp \subseteq DOMAIN Listed THEN doing[t].fp ELSE activeFile
    /\ EndCall(t)
    /\ UNCHANGED <<platform, peersFile, peersBackup, identity, saved, everSaved, reflagged, got, up, storeCalls>>
ClearActivePeer(t) ==
    /\ Doing(t, "locked") /\ doing[t].op = "clear_active"
    /\ activeFile' = {} /\ EndCall(t)
    /\ UNCHANGED <<platform, peersFile, peersBackup, identity, saved, everSaved, reflagged, got, up, storeCalls>>

\* LoadOrCreateIdentity: load, and only then generate and save, under one lock.
LoadIdentity(t) ==
    /\ Doing(t, "locked") /\ doing[t].op = "identity"
    /\ \/ /\ identity # {} /\ got' = [got EXCEPT ![t] = @ \cup identity] /\ EndCall(t)
       \/ identity = {} /\ Then(t, "generated") /\ UNCHANGED <<storeLock, lockOld, got>>
    /\ UNCHANGED <<platform, fileVars, up, storeCalls>>
SaveIdentity(t) ==
    /\ Doing(t, "generated")
    /\ identity' = {t}                        \* the key this process generated
    /\ got' = [got EXCEPT ![t] = @ \cup {t}]
    /\ EndCall(t)
    /\ UNCHANGED <<platform, peersFile, peersBackup, activeFile, saved, everSaved, reflagged, up, storeCalls>>

(* ------------------------- crashes and time ---------------------------- *)

\* 30 seconds pass over a lock when its holder died, or is suspended: a call
\* itself takes far less.
StoreLockAges ==
    /\ \E n \in DOMAIN storeLock \ lockOld :
          storeLock[n] # {} /\ storeLock[n] \cap up \subseteq slow /\ lockOld' = lockOld \cup {n}
    /\ UNCHANGED <<platform, fileVars, storeLock, doing, got, up, storeCalls>>

ToolCrash(t) ==
    /\ t \in up /\ Cardinality(Tools \ up) < MaxToolCrashes
    /\ up' = up \ {t} /\ doing' = [doing EXCEPT ![t] = Nothing]
    /\ UNCHANGED <<platform, fileVars, storeLock, lockOld, got, storeCalls>>

StoreNext ==
    \/ \E t \in Tools :
          \/ StartCall(t) \/ TakeStoreLock(t) \/ JudgeStoreLock(t) \/ RemoveStoreLock(t)
          \/ StoreLockTimeout(t)
          \/ SeeBackup(t) \/ RestoreBackup(t) \/ LoadPeers(t) \/ ReplacePeers(t)
          \/ PreserveDestination(t) \/ RetryRename(t) \/ ClearActiveIfMatches(t) \/ EndMutation(t)
          \/ LoadActivePeer(t) \/ SaveActivePeer(t) \/ ClearActivePeer(t)
          \/ LoadIdentity(t) \/ SaveIdentity(t) \/ ToolCrash(t)
    \/ StoreLockAges
StoreSpec == StoreInit /\ [][StoreNext]_storeVars

(* ------------------------------ properties ----------------------------- *)

StoreTypeOK ==
    /\ \A f \in {peersFile, peersBackup} : Cardinality(f) <= 1 /\ f \subseteq PeerMaps
    /\ activeFile \subseteq Fingerprints /\ identity \subseteq Tools /\ up \subseteq Tools
    /\ lockOld \subseteq DOMAIN storeLock /\ storeCalls \in 0..MaxStoreCalls

\* Whatever step a process stops at, the next load finds the list saved last;
\* where a rename cannot replace its destination, at worst one saved earlier
\* (a reader's restore may overwrite the replacement), and never an empty list
\* (writeAtomic, preserveDestination, restoreBackupIfMissing).
PairingsSurvive ==
    \/ LoadPeersMap = saved
    \/ ~replaces /\ LoadPeersMap \in everSaved

\* A change is written over the list it was computed from: no update of the Hub
\* is lost to a command, nor the reverse (withPeerMutationLock).  Of two
\* processes; where a rename cannot replace its destination and one of three
\* dies, a reader's late restore may still put an older list back.
NoLostUpdate ==
    \A t \in Tools : Doing(t, "write") \/ Doing(t, "aside") => doing[t].base = LoadPeersMap

\* The empty query never has a choice to make: one peer at most is the default,
\* and with several peers and no default nothing is resolved.  A peer added
\* again from a list read earlier (NormalizePeers) may bring its old flag back.
OneDefault ==
    /\ Cardinality({fp \in DOMAIN LoadPeersMap \ reflagged : LoadPeersMap[fp].isDefault}) <= 1
    /\ ResolveDefault(LoadPeersMap) # {} =>
          \/ \E fp \in ResolveDefault(LoadPeersMap) : LoadPeersMap[fp].isDefault
          \/ Cardinality(DOMAIN LoadPeersMap) = 1

\* A query resolves to one peer it matches, and to none when it is a fingerprint
\* prefix of one peer and the code of another (ResolvePeer).
ResolveSound ==
    (\A t \in Tools : doing[t].at = "idle") =>
       LET paired == SUBSET DOMAIN LoadPeersMap IN
       \A q \in Aliases \cup Addresses, prefix \in paired, sas \in paired, name \in paired :
          LET hits == HitsOf(q, prefix, sas, name)  to == ResolvePeer(hits) IN
          /\ Cardinality(to) <= 1 /\ to \subseteq UNION {hits[tier] : tier \in Tiers}
          /\ hits["exact"] = {} /\ Cardinality(prefix \cup sas) > 1 => to = {}

\* A selection on disk names a paired peer, except between the two writes of
\* RemovePeer, and after a crash there until the next load of the selection.
ActiveIsPaired ==
    up = Tools /\ ~(\E t \in Tools : Doing(t, "clear")) /\ replaces
       => activeFile \subseteq DOMAIN LoadPeersMap

\* Every process that opens the store works under the same identity, the first
\* one saved (LoadOrCreateIdentity).
OneIdentity == \A t, u \in Tools : \A i \in got[t], j \in got[u] : i = j /\ identity = {i}

\* What holds whether or not the lock keeps writers apart: the names resolve to
\* the peer they mean or to none, and where a rename replaces its destination
\* the list saved last is the one a load finds (store.go:260-314, 1099-1178).
StoreStands ==
    StoreTypeOK /\ OneDefault /\ ResolveSound /\ (replaces => PairingsSurvive)

\* What every process that opens the store may rely on, whenever it opens it.
\* As long as no process is suspended in the middle of a change for longer than
\* its lock lasts, no pairing is lost to a crash or to another writer, the
\* selection names a paired peer and there is one identity.
StoreSound ==
    /\ StoreStands
    /\ slow = {} => PairingsSurvive /\ NoLostUpdate /\ ActiveIsPaired /\ OneIdentity
=============================================================================
