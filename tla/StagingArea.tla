----------------------------- MODULE StagingArea -----------------------------
(***************************************************************************)
(* The staging area of one output directory (internal/drop/staging.go),    *)
(* shared by several receiver processes: the process lock, which is a      *)
(* directory made with Mkdir, the activity marker of a partial, and the    *)
(* two maintenance passes that delete partials.                            *)
(*                                                                         *)
(* One receiver stands for one process: it runs at most one call at a      *)
(* time.  The clock ticks in large fractions of DefaultStagingMaxAge; the  *)
(* 30 seconds after which a lock looks stale pass separately.              *)
(***************************************************************************)
EXTENDS Integers, FiniteSets

CONSTANTS Receivers,     \* processes that share the output directory
          PartNames,     \* names of partials
          LegacyParts,   \* the names lying beside the final files, not in .tantu-staging
          MarkerMaxAge,  \* DefaultStagingMaxAge, in ticks
          RetainedMax,   \* the budget on partials, every partial counting one
          MaxClock,      \* bound: ticks
          MaxCrashes     \* bound: processes that die

ASSUME StagingConstants ==
    /\ IsFiniteSet(PartNames) /\ LegacyParts \subseteq PartNames
    /\ MarkerMaxAge \in Nat \ {0} /\ RetainedMax \in Nat
    /\ MaxClock \in Nat /\ MaxCrashes \in Nat

VARIABLES lockDir,   \* {} or {the lock directory: its heartbeat's process, is it old}
          partial,   \* [PartNames -> {} or {modification time}]
          marker,    \* [PartNames -> {} or {activity marker: who made it, when touched}]
          sidecar,   \* [PartNames -> {} or {modification time of the .meta file}]
          call,      \* [Receivers -> the call in progress, and where it stands]
          owns,      \* [Receivers -> {} or {the partial it is receiving}]
          running,   \* [Receivers -> is the process alive]
          now, crashes
stagingVars == <<lockDir, partial, marker, sidecar, call, owns, running, now, crashes>>

\* What lies in the directory for a name: the bytes, the manifest, the marker.
Kinds == {"part", "meta", "marker"}
Idle == [at |-> "idle", op |-> "none", part |-> {}, kind |-> "part", todo |-> {}, round |-> 0]
StagingOps == {"acquire", "touch", "release", "sweep", "budget"}
At(r, where) == running[r] /\ call[r].at = where
Goto(r, where) == call' = [call EXCEPT ![r].at = where]

StagingInit ==
    /\ lockDir = {}
    /\ partial \in [PartNames -> {{}, {0}}]
    /\ sidecar \in {[p \in PartNames |-> {}], partial}
    /\ marker = [p \in PartNames |-> {}]
    /\ call = [r \in Receivers |-> Idle] /\ owns = [r \in Receivers |-> {}]
    /\ running = [r \in Receivers |-> TRUE]
    /\ now = 0 /\ crashes = 0

(* ------------------------- which entries may go ------------------------ *)

Recent(times) == \E t \in times : now - t <= MarkerMaxAge
PartIsActive(p) == \E m \in marker[p] : now - m.touched <= MarkerMaxAge
Old(times) == times # {} /\ ~Recent(times)

\* A direct .part file without a manifest may be the user's own.
Removable(p) == p \in LegacyParts => sidecar[p] # {}

\* The files of an entry, by their modification times; a sweep goes through the
\* private directory kind after kind.
Times(e) == CASE e[1] = "part" -> partial[e[2]]
              [] e[1] = "meta" -> sidecar[e[2]]
              [] e[1] = "marker" -> {m.touched : m \in marker[e[2]]}
Before(k, l) == (k = "part" /\ l # "part") \/ (k = "meta" /\ l = "marker")
Pass(es) == {e \in es : ~\E f \in es : Before(f[1], e[1])}
PrivateEntries == {e \in Kinds \X (PartNames \ LegacyParts) : Times(e) # {}}
LegacyEntries == {e \in {"part"} \X LegacyParts : Times(e) # {}}

\* A manifest or a marker goes alone only when a crash left it without its bytes.
MayGo(e) ==
    /\ Old(Times(e)) /\ ~PartIsActive(e[2])
    /\ IF e[1] = "part" THEN Removable(e[2]) ELSE partial[e[2]] = {}

\* What the budget counts: partials, and stale markers without one.
Candidates ==
    {e \in {"part"} \X PartNames : Times(e) # {} /\ ~PartIsActive(e[2]) /\ Removable(e[2])}
    \cup {e \in {"marker"} \X (PartNames \ LegacyParts) : partial[e[2]] = {} /\ Old(Times(e))}
Oldest(es) == {e \in es : \A f \in es : \A t \in Times(e), u \in Times(f) : t <= u}

(* --------------------------- the process lock -------------------------- *)

\* The calls a receiver makes: a transfer acquires, touches and releases its
\* marker; maintenance runs between transfers.
Call(r) ==
    /\ At(r, "idle")
    /\ \E op \in StagingOps, p \in PartNames :
          /\ op = "acquire" => owns[r] = {}
          /\ op \in {"touch", "release"} => owns[r] = {p}
          /\ op \in {"sweep", "budget"} => owns[r] = {} /\ p = CHOOSE q \in PartNames : TRUE
          /\ call' = [call EXCEPT ![r] = [at |-> "mkdir", op |-> op, part |-> {p}, kind |-> "part",
                                          todo |-> {}, round |-> 0]]
    /\ UNCHANGED <<lockDir, partial, marker, sidecar, owns, running, now, crashes>>

LockMkdir(r) ==
    /\ At(r, "mkdir") /\ lockDir = {}
    /\ lockDir' = {[pid |-> {}, old |-> FALSE]}
    /\ Goto(r, "beat")
    /\ UNCHANGED <<partial, marker, sidecar, owns, running, now, crashes>>

\* touchStagingProcessLock: writes into whatever lock directory the path names.
LockHeartbeat(r) ==
    /\ At(r, "beat")
    /\ lockDir' = IF lockDir = {} THEN {} ELSE {[pid |-> {r}, old |-> FALSE]}
    /\ Goto(r, "locked")
    /\ UNCHANGED <<partial, marker, sidecar, owns, running, now, crashes>>

\* The lock is old and its holder is dead or unknown: decide to take it away.
Abandoned(l) == l.old /\ ~\E holder \in l.pid : running[holder]
LockJudge(r) ==
    /\ At(r, "mkdir") /\ \E l \in lockDir : Abandoned(l)
    /\ Goto(r, "reclaim")
    /\ UNCHANGED <<lockDir, partial, marker, sidecar, owns, running, now, crashes>>

\* RemoveAll(lockPath), whichever lock is there by now.
LockReclaim(r) ==
    /\ At(r, "reclaim")
    /\ lockDir' = {} /\ Goto(r, "mkdir")
    /\ UNCHANGED <<partial, marker, sidecar, owns, running, now, crashes>>

\* The deadline passes behind a lock that is recent or held by a live process.
\* A transfer whose marker cannot be refreshed ends; a release gives up.
LockTimeout(r) ==
    /\ At(r, "mkdir") /\ \E l \in lockDir : ~Abandoned(l)
    /\ call' = [call EXCEPT ![r] = Idle]
    /\ owns' = [owns EXCEPT ![r] = {}]
    /\ UNCHANGED <<lockDir, partial, marker, sidecar, running, now, crashes>>

\* The deferred unlock: RemoveAll, without asking whose lock it is.
Unlock(r) ==
    /\ At(r, "unlock")
    /\ lockDir' = {} /\ call' = [call EXCEPT ![r] = Idle]
    /\ UNCHANGED <<partial, marker, sidecar, owns, running, now, crashes>>

(* ------------------------- the activity marker ------------------------- *)

AcquireMarker_NotExclusive(r) ==
    /\ At(r, "locked") /\ call[r].op = "acquire"
    /\ \E p \in call[r].part :
          /\ marker' = [marker EXCEPT ![p] = {[by |-> r, touched |-> now]}]
          /\ owns' = [owns EXCEPT ![r] = {p}]
    /\ Goto(r, "unlock")
    /\ UNCHANGED <<lockDir, partial, sidecar, running, now, crashes>>

AcquireMarker(r) ==
    /\ At(r, "locked") /\ call[r].op = "acquire"
    /\ \E p \in call[r].part :
          \/ /\ marker[p] = {}          \* O_EXCL creates it
             /\ marker' = [marker EXCEPT ![p] = {[by |-> r, touched |-> now]}]
             /\ owns' = [owns EXCEPT ![r] = {p}]
             /\ Goto(r, "unlock")
          \/ /\ PartIsActive(p)
             /\ Goto(r, "unlock")       \* ErrStagingPartActive
             /\ UNCHANGED <<marker, owns>>
          \/ /\ marker[p] # {} /\ ~PartIsActive(p)
             /\ Goto(r, "stale")
             /\ UNCHANGED <<marker, owns>>
    /\ UNCHANGED <<lockDir, partial, sidecar, running, now, crashes>>

\* The stale marker is removed by name and the creation is tried again.
RemoveStaleMarker(r) ==
    /\ At(r, "stale")
    /\ \E p \in call[r].part : marker' = [marker EXCEPT ![p] = {}]
    /\ call' = [call EXCEPT ![r].at = IF call[r].round = 0 THEN "locked" ELSE "unlock",
                            ![r].round = @ + 1]
    /\ UNCHANGED <<lockDir, partial, sidecar, owns, running, now, crashes>>

TouchMarker(r) ==
    /\ At(r, "locked") /\ call[r].op = "touch"
    /\ \E p \in call[r].part :
          \/ /\ marker[p] # {}
             /\ marker' = [marker EXCEPT ![p] = {[m EXCEPT !.touched = now] : m \in @}]
             /\ UNCHANGED owns
          \/ /\ marker[p] = {}          \* ErrStagingPartActive ends the transfer
             /\ owns' = [owns EXCEPT ![r] = {}]
             /\ UNCHANGED marker
    /\ Goto(r, "unlock")
    /\ UNCHANGED <<lockDir, partial, sidecar, running, now, crashes>>

\* Removed only while it is still the file this receiver created.
ReleaseMarker(r) ==
    /\ At(r, "locked") /\ call[r].op = "release"
    /\ \E p \in call[r].part :
          marker' = [marker EXCEPT ![p] = {m \in @ : m.by # r}]
    /\ owns' = [owns EXCEPT ![r] = {}]
    /\ Goto(r, "unlock")
    /\ UNCHANGED <<lockDir, partial, sidecar, running, now, crashes>>

(* ------------------ the transfer, which takes no lock ------------------ *)

WritePartial(r) ==
    /\ At(r, "idle")
    /\ \E p \in owns[r] : /\ partial' = [partial EXCEPT ![p] = {now}]
                          /\ sidecar' = [sidecar EXCEPT ![p] = {now}]
    /\ UNCHANGED <<lockDir, marker, call, owns, running, now, crashes>>

\* PublishFromStaging: the partial is renamed to its final name.
PublishPartial(r) ==
    /\ At(r, "idle")
    /\ \E p \in owns[r] : /\ partial[p] # {}
                          /\ partial' = [partial EXCEPT ![p] = {}]
                          /\ sidecar' = [sidecar EXCEPT ![p] = {}]
    /\ UNCHANGED <<lockDir, marker, call, owns, running, now, crashes>>

(* ----------------------------- maintenance ----------------------------- *)

\* Both passes list the directory first.
ListPartials(r) ==
    /\ At(r, "locked")
    /\ \/ /\ call[r].op = "sweep"
          /\ call' = [call EXCEPT ![r].at = "sweep", ![r].todo = PrivateEntries]
       \/ /\ call[r].op = "budget"
          /\ call' = [call EXCEPT ![r].at = "budget", ![r].todo = Candidates,
                                  ![r].round = Cardinality(Candidates)]
    /\ UNCHANGED <<lockDir, partial, marker, sidecar, owns, running, now, crashes>>

SweepLook_ByAgeAlone(r) ==
    /\ At(r, "sweep") \/ At(r, "legacy")
    /\ \E e \in Pass(call[r].todo) :
          call' = [call EXCEPT ![r].todo = @ \ {e}, ![r].kind = e[1], ![r].part = {e[2]},
                               ![r].at = IF Old(Times(e)) THEN "remove" ELSE @]
    /\ UNCHANGED <<lockDir, partial, marker, sidecar, owns, running, now, crashes>>

\* The last look at an entry of the sweep: skip it, or go on to remove it.
SweepLook(r) ==
    /\ At(r, "sweep") \/ At(r, "legacy")
    /\ \E e \in Pass(call[r].todo) :
          call' = [call EXCEPT ![r].todo = @ \ {e}, ![r].kind = e[1], ![r].part = {e[2]},
                               ![r].at = IF MayGo(e) THEN "remove" ELSE @]
    /\ UNCHANGED <<lockDir, partial, marker, sidecar, owns, running, now, crashes>>

\* The oldest candidate goes while there are more than the budget allows; one
\* that became active is passed over and still counted.
BudgetLook(r) ==
    /\ At(r, "budget") /\ call[r].round > RetainedMax
    /\ \E e \in Oldest(call[r].todo) :
          LET spared == e[1] = "part" /\ PartIsActive(e[2]) IN
          call' = [call EXCEPT ![r].todo = @ \ {e}, ![r].kind = e[1], ![r].part = {e[2]},
                               ![r].at = IF spared THEN @ ELSE "remove"]
    /\ UNCHANGED <<lockDir, partial, marker, sidecar, owns, running, now, crashes>>

\* The pass a removal belongs to goes on.
Resume(c) == IF c.op = "budget" THEN "budget" ELSE IF c.part \subseteq LegacyParts THEN "legacy" ELSE "sweep"

\* The entry goes; behind the bytes of a partial go the marker and the manifest
\* that described them.
RemovePartial(r) ==
    /\ At(r, "remove")
    /\ \E p \in call[r].part :
          /\ partial' = IF call[r].kind = "part" THEN [partial EXCEPT ![p] = {}] ELSE partial
          /\ sidecar' = IF call[r].kind = "meta" THEN [sidecar EXCEPT ![p] = {}] ELSE sidecar
          /\ marker' = IF call[r].kind = "marker" THEN [marker EXCEPT ![p] = {}] ELSE marker
          /\ call' = [call EXCEPT ![r].at = IF call[r].kind = "part" THEN "remains" ELSE Resume(call[r]),
                                  ![r].round = IF Times(<<call[r].kind, p>>) = {} THEN @ ELSE @ - 1]
    /\ UNCHANGED <<lockDir, owns, running, now, crashes>>
RemoveRemains(r) ==
    /\ At(r, "remains")
    /\ \E p \in call[r].part :
          /\ marker' = [marker EXCEPT ![p] = {}]
          /\ sidecar' = [sidecar EXCEPT ![p] = {}]
    /\ Goto(r, Resume(call[r]))
    /\ UNCHANGED <<lockDir, partial, owns, running, now, crashes>>

\* The sweep ends with the partials beside the final files.
SweepLegacy(r) ==
    /\ At(r, "sweep") /\ call[r].todo = {}
    /\ call' = [call EXCEPT ![r].at = "legacy", ![r].todo = LegacyEntries]
    /\ UNCHANGED <<lockDir, partial, marker, sidecar, owns, running, now, crashes>>
EndSweep(r) ==
    /\ At(r, "legacy") /\ call[r].todo = {}
    /\ Goto(r, "unlock")
    /\ UNCHANGED <<lockDir, partial, marker, sidecar, owns, running, now, crashes>>
EndBudget(r) ==
    /\ At(r, "budget") /\ (call[r].round <= RetainedMax \/ call[r].todo = {})
    /\ Goto(r, "unlock")
    /\ UNCHANGED <<lockDir, partial, marker, sidecar, owns, running, now, crashes>>

(* ------------------------- time and processes -------------------------- *)

\* 30 seconds pass, but not between the two adjacent calls that make the
\* directory and write the heartbeat into it.
LockAges ==
    /\ ~\E r \in Receivers : At(r, "beat")
    /\ lockDir' = {[l EXCEPT !.old = TRUE] : l \in lockDir} /\ lockDir' # lockDir
    /\ UNCHANGED <<partial, marker, sidecar, call, owns, running, now, crashes>>

\* A tick is a large part of a day: no call is in progress, and a transfer that
\* would not have touched its marker has ended long before (its idle timeout).
Tick ==
    /\ now < MaxClock
    /\ \A r \in Receivers : running[r] => call[r].at = "idle"
    /\ \A r \in Receivers : \A p \in owns[r] :
          \A m \in marker[p] : m.by = r => now - m.touched < MarkerMaxAge
    /\ now' = now + 1
    /\ UNCHANGED <<lockDir, partial, marker, sidecar, call, owns, running, crashes>>

Crash(r) ==
    /\ running[r] /\ crashes < MaxCrashes
    /\ running' = [running EXCEPT ![r] = FALSE]
    /\ call' = [call EXCEPT ![r] = Idle] /\ owns' = [owns EXCEPT ![r] = {}]
    /\ crashes' = crashes + 1
    /\ UNCHANGED <<lockDir, partial, marker, sidecar, now>>

StagingNext ==
    \/ \E r \in Receivers :
          \/ Call(r) \/ LockMkdir(r) \/ LockHeartbeat(r) \/ LockJudge(r) \/ LockReclaim(r)
          \/ LockTimeout(r) \/ Unlock(r)
          \/ AcquireMarker(r) \/ RemoveStaleMarker(r) \/ TouchMarker(r) \/ ReleaseMarker(r)
          \/ WritePartial(r) \/ PublishPartial(r)
          \/ ListPartials(r) \/ SweepLook(r) \/ BudgetLook(r) \/ RemovePartial(r)
          \/ RemoveRemains(r) \/ SweepLegacy(r) \/ EndSweep(r) \/ EndBudget(r) \/ Crash(r)
    \/ LockAges \/ Tick
StagingSpec == StagingInit /\ [][StagingNext]_stagingVars

(* ------------------------------ properties ----------------------------- *)

StagingTypeOK ==
    /\ now \in 0..MaxClock /\ crashes \in 0..MaxCrashes
    /\ partial \in [PartNames -> SUBSET (0..MaxClock)]
    /\ sidecar \in [PartNames -> SUBSET (0..MaxClock)]
    /\ owns \in [Receivers -> SUBSET PartNames]
    /\ running \in [Receivers -> BOOLEAN]
    /\ \A r \in Receivers : call[r].op \in StagingOps \cup {"none"} /\ call[r].part \subseteq PartNames

Holds(r) == running[r]
            /\ call[r].at \in {"beat", "locked", "stale", "sweep", "legacy", "budget", "remove", "remains", "unlock"}

\* A partial is received by one process at a time, and the marker that tells
\* the others so is its own and recent for as long as it receives
\* (AcquireStagingActivity: "a second receiver cannot unlink an active
\* transfer"), through the death of the process lock's holder and the reclaim
\* of its lock, which lets no two live processes in as long as no two judge the
\* same lock abandoned.
OwnerMarked ==
    /\ StagingTypeOK
    /\ \A r, s \in Receivers : Holds(r) /\ Holds(s) => r = s
    /\ \A r \in Receivers : \A p \in owns[r] :
        /\ marker[p] # {} /\ PartIsActive(p)
        /\ \A m \in marker[p] : m.by = r
        /\ \A s \in Receivers \ {r} : p \notin owns[s]

\* Maintenance deletes neither the partial of a transfer in progress, its
\* manifest or its marker, nor a file beside the final ones that no manifest shows to be Tantu's.
MaintenanceSpares ==
    [][\A r \in Receivers : RemovePartial(r) =>
          \A p \in call[r].part : Times(<<call[r].kind, p>>) # {} =>
              /\ \A s \in Receivers : p \notin owns[s]
              /\ p \in LegacyParts => sidecar[p] # {}]_stagingVars
=============================================================================
