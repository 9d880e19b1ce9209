------------------------------ MODULE DropTransfer ------------------------------
(***************************************************************************)
(* A QuickDrop transfer end to end: senders (internal/drop/sender.go, with *)
(* the outcome the Hub reports, internal/hub/operations.go), one connection *)
(* per attempt, and the receiving Hub (internal/drop/receiver.go under the *)
(* dispatcher, with the Hub's OnMeta, BeforeComplete, OnDropReceived and   *)
(* OnDropDoneAttempt callbacks, internal/hub/hub.go), its completion       *)
(* ledger (module Tombstones) and its quota (module TransferQuota).        *)
(*                                                                         *)
(* A payload is a sequence of chunks; its SHA-256 is the payload itself,   *)
(* so digests are compared as values.  Metadata other than size and head   *)
(* is the same for every attempt on one key.  Receive sessions interleave  *)
(* at every point where the code leaves a mutex or waits.                  *)
(***************************************************************************)
EXTENDS Integers, SequencesExt, FiniteSetsExt

CONSTANTS
    Attempts,       \* sends; a retry is another attempt
    DropOf, KeyOf,  \* drop_id and idempotency_key of each attempt
    KindOf,         \* "file" or "text"
    Payload,        \* the chunks each attempt streams
    Size,           \* the size each attempt declares, 0 when it is unknown
    HeadChunks,     \* chunks covered by the head hash (HeadHashSize)
    ChannelCap,     \* frames a connection buffers in each direction
    MaxTransfers, MaxBytes, MaxEntries,
    Overlap,        \* may an attempt start while another is being received?
    MaxCrashes,     \* receiver crashes in a behaviour
    CloseMayFail    \* may closing a published file report an error?

ASSUME DropConstants ==
    /\ HeadChunks \in Nat \ {0} /\ ChannelCap \in Nat \ {0}
    /\ MaxCrashes \in Nat /\ MaxEntries \in Nat \ {0}
    /\ Overlap \in BOOLEAN /\ CloseMayFail \in BOOLEAN
    /\ IsFiniteSet(Attempts) /\ MaxTransfers \in Nat /\ MaxBytes \in Nat
    /\ \A a \in Attempts :
        /\ KindOf[a] \in {"file", "text"}
        /\ Payload[a] \in Seq(Range(Payload[a]))
        /\ Size[a] \in {0, Len(Payload[a])}

Drops == {DropOf[a] : a \in Attempts}
Keys == {KeyOf[a] : a \in Attempts}
Chunks == UNION {Range(Payload[a]) : a \in Attempts}

VARIABLES
    \* the sender
    send,           \* where SendDrop is
    next,           \* index of the next chunk to stream
    outcome,        \* what the sender's user is told
    \* the connection
    up, toRecv, toSend,
    \* the receiving Hub
    recv,           \* where the receive session is
    dup,            \* {the matching tombstone}, or {}
    hashed,         \* chunks fed to the session's running SHA-256
    owner,          \* attemptOwners: the attempts that reserved each drop_id
    marker,         \* the running attempt whose activity marker is on disk
    part, manifest, \* {staged bytes} and {metadata} on disk, or {}
    published,      \* files published, by attempt, with their bytes
    inbox,          \* attempts handed to OnDropReceived's inbox
    crashes,
    \* Tombstones and TransferQuota
    entries, file, aside, snapshot, lastPersistErr,
    activeTransfers, activeBytes, peerEntries, usage, lease

sendVars == <<send, next, outcome>>
wireVars == <<up, toRecv, toSend>>
diskVars == <<marker, part, manifest, published>>
tombVars == <<entries, file, aside, snapshot, lastPersistErr>>
quotaVars == <<activeTransfers, activeBytes, peerEntries, usage, lease>>
vars == <<sendVars, wireVars, recv, dup, hashed, owner, diskVars, inbox,
          crashes, tombVars, quotaVars>>

HeadHash(a) == IF Size[a] >= HeadChunks THEN SubSeq(Payload[a], 1, HeadChunks) ELSE <<>>
Meta(a) == [kind |-> KindOf[a], size |-> Size[a], head |-> HeadHash(a)]

Ledger == INSTANCE Tombstones WITH
    Writers <- Attempts, Metas <- {Meta(a) : a \in Attempts},
    Digests <- {Payload[a] : a \in Attempts}

Quota == INSTANCE TransferQuota WITH
    Peers <- {"peer"}, DeclaredSizes <- {Size[a] : a \in Attempts},
    ChunkLengths <- {1}, DefaultChunkSize <- 1,
    MaxPerPeerTransfers <- 0, MaxPerPeerBytes <- 0,
    MaxTransferQuotaBytes <- 1000, entries <- peerEntries

-----------------------------------------------------------------------------
SendStates == {"idle", "await_ack", "streaming", "await_complete", "ended"}
RecvStates == {"idle", "lookup", "reserve", "stage", "ack", "chunks", "verify",
               "record", "persist", "complete", "received", "done", "failed", "cleanup", "ended"}
Outcomes == {"none", "verified", "suppressed", "rejected", "not_saved", "maybe_saved"}

\* Attempts whose session owns its drop_id: OnMeta returned a writer.
Staged == {a \in Attempts :
    /\ dup[a] = {}
    /\ recv[a] \in {"ack", "chunks", "verify", "record", "persist", "complete",
                    "received", "done"}}

TypeOK ==
    /\ send \in [Attempts -> SendStates]
    /\ \A a \in Attempts : next[a] \in 1 .. Len(Payload[a]) + 1
    /\ outcome \in [Attempts -> Outcomes]
    /\ up \in [Attempts -> BOOLEAN]
    /\ \A a \in Attempts : Len(toRecv[a]) <= ChannelCap /\ Len(toSend[a]) <= 2
    /\ recv \in [Attempts -> RecvStates]
    /\ \A a \in Attempts : dup[a] \subseteq Ledger!Entry
    /\ \A a \in Attempts : hashed[a] \in BoundedSeq(Chunks, Len(Payload[a]))
    /\ owner \in [Drops -> SUBSET Attempts]
    /\ marker \in [Drops -> SUBSET Attempts]
    /\ DOMAIN part = Drops /\ DOMAIN manifest = Drops
    /\ \A p \in published : p.by \in Attempts
    /\ inbox \subseteq Attempts
    /\ crashes \in 0 .. MaxCrashes
    /\ Ledger!TombTypeOK
    /\ Quota!TypeOK

Init ==
    /\ send = [a \in Attempts |-> "idle"]
    /\ next = [a \in Attempts |-> 1]
    /\ outcome = [a \in Attempts |-> "none"]
    /\ up = [a \in Attempts |-> FALSE]
    /\ toRecv = [a \in Attempts |-> <<>>]
    /\ toSend = [a \in Attempts |-> <<>>]
    /\ recv = [a \in Attempts |-> "idle"]
    /\ dup = [a \in Attempts |-> {}]
    /\ hashed = [a \in Attempts |-> <<>>]
    /\ owner = [d \in Drops |-> {}]
    /\ marker = [d \in Drops |-> {}]
    /\ part = [d \in Drops |-> {}]
    /\ manifest = [d \in Drops |-> {}]
    /\ published = {}
    /\ inbox = {}
    /\ crashes = 0
    /\ Ledger!TombInit
    /\ Quota!Init

-----------------------------------------------------------------------------
(***************************************************************************)
(* The sender.                                                             *)
(***************************************************************************)
Frame(i) == [type |-> "data", index |-> i]
MetaFrame == [type |-> "meta"]
Ack(offset) == [type |-> "ack", offset |-> offset]
Success(isDup, sha) == [type |-> "complete", dup |-> isDup, sha |-> sha]
Reject == [type |-> "reject"]

LastIndex(a) == Max({1, Len(Payload[a])})

\* Everything of an attempt that could still act on the receiver is over.
Quiet(a) ==
    /\ send[a] \in {"idle", "ended"}
    /\ recv[a] = "ended" \/ (recv[a] = "idle" /\ toRecv[a] = <<>>)

SendMeta(a) ==
    /\ send[a] = "idle"
    /\ Overlap \/ \A b \in Attempts \ {a} : Quiet(b)
    /\ send' = [send EXCEPT ![a] = "await_ack"]
    /\ up' = [up EXCEPT ![a] = TRUE]
    /\ toRecv' = [toRecv EXCEPT ![a] = <<MetaFrame>>]
    /\ UNCHANGED <<next, outcome, toSend, recv, dup, hashed, owner, diskVars,
                   inbox, crashes, tombVars, quotaVars>>

\* The sender's part of a step that ends it: its connection closes.
EndSend(a, o) ==
    /\ send' = [send EXCEPT ![a] = "ended"]
    /\ outcome' = [outcome EXCEPT ![a] = o]
    /\ up' = [up EXCEPT ![a] = FALSE]
    /\ UNCHANGED <<next, toRecv, recv, dup, hashed, owner, diskVars, inbox,
                   crashes, tombVars, quotaVars>>

RecvAck(a) ==
    /\ send[a] = "await_ack"
    /\ toSend[a] # <<>>
    /\ toSend' = [toSend EXCEPT ![a] = Tail(@)]
    /\ \/ /\ Head(toSend[a]).type = "ack"
          /\ send' = [send EXCEPT ![a] = "streaming"]
          /\ next' = [next EXCEPT ![a] = Head(toSend[a]).offset + 1]
          /\ UNCHANGED <<outcome, up, toRecv, recv, dup, hashed, owner,
                         diskVars, inbox, crashes, tombVars, quotaVars>>
       \/ Head(toSend[a]).type = "reject" /\ EndSend(a, "rejected")

\* One chunk; the last one carries the digest of the whole payload.
SendChunk(a) ==
    /\ send[a] = "streaming" /\ up[a]
    /\ Len(toRecv[a]) < ChannelCap
    /\ toRecv' = [toRecv EXCEPT ![a] = Append(@, Frame(next[a]))]
    /\ next' = [next EXCEPT ![a] = Min({@ + 1, Len(Payload[a]) + 1})]
    /\ send' = [send EXCEPT ![a] = IF next[a] >= LastIndex(a) THEN "await_complete" ELSE @]
    /\ UNCHANGED <<outcome, up, toSend, recv, dup, hashed, owner, diskVars,
                   inbox, crashes, tombVars, quotaVars>>

RecvComplete(a) ==
    /\ send[a] = "await_complete"
    /\ toSend[a] # <<>>
    /\ toSend' = [toSend EXCEPT ![a] = Tail(@)]
    /\ LET m == Head(toSend[a]) IN
       \/ m.type = "reject" /\ EndSend(a, "rejected")
       \/ m.type = "complete" /\ m.sha = Payload[a]
          /\ EndSend(a, IF m.dup THEN "suppressed" ELSE "verified")

\* Mutant: only the number of bytes sent decides, not the stage.
Claim_ByStage(a, interrupted) ==
    IF send[a] = "await_complete" /\ ~interrupted THEN "maybe_saved" ELSE "not_saved"
\* ClassifyTransferError with the byte count the dashboard passes: the whole
\* size once the receiver has acknowledged, zero before.
Claim(a, interrupted) ==
    IF send[a] = "await_ack" THEN "not_saved"
    ELSE IF interrupted
         THEN IF Size[a] > 0 THEN "maybe_saved" ELSE "not_saved"
         ELSE IF send[a] = "await_complete" THEN "maybe_saved" ELSE "not_saved"

\* Timeout or cancellation, at any point.
SendInterrupted(a) ==
    /\ send[a] \in {"await_ack", "streaming", "await_complete"}
    /\ EndSend(a, Claim(a, TRUE))
    /\ UNCHANGED toSend

\* The connection is gone and nothing more can be read from it.
SendConnError(a) ==
    /\ send[a] \in {"await_ack", "streaming", "await_complete"}
    /\ ~up[a]
    /\ send[a] = "streaming" \/ toSend[a] = <<>>
    /\ EndSend(a, Claim(a, FALSE))
    /\ UNCHANGED toSend

\* The connection breaks (or a side's deadline closes it); what was not yet
\* delivered may be lost, from the tail.
ConnFail(a) ==
    /\ up[a]
    /\ up' = [up EXCEPT ![a] = FALSE]
    /\ \E i \in 0 .. Len(toRecv[a]), j \in 0 .. Len(toSend[a]) :
        /\ toRecv' = [toRecv EXCEPT ![a] = SubSeq(@, 1, i)]
        /\ toSend' = [toSend EXCEPT ![a] = SubSeq(@, 1, j)]
    /\ UNCHANGED <<sendVars, recv, dup, hashed, owner, diskVars, inbox,
                   crashes, tombVars, quotaVars>>

-----------------------------------------------------------------------------
(***************************************************************************)
(* The receive session.  A reply on a broken connection is lost.           *)
(***************************************************************************)
Goto(a, state) == recv' = [recv EXCEPT ![a] = state]

Reply(a, m) ==
    toSend' = IF up[a] THEN [toSend EXCEPT ![a] = Append(@, m)] ELSE toSend

\* A refusal: the reason is sent, ReceiveDrop returns an error.
Refuse(a) == Goto(a, "failed") /\ Reply(a, Reject)

\* Receive drop_send and consult the ledger (under its mutex).
Lookup(a) ==
    /\ recv[a] = "idle"
    /\ toRecv[a] # <<>>
    /\ toRecv' = [toRecv EXCEPT ![a] = Tail(@)]
    /\ IF Ledger!KnownKey(KeyOf[a])
       THEN LET e == Ledger!EntryOf(KeyOf[a]) IN
            \/ /\ e.meta = Meta(a)
               /\ dup' = [dup EXCEPT ![a] = {e}]
               /\ Goto(a, "reserve") /\ UNCHANGED toSend
            \/ e.meta # Meta(a) /\ Refuse(a) /\ UNCHANGED dup
       ELSE Goto(a, "reserve") /\ UNCHANGED <<dup, toSend>>
    /\ UNCHANGED <<sendVars, up, hashed, owner, diskVars, inbox, crashes,
                   tombVars, quotaVars>>

\* Reserve quota for the declared size.
Reserve(a) ==
    /\ recv[a] = "reserve"
    /\ \/ /\ Quota!Acquire(a, "peer", Size[a])
          /\ Goto(a, IF dup[a] = {} THEN "stage" ELSE "ack")
          /\ UNCHANGED toSend
       \/ /\ ~Quota!Admits("peer", Quota!Reservation(Size[a]))
          /\ Refuse(a) /\ UNCHANGED quotaVars
    /\ UNCHANGED <<sendVars, up, toRecv, dup, hashed, owner, diskVars, inbox,
                   crashes, tombVars>>

\* Chunks of an existing partial that may be kept.  Below the head's size the
\* prefix is kept unverified; the whole-payload digest decides.
ResumePrefix(bytes, a) ==
    LET valid == Len(bytes) IN
    IF \/ Size[a] = 0 \/ valid >= Size[a] \/ HeadHash(a) = <<>>
       \/ valid >= HeadChunks /\ SubSeq(bytes, 1, HeadChunks) # HeadHash(a)
    THEN 0 ELSE valid

\* What OnMeta keeps of the staged bytes: nothing without a manifest.
Resumed(a) ==
    LET d == DropOf[a] IN
    IF manifest[d] = {} \/ part[d] = {} THEN <<>>
    ELSE LET bytes == CHOOSE p \in part[d] : TRUE
         IN  SubSeq(bytes, 1, ResumePrefix(bytes, a))

ManifestMatches(a) == manifest[DropOf[a]] \subseteq {Meta(a)}

\* OnMeta: reserve the drop_id, then take the activity marker and open or
\* resume the partial (file), or take a buffer (text).  A marker whose owner
\* died is reclaimed once it is DefaultStagingMaxAge old; until then OnMeta
\* fails (StageRefused).
Stage(a) ==
    LET d == DropOf[a] IN
    /\ recv[a] = "stage"
    /\ owner[d] = {}
    /\ KindOf[a] = "file" => marker[d] = {} /\ ManifestMatches(a)
    /\ owner' = [owner EXCEPT ![d] = {a}]
    /\ IF KindOf[a] = "file"
       THEN /\ hashed' = [hashed EXCEPT ![a] = Resumed(a)]
            /\ marker' = [marker EXCEPT ![d] = {a}]
            /\ part' = [part EXCEPT ![d] = {Resumed(a)}]
            /\ manifest' = [manifest EXCEPT ![d] = {Meta(a)}]
       ELSE UNCHANGED <<hashed, marker, part, manifest>>
    /\ Goto(a, "ack")
    /\ UNCHANGED <<sendVars, wireVars, dup, published, inbox, crashes, tombVars, quotaVars>>

\* OnMeta fails: the drop_id is taken, the manifest is another transfer's, or
\* the staging area cannot be used.  A reservation it made is given back.
StageRefused(a) ==
    /\ recv[a] = "stage"
    /\ Refuse(a)
    /\ UNCHANGED <<sendVars, up, toRecv, dup, hashed, owner, diskVars, inbox,
                   crashes, tombVars, quotaVars>>

SendAck(a) ==
    /\ recv[a] = "ack"
    /\ Goto(a, IF up[a] THEN "chunks" ELSE "failed")
    /\ Reply(a, Ack(Len(hashed[a])))
    /\ UNCHANGED <<sendVars, up, toRecv, dup, hashed, owner, diskVars, inbox,
                   crashes, tombVars, quotaVars>>

\* One drop_data frame in order: quota, write, hash, sync.  Duplicates are
\* hashed and discarded.
RecvChunk(a) ==
    LET i    == Head(toRecv[a]).index
        data == IF i > Len(Payload[a]) THEN <<>> ELSE <<Payload[a][i]>>
        d    == DropOf[a]
    IN
    /\ recv[a] = "chunks"
    /\ toRecv[a] # <<>>
    /\ i = Len(hashed[a]) + 1
    /\ toRecv' = [toRecv EXCEPT ![a] = Tail(@)]
    /\ hashed' = [hashed EXCEPT ![a] = @ \o data]
    /\ part' = IF dup[a] = {} /\ KindOf[a] = "file"
               THEN [part EXCEPT ![d] = {p \o data : p \in @}] ELSE part
    /\ IF Size[a] = 0 /\ data # <<>> THEN Quota!AddBytes(a, 1) ELSE UNCHANGED quotaVars
    /\ Goto(a, IF i >= LastIndex(a) THEN "verify" ELSE "chunks")
    /\ UNCHANGED <<sendVars, up, toSend, dup, owner, marker, manifest, published,
                   inbox, crashes, tombVars>>

\* A frame out of order, a refused reservation, a lost staging marker, a write
\* or sync error, or the session's own deadline.
ChunkRefused(a) ==
    /\ recv[a] = "chunks"
    /\ Refuse(a)
    /\ UNCHANGED <<sendVars, up, toRecv, dup, hashed, owner, diskVars, inbox,
                   crashes, tombVars, quotaVars>>

RecvConnError(a) ==
    /\ recv[a] = "chunks"
    /\ ~up[a] /\ toRecv[a] = <<>>
    /\ Goto(a, "failed")
    /\ UNCHANGED <<sendVars, wireVars, dup, hashed, owner, diskVars, inbox,
                   crashes, tombVars, quotaVars>>

DigestOK_SizeOnly(a) == Len(hashed[a]) = Len(Payload[a])          \* mutant
DigestOK_NewOnly(a) ==          \* mutant: a duplicate's digest is not compared
    /\ Size[a] > 0 => Len(hashed[a]) = Size[a]
    /\ hashed[a] = Payload[a]
\* The final chunk's digest is the sender's digest of its whole payload; a
\* duplicate must also carry the recorded one.
DigestOK(a) ==
    /\ Size[a] > 0 => Len(hashed[a]) = Size[a]
    /\ hashed[a] = Payload[a]
    /\ \A e \in dup[a] : hashed[a] = e.sha

\* Verification and, for a new file, BeforeComplete: the staged bytes are read
\* back against the digest, then renamed into place (or copied, when the
\* partial may stay behind).
Verify(a) ==
    LET d    == DropOf[a]
        move == dup[a] = {} /\ KindOf[a] = "file"
    IN
    /\ recv[a] = "verify"
    /\ DigestOK(a)
    /\ IF move
       THEN /\ part[d] = {hashed[a]}
            /\ published' = published \cup {[by |-> a, bytes |-> hashed[a]]}
            /\ \/ /\ marker' = [marker EXCEPT ![d] = {}]
                  /\ part' = [part EXCEPT ![d] = {}]
                  /\ manifest' = [manifest EXCEPT ![d] = {}]
               \/ UNCHANGED <<marker, part, manifest>>
       ELSE UNCHANGED diskVars
    /\ Goto(a, IF dup[a] = {} THEN "record" ELSE "complete")
    /\ UNCHANGED <<sendVars, wireVars, dup, hashed, owner, inbox, crashes,
                   tombVars, quotaVars>>

\* A digest that does not match, or a publication that fails before the file
\* has its name.
VerifyRefused(a) ==
    /\ recv[a] = "verify"
    /\ DigestOK(a) => dup[a] = {} /\ KindOf[a] = "file"
    /\ Refuse(a)
    /\ UNCHANGED <<sendVars, up, toRecv, dup, hashed, owner, diskVars, inbox,
                   crashes, tombVars, quotaVars>>

\* finalizePartFile: the file has its name (by rename or by copy), closing the
\* descriptor reports an error and BeforeComplete fails.
CloseFails(a) ==
    LET d == DropOf[a] IN
    /\ CloseMayFail
    /\ recv[a] = "verify" /\ DigestOK(a) /\ dup[a] = {} /\ KindOf[a] = "file"
    /\ part[d] = {hashed[a]}
    /\ published' = published \cup {[by |-> a, bytes |-> hashed[a]]}
    /\ part' \in {part, [part EXCEPT ![d] = {}]}
    /\ Refuse(a)
    /\ UNCHANGED <<sendVars, up, toRecv, dup, hashed, owner, marker, manifest,
                   inbox, crashes, tombVars, quotaVars>>

RecordCompletion_IfHeard(a) ==  \* mutant: recorded only if the sender still listens
    /\ recv[a] = "record"
    /\ IF up[a]
       THEN /\ Ledger!Record(a, [key |-> KeyOf[a], meta |-> Meta(a), sha |-> hashed[a]])
            /\ Goto(a, "persist")
       ELSE Goto(a, "complete") /\ UNCHANGED tombVars
    /\ UNCHANGED <<sendVars, wireVars, dup, hashed, owner, diskVars, inbox,
                   crashes, quotaVars>>

\* A verified transfer enters the completion ledger before its sender is told.
RecordCompletion(a) ==
    /\ recv[a] = "record"
    /\ Ledger!Record(a, [key |-> KeyOf[a], meta |-> Meta(a), sha |-> hashed[a]])
    /\ Goto(a, "persist")
    /\ UNCHANGED <<sendVars, wireVars, dup, hashed, owner, diskVars, inbox,
                   crashes, quotaVars>>

PersistLedger(a) ==
    /\ recv[a] = "persist"
    /\ \/ (Ledger!Persist(a) \/ Ledger!PersistFails(a)) /\ Goto(a, "complete")
       \/ Ledger!MoveAside(a) /\ Goto(a, "persist")
    /\ UNCHANGED <<sendVars, wireVars, dup, hashed, owner, diskVars, inbox,
                   crashes, quotaVars>>

\* drop_complete; a send error makes ReceiveDrop return an error.
SendComplete(a) ==
    /\ recv[a] = "complete"
    /\ Reply(a, Success(dup[a] # {}, hashed[a]))
    /\ Goto(a, IF up[a] THEN "received" ELSE "failed")
    /\ UNCHANGED <<sendVars, up, toRecv, dup, hashed, owner, diskVars, inbox,
                   crashes, tombVars, quotaVars>>

\* ReceiveDrop returns (its deferred Release runs) and OnDropReceived adds the
\* item to the inbox; a duplicate owns no reservation and adds nothing.
Received(a) ==
    /\ recv[a] = "received"
    /\ Quota!Release(a)
    /\ inbox' = IF owner[DropOf[a]] = {a} THEN inbox \cup {a} ELSE inbox
    /\ Goto(a, "done")
    /\ UNCHANGED <<sendVars, wireVars, dup, hashed, owner, diskVars, crashes, tombVars>>

\* Mutant: cleanup by drop_id, without comparing the attempt.
Unreserve_ByDrop(a) == owner' = [owner EXCEPT ![DropOf[a]] = {}]
\* Mutant: the reservation is given back on success only.
Unreserve_OnSuccess(a) ==
    owner' = IF recv[a] = "done" THEN [owner EXCEPT ![DropOf[a]] = @ \ {a}] ELSE owner
\* OnDropDoneAttempt returns early unless this attempt owns the drop_id.
Unreserve(a) == owner' = [owner EXCEPT ![DropOf[a]] = @ \ {a}]

\* The marker goes only if it is still this attempt's (os.SameFile).
ReleaseActivity(a) == marker' = [marker EXCEPT ![DropOf[a]] = @ \ {a}]

\* OnDropDoneAttempt after a success; handleConn then closes the connection.
Done(a) ==
    /\ recv[a] = "done"
    /\ Unreserve(a)
    /\ ReleaseActivity(a)
    /\ up' = [up EXCEPT ![a] = FALSE]
    /\ Goto(a, "ended")
    /\ UNCHANGED <<sendVars, toRecv, toSend, dup, hashed, part, manifest,
                   published, inbox, crashes, tombVars, quotaVars>>

\* ReceiveDrop returned an error: the lease is released, and OnDropDoneAttempt
\* gives the drop_id back under its mutex.
Failed(a) ==
    LET cleanup == owner[DropOf[a]] = {a} /\ KindOf[a] = "file" IN
    /\ recv[a] = "failed"
    /\ IF lease[a] # Quota!NoLease THEN Quota!Release(a) ELSE UNCHANGED quotaVars
    /\ Unreserve(a)
    /\ Goto(a, IF cleanup THEN "cleanup" ELSE "ended")
    /\ up' = [up EXCEPT ![a] = cleanup /\ @]
    /\ UNCHANGED <<sendVars, toRecv, toSend, dup, hashed, diskVars, inbox,
                   crashes, tombVars>>

\* OnDropDoneAttempt after the mutex: an empty partial goes, a longer one stays
\* for a resume, retained partials of no running session may be trimmed
\* (EnforcePartialBudget), and the activity marker is released.
Cleanup(a) ==
    LET d == DropOf[a] IN
    /\ recv[a] = "cleanup"
    /\ \E trimmed \in SUBSET {x \in Drops \ {d} : marker[x] = {}} :
        LET gone == trimmed \cup {x \in {d} : part[x] = {<<>>}} IN
        /\ part' = [x \in Drops |-> IF x \in gone THEN {} ELSE part[x]]
        /\ manifest' = [x \in Drops |-> IF x \in gone THEN {} ELSE manifest[x]]
    /\ ReleaseActivity(a)
    /\ up' = [up EXCEPT ![a] = FALSE]
    /\ Goto(a, "ended")
    /\ UNCHANGED <<sendVars, toRecv, toSend, dup, hashed, owner, published,
                   inbox, crashes, tombVars, quotaVars>>

\* The receiving Hub dies and restarts: sessions, reservations, leases and the
\* inbox are gone, the ledger is reloaded, the partials stay.  Markers stay too
\* but no running attempt owns them any more.
Crash ==
    /\ crashes < MaxCrashes
    /\ crashes' = crashes + 1
    /\ recv' = [a \in Attempts |-> IF send[a] = "idle" THEN "idle" ELSE "ended"]
    /\ dup' = [a \in Attempts |-> {}]
    /\ hashed' = [a \in Attempts |-> <<>>]
    /\ owner' = [d \in Drops |-> {}]
    /\ marker' = [d \in Drops |-> {}]
    /\ inbox' = {}
    /\ up' = [a \in Attempts |-> FALSE]
    /\ toRecv' = [a \in Attempts |-> <<>>]
    /\ Ledger!Restart
    /\ activeTransfers' = 0 /\ activeBytes' = 0 /\ peerEntries' = {}
    /\ usage' = [p \in {"peer"} |-> Quota!NoUsage]
    /\ lease' = [a \in Attempts |-> Quota!NoLease]
    /\ UNCHANGED <<sendVars, toSend, part, manifest, published>>

-----------------------------------------------------------------------------
SenderStep(a) ==
    \/ RecvAck(a) \/ SendChunk(a) \/ RecvComplete(a) \/ SendConnError(a)

ReceiverStep(a) ==
    \/ Lookup(a) \/ Reserve(a) \/ Stage(a) \/ StageRefused(a) \/ SendAck(a)
    \/ RecvChunk(a) \/ ChunkRefused(a) \/ RecvConnError(a)
    \/ Verify(a) \/ VerifyRefused(a) \/ CloseFails(a)
    \/ RecordCompletion(a) \/ PersistLedger(a) \/ SendComplete(a)
    \/ Received(a) \/ Done(a) \/ Failed(a) \/ Cleanup(a)

AllOver == \A a \in Attempts : send[a] = "ended" /\ Quiet(a)

Next ==
    \/ \E a \in Attempts :
        \/ SendMeta(a) \/ SenderStep(a) \/ SendInterrupted(a)
        \/ ConnFail(a) \/ ReceiverStep(a)
    \/ Crash
    \/ AllOver /\ UNCHANGED vars

Spec == Init /\ [][Next]_vars

\* Go schedules every runnable goroutine, and both sides' contexts expire
\* (SendDropConfig.Timeout, ReceiveDropConfig.Timeout), closing the connection.
FairSpec ==
    /\ Spec
    /\ \A a \in Attempts : /\ WF_vars(SenderStep(a))
                           /\ WF_vars(ReceiverStep(a))
                           /\ WF_vars(ConnFail(a))

-----------------------------------------------------------------------------
(***************************************************************************)
(* Properties.                                                             *)
(***************************************************************************)

\* A published file is byte for byte the payload of the attempt that
\* published it, whatever partial of an older attempt it resumed.
PublishedIntact == \A p \in published : p.bytes = Payload[p.by]

\* A session that staged data owns its drop_id until OnDropDoneAttempt: no
\* other session writes the same partial, and the cleanup of one attempt
\* never tears down another.  (With the types of the variables.)
StagedOwnsDrop == TypeOK /\ \A a \in Staged : owner[DropOf[a]] = {a}

\* What the sender's user is told about a failure is true: after "rejected" or
\* "not saved" the receiver has not published that attempt and never will.
FailureClaimsTrue ==
    \A a \in Attempts : outcome[a] \in {"rejected", "not_saved"}
        => a \notin inbox /\ \A p \in published : p.by # a

\* An attempt's content reached the user, or is on its way to the inbox.
Delivered(a) ==
    IF KindOf[a] = "file" THEN \E p \in published : p.by = a
    ELSE a \in inbox \/ recv[a] = "received"

\* A success the sender reports is real: "verified" means this attempt's
\* content was delivered, "suppressed" that the same content was delivered
\* before under the same key.
SuccessClaimsTrue ==
    \A a \in Attempts :
        /\ outcome[a] = "verified" => Delivered(a)
        /\ outcome[a] = "suppressed" =>
            \E b \in Attempts : /\ KeyOf[b] = KeyOf[a] /\ Payload[b] = Payload[a]
                                /\ Delivered(b)

\* Whatever a send ends with, what its user is told is so (SendDrop,
\* ClassifyTransferError).
ClaimsTrue == FailureClaimsTrue /\ SuccessClaimsTrue

\* Retrying under one idempotency key publishes one file at most.
AtMostOncePublication ==
    \A p, q \in published : KeyOf[p.by] = KeyOf[q.by] => p = q

\* Whenever no ledger write is pending and none failed, the file holds every
\* completion: a restart that can read it forgets no suppression (the comments
\* on Record and LastPersistError).
LedgerDurable == Ledger!SettledLedgerIsDurable

\* Retries of a key deliver it once while the receiver stays up, and once no
\* write of its ledger is pending a restart need forget no completion
\* (Tombstones.Lookup, Tombstones.Record).
AtMostOnce == AtMostOncePublication /\ LedgerDurable

\* Quota is given back: a session that is over holds no lease, and the
\* counters are zero when no session runs.
QuotaReturned ==
    /\ \A a \in Attempts : recv[a] \in {"idle", "done", "cleanup", "ended"} => lease[a] = Quota!NoLease
    /\ (\A a \in Attempts : recv[a] \in {"idle", "cleanup", "ended"}) => activeTransfers = 0 /\ activeBytes = 0

\* Every send that starts is eventually reported, and every receive session
\* ends and frees its drop_id, whatever fails on the way.
SendsAndSessionsEnd ==
    \A a \in Attempts :
        /\ send[a] # "idle" ~> outcome[a] # "none"
        /\ recv[a] # "idle" ~> (recv[a] = "ended" /\ a \notin owner[DropOf[a]])
=============================================================================
