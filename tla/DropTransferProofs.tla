--------------------------- MODULE DropTransferProofs ---------------------------
(***************************************************************************)
(* DropTransfer for every number of attempts, drop_ids and keys, every     *)
(* payload, channel, ledger and quota limit and any number of crashes:     *)
(* published files are intact, a drop_id has one owner, leases are given   *)
(* back, and what a sender's user is told is true.                         *)
(*                                                                         *)
(* The inductive invariant DropInv is a conjunction of parts, each with a  *)
(* lemma that every step keeps it: types, ownership of drop_ids, the disk, *)
(* the connection, the completion ledger, the quota (with the lemmas of    *)
(* TransferQuotaProofs) and the successes reported.  The failures reported *)
(* and delivery at most once need hypotheses, named Careful and Sequential. *)
(***************************************************************************)
EXTENDS DropTransfer, SequenceTheorems, FiniteSetTheorems, TLAPS

-----------------------------------------------------------------------------
(*****************************************************************************)
(* Types and ownership.                                                      *)
(*****************************************************************************)
\* The variables of a transfer hold what their declarations say; the parts
\* that depend on the payloads are in the conjuncts below.
DropTypes ==
    /\ send \in [Attempts -> SendStates] /\ recv \in [Attempts -> RecvStates]
    /\ outcome \in [Attempts -> Outcomes] /\ up \in [Attempts -> BOOLEAN]
    /\ owner \in [Drops -> SUBSET Attempts] /\ marker \in [Drops -> SUBSET Attempts]
    /\ DOMAIN part = Drops /\ DOMAIN manifest = Drops
    /\ DOMAIN next = Attempts /\ DOMAIN toRecv = Attempts /\ DOMAIN toSend = Attempts
    /\ DOMAIN dup = Attempts /\ DOMAIN hashed = Attempts
    /\ inbox \subseteq Attempts /\ crashes \in 0 .. MaxCrashes

\* A session that staged data owns its drop_id.
Owned == \A a \in Staged : owner[DropOf[a]] = {a}

\* Every attempt has a drop_id of its own constants.
LEMMA DropOfIsDrop == \A a \in Attempts : DropOf[a] \in Drops
  BY DEF Drops

\* The states a step of a receive session leads to (ReceiveDrop, receiver.go).
Leads(from, to) ==
    \/ from = "idle" /\ to = "reserve"
    \/ from = "reserve" /\ to \in {"stage", "ack"}
    \/ from = "stage" /\ to = "ack"
    \/ from = "ack" /\ to = "chunks"
    \/ from = "chunks" /\ to \in {"chunks", "verify"}
    \/ from = "verify" /\ to \in {"record", "complete"}
    \/ from = "record" /\ to = "persist"
    \/ from = "persist" /\ to \in {"persist", "complete"}
    \/ from = "complete" /\ to = "received"
    \/ from = "received" /\ to = "done"
    \/ from \in {"idle", "reserve", "stage", "ack", "chunks", "verify", "complete"} /\ to = "failed"
    \/ from = "failed" /\ to = "cleanup"
    \/ from \in {"done", "failed", "cleanup"} /\ to = "ended"

\* Every step of a session is one of them.
LEMMA SessionMoves == ASSUME DropTypes, NEW a \in Attempts, ReceiverStep(a) PROVE Leads(recv[a], recv'[a])
<1> USE DEF Leads
<1>1. \A s : Goto(a, s) => recv'[a] = s
  BY DEF Goto, DropTypes
<1>2. Refuse(a) => recv'[a] = "failed"
  BY <1>1 DEF Refuse
<1>3. CASE Lookup(a)
  BY <1>1, <1>2, <1>3 DEF Lookup
<1>4. CASE Reserve(a)
  BY <1>1, <1>2, <1>4 DEF Reserve
<1>5. CASE Stage(a) \/ StageRefused(a)
  BY <1>1, <1>2, <1>5 DEF Stage, StageRefused
<1>6. CASE SendAck(a)
  BY <1>1, <1>2, <1>6 DEF SendAck
<1>7. CASE RecvChunk(a)
  BY <1>1, <1>2, <1>7 DEF RecvChunk
<1>8. CASE ChunkRefused(a) \/ RecvConnError(a)
  BY <1>1, <1>2, <1>8 DEF ChunkRefused, RecvConnError
<1>9. CASE Verify(a)
  BY <1>1, <1>2, <1>9 DEF Verify
<1>10. CASE VerifyRefused(a) \/ CloseFails(a)
  BY <1>1, <1>2, <1>10 DEF VerifyRefused, CloseFails
<1>11. CASE RecordCompletion(a) \/ PersistLedger(a)
  BY <1>1, <1>2, <1>11 DEF RecordCompletion, PersistLedger
<1>12. CASE SendComplete(a)
  BY <1>1, <1>2, <1>12 DEF SendComplete
<1>13. CASE Received(a) \/ Done(a)
  BY <1>1, <1>2, <1>13 DEF Received, Done
<1>14. CASE Failed(a) \/ Cleanup(a)
  BY <1>1, <1>2, <1>14 DEF Failed, Cleanup
<1> QED
  BY <1>3, <1>4, <1>5, <1>6, <1>7, <1>8, <1>9, <1>10, <1>11, <1>12, <1>13, <1>14 DEF ReceiverStep

\* Verification succeeds by publication only (receiver.go:662-728).
LEMMA OnlyVerifySettles ==
    ASSUME DropTypes, NEW a \in Attempts, ReceiverStep(a), recv[a] = "verify", recv'[a] \in {"record", "complete"}
    PROVE  Verify(a)
<1>1. CASE VerifyRefused(a) \/ CloseFails(a)
  BY <1>1 DEF VerifyRefused, CloseFails, Refuse, Goto, DropTypes
<1>2. CASE ~(VerifyRefused(a) \/ CloseFails(a))
  BY <1>2, Zenon DEF ReceiverStep, Lookup, Reserve, Stage, StageRefused, SendAck, RecvChunk, ChunkRefused, RecvConnError,
     RecordCompletion, PersistLedger, SendComplete, Received, Done, Failed, Cleanup
<1> QED
  BY <1>1, <1>2

\* No step of sender, connection or receiver leaves the declared states.
LEMMA TypesKept == DropTypes /\ [Next]_vars => DropTypes'
<1> SUFFICES ASSUME DropTypes, [Next]_vars PROVE DropTypes'
  OBVIOUS
<1> USE DropOfIsDrop
<1>1. ASSUME NEW a \in Attempts, SendMeta(a) \/ SenderStep(a) \/ SendInterrupted(a) \/ ConnFail(a)
      PROVE  DropTypes'
  <2>1. UNCHANGED <<recv, owner, marker, part, manifest, dup, hashed, inbox, crashes>>
    BY <1>1, Zenon DEF SendMeta, SenderStep, SendInterrupted, ConnFail, RecvAck, SendChunk, RecvComplete, SendConnError, EndSend, diskVars
  <2>2. send' \in [Attempts -> SendStates] 
    BY <1>1, Zenon DEF DropTypes, SendStates, SendMeta, SenderStep, SendInterrupted, ConnFail, RecvAck, SendChunk, RecvComplete, SendConnError, EndSend, sendVars
  <2>3. outcome' \in [Attempts -> Outcomes]
    BY <1>1 DEF DropTypes, Outcomes, SendMeta, SenderStep, SendInterrupted, ConnFail, RecvAck, SendChunk, RecvComplete, SendConnError, EndSend, sendVars, Claim
  <2>4. up' \in [Attempts -> BOOLEAN]
    BY <1>1, Zenon DEF DropTypes, SendMeta, SenderStep, SendInterrupted, ConnFail, RecvAck, SendChunk, RecvComplete, SendConnError, EndSend
  <2>5. DOMAIN next' = Attempts /\ DOMAIN toRecv' = Attempts /\ DOMAIN toSend' = Attempts
    BY <1>1, Zenon DEF DropTypes, SendMeta, SenderStep, SendInterrupted, ConnFail, RecvAck, SendChunk, RecvComplete, SendConnError, EndSend, sendVars
  <2> QED
    BY <2>1, <2>2, <2>3, <2>4, <2>5 DEF DropTypes
<1>2. ASSUME NEW a \in Attempts, ReceiverStep(a)
      PROVE  DropTypes'
  <2>1. UNCHANGED <<send, outcome, next, crashes>>
    BY <1>2, Zenon DEF ReceiverStep, Lookup, Reserve, Stage, StageRefused, SendAck, RecvChunk, ChunkRefused, RecvConnError, Verify,
       VerifyRefused, CloseFails, RecordCompletion, PersistLedger, SendComplete, Received, Done, Failed, Cleanup, sendVars
  <2>2. recv' \in [Attempts -> RecvStates]
    <3>1. recv'[a] \in RecvStates
      BY <1>2, SessionMoves DEF Leads, RecvStates
    <3>2. \E s : recv' = [recv EXCEPT ![a] = s]
      BY <1>2, Zenon DEF ReceiverStep, Lookup, Reserve, Stage, StageRefused, SendAck, RecvChunk, ChunkRefused, RecvConnError,
         Verify, VerifyRefused, CloseFails, RecordCompletion, PersistLedger, SendComplete, Received, Done, Failed, Cleanup,
         Goto, Refuse
    <3> QED
      BY <3>1, <3>2 DEF DropTypes
  <2>3. up' \in [Attempts -> BOOLEAN]
    BY <1>2, Zenon DEF DropTypes, ReceiverStep, Lookup, Reserve, Stage, StageRefused, SendAck, RecvChunk, ChunkRefused, RecvConnError, Verify,
       VerifyRefused, CloseFails, RecordCompletion, PersistLedger, SendComplete, Received, Done, Failed, Cleanup, wireVars
  <2>4. owner' \in [Drops -> SUBSET Attempts]
    <3>1. CASE Stage(a)
      BY <3>1 DEF Stage, DropTypes
    <3>2. CASE Done(a) \/ Failed(a)
      BY <3>2 DEF Done, Failed, Unreserve, DropTypes
    <3>3. CASE ~(Stage(a) \/ Done(a) \/ Failed(a))
      <4>1. owner' = owner
        BY <1>2, <3>3, Zenon DEF ReceiverStep, Lookup, Reserve, StageRefused, SendAck, RecvChunk, ChunkRefused, RecvConnError, Verify,
           VerifyRefused, CloseFails, RecordCompletion, PersistLedger, SendComplete, Received, Cleanup
      <4> QED
        BY <4>1 DEF DropTypes
    <3> QED
      BY <3>1, <3>2, <3>3
  <2>5. inbox' \subseteq Attempts
    <3>1. CASE Received(a)
      BY <3>1 DEF Received, DropTypes
    <3>2. CASE ~Received(a)
      <4>1. inbox' = inbox
        BY <1>2, <3>2, Zenon DEF ReceiverStep, Lookup, Reserve, Stage, StageRefused, SendAck, RecvChunk, ChunkRefused, RecvConnError, Verify,
           VerifyRefused, CloseFails, RecordCompletion, PersistLedger, SendComplete, Done, Failed, Cleanup
      <4> QED
        BY <4>1 DEF DropTypes
    <3> QED
      BY <3>1, <3>2
  <2>9. marker' \in [Drops -> SUBSET Attempts]
    <3>1. CASE Stage(a) \/ Verify(a)
      BY <3>1 DEF Stage, Verify, DropTypes, diskVars
    <3>2. CASE Done(a) \/ Cleanup(a)
      BY <3>2 DEF Done, Cleanup, ReleaseActivity, DropTypes
    <3>3. CASE ~(Stage(a) \/ Verify(a) \/ Done(a) \/ Cleanup(a))
      <4>1. marker' = marker
        BY <1>2, <3>3, Zenon DEF ReceiverStep, Lookup, Reserve, StageRefused, SendAck, RecvChunk, ChunkRefused, RecvConnError,
           VerifyRefused, CloseFails, RecordCompletion, PersistLedger, SendComplete, Received, Failed, diskVars
      <4> QED
        BY <4>1 DEF DropTypes
    <3> QED
      BY <3>1, <3>2, <3>3
  <2>6. DOMAIN part' = Drops /\ DOMAIN manifest' = Drops 
    BY <1>2, Zenon DEF DropTypes, ReceiverStep, Lookup, Reserve, Stage, StageRefused, SendAck, RecvChunk, ChunkRefused, RecvConnError, Verify,
       VerifyRefused, CloseFails, RecordCompletion, PersistLedger, SendComplete, Received, Done, Failed, Cleanup, diskVars
  <2>7. DOMAIN toRecv' = Attempts /\ DOMAIN toSend' = Attempts
    BY <1>2, Zenon DEF DropTypes, Reply, Refuse, ReceiverStep, Lookup, Reserve, Stage, StageRefused, SendAck, RecvChunk, ChunkRefused, RecvConnError, Verify,
       VerifyRefused, CloseFails, RecordCompletion, PersistLedger, SendComplete, Received, Done, Failed, Cleanup, wireVars
  <2>8. DOMAIN dup' = Attempts /\ DOMAIN hashed' = Attempts
    BY <1>2, Zenon DEF DropTypes, Reply, Refuse, ReceiverStep, Lookup, Reserve, Stage, StageRefused, SendAck, RecvChunk, ChunkRefused, RecvConnError, Verify,
       VerifyRefused, CloseFails, RecordCompletion, PersistLedger, SendComplete, Received, Done, Failed, Cleanup, wireVars
  <2> QED
    BY <2>1, <2>2, <2>3, <2>4, <2>5, <2>6, <2>7, <2>8, <2>9 DEF DropTypes
<1>3. CASE Crash
  <2>1. send' = send /\ outcome' = outcome /\ next' = next /\ toSend' = toSend /\ part' = part /\ manifest' = manifest
    BY <1>3 DEF Crash, sendVars
  <2>2. recv' \in [Attempts -> RecvStates]
    BY <1>3 DEF Crash, RecvStates
  <2>3. up' \in [Attempts -> BOOLEAN] /\ crashes' \in 0 .. MaxCrashes /\ inbox' = {}
    BY <1>3, DropConstants DEF Crash, DropTypes
  <2>4. owner' \in [Drops -> SUBSET Attempts] /\ marker' \in [Drops -> SUBSET Attempts]
    BY <1>3 DEF Crash
  <2>5. DOMAIN toRecv' = Attempts /\ DOMAIN dup' = Attempts /\ DOMAIN hashed' = Attempts
    BY <1>3 DEF Crash
  <2> QED
    BY <2>1, <2>2, <2>3, <2>4, <2>5 DEF DropTypes
<1>4. CASE UNCHANGED vars
  BY <1>4 DEF vars, sendVars, wireVars, diskVars, DropTypes
<1> QED
  BY <1>1, <1>2, <1>3, <1>4 DEF Next

\* Reservation and cleanup of a drop_id exclude other sessions: OnMeta reserves
\* a free drop_id only, OnDropDoneAttempt gives back only its own (hub.go).
LEMMA OwnedKept == DropTypes /\ Owned /\ [Next]_vars => Owned'
<1> SUFFICES ASSUME DropTypes, Owned, [Next]_vars PROVE Owned'
  OBVIOUS
<1> USE DropOfIsDrop
<1>1. ASSUME NEW a \in Attempts, SendMeta(a) \/ SenderStep(a) \/ SendInterrupted(a) \/ ConnFail(a)
      PROVE  Owned'
  <2>1. UNCHANGED <<recv, owner, dup>>
    BY <1>1, Zenon DEF SendMeta, SenderStep, SendInterrupted, ConnFail, RecvAck, SendChunk, RecvComplete, SendConnError, EndSend
  <2> QED
    BY <2>1 DEF Owned, Staged
<1>2. ASSUME NEW a \in Attempts, ReceiverStep(a)
      PROVE  Owned'
  <2>1. \A b \in Attempts \ {a} : recv'[b] = recv[b]
    BY <1>2, Zenon DEF DropTypes, Goto, Refuse, ReceiverStep, Lookup, Reserve, Stage, StageRefused, SendAck, RecvChunk,
       ChunkRefused, RecvConnError, Verify, VerifyRefused, CloseFails, RecordCompletion, PersistLedger, SendComplete,
       Received, Done, Failed, Cleanup
  <2>2. \A b \in Attempts \ {a} : dup'[b] = dup[b]
    BY <1>2, Zenon DEF DropTypes, ReceiverStep, Lookup, Reserve, Stage, StageRefused, SendAck, RecvChunk, ChunkRefused,
       RecvConnError, Verify, VerifyRefused, CloseFails, RecordCompletion, PersistLedger, SendComplete, Received, Done,
       Failed, Cleanup
  <2>3. CASE Stage(a)
    <3>1. owner[DropOf[a]] = {} /\ owner' = [owner EXCEPT ![DropOf[a]] = {a}]
      BY <2>3 DEF Stage
    <3>2. \A b \in Staged : DropOf[b] # DropOf[a]
      BY <3>1 DEF Owned, Staged
    <3>3. \A b \in Staged' : b = a \/ b \in Staged
      BY <2>1, <2>2 DEF Staged
    <3> QED
      BY <3>1, <3>2, <3>3 DEF Owned, DropTypes, Staged
  <2>4. CASE Done(a) \/ Failed(a)
    <3>1. owner' = [owner EXCEPT ![DropOf[a]] = @ \ {a}]
      BY <2>4 DEF Done, Failed, Unreserve
    <3>2. recv'[a] \in {"ended", "cleanup"}
      BY <2>4 DEF Done, Failed, Goto, DropTypes
    <3>3. \A b \in Staged' : b # a /\ b \in Staged
      BY <2>1, <2>2, <3>2 DEF Staged
    <3>4. \A b \in Staged : owner[DropOf[b]] = {b}
      BY DEF Owned
    <3> QED
      BY <3>1, <3>3, <3>4 DEF Owned, DropTypes, Staged
  <2>5. CASE ~(Stage(a) \/ Done(a) \/ Failed(a))
    <3>1. owner' = owner
      BY <1>2, <2>5, Zenon DEF ReceiverStep, Lookup, Reserve, StageRefused, SendAck, RecvChunk, ChunkRefused, RecvConnError, Verify,
         VerifyRefused, CloseFails, RecordCompletion, PersistLedger, SendComplete, Received, Cleanup
    <3>2. a \in Staged' => a \in Staged
      <4>1. Lookup(a) \/ dup' = dup
        BY <1>2, <2>5, Zenon DEF ReceiverStep, Reserve, StageRefused, SendAck, RecvChunk, ChunkRefused, RecvConnError,
           Verify, VerifyRefused, CloseFails, RecordCompletion, PersistLedger, SendComplete, Received, Cleanup
      <4>2. Lookup(a) => recv[a] = "idle"
        BY DEF Lookup
      <4>3. recv[a] = "reserve" => Reserve(a)
        BY <1>2, Zenon DEF ReceiverStep, Lookup, Stage, StageRefused, SendAck, RecvChunk, ChunkRefused, RecvConnError,
           Verify, VerifyRefused, CloseFails, RecordCompletion, PersistLedger, SendComplete, Received, Done, Failed, Cleanup
      <4>4. Reserve(a) => dup' = dup /\ (recv'[a] = "ack" => dup[a] # {})
        BY DEF Reserve, Goto, Refuse, DropTypes
      <4>5. recv[a] = "stage" => StageRefused(a)
        BY <1>2, <2>5, Zenon DEF ReceiverStep, Lookup, Reserve, SendAck, RecvChunk, ChunkRefused, RecvConnError,
           Verify, VerifyRefused, CloseFails, RecordCompletion, PersistLedger, SendComplete, Received, Done, Failed, Cleanup
      <4>6. StageRefused(a) => recv'[a] = "failed"
        BY DEF StageRefused, Refuse, Goto, DropTypes
      <4> QED
        BY <1>2, <4>1, <4>2, <4>3, <4>4, <4>5, <4>6, SessionMoves DEF Staged, Leads
    <3>3. \A b \in Staged' : b \in Staged
      BY <2>1, <2>2, <3>2 DEF Staged
    <3> QED
      BY <3>1, <3>3 DEF Owned
  <2> QED
    BY <2>3, <2>4, <2>5
<1>3. CASE Crash
  <2>1. \A a \in Attempts : recv'[a] \in {"idle", "ended"}
    BY <1>3 DEF Crash
  <2> QED
    BY <2>1 DEF Owned, Staged
<1>4. CASE UNCHANGED vars
  BY <1>4 DEF vars, Owned, Staged
<1> QED
  BY <1>1, <1>2, <1>3, <1>4 DEF Next

-----------------------------------------------------------------------------
(*****************************************************************************)
(* The disk.                                                                 *)
(*****************************************************************************)
\* What the running digest covers and what the disk holds: from verification on
\* the session hashed the whole payload, and every published file is one.
DiskSound ==
    /\ \A a \in Attempts :
        /\ hashed[a] \in Seq(Chunks) /\ Len(hashed[a]) <= Len(Payload[a])
        /\ recv[a] \in {"record", "persist", "complete", "received", "done"} => hashed[a] = Payload[a]
    /\ \A d \in Drops : part[d] \subseteq Seq(Chunks)
    /\ \A p \in published : p.by \in Attempts /\ p.bytes = Payload[p.by]

\* A payload is a sequence of chunks.
LEMMA PayloadSeq == \A a \in Attempts : Payload[a] \in Seq(Chunks) /\ Len(Payload[a]) \in Nat
<1> TAKE a \in Attempts
<1>1. Payload[a] \in Seq(Range(Payload[a]))
  BY DropConstants
<1>2. \A i \in 1 .. Len(Payload[a]) : Payload[a][i] \in Chunks
  BY <1>1, ElementOfSeq DEF Chunks
<1>3. Len(Payload[a]) \in Nat /\ Payload[a] \in [1 .. Len(Payload[a]) -> Chunks]
  BY <1>1, <1>2
<1> QED
  BY <1>3

\* What OnMeta keeps of a partial is no longer than the payload it resumes.
LEMMA ResumedSound ==
    ASSUME DiskSound, NEW a \in Attempts
    PROVE  Resumed(a) \in Seq(Chunks) /\ Len(Resumed(a)) <= Len(Payload[a])
<1> DEFINE d == DropOf[a]
           bytes == CHOOSE p \in part[d] : TRUE
<1>1. CASE manifest[d] = {} \/ part[d] = {}
  <2>1. Resumed(a) = <<>>
    BY <1>1 DEF Resumed
  <2> QED
    BY <2>1, PayloadSeq
<1>2. CASE ~(manifest[d] = {} \/ part[d] = {})
  <2>1. bytes \in Seq(Chunks)
    BY <1>2, DropOfIsDrop DEF DiskSound
  <2>2. Resumed(a) = SubSeq(bytes, 1, ResumePrefix(bytes, a))
    BY <1>2, Zenon DEF Resumed
  <2> HIDE DEF bytes
  <2>3. Len(bytes) \in Nat /\ Size[a] \in {0, Len(Payload[a])}
    BY <2>1, DropConstants
  <2>4. /\ ResumePrefix(bytes, a) \in 0 .. Len(bytes)
        /\ ResumePrefix(bytes, a) <= Len(Payload[a])
    BY <2>3, PayloadSeq DEF ResumePrefix
  <2> QED
    BY <2>1, <2>2, <2>3, <2>4, SubSeqProperties
<1> QED
  BY <1>1, <1>2

\* A step of one receive session leaves the sessions and connections of others.
LEMMA OthersUntouched ==
    ASSUME DropTypes, NEW a \in Attempts, ReceiverStep(a), NEW b \in Attempts \ {a}
    PROVE  /\ recv'[b] = recv[b] /\ dup'[b] = dup[b] /\ hashed'[b] = hashed[b]
           /\ toRecv'[b] = toRecv[b] /\ toSend'[b] = toSend[b] /\ up'[b] = up[b]
<1> USE DEF DropTypes, ReceiverStep, Lookup, Reserve, Stage, StageRefused, SendAck, RecvChunk, ChunkRefused, RecvConnError,
        Verify, VerifyRefused, CloseFails, RecordCompletion, PersistLedger, SendComplete, Received, Done, Failed, Cleanup
<1>1. recv'[b] = recv[b]
  BY Zenon DEF Goto, Refuse
<1>2. dup'[b] = dup[b] /\ hashed'[b] = hashed[b]
  BY Zenon
<1>3. toRecv'[b] = toRecv[b] /\ up'[b] = up[b]
  BY Zenon DEF wireVars
<1>4. toSend'[b] = toSend[b]
  BY Zenon DEF wireVars, Reply, Refuse
<1> QED
  BY <1>1, <1>2, <1>3, <1>4, Zenon

\* No step breaks DiskSound: Verify publishes what the session hashed, after the
\* digest of the whole payload matched (receiver.go), and nothing rewrites it.
LEMMA DiskKept == DropTypes /\ DiskSound /\ [Next]_vars => DiskSound'
<1> SUFFICES ASSUME DropTypes, DiskSound, [Next]_vars PROVE DiskSound'
  OBVIOUS
<1> USE DropOfIsDrop
<1>1. ASSUME NEW a \in Attempts, SendMeta(a) \/ SenderStep(a) \/ SendInterrupted(a) \/ ConnFail(a)
      PROVE  DiskSound'
  <2>1. UNCHANGED <<recv, hashed, part, published>>
    BY <1>1, Zenon DEF SendMeta, SenderStep, SendInterrupted, ConnFail, RecvAck, SendChunk, RecvComplete, SendConnError, EndSend, diskVars
  <2> QED
    BY <2>1 DEF DiskSound
<1>2. ASSUME NEW a \in Attempts, ReceiverStep(a)
      PROVE  DiskSound'
  <2> DEFINE d == DropOf[a]
  <2>1. \A b \in Attempts \ {a} : recv'[b] = recv[b] /\ hashed'[b] = hashed[b]
    BY <1>2, OthersUntouched
  <2>2. CASE Stage(a)
    <3>1. /\ hashed' \in {hashed, [hashed EXCEPT ![a] = Resumed(a)]}
          /\ part' \in {part, [part EXCEPT ![d] = {Resumed(a)}]}
          /\ recv'[a] = "ack" /\ published' = published
      BY <2>2 DEF Stage, Goto, DropTypes
    <3>2. hashed'[a] \in Seq(Chunks) /\ Len(hashed'[a]) <= Len(Payload[a])
      BY <3>1, ResumedSound DEF DiskSound, DropTypes
    <3>3. \A x \in Drops : part'[x] \subseteq Seq(Chunks)
      <4>1. \A x \in Drops : part'[x] = part[x] \/ part'[x] = {Resumed(a)}
        BY <3>1 DEF DropTypes
      <4> QED
        BY <4>1, ResumedSound DEF DiskSound
    <3> QED
      BY <2>1, <3>1, <3>2, <3>3 DEF DiskSound
  <2>3. CASE RecvChunk(a)
    <3> DEFINE i == Head(toRecv[a]).index
               data == IF i > Len(Payload[a]) THEN <<>> ELSE <<Payload[a][i]>>
    <3>1. /\ i = Len(hashed[a]) + 1
          /\ hashed' = [hashed EXCEPT ![a] = @ \o data]
          /\ part' \in {part, [part EXCEPT ![d] = {p \o data : p \in @}]}
          /\ published' = published
      BY <2>3 DEF RecvChunk
    <3>2. recv'[a] \in {"verify", "chunks"}
      BY <2>3 DEF RecvChunk, Goto, DropTypes
    <3>3. hashed[a] \in Seq(Chunks) /\ Len(hashed[a]) \in Nat /\ Len(hashed[a]) <= Len(Payload[a])
      BY DEF DiskSound
    <3>4. /\ data \in Seq(Chunks) /\ Len(data) \in {0, 1}
          /\ Len(hashed[a]) + Len(data) <= Len(Payload[a])
      <4>0. Len(Payload[a]) \in Nat
        BY PayloadSeq
      <4>1. CASE i > Len(Payload[a])
        <5>1. data = <<>> /\ data \in Seq(Chunks) /\ Len(data) = 0
          BY <4>1
        <5> HIDE DEF data, i
        <5> QED
          BY <5>1, <4>0, <3>3
      <4>2. CASE ~(i > Len(Payload[a]))
        <5>1. i \in 1 .. Len(Payload[a]) /\ Len(hashed[a]) + 1 <= Len(Payload[a])
          BY <4>0, <4>2, <3>1, <3>3
        <5>2. Payload[a][i] \in Chunks
          BY <5>1, PayloadSeq, ElementOfSeq
        <5>3. data = <<Payload[a][i]>>
          BY <4>2
        <5>4. data \in Seq(Chunks) /\ Len(data) = 1
          BY <5>2, <5>3
        <5> HIDE DEF data, i
        <5> QED
          BY <5>1, <5>4
      <4> QED
        BY <4>1, <4>2, Zenon
    <3> HIDE DEF data, i
    <3>5. hashed'[a] \in Seq(Chunks) /\ Len(hashed'[a]) <= Len(Payload[a])
      <4>1. hashed'[a] = hashed[a] \o data
        BY <3>1 DEF DropTypes
      <4> QED
        BY <4>1, <3>3, <3>4, ConcatProperties
    <3>6. \A x \in Drops : part'[x] \subseteq Seq(Chunks)
      <4>1. \A x \in Drops : part'[x] = part[x] \/ part'[x] = {p \o data : p \in part[x]}
        BY <3>1, Zenon DEF DropTypes
      <4>2. \A x \in Drops : \A p \in part[x] : p \o data \in Seq(Chunks)
        BY <3>4, ConcatProperties DEF DiskSound
      <4>3. \A x \in Drops : part[x] \subseteq Seq(Chunks)
        BY DEF DiskSound
      <4>4. ASSUME NEW x \in Drops, NEW q \in part'[x] PROVE q \in Seq(Chunks)
        <5>1. CASE part'[x] = part[x]
          BY <5>1, <4>3
        <5>2. CASE part'[x] = {p \o data : p \in part[x]}
          <6>1. \E p \in part[x] : q = p \o data
            BY <5>2
          <6> QED
            BY <6>1, <4>2
        <5> QED
          BY <5>1, <5>2, <4>1, Zenon
      <4> QED
        BY <4>4
    <3> QED
      BY <2>1, <3>1, <3>2, <3>5, <3>6 DEF DiskSound
  <2>4. CASE Verify(a) \/ CloseFails(a)
    <3>1. hashed' = hashed /\ hashed[a] = Payload[a]
      BY <2>4 DEF Verify, CloseFails, DigestOK
    <3>2. published' \in {published, published \cup {[by |-> a, bytes |-> Payload[a]]}}
      BY <2>4, <3>1 DEF Verify, CloseFails, diskVars
    <3>3. \A x \in Drops : part'[x] \in {part[x], {}}
      BY <2>4 DEF Verify, CloseFails, DropTypes, diskVars
    <3>4. \A x \in Drops : part'[x] \subseteq Seq(Chunks)
      BY <3>3 DEF DiskSound
    <3>5. \A p \in published' : p.by \in Attempts /\ p.bytes = Payload[p.by]
      BY <3>2 DEF DiskSound
    <3> QED
      BY <2>1, <3>1, <3>4, <3>5 DEF DiskSound
  <2>5. CASE Cleanup(a)
    <3>1. hashed' = hashed /\ published' = published
      BY <2>5 DEF Cleanup
    <3>2. \A x \in Drops : part'[x] \in {part[x], {}}
      BY <2>5 DEF Cleanup
    <3>3. recv'[a] = "ended"
      BY <2>5 DEF Cleanup, Goto, DropTypes
    <3>4. \A x \in Drops : part'[x] \subseteq Seq(Chunks)
      BY <3>2 DEF DiskSound
    <3> QED
      BY <2>1, <3>1, <3>3, <3>4 DEF DiskSound
  <2>6. CASE ~(Stage(a) \/ RecvChunk(a) \/ Verify(a) \/ CloseFails(a) \/ Cleanup(a))
    <3>1. UNCHANGED <<hashed, part, published>>
      BY <1>2, <2>6 DEF ReceiverStep, Lookup, Reserve, StageRefused, SendAck, ChunkRefused, RecvConnError,
         VerifyRefused, RecordCompletion, PersistLedger, SendComplete, Received, Done, Failed, diskVars
    <3>2. recv'[a] \in {"record", "persist", "complete", "received", "done"}
              => recv[a] \in {"record", "persist", "complete", "received", "done"}
      BY <1>2, <2>6 DEF DropTypes, Goto, Refuse, ReceiverStep, Lookup, Reserve, StageRefused, SendAck, ChunkRefused,
         RecvConnError, VerifyRefused, RecordCompletion, PersistLedger, SendComplete, Received, Done, Failed
    <3> QED
      BY <2>1, <3>1, <3>2 DEF DiskSound
  <2> QED
    BY <2>2, <2>3, <2>4, <2>5, <2>6
<1>3. CASE Crash
  <2>1. \A a \in Attempts : recv'[a] \in {"idle", "ended"} /\ hashed'[a] = <<>>
    BY <1>3 DEF Crash
  <2>2. part' = part /\ published' = published
    BY <1>3 DEF Crash
  <2>3. \A a \in Attempts : hashed'[a] \in Seq(Chunks) /\ Len(hashed'[a]) <= Len(Payload[a])
    <3> TAKE a \in Attempts
    <3>1. <<>> \in Seq(Chunks) /\ Len(<<>>) = 0
      OBVIOUS
    <3>2. 0 <= Len(Payload[a])
      BY PayloadSeq
    <3>3. hashed'[a] = <<>>
      BY <2>1
    <3> QED
      BY <3>1, <3>2, <3>3
  <2> QED
    BY <2>1, <2>2, <2>3 DEF DiskSound
<1>4. CASE UNCHANGED vars
  BY <1>4 DEF vars, diskVars, DiskSound
<1> QED
  BY <1>1, <1>2, <1>3, <1>4 DEF Next

-----------------------------------------------------------------------------
(*****************************************************************************)
(* The connection.                                                           *)
(*****************************************************************************)
\* The frames after drop_send.
DataFrame == [type : {"data"}, index : Nat]

\* What a receiver may send.
Replies(a) == [type : {"ack"}, offset : 0 .. Len(Payload[a])]
              \cup [type : {"complete"}, dup : BOOLEAN, sha : Seq(Chunks)]
              \cup {Reject}

\* The session states before the first answer, and from the ack to the last.
Unanswered == {"idle", "lookup", "reserve", "stage", "ack"}
Acknowledged == {"chunks", "verify", "record", "persist", "complete"}

\* A connection carries what its two ends allow: at most an ack and one more
\* answer, nothing to a sender that has not been answered, and the metadata only
\* before the session starts.
WireOf(a) ==
    /\ toSend[a] \in Seq(Replies(a)) /\ Len(toSend[a]) <= 2
    /\ recv[a] \in Unanswered => toSend[a] = <<>>
    /\ recv[a] \in Acknowledged => Len(toSend[a]) <= 1
    /\ Len(toRecv[a]) <= ChannelCap
    /\ recv[a] = "idle" => toRecv[a] \in {<<>>, <<MetaFrame>>} /\ send[a] \in {"idle", "await_ack", "ended"}
    /\ recv[a] # "idle" => toRecv[a] \in Seq(DataFrame)
    /\ send[a] = "idle" => recv[a] = "idle" /\ toRecv[a] = <<>>
    /\ next[a] \in 1 .. Len(Payload[a]) + 1

\* Every connection does.
WireSound == \A a \in Attempts : WireOf(a)

\* The steps of a sender and of its connection.
SendSide(a) == SendMeta(a) \/ SenderStep(a) \/ SendInterrupted(a) \/ ConnFail(a)

\* A step of one sender leaves the other senders and their connections.
LEMMA OtherSendersUntouched ==
    ASSUME DropTypes, NEW a \in Attempts, SendSide(a), NEW b \in Attempts \ {a}
    PROVE  /\ send'[b] = send[b] /\ next'[b] = next[b] /\ outcome'[b] = outcome[b]
           /\ toRecv'[b] = toRecv[b] /\ toSend'[b] = toSend[b] /\ up'[b] = up[b]
<1> USE DEF DropTypes, SendSide, SendMeta, SenderStep, SendInterrupted, ConnFail, RecvAck, SendChunk, RecvComplete,
        SendConnError, EndSend
<1>1. send'[b] = send[b] /\ next'[b] = next[b] /\ outcome'[b] = outcome[b]
  BY DEF sendVars
<1>2. toRecv'[b] = toRecv[b] /\ up'[b] = up[b]
  BY Zenon
<1>3. toSend'[b] = toSend[b]
  BY Zenon
<1> QED
  BY <1>1, <1>2, <1>3

\* A step of a sender changes nothing of the receiving Hub.
LEMMA ReceiverUntouched ==
    ASSUME NEW a \in Attempts, SendSide(a)
    PROVE  UNCHANGED <<recv, dup, hashed, owner, diskVars, inbox, crashes, tombVars, quotaVars>>
  BY Zenon DEF SendSide, SendMeta, SenderStep, SendInterrupted, ConnFail, RecvAck, SendChunk, RecvComplete,
         SendConnError, EndSend

\* A reply adds one message to the connection, or is lost with it.
LEMMA ReplyAppends ==
    ASSUME DropTypes, NEW a \in Attempts, NEW m, Reply(a, m), toSend[a] \in Seq(Replies(a)), m \in Replies(a)
    PROVE  toSend'[a] \in Seq(Replies(a)) /\ Len(toSend'[a]) <= Len(toSend[a]) + 1
<1>1. toSend'[a] = toSend[a] \/ toSend'[a] = Append(toSend[a], m)
  BY DEF Reply, DropTypes
<1>2. Len(toSend[a]) \in Nat
  BY LenProperties
<1>3. Append(toSend[a], m) \in Seq(Replies(a)) /\ Len(Append(toSend[a], m)) = Len(toSend[a]) + 1
  BY AppendProperties
<1> QED
  BY <1>1, <1>2, <1>3

\* A refusal is one of the replies.
LEMMA RejectIsReply == \A a \in Attempts : Reject \in Replies(a)
  BY DEF Replies

\* A queue of one message, consumed or cut.
LEMMA OneFrame ==
    ASSUME NEW x
    PROVE  /\ Tail(<<x>>) = <<>> /\ Len(<<x>>) = 1
           /\ \A i \in 0 .. 1 : SubSeq(<<x>>, 1, i) \in {<<>>, <<x>>}
<1> DEFINE s == <<x>>
<1>1. s \in Seq({x}) /\ Len(s) = 1 /\ s[1] = x
  OBVIOUS
<1>2. Tail(s) \in Seq({x}) /\ Len(Tail(s)) = 0
  BY <1>1, HeadTailProperties
<1>3. Tail(s) = <<>>
  BY <1>2, EmptySeq
<1>4. ASSUME NEW i \in 0 .. 1 PROVE SubSeq(s, 1, i) \in {<<>>, s}
  <2>1. CASE i = 0
    <3>1. SubSeq(s, 1, 0) \in Seq({x}) /\ Len(SubSeq(s, 1, 0)) = 0
      BY <1>1, SubSeqProperties
    <3> QED
      BY <2>1, <3>1, EmptySeq
  <2>2. CASE i = 1
    <3> DEFINE t == SubSeq(s, 1, 1)
    <3>1. t \in Seq({x}) /\ Len(t) = 1 /\ t[1] = x
      BY <1>1, SubSeqProperties
    <3> HIDE DEF s, t
    <3>2. \A k \in 1 .. Len(s) : s[k] = t[k]
      BY <1>1, <3>1
    <3>3. t = s
      BY <1>1, <3>1, <3>2, SeqEqual
    <3> USE DEF s, t
    <3> QED
      BY <2>2, <3>3
  <2> QED
    BY <2>1, <2>2
<1> QED
  BY <1>1, <1>3, <1>4

\* An empty queue stays empty when its tail is lost.
LEMMA NothingCut == \A j \in 0 .. Len(<<>>) : SubSeq(<<>>, 1, j) = <<>>
<1>1. Len(<<>>) = 0 /\ <<>> \in Seq({})
  OBVIOUS
<1>2. SubSeq(<<>>, 1, 0) \in Seq({}) /\ Len(SubSeq(<<>>, 1, 0)) = 0
  BY <1>1, SubSeqProperties
<1>3. SubSeq(<<>>, 1, 0) = <<>>
  BY <1>2, EmptySeq
<1> QED
  BY <1>1, <1>3

\* No step breaks WireSound: the protocol's turns bound what is in flight
\* (sender.go and receiver.go take turns until the ack).
LEMMA WireKept == DropTypes /\ DiskSound /\ WireSound /\ [Next]_vars => WireSound'
<1> SUFFICES ASSUME DropTypes, DiskSound, WireSound, [Next]_vars PROVE WireSound'
  OBVIOUS
<1>1. ASSUME NEW a \in Attempts, SendSide(a) PROVE WireSound'
  <2>1. recv' = recv
    BY <1>1, ReceiverUntouched
  <2>2. ASSUME NEW b \in Attempts \ {a} PROVE WireOf(b)'
    <3>1. /\ send'[b] = send[b] /\ next'[b] = next[b]
          /\ toRecv'[b] = toRecv[b] /\ toSend'[b] = toSend[b]
      BY <1>1, OtherSendersUntouched
    <3>2. WireOf(b)
      BY DEF WireSound
    <3> QED
      BY <2>1, <3>1, <3>2 DEF WireOf, Replies
  <2>3. WireOf(a)'
    <3>0. WireOf(a)
      BY DEF WireSound
    <3>1. CASE SendMeta(a)
      <4>1. send[a] = "idle" /\ send'[a] = "await_ack" /\ toRecv'[a] = <<MetaFrame>>
            /\ next' = next /\ toSend' = toSend
        BY <3>1 DEF SendMeta, DropTypes
      <4>2. Len(<<MetaFrame>>) <= ChannelCap
        BY DropConstants
      <4> QED
        BY <2>1, <3>0, <4>1, <4>2 DEF WireOf
    <3>2. CASE RecvAck(a)
      <4>1. /\ toSend[a] # <<>> /\ toSend'[a] = Tail(toSend[a])
            /\ toRecv' = toRecv /\ send'[a] \in {"streaming", "ended"}
        BY <3>2 DEF RecvAck, EndSend, DropTypes
      <4>2. next'[a] = next[a] \/ (Head(toSend[a]).type = "ack" /\ next'[a] = Head(toSend[a]).offset + 1)
        BY <3>2 DEF RecvAck, EndSend, DropTypes
      <4>3. recv[a] \notin Unanswered
        BY <3>0, <4>1 DEF WireOf
      <4>4. Head(toSend[a]) \in Replies(a) /\ Tail(toSend[a]) \in Seq(Replies(a))
            /\ Len(Tail(toSend[a])) = Len(toSend[a]) - 1 /\ Len(toSend[a]) \in Nat
        BY <3>0, <4>1, HeadTailProperties DEF WireOf
      <4>5. next'[a] \in 1 .. Len(Payload[a]) + 1
        BY <3>0, <4>2, <4>4, PayloadSeq DEF WireOf, Replies, Reject
      <4>6. toSend'[a] \in Seq(Replies(a)) /\ Len(toSend'[a]) <= 2 /\ (recv[a] \in Acknowledged => Len(toSend'[a]) <= 1)
        BY <3>0, <4>1, <4>4 DEF WireOf
      <4> QED
        BY <2>1, <3>0, <4>1, <4>3, <4>5, <4>6 DEF WireOf, Unanswered, Replies
    <3>3. CASE SendChunk(a)
      <4>1. /\ send[a] = "streaming" /\ send'[a] \in {"streaming", "await_complete"}
            /\ toSend' = toSend
        BY <3>3 DEF SendChunk, DropTypes
      <4>2. Len(toRecv[a]) < ChannelCap /\ toRecv'[a] = Append(toRecv[a], Frame(next[a]))
        BY <3>3 DEF SendChunk, DropTypes
      <4>3. recv[a] # "idle" /\ toRecv[a] \in Seq(DataFrame) /\ next[a] \in 1 .. Len(Payload[a]) + 1
        BY <3>0, <4>1 DEF WireOf
      <4>4. Frame(next[a]) \in DataFrame
        BY <4>3, PayloadSeq DEF Frame, DataFrame
      <4>5. toRecv'[a] \in Seq(DataFrame) /\ Len(toRecv'[a]) <= ChannelCap
        BY <4>2, <4>3, <4>4, DropConstants, AppendProperties, LenProperties
      <4>6. next'[a] \in 1 .. Len(Payload[a]) + 1
        <5> DEFINE n == Len(Payload[a]) + 1
        <5>1. next'[a] = Min({next[a] + 1, n})
          BY <3>3 DEF SendChunk, DropTypes
        <5>2. Min({next[a] + 1, n}) \in {next[a] + 1, n} /\ Min({next[a] + 1, n}) <= n
          <6> DEFINE S == {next[a] + 1, n}
          <6>1. next[a] + 1 \in Int /\ n \in Int
            BY <4>3, PayloadSeq
          <6>2. \E x \in S : \A y \in S : x <= y
            BY <6>1
          <6> HIDE DEF n
          <6> QED
            BY <6>1, <6>2 DEF Min
        <5> QED
          BY <4>3, <5>1, <5>2, PayloadSeq
      <4> QED
        BY <2>1, <3>0, <4>1, <4>3, <4>5, <4>6 DEF WireOf
    <3>4. CASE RecvComplete(a) \/ SendInterrupted(a) \/ SendConnError(a)
      <4>1. send[a] # "idle" /\ send'[a] = "ended" /\ toRecv' = toRecv /\ next' = next
        BY <3>4, Zenon DEF RecvComplete, SendInterrupted, SendConnError, EndSend, DropTypes
      <4>2. toSend'[a] = toSend[a] \/ (toSend[a] # <<>> /\ toSend'[a] = Tail(toSend[a]))
        BY <3>4, Zenon DEF RecvComplete, SendInterrupted, SendConnError, DropTypes
      <4>3. /\ toSend'[a] \in Seq(Replies(a)) /\ Len(toSend'[a]) <= 2
            /\ recv[a] \in Unanswered => toSend'[a] = <<>>
            /\ recv[a] \in Acknowledged => Len(toSend'[a]) <= 1
        <5>1. CASE toSend'[a] = toSend[a]
          BY <3>0, <5>1 DEF WireOf
        <5>2. CASE toSend[a] # <<>> /\ toSend'[a] = Tail(toSend[a])
          <6>1. Tail(toSend[a]) \in Seq(Replies(a)) /\ Len(Tail(toSend[a])) = Len(toSend[a]) - 1 /\ Len(toSend[a]) \in Nat
            BY <3>0, <5>2, HeadTailProperties DEF WireOf
          <6> QED
            BY <3>0, <5>2, <6>1 DEF WireOf
        <5> QED
          BY <4>2, <5>1, <5>2
      <4> QED
        BY <2>1, <3>0, <4>1, <4>3 DEF WireOf, Replies
    <3>5. CASE ConnFail(a)
      <4>1. PICK i \in 0 .. Len(toRecv[a]), j \in 0 .. Len(toSend[a]) :
               toRecv'[a] = SubSeq(toRecv[a], 1, i) /\ toSend'[a] = SubSeq(toSend[a], 1, j)
        BY <3>5, Zenon DEF ConnFail, DropTypes
      <4>2. send' = send /\ next' = next
        BY <3>5 DEF ConnFail, sendVars
      <4>3. /\ toSend'[a] \in Seq(Replies(a)) /\ Len(toSend'[a]) <= Len(toSend[a]) /\ Len(toSend'[a]) \in Nat
            /\ toSend[a] = <<>> => toSend'[a] = <<>>
        BY <3>0, <4>1, SubSeqProperties, LenProperties, EmptySeq DEF WireOf
      <4>6. /\ Len(toRecv'[a]) <= Len(toRecv[a]) /\ Len(toRecv'[a]) \in Nat /\ Len(toRecv[a]) \in Nat
            /\ toRecv[a] \in Seq(DataFrame) => toRecv'[a] \in Seq(DataFrame)
            /\ toRecv[a] \in {<<>>, <<MetaFrame>>} => toRecv'[a] \in {<<>>, <<MetaFrame>>}
        <5>1. CASE toRecv[a] \in Seq(DataFrame)
          <6>1. toRecv'[a] \in Seq(DataFrame) /\ Len(toRecv'[a]) <= Len(toRecv[a]) /\ Len(toRecv'[a]) \in Nat /\ Len(toRecv[a]) \in Nat
            BY <4>1, <5>1, SubSeqProperties, LenProperties
          <6>2. toRecv[a] # <<MetaFrame>>
            <7>1. MetaFrame \notin DataFrame
              BY DEF MetaFrame, DataFrame
            <7>2. toRecv[a] = <<MetaFrame>> => toRecv[a][1] = MetaFrame /\ Len(toRecv[a]) = 1
              BY OneFrame
            <7> QED
              BY <5>1, <7>1, <7>2, ElementOfSeq
          <6>3. toRecv[a] = <<>> => toRecv'[a] = <<>>
            BY <4>1, <6>1, EmptySeq
          <6> QED
            BY <6>1, <6>2, <6>3
        <5>2. CASE toRecv[a] = <<MetaFrame>>
          <6>1. toRecv'[a] \in {<<>>, <<MetaFrame>>}
            BY <4>1, <5>2, OneFrame
          <6>2. Len(<<>>) = 0 /\ Len(<<MetaFrame>>) = 1
            BY OneFrame
          <6>3. toRecv[a] \notin Seq(DataFrame)
            <7>1. MetaFrame \notin DataFrame
              BY DEF MetaFrame, DataFrame
            <7>2. toRecv[a][1] = MetaFrame /\ Len(toRecv[a]) = 1
              BY <5>2, OneFrame
            <7> QED
              BY <7>1, <7>2, ElementOfSeq
          <6>4. Len(toRecv'[a]) \in {0, 1}
            BY <6>1, <6>2
          <6> QED
            <7>1. Len(toRecv[a]) = 1
              BY <5>2, OneFrame
            <7>2. Len(toRecv'[a]) \in Nat /\ Len(toRecv'[a]) <= 1
              <8> DEFINE n == Len(toRecv'[a])
              <8>1. n = 0 \/ n = 1
                BY <6>4
              <8> HIDE DEF n
              <8>2. n \in Nat /\ n <= 1
                BY <8>1
              <8> QED
                BY <8>2 DEF n
            <7> QED
              BY <5>2, <6>1, <6>3, <7>1, <7>2
        <5>3. CASE toRecv[a] = <<>>
          BY <5>1, <5>3
        <5> QED
          BY <3>0, <5>1, <5>2, <5>3 DEF WireOf
      <4>9. Len(toRecv'[a]) <= ChannelCap
        BY <3>0, <4>6, DropConstants DEF WireOf
      <4>10. Len(toSend'[a]) <= 2 /\ (recv[a] \in Acknowledged => Len(toSend'[a]) <= 1)
        BY <3>0, <4>3, LenProperties DEF WireOf
      <4> QED
        BY <2>1, <3>0, <4>2, <4>3, <4>6, <4>9, <4>10 DEF WireOf, Replies
    <3> QED
      BY <1>1, <3>1, <3>2, <3>3, <3>4, <3>5 DEF SendSide, SenderStep
  <2> QED
    BY <2>2, <2>3 DEF WireSound

<1>2. ASSUME NEW a \in Attempts, ReceiverStep(a) PROVE WireSound'
  <2>1. send' = send /\ next' = next
    BY <1>2, Zenon DEF ReceiverStep, Lookup, Reserve, Stage, StageRefused, SendAck, RecvChunk, ChunkRefused, RecvConnError, Verify,
       VerifyRefused, CloseFails, RecordCompletion, PersistLedger, SendComplete, Received, Done, Failed, Cleanup, sendVars
  <2>2. \A b \in Attempts \ {a} : WireOf(b)'
    <3> TAKE b \in Attempts \ {a}
    <3>1. WireOf(b)
      BY DEF WireSound
    <3> QED
      BY <1>2, <2>1, <3>1, OthersUntouched DEF WireOf, Replies
  <2>3. WireOf(a)'
    <3>0. WireOf(a)
      BY DEF WireSound
    <3>1. CASE Lookup(a)
      <4>1. recv[a] = "idle" /\ toRecv[a] # <<>> /\ toRecv'[a] = Tail(toRecv[a]) /\ recv'[a] \in {"reserve", "failed"}
        BY <3>1 DEF Lookup, Goto, Refuse, DropTypes
      <4>2. (recv'[a] = "reserve" /\ toSend' = toSend) \/ (recv'[a] = "failed" /\ Reply(a, Reject))
        BY <3>1 DEF Lookup, Goto, Refuse, DropTypes
      <4>3. toRecv'[a] = <<>> /\ toSend[a] = <<>> /\ toSend[a] \in Seq(Replies(a))
        BY <3>0, <4>1, OneFrame, Zenon DEF WireOf, Unanswered
      <4>4. send[a] # "idle"
        BY <3>0, <4>1 DEF WireOf
      <4>5. /\ toSend'[a] \in Seq(Replies(a)) /\ Len(toSend'[a]) <= 1
            /\ recv'[a] = "reserve" => toSend'[a] = <<>>
        <5>1. Len(toSend[a]) = 0
          BY <4>3
        <5> QED
          <6>1. Reply(a, Reject) => toSend'[a] \in Seq(Replies(a)) /\ Len(toSend'[a]) <= Len(toSend[a]) + 1
            BY <4>3, ReplyAppends, RejectIsReply, Zenon
          <6>2. ASSUME toSend' = toSend
                PROVE  toSend'[a] \in Seq(Replies(a)) /\ Len(toSend'[a]) <= 1 /\ toSend'[a] = <<>>
            <7>1. toSend'[a] = toSend[a]
              BY <6>2
            <7> QED
              BY <7>1, <5>1, <4>3, <5>1
          <6> QED
            BY <4>2, <5>1, <6>1, <6>2
      <4>6. Len(toRecv'[a]) <= ChannelCap /\ toRecv'[a] \in Seq(DataFrame)
        BY <4>3, DropConstants
      <4> QED
        BY <2>1, <3>0, <4>1, <4>4, <4>5, <4>6 DEF WireOf, Unanswered, Acknowledged, Replies
    <3>2. ASSUME recv[a] \in {"reserve", "stage"}, UNCHANGED toRecv,
                 \/ recv'[a] \in {"stage", "ack"} /\ toSend' = toSend
                 \/ recv'[a] = "failed" /\ Reply(a, Reject)
          PROVE  WireOf(a)'
      <4>1. toSend[a] = <<>> /\ toSend[a] \in Seq(Replies(a)) /\ Len(<<>>) = 0
        BY <3>0, <3>2 DEF WireOf, Unanswered
      <4>2. toSend'[a] \in Seq(Replies(a)) /\ Len(toSend'[a]) <= 1 /\ (recv'[a] # "failed" => toSend'[a] = <<>>)
        <5>1. Len(toSend[a]) = 0
          BY <4>1
        <5> QED
          <6>1. Reply(a, Reject) => toSend'[a] \in Seq(Replies(a)) /\ Len(toSend'[a]) <= Len(toSend[a]) + 1
            BY <4>1, ReplyAppends, RejectIsReply, Zenon
          <6>2. ASSUME toSend' = toSend
                PROVE  toSend'[a] \in Seq(Replies(a)) /\ Len(toSend'[a]) <= 1 /\ toSend'[a] = <<>>
            <7>1. toSend'[a] = toSend[a]
              BY <6>2
            <7> QED
              BY <7>1, <5>1, <4>1
          <6> QED
            BY <3>2, <5>1, <6>1, <6>2
      <4> QED
        BY <2>1, <3>0, <3>2, <4>2 DEF WireOf, Unanswered, Acknowledged, Replies
    <3>3. CASE Reserve(a)
      BY <3>2, <3>3 DEF Reserve, Goto, Refuse, DropTypes
    <3>4. CASE Stage(a) \/ StageRefused(a)
      BY <3>2, <3>4 DEF Stage, StageRefused, Goto, Refuse, DropTypes, wireVars
    <3>5. CASE SendAck(a)
      <4>1. recv[a] = "ack" /\ recv'[a] \in {"chunks", "failed"} /\ toRecv' = toRecv /\ Reply(a, Ack(Len(hashed[a])))
        BY <3>5 DEF SendAck, Goto, DropTypes
      <4>2. toSend[a] = <<>> /\ toSend[a] \in Seq(Replies(a)) /\ Len(<<>>) = 0
        BY <3>0, <4>1 DEF WireOf, Unanswered
      <4>3. Ack(Len(hashed[a])) \in Replies(a)
        BY PayloadSeq DEF Replies, Ack, DiskSound
      <4>4. toSend'[a] \in Seq(Replies(a)) /\ Len(toSend'[a]) <= 1
        <5>1. Len(toSend[a]) = 0
          BY <4>2
        <5> QED
          <6>1. toSend'[a] \in Seq(Replies(a)) /\ Len(toSend'[a]) <= Len(toSend[a]) + 1
            BY <4>1, <4>2, <4>3, ReplyAppends, Zenon
          <6> QED
            BY <5>1, <6>1
      <4> QED
        BY <2>1, <3>0, <4>1, <4>4 DEF WireOf, Unanswered, Acknowledged, Replies
    <3>6. CASE RecvChunk(a)
      <4>1. /\ recv[a] = "chunks" /\ recv'[a] \in {"chunks", "verify"} /\ toSend' = toSend
            /\ toRecv[a] # <<>> /\ toRecv'[a] = Tail(toRecv[a])
        BY <3>6 DEF RecvChunk, Goto, DropTypes
      <4>2. toRecv[a] \in Seq(DataFrame) /\ Len(toRecv[a]) <= ChannelCap
        BY <3>0, <4>1 DEF WireOf
      <4>3. toRecv'[a] \in Seq(DataFrame) /\ Len(toRecv'[a]) <= ChannelCap
        BY <4>1, <4>2, HeadTailProperties, LenProperties, DropConstants
      <4> QED
        BY <2>1, <3>0, <4>1, <4>3 DEF WireOf, Unanswered, Acknowledged, Replies
    <3>7. ASSUME recv[a] \in {"chunks", "verify", "complete"}, UNCHANGED toRecv, recv'[a] \in {"failed", "received"},
                 \E m \in Replies(a) : Reply(a, m)
          PROVE  WireOf(a)'
      <4>1. toSend[a] \in Seq(Replies(a)) /\ Len(toSend[a]) <= 1 /\ Len(toSend[a]) \in Nat
        BY <3>0, <3>7, LenProperties DEF WireOf, Acknowledged
      <4>2. toSend'[a] \in Seq(Replies(a)) /\ Len(toSend'[a]) <= 2
        BY <3>7, <4>1, ReplyAppends, LenProperties
      <4> QED
        BY <2>1, <3>0, <3>7, <4>2 DEF WireOf, Unanswered, Acknowledged, Replies
    <3>8. CASE ChunkRefused(a) \/ VerifyRefused(a) \/ CloseFails(a)
      <4> QED
        BY <3>7, <3>8, RejectIsReply DEF ChunkRefused, VerifyRefused, CloseFails, Goto, Refuse, DropTypes
    <3>9. CASE SendComplete(a)
      <4>1. Success(dup[a] # {}, hashed[a]) \in Replies(a)
        BY DEF Success, Replies, DiskSound
      <4> QED
        BY <3>7, <3>9, <4>1 DEF SendComplete, Goto, DropTypes
    <3>10. ASSUME recv[a] \in Acknowledged \cup {"received", "done", "failed", "cleanup"}, UNCHANGED <<toRecv, toSend>>,
                  recv'[a] \notin Unanswered, recv'[a] \in Acknowledged => recv[a] \in Acknowledged
           PROVE  WireOf(a)'
      <4>1. recv[a] # "idle" /\ recv'[a] # "idle"
        BY <3>10 DEF Unanswered, Acknowledged
      <4> QED
        BY <2>1, <3>0, <3>10, <4>1 DEF WireOf, Replies
    <3>11. CASE RecvConnError(a) \/ Verify(a) \/ RecordCompletion(a) \/ PersistLedger(a)
      BY <3>10, <3>11 DEF RecvConnError, Verify, RecordCompletion, PersistLedger, Goto, DropTypes, wireVars,
         Acknowledged, Unanswered
    <3>12. CASE Received(a) \/ Done(a) \/ Failed(a) \/ Cleanup(a)
      BY <3>10, <3>12 DEF Received, Done, Failed, Cleanup, Goto, DropTypes, wireVars, Acknowledged, Unanswered
    <3> QED
      BY <1>2, <3>1, <3>3, <3>4, <3>5, <3>6, <3>8, <3>9, <3>11, <3>12 DEF ReceiverStep
  <2> QED
    BY <2>2, <2>3 DEF WireSound
<1>3. CASE Crash
  <2>1. send' = send /\ next' = next /\ toSend' = toSend
    BY <1>3 DEF Crash, sendVars
  <2>2. ASSUME NEW a \in Attempts PROVE WireOf(a)'
    <3>1. toRecv'[a] = <<>> /\ recv'[a] = (IF send[a] = "idle" THEN "idle" ELSE "ended")
      BY <1>3 DEF Crash
    <3>2. WireOf(a)
      BY DEF WireSound
    <3>3. <<>> \in Seq(DataFrame) /\ Len(<<>>) <= ChannelCap
      BY DropConstants
    <3>4. send[a] = "idle" => toSend[a] = <<>>
      BY <3>2 DEF WireOf, Unanswered
    <3> QED
      BY <2>1, <3>1, <3>2, <3>3, <3>4 DEF WireOf, Unanswered, Acknowledged, Replies
  <2> QED
    BY <2>2 DEF WireSound
<1>4. CASE UNCHANGED vars
  BY <1>4, Zenon DEF vars, sendVars, wireVars, WireSound, WireOf, Replies
<1> QED
  BY <1>1, <1>2, <1>3, <1>4 DEF Next, SendSide

-----------------------------------------------------------------------------
(*****************************************************************************)
(* The completion ledger.                                                    *)
(*****************************************************************************)
\* A ledger holds one entry per key.
KeysDiffer(l) == \A i, j \in DOMAIN l : l[i].key = l[j].key => i = j

\* The ledgers whose entries are among E.
Books(E) == {l \in Seq(E) : Len(l) <= MaxEntries /\ KeysDiffer(l)}

\* A sequence of entries with different keys, no longer than the cap, is a ledger.
LEMMA LedgerMember ==
    ASSUME NEW n \in 0 .. MaxEntries, NEW l \in [1 .. n -> Ledger!Entry],
           \A i, j \in DOMAIN l : l[i].key = l[j].key => i = j
    PROVE  l \in Ledger!Ledger
  BY DEF Ledger!Ledger

\* A ledger may be empty.
LEMMA NothingKept == \A E : <<>> \in Books(E)
<1> TAKE E
<1>1. <<>> \in Seq(E) /\ KeysDiffer(<<>>) /\ Len(<<>>) <= MaxEntries
  BY DropConstants DEF KeysDiffer
<1> QED
  BY <1>1 DEF Books

\* Such sequences are the ledgers of Tombstones.
LEMMA BooksAreLedgers == ASSUME NEW E, E \subseteq Ledger!Entry PROVE Books(E) \subseteq Ledger!Ledger
<1> SUFFICES ASSUME NEW l \in Books(E) PROVE l \in Ledger!Ledger
  OBVIOUS
<1>1. l \in Seq(E) /\ Len(l) \in Nat /\ Len(l) <= MaxEntries /\ KeysDiffer(l)
  BY LenProperties DEF Books
<1>2. l \in [1 .. Len(l) -> Ledger!Entry]
  BY <1>1, ElementOfSeq, LenProperties
<1>3. Len(l) \in 0 .. MaxEntries
  BY <1>1, DropConstants
<1>4. \A i, j \in DOMAIN l : l[i].key = l[j].key => i = j
  BY <1>1 DEF KeysDiffer
<1> QED
  BY <1>2, <1>3, <1>4, LedgerMember

\* The end of a sequence, by index.
LEMMA SuffixOf ==
    ASSUME NEW E, NEW l \in Seq(E), NEW k \in 1 .. Len(l) + 1
    PROVE  LET s == SubSeq(l, k, Len(l))
           IN  /\ s \in Seq(E) /\ Len(s) = Len(l) - k + 1
               /\ \A i \in 1 .. Len(l) - k + 1 : s[i] = l[k + i - 1]
<1>1. Len(l) \in Nat
  BY LenProperties
<1>2. CASE k <= Len(l)
  BY <1>1, <1>2, SubSeqProperties
<1>3. CASE k = Len(l) + 1
  BY <1>1, <1>3, SubSeqProperties
<1> QED
  BY <1>1, <1>2, <1>3

\* Pruning the oldest entries keeps the keys different.
LEMMA SuffixKeeps ==
    ASSUME NEW E, NEW l \in Seq(E), KeysDiffer(l), NEW k \in 1 .. Len(l) + 1
    PROVE  /\ SubSeq(l, k, Len(l)) \in Seq(E) /\ KeysDiffer(SubSeq(l, k, Len(l)))
           /\ Len(SubSeq(l, k, Len(l))) = Len(l) - k + 1
<1> DEFINE s == SubSeq(l, k, Len(l))
<1>1. Len(l) \in Nat /\ DOMAIN l = 1 .. Len(l)
  BY LenProperties
<1>2. /\ s \in Seq(E) /\ Len(s) = Len(l) - k + 1
      /\ \A i \in 1 .. Len(l) - k + 1 : s[i] = l[k + i - 1]
  BY SuffixOf
<1>3. KeysDiffer(s)
  <2> SUFFICES ASSUME NEW i \in DOMAIN s, NEW j \in DOMAIN s, s[i].key = s[j].key PROVE i = j
    BY DEF KeysDiffer
  <2>1. i \in 1 .. Len(l) - k + 1 /\ j \in 1 .. Len(l) - k + 1
    BY <1>2, LenProperties
  <2>2. k + i - 1 \in DOMAIN l /\ k + j - 1 \in DOMAIN l
    BY <1>1, <2>1
  <2>3. l[k + i - 1].key = l[k + j - 1].key
    BY <1>2, <2>1
  <2>4. k + i - 1 = k + j - 1
    BY <2>2, <2>3 DEF KeysDiffer
  <2> QED
    BY <1>1, <2>1, <2>4
<1> QED
  BY <1>2, <1>3

\* pruneLocked leaves a ledger within its cap (tombstone.go).
LEMMA PrunedKeeps ==
    ASSUME NEW E, NEW l \in Seq(E), KeysDiffer(l)
    PROVE  Ledger!Pruned(l) \in Books(E)
<1> DEFINE excess == Len(l) - MaxEntries
<1>1. Len(l) \in Nat /\ MaxEntries \in Nat /\ MaxEntries > 0
  BY LenProperties, DropConstants
<1>2. CASE excess > 0
  <2>1. excess + 1 \in 1 .. Len(l) + 1
    BY <1>1, <1>2
  <2> DEFINE s == SubSeq(l, excess + 1, Len(l))
  <2>2. s \in Seq(E) /\ KeysDiffer(s) /\ Len(s) = Len(l) - (excess + 1) + 1
    BY <2>1, SuffixKeeps
  <2>3. Len(s) <= MaxEntries
    BY <1>1, <2>2
  <2>4. Ledger!Pruned(l) = s
    BY <1>2, Zenon DEF Ledger!Pruned
  <2> HIDE DEF s, excess
  <2> QED
    BY <2>2, <2>3, <2>4 DEF Books
<1>3. CASE ~(excess > 0)
  <2>1. Ledger!Pruned(l) = l
    BY <1>3 DEF Ledger!Pruned
  <2> QED
    BY <1>1, <1>3, <2>1 DEF Books
<1> QED
  BY <1>2, <1>3

\* The ledger without the entry of key k.
Without(l, k) ==
    LET old == {i \in DOMAIN l : l[i].key = k}
        at  == CHOOSE i \in old : TRUE
    IN  IF old = {} THEN l ELSE SubSeq(l, 1, at - 1) \o SubSeq(l, at + 1, Len(l))

\* Removing the entry of one key removes nothing else.
LEMMA WithoutKeeps ==
    ASSUME NEW E, NEW l \in Seq(E), KeysDiffer(l), NEW k
    PROVE  /\ Without(l, k) \in Seq(E) /\ KeysDiffer(Without(l, k))
           /\ \A i \in DOMAIN Without(l, k) : Without(l, k)[i].key # k
           /\ \A i \in DOMAIN l : l[i].key = k \/ \E j \in DOMAIN Without(l, k) : Without(l, k)[j] = l[i]
<1> DEFINE old  == {i \in DOMAIN l : l[i].key = k}
           at   == CHOOSE i \in old : TRUE
<1>1. Len(l) \in Nat /\ DOMAIN l = 1 .. Len(l)
  BY LenProperties
<1>2. CASE old = {}
  <2>1. Without(l, k) = l
    BY <1>2 DEF Without
  <2> QED
    BY <1>1, <1>2, <2>1
<1>3. CASE old # {}
  <2>1. at \in 1 .. Len(l) /\ l[at].key = k
    BY <1>1, <1>3
  <2> DEFINE u == SubSeq(l, 1, at - 1)
             v == SubSeq(l, at + 1, Len(l))
             s == u \o v
  <2>2. Without(l, k) = s
    BY <1>3, Zenon DEF Without
  <2> HIDE DEF at
  <2>3. u \in Seq(E) /\ Len(u) = at - 1 /\ \A i \in 1 .. at - 1 : u[i] = l[i]
    BY <1>1, <2>1, SubSeqProperties
  <2>4. v \in Seq(E) /\ Len(v) = Len(l) - at /\ \A i \in 1 .. Len(l) - at : v[i] = l[at + i]
    <3>1. at + 1 \in 1 .. Len(l) + 1
      BY <1>1, <2>1
    <3>2. v \in Seq(E) /\ Len(v) = Len(l) - (at + 1) + 1
          /\ \A i \in 1 .. Len(l) - (at + 1) + 1 : v[i] = l[(at + 1) + i - 1]
      BY <1>1, <3>1, SuffixOf
    <3>3. Len(l) - (at + 1) + 1 = Len(l) - at
      BY <1>1, <2>1
    <3>4. \A i \in 1 .. Len(l) - at : (at + 1) + i - 1 = at + i
      BY <1>1, <2>1
    <3> QED
      BY <3>2, <3>3, <3>4
  <2> HIDE DEF u, v
  <2>5. s \in Seq(E) /\ Len(s) = Len(l) - 1
        /\ \A i \in 1 .. Len(l) - 1 : s[i] = IF i < at THEN l[i] ELSE l[i + 1]
    <3>1. /\ s \in Seq(E) /\ Len(s) = Len(u) + Len(v)
          /\ \A i \in 1 .. Len(u) + Len(v) : s[i] = IF i <= Len(u) THEN u[i] ELSE v[i - Len(u)]
      BY <2>3, <2>4, ConcatProperties, Zenon
    <3>2. Len(u) + Len(v) = Len(l) - 1
      BY <1>1, <2>1, <2>3, <2>4
    <3>3. ASSUME NEW i \in 1 .. Len(l) - 1 PROVE s[i] = IF i < at THEN l[i] ELSE l[i + 1]
      <4>1. CASE i < at
        BY <1>1, <2>1, <2>3, <3>1, <3>2, <4>1
      <4>2. CASE ~(i < at)
        <5>1. s[i] = v[i - (at - 1)] /\ i - (at - 1) \in 1 .. Len(l) - at
          BY <1>1, <2>1, <2>3, <3>1, <3>2, <4>2
        <5>2. v[i - (at - 1)] = l[at + (i - (at - 1))] /\ at + (i - (at - 1)) = i + 1
          BY <1>1, <2>1, <2>4, <5>1
        <5> QED
          BY <4>2, <5>1, <5>2
      <4> QED
        BY <4>1, <4>2, Zenon
    <3> QED
      BY <3>1, <3>2, <3>3
  <2> HIDE DEF s
  <2>6. DOMAIN s = 1 .. Len(l) - 1
    BY <2>5, LenProperties
  <2>7. ASSUME NEW i \in DOMAIN s, NEW j \in DOMAIN s, s[i].key = s[j].key PROVE i = j
    <3> DEFINE f(x) == IF x < at THEN x ELSE x + 1
    <3>1. s[i] = l[f(i)] /\ s[j] = l[f(j)] /\ f(i) \in DOMAIN l /\ f(j) \in DOMAIN l
      BY <1>1, <2>1, <2>5, <2>6
    <3> HIDE DEF f
    <3>2. f(i) = f(j)
      BY <1>1, <2>7, <3>1 DEF KeysDiffer
    <3> QED
      BY <1>1, <2>1, <2>6, <3>2 DEF f
  <2>8. ASSUME NEW i \in DOMAIN s PROVE s[i].key # k
    <3> DEFINE m == IF i < at THEN i ELSE i + 1
    <3>1. s[i] = l[m] /\ m \in DOMAIN l /\ m # at
      BY <1>1, <2>1, <2>5, <2>6
    <3> HIDE DEF m
    <3> QED
      BY <1>1, <2>1, <3>1 DEF KeysDiffer
  <2>9. ASSUME NEW i \in DOMAIN l, l[i].key # k PROVE \E j \in DOMAIN s : s[j] = l[i]
    <3> DEFINE j == IF i < at THEN i ELSE i - 1
    <3>1. j \in DOMAIN s /\ s[j] = l[i]
      <4>1. i # at
        BY <2>1, <2>9
      <4>2. CASE i < at
        BY <1>1, <2>1, <2>5, <2>6, <4>2
      <4>3. CASE i > at
        <5>1. i - 1 \in 1 .. Len(l) - 1 /\ ~(i - 1 < at) /\ (i - 1) + 1 = i
          BY <1>1, <2>1, <4>3
        <5> QED
          BY <1>1, <2>1, <2>5, <2>6, <4>3, <5>1
      <4> QED
        BY <1>1, <2>1, <4>1, <4>2, <4>3
    <3> QED
      BY <3>1
  <2> QED
    BY <2>2, <2>5, <2>7, <2>8, <2>9 DEF KeysDiffer
<1> QED
  BY <1>2, <1>3

\* Adding an entry under a new key keeps the keys different, and keeps every key.
LEMMA AppendKeeps ==
    ASSUME NEW E, NEW l \in Seq(E), KeysDiffer(l), NEW e \in E, \A i \in DOMAIN l : l[i].key # e.key
    PROVE  /\ Append(l, e) \in Seq(E) /\ KeysDiffer(Append(l, e))
           /\ e.key \in Ledger!KeysOf(Append(l, e)) /\ Ledger!KeysOf(l) \subseteq Ledger!KeysOf(Append(l, e))
<1> DEFINE r == Append(l, e)
<1>1. /\ r \in Seq(E) /\ Len(r) = Len(l) + 1 /\ Len(l) \in Nat
      /\ \A i \in 1 .. Len(l) : r[i] = l[i]
      /\ r[Len(l) + 1] = e
  BY AppendProperties, LenProperties
<1> HIDE DEF r
<1>2. DOMAIN r = 1 .. Len(l) + 1 /\ DOMAIN l = 1 .. Len(l)
  BY <1>1, LenProperties
<1>3. ASSUME NEW i \in DOMAIN r, NEW j \in DOMAIN r, r[i].key = r[j].key PROVE i = j
  <2>1. CASE i \in DOMAIN l /\ j \in DOMAIN l
    BY <1>1, <1>2, <1>3, <2>1 DEF KeysDiffer
  <2>2. CASE i \notin DOMAIN l \/ j \notin DOMAIN l
    BY <1>1, <1>2, <1>3, <2>2
  <2> QED
    BY <2>1, <2>2
<1>4. e.key \in Ledger!KeysOf(r) /\ \A i \in DOMAIN l : i \in DOMAIN r /\ r[i] = l[i]
  BY <1>1, <1>2 DEF Ledger!KeysOf
<1>5. Ledger!KeysOf(l) \subseteq Ledger!KeysOf(r)
  BY <1>4 DEF Ledger!KeysOf
<1> QED
  BY <1>1, <1>3, <1>4, <1>5 DEF KeysDiffer, r

\* Record turns a ledger into a ledger: replace the key's entry, append, prune
\* (tombstone.go).
LEMMA RecordedKeeps ==
    ASSUME NEW E, NEW l \in Books(E), NEW e \in E
    PROVE  Ledger!Recorded(l, e) \in Books(E)
<1>1. l \in Seq(E) /\ KeysDiffer(l)
  BY DEF Books
<1>2. Ledger!Recorded(l, e) = Ledger!Pruned(Append(Without(l, e.key), e))
  BY DEF Ledger!Recorded, Ledger!RemoveAt, Without
<1>3. /\ Without(l, e.key) \in Seq(E) /\ KeysDiffer(Without(l, e.key))
      /\ \A i \in DOMAIN Without(l, e.key) : Without(l, e.key)[i].key # e.key
  BY <1>1, WithoutKeeps
<1>4. Append(Without(l, e.key), e) \in Seq(E) /\ KeysDiffer(Append(Without(l, e.key), e))
  BY <1>3, AppendKeeps
<1> QED
  BY <1>2, <1>4, PrunedKeeps, Zenon

\* The attempt's file has its final name (nothing is claimed of a text).
Shown(a) == KindOf[a] = "file" => \E p \in published : p.by = a

\* A completion is backed by a delivery of that content under that key.
Backed(e) == \E b \in Attempts : KeyOf[b] = e.key /\ Payload[b] = e.sha /\ Shown(b)

\* The completions a ledger may hold.
Known == {e \in Ledger!Entry : Backed(e)}

\* The session states after verification succeeded.
Settled == {"record", "persist", "complete", "received", "done"}

\* A place that holds such a ledger, or none.
Shelved(s) == s = {} \/ \E l \in Books(Known) : s = {l}

\* The ledger in memory, its copies still to be written, the file and files
\* moved aside hold only backed completions.
StoredSound ==
    /\ entries \in Books(Known) /\ Shelved(file)
    /\ DOMAIN snapshot = Attempts /\ DOMAIN aside = Attempts
    /\ \A w \in Attempts : Shelved(snapshot[w]) /\ Shelved(aside[w])
    /\ lastPersistErr \in BOOLEAN

\* A session treated as a duplicate has a backed completion of its key; one that
\* is not, and was verified, published its file.
SessionSound(a) ==
    /\ dup[a] = {} \/ \E e \in Known : dup[a] = {e} /\ e.key = KeyOf[a]
    /\ recv[a] \in {"record", "persist"} => dup[a] = {}
    /\ recv[a] \in Settled /\ dup[a] = {} => Shown(a)
    /\ recv[a] = "complete" => \A e \in dup[a] : e.sha = Payload[a]

\* The ledger and every session.
LedgerSound == StoredSound /\ \A a \in Attempts : SessionSound(a)

\* A published file stays published.
LEMMA PublishedGrows == DropTypes /\ [Next]_vars => published \subseteq published'
<1> SUFFICES ASSUME DropTypes, [Next]_vars PROVE published \subseteq published'
  OBVIOUS
<1>1. ASSUME NEW a \in Attempts, SendSide(a) PROVE published \subseteq published'
  BY <1>1, ReceiverUntouched DEF diskVars
<1>2. ASSUME NEW a \in Attempts, ReceiverStep(a) PROVE published \subseteq published'
  BY <1>2, Zenon DEF ReceiverStep, Lookup, Reserve, Stage, StageRefused, SendAck, RecvChunk, ChunkRefused, RecvConnError, Verify,
     VerifyRefused, CloseFails, RecordCompletion, PersistLedger, SendComplete, Received, Done, Failed, Cleanup, diskVars
<1>3. CASE Crash
  BY <1>3 DEF Crash
<1>4. CASE UNCHANGED vars
  BY <1>4 DEF vars, diskVars
<1> QED
  BY <1>1, <1>2, <1>3, <1>4 DEF Next, SendSide

\* So a backed completion stays backed.
LEMMA KnownGrows ==
    ASSUME published \subseteq published'
    PROVE  /\ \A a \in Attempts : Shown(a) => Shown(a)'
           /\ Known \subseteq Known' /\ Books(Known) \subseteq Books(Known')
<1>1. \A a \in Attempts : Shown(a) => Shown(a)'
  BY DEF Shown
<1>2. \A e \in Known : e \in Known'
  <2> TAKE e \in Known
  <2>1. PICK b \in Attempts : KeyOf[b] = e.key /\ Payload[b] = e.sha /\ Shown(b)
    BY DEF Known, Backed
  <2>2. Backed(e)'
    BY <1>1, <2>1 DEF Backed
  <2> QED
    BY <2>2 DEF Known
<1>3. ASSUME NEW l \in Books(Known) PROVE l \in Books(Known')
  <2>1. l \in Seq(Known) /\ Len(l) <= MaxEntries /\ KeysDiffer(l)
    BY DEF Books
  <2>2. l \in Seq(Known')
    BY <1>2, <2>1, ElementOfSeq, LenProperties
  <2> QED
    BY <2>1, <2>2 DEF Books
<1> QED
  BY <1>1, <1>2, <1>3

\* No step puts an unbacked completion into the ledger, its copies or the file:
\* RecordCompletion runs after Verify published, whatever order the writes of two
\* sessions land in, and a restart loads what the file holds.
LEMMA StoredKept == DropTypes /\ DiskSound /\ LedgerSound /\ [Next]_vars => StoredSound'
<1> SUFFICES ASSUME DropTypes, DiskSound, LedgerSound, [Next]_vars PROVE StoredSound'
  OBVIOUS
<1>0. Books(Known) \subseteq Books(Known')
  BY PublishedGrows, KnownGrows
<1>a. StoredSound
  BY DEF LedgerSound
<1>b. \A s : Shelved(s) => s = {} \/ \E l \in Books(Known') : s = {l}
  BY <1>0 DEF Shelved
<1>s. ASSUME entries' \in Books(Known), Shelved(file'), lastPersistErr' \in BOOLEAN,
             DOMAIN snapshot' = Attempts, DOMAIN aside' = Attempts,
             \A w \in Attempts : Shelved(snapshot'[w]) /\ Shelved(aside'[w])
      PROVE  StoredSound'
  <2>1. (\A w \in Attempts : Shelved(snapshot[w])' /\ Shelved(aside[w])') /\ Shelved(file)'
    BY <1>b, <1>s DEF Shelved
  <2> QED
    BY <1>0, <1>s, <2>1 DEF StoredSound
<1>u. ASSUME UNCHANGED tombVars PROVE StoredSound'
  BY <1>a, <1>s, <1>u DEF tombVars, StoredSound
<1>1. ASSUME NEW a \in Attempts, SendSide(a) PROVE StoredSound'
  BY <1>1, <1>u, ReceiverUntouched
<1>2. ASSUME NEW a \in Attempts, ReceiverStep(a) PROVE StoredSound'
  <2>1. CASE RecordCompletion(a)
    <3> DEFINE e == [key |-> KeyOf[a], meta |-> Meta(a), sha |-> hashed[a]]
    <3>1. recv[a] = "record" /\ Ledger!Record(a, e) /\ published' = published
      BY <2>1 DEF RecordCompletion, diskVars
    <3>2. dup[a] = {} /\ Shown(a) /\ hashed[a] = Payload[a]
      BY <3>1 DEF LedgerSound, SessionSound, DiskSound, Settled
    <3>3. e \in Ledger!Entry
      BY <3>2 DEF Ledger!Entry, Keys
    <3>4. Backed(e)
      BY <3>2 DEF Backed
    <3>5. e \in Known
      BY <3>3, <3>4 DEF Known
    <3> HIDE DEF e
    <3>6. /\ entries' = Ledger!Recorded(entries, e) /\ snapshot' = [snapshot EXCEPT ![a] = {entries'}]
          /\ file' = file /\ aside' = aside /\ lastPersistErr' = lastPersistErr
      BY <3>1 DEF Ledger!Record
    <3>7. entries' \in Books(Known)
      BY <1>a, <3>5, <3>6, RecordedKeeps DEF StoredSound
    <3>8. Shelved({entries'})
      BY <3>7 DEF Shelved
    <3>9. \A w \in Attempts : Shelved(snapshot'[w])
      BY <1>a, <3>6, <3>8 DEF StoredSound
    <3> QED
      BY <1>a, <1>s, <3>6, <3>7, <3>9 DEF StoredSound
  <2>2. CASE PersistLedger(a)
    <3>1. Shelved({})
      BY DEF Shelved
    <3>2. Shelved(file) /\ Shelved(snapshot[a]) /\ Shelved(aside[a]) /\ entries' = entries
      BY <1>a, <2>2 DEF StoredSound, PersistLedger, Ledger!Persist, Ledger!MoveAside, Ledger!PersistFails
    <3>3. /\ file' \in {file, snapshot[a], aside[a], {}} /\ lastPersistErr' \in {lastPersistErr, TRUE}
          /\ snapshot' = [snapshot EXCEPT ![a] = {}] \/ snapshot' = snapshot
          /\ aside' = [aside EXCEPT ![a] = {}] \/ aside' = [aside EXCEPT ![a] = file]
      BY <2>2 DEF PersistLedger, Ledger!Persist, Ledger!MoveAside, Ledger!PersistFails
    <3>4. \A w \in Attempts : Shelved(snapshot'[w])
      BY <1>a, <3>1, <3>3 DEF StoredSound
    <3>5. \A w \in Attempts : Shelved(aside'[w])
      BY <1>a, <3>1, <3>2, <3>3 DEF StoredSound
    <3>6. Shelved(file')
      BY <3>1, <3>2, <3>3
    <3> QED
      BY <1>a, <1>s, <3>2, <3>3, <3>4, <3>5, <3>6 DEF StoredSound
  <2>3. CASE ~(RecordCompletion(a) \/ PersistLedger(a))
    <3>1. UNCHANGED tombVars
      BY <1>2, <2>3, Zenon DEF ReceiverStep, Lookup, Reserve, Stage, StageRefused, SendAck, RecvChunk, ChunkRefused, RecvConnError,
         Verify, VerifyRefused, CloseFails, SendComplete, Received, Done, Failed, Cleanup
    <3> QED
      BY <3>1, <1>u
  <2> QED
    BY <2>1, <2>2, <2>3
<1>3. CASE Crash
  <2>1. /\ entries' = <<>> \/ \E l \in file : entries' = Ledger!Pruned(l)
        /\ file' = file /\ lastPersistErr' = FALSE
        /\ snapshot' = [w \in Attempts |-> {}] /\ aside' = [w \in Attempts |-> {}]
    BY <1>3 DEF Crash, Ledger!Restart
  <2>2. \A l \in file : l \in Seq(Known) /\ KeysDiffer(l)
    BY <1>a DEF StoredSound, Shelved, Books
  <2>3. entries' \in Books(Known)
    BY <2>1, <2>2, PrunedKeeps, NothingKept
  <2>4. Shelved({})
    BY DEF Shelved
  <2> QED
    BY <1>a, <1>s, <2>1, <2>3, <2>4 DEF StoredSound
<1>4. CASE UNCHANGED vars
  BY <1>4, <1>u DEF vars
<1> QED
  BY <1>1, <1>2, <1>3, <1>4 DEF Next, SendSide

\* Lookup returns the entry recorded under the key it was asked for.
LEMMA LookupFinds ==
    ASSUME StoredSound, NEW k \in Keys, Ledger!KnownKey(k)
    PROVE  Ledger!EntryOf(k) \in Known /\ Ledger!EntryOf(k).key = k
<1>1. \E i \in DOMAIN entries : entries[i].key = k
  BY DEF Ledger!KnownKey, Ledger!KeysOf
<1>2. entries \in Seq(Known)
  BY DEF StoredSound, Books
<1> DEFINE i == CHOOSE i \in DOMAIN entries : entries[i].key = k
<1>3. i \in DOMAIN entries /\ entries[i].key = k
  BY <1>1
<1>4. entries[i] \in Known
  BY <1>2, <1>3, ElementOfSeq, LenProperties
<1> QED
  BY <1>3, <1>4 DEF Ledger!EntryOf

\* No step breaks SessionSound, also while other sessions record and restart.
LEMMA SessionsKept == DropTypes /\ DiskSound /\ LedgerSound /\ [Next]_vars => \A a \in Attempts : SessionSound(a)'
<1> SUFFICES ASSUME DropTypes, DiskSound, LedgerSound, [Next]_vars PROVE \A a \in Attempts : SessionSound(a)'
  OBVIOUS
<1>0. (\A a \in Attempts : Shown(a) => Shown(a)') /\ Known \subseteq Known'
  BY PublishedGrows, KnownGrows
<1>a. StoredSound /\ \A a \in Attempts : SessionSound(a)
  BY DEF LedgerSound
<1>u. ASSUME NEW a \in Attempts, recv'[a] = recv[a], dup'[a] = dup[a] PROVE SessionSound(a)'
  BY <1>0, <1>a, <1>u DEF SessionSound
<1>1. ASSUME NEW a \in Attempts, SendSide(a) PROVE \A b \in Attempts : SessionSound(b)'
  BY <1>1, <1>u, ReceiverUntouched
<1>2. ASSUME NEW a \in Attempts, ReceiverStep(a) PROVE \A b \in Attempts : SessionSound(b)'
  <2>0. \A b \in Attempts \ {a} : SessionSound(b)'
    BY <1>2, <1>u, OthersUntouched
  <2>1. CASE Lookup(a)
    <3>1. recv'[a] \in {"reserve", "failed"} /\ recv[a] = "idle"
      BY <2>1 DEF Lookup, Goto, Refuse, DropTypes
    <3>2. dup'[a] = dup[a] \/ (Ledger!KnownKey(KeyOf[a]) /\ dup'[a] = {Ledger!EntryOf(KeyOf[a])})
      BY <2>1 DEF Lookup, DropTypes
    <3>3. dup'[a] = {} \/ \E e \in Known : dup'[a] = {e} /\ e.key = KeyOf[a]
      BY <1>a, <3>2, LookupFinds DEF SessionSound, Keys
    <3> QED
      BY <1>0, <2>0, <3>1, <3>3 DEF SessionSound, Settled
  <2>2. CASE Verify(a)
    <3>1. recv'[a] = (IF dup[a] = {} THEN "record" ELSE "complete") /\ dup' = dup
      BY <2>2 DEF Verify, Goto, DropTypes
    <3>2. \A e \in dup[a] : e.sha = Payload[a]
      BY <2>2 DEF Verify, DigestOK
    <3>3. dup[a] = {} => Shown(a)'
      <4>1. CASE KindOf[a] = "file" /\ dup[a] = {}
        <5> DEFINE new == [by |-> a, bytes |-> hashed[a]]
        <5>1. new \in published' /\ new.by = a
          BY <2>2, <4>1 DEF Verify
        <5> QED
          BY <5>1 DEF Shown
      <4> QED
        BY <4>1 DEF Shown
    <3> QED
      BY <1>0, <1>a, <2>0, <3>1, <3>2, <3>3 DEF SessionSound, Settled
  <2>3. CASE ~(Lookup(a) \/ Verify(a))
    <3>1. dup' = dup
      BY <1>2, <2>3, Zenon DEF ReceiverStep, Reserve, Stage, StageRefused, SendAck, RecvChunk, ChunkRefused, RecvConnError,
         VerifyRefused, CloseFails, RecordCompletion, PersistLedger, SendComplete, Received, Done, Failed, Cleanup
    <3>2. \/ recv'[a] \notin Settled
          \/ recv[a] = "record" /\ recv'[a] = "persist"
          \/ recv[a] = "persist" /\ recv'[a] \in {"persist", "complete"}
          \/ recv[a] \in {"complete", "received"} /\ recv'[a] \in {"received", "done"}
      <4>1. ~(recv[a] = "verify" /\ recv'[a] \in {"record", "complete"})
        BY <1>2, <2>3, OnlyVerifySettles
      <4> QED
        BY <1>2, <4>1, SessionMoves DEF Leads, Settled
    <3> QED
      BY <1>0, <1>a, <2>0, <3>1, <3>2 DEF SessionSound, Settled
  <2> QED
    BY <2>1, <2>2, <2>3
<1>3. CASE Crash
  <2>1. \A a \in Attempts : dup'[a] = {} /\ recv'[a] \in {"idle", "ended"}
    BY <1>3 DEF Crash
  <2> QED
    BY <2>1 DEF SessionSound, Settled
<1>4. CASE UNCHANGED vars
  BY <1>4, <1>u DEF vars
<1> QED
  BY <1>1, <1>2, <1>3, <1>4 DEF Next, SendSide

-----------------------------------------------------------------------------
(*****************************************************************************)
(* The quota.                                                                *)
(*****************************************************************************)
\* The quota of this transfer, with what TransferQuotaProofs proves about it.
Counts == INSTANCE TransferQuotaProofs WITH
    Peers <- {"peer"}, DeclaredSizes <- {Size[a] : a \in Attempts},
    ChunkLengths <- {1}, DefaultChunkSize <- 1,
    MaxPerPeerTransfers <- 0, MaxPerPeerBytes <- 0,
    MaxTransferQuotaBytes <- 1000, entries <- peerEntries

\* The quota's assumptions hold of the constants of a transfer.
LEMMA CountsConstants ==
    /\ Counts!IsFiniteSet(Attempts)
    /\ {Size[a] : a \in Attempts} \subseteq Nat
    /\ MaxTransfers \in Nat /\ MaxBytes \in Nat
<1>1. Counts!IsFiniteSet(Attempts)
  BY DropConstants DEF IsFiniteSet, Counts!IsFiniteSet
<1>2. \A a \in Attempts : Size[a] \in Nat
  BY DropConstants, PayloadSeq
<1> QED
  BY <1>1, <1>2, DropConstants

\* The operations of the quota are those the proofs are about.
LEMMA CountsAgree ==
    /\ Quota!TypeOK <=> Counts!TypeOK
    /\ Quota!Init <=> Counts!Init
    /\ \A a \in Attempts : Quota!Acquire(a, "peer", Size[a]) => Counts!Acquire(a, "peer", Size[a])
    /\ \A a \in Attempts : Quota!AddBytes(a, 1) => Counts!AddBytes(a, 1)
    /\ \A a \in Attempts : Quota!Release(a) => Counts!Release(a)
<1>1. Quota!TypeOK <=> Counts!TypeOK
  BY DEF Quota!TypeOK, Counts!TypeOK, Quota!Usage, Counts!Usage, Quota!ByteCount, Counts!ByteCount,
         Quota!Lease, Counts!Lease, Quota!NoLease, Counts!NoLease
<1>2. Quota!Init <=> Counts!Init
  BY DEF Quota!Init, Counts!Init, Quota!NoLease, Counts!NoLease, Quota!NoUsage, Counts!NoUsage
<1>3. ASSUME NEW a \in Attempts
      PROVE  /\ Quota!Acquire(a, "peer", Size[a]) => Counts!Acquire(a, "peer", Size[a])
             /\ Quota!AddBytes(a, 1) => Counts!AddBytes(a, 1)
             /\ Quota!Release(a) => Counts!Release(a)
  <2> USE DEF Quota!NoOverflow, Counts!NoOverflow, Quota!Fits, Counts!Fits, Quota!NoLease, Counts!NoLease
  <2>1. Quota!Acquire(a, "peer", Size[a]) => Counts!Acquire(a, "peer", Size[a])
    BY DEF Quota!Acquire, Counts!Acquire, Quota!Admits, Counts!Admits, Quota!Reservation, Counts!Reservation,
           Quota!CapAt, Counts!CapAt, Quota!Under, Counts!Under
  <2>2. Quota!AddBytes(a, 1) => Counts!AddBytes(a, 1)
    BY DEF Quota!AddBytes, Counts!AddBytes
  <2>3. Quota!Release(a) => Counts!Release(a)
    BY DEF Quota!Release, Counts!Release, Quota!Decrement, Counts!Decrement, Quota!Subtract, Counts!Subtract,
           Quota!NoUsage, Counts!NoUsage
  <2> QED
    BY <2>1, <2>2, <2>3
<1> QED
  BY <1>1, <1>2, <1>3

\* What a step of a transfer does to the quota.
QuotaStep ==
    \/ \E a \in Attempts : \/ Quota!Acquire(a, "peer", Size[a]) \/ Quota!AddBytes(a, 1) \/ Quota!Release(a)
    \/ UNCHANGED quotaVars

\* Each of them keeps the counters typed and exact (TransferQuotaProofs).
LEMMA QuotaStepKeeps ==
    ASSUME QuotaStep
    PROVE  /\ Counts!TypeOK => Counts!TypeOK'
           /\ Counts!TypeOK /\ Counts!SessionsAccounted => Counts!SessionsAccounted'
           /\ Counts!ByteTotals /\ Counts!SessionsAccounted => Counts!ByteTotals'
<1>1. [Counts!Next]_Counts!vars
  <2>1. ASSUME NEW a \in Attempts, Quota!Acquire(a, "peer", Size[a]) PROVE Counts!Next
    BY <2>1, CountsAgree DEF Counts!Next
  <2>2. ASSUME NEW a \in Attempts, Quota!AddBytes(a, 1) PROVE Counts!Next
    BY <2>2, CountsAgree DEF Counts!Next
  <2>3. ASSUME NEW a \in Attempts, Quota!Release(a) PROVE Counts!Next
    BY <2>3, CountsAgree DEF Counts!Next
  <2>4. ASSUME UNCHANGED quotaVars PROVE UNCHANGED Counts!vars
    BY <2>4 DEF quotaVars, Counts!vars
  <2> QED
    BY <2>1, <2>2, <2>3, <2>4 DEF QuotaStep
<1> QED
  BY <1>1, CountsConstants, Counts!TypeKept, Counts!SessionsKept, Counts!BytesKept

\* A session holds a lease from Reserve until ReceiveDrop returns, and never
\* outside (the deferred Release, receiver.go).
LeaseSound == \A a \in Attempts :
    /\ recv[a] \in {"idle", "lookup", "reserve", "done", "cleanup", "ended"} => lease[a] = Quota!NoLease
    /\ recv[a] \in {"stage", "ack", "chunks", "verify"} \cup (Settled \ {"done"}) => lease[a] # Quota!NoLease

\* The counters are typed and count the leases and their bytes exactly, and the
\* leases are those of the sessions.
QuotaSound == Counts!TypeOK /\ Counts!SessionsAccounted /\ Counts!ByteTotals /\ LeaseSound

\* A restarted Hub has an empty quota.
LEMMA FreshCounts == (Counts!Init => Counts!TypeOK /\ Counts!SessionsAccounted /\ Counts!ByteTotals)'
<1>1. Counts!Init => Counts!TypeOK /\ Counts!SessionsAccounted /\ Counts!ByteTotals
  BY CountsConstants, Counts!TypeInitially, Counts!SessionsInitially, Counts!BytesInitially
<1> QED
  BY <1>1, PTL

\* No step of a transfer breaks the quota or takes or loses a lease off its turn.
LEMMA QuotaKept == DropTypes /\ QuotaSound /\ [Next]_vars => QuotaSound'
<1> SUFFICES ASSUME DropTypes, QuotaSound, [Next]_vars PROVE QuotaSound'
  OBVIOUS
<1>a. DOMAIN lease = Attempts
  BY DEF QuotaSound, Counts!TypeOK
<1>s. ASSUME QuotaStep PROVE Counts!TypeOK' /\ Counts!SessionsAccounted' /\ Counts!ByteTotals'
  BY <1>s, QuotaStepKeeps DEF QuotaSound
<1>u. ASSUME UNCHANGED <<recv, quotaVars>> PROVE QuotaSound'
  <2>1. QuotaStep /\ lease' = lease /\ recv' = recv
    BY <1>u DEF QuotaStep, quotaVars
  <2> QED
    BY <1>s, <2>1 DEF QuotaSound, LeaseSound
<1>1. ASSUME NEW a \in Attempts, SendSide(a) PROVE QuotaSound'
  BY <1>1, <1>u, ReceiverUntouched
<1>2. ASSUME NEW a \in Attempts, ReceiverStep(a) PROVE QuotaSound'
  <2>0. \A b \in Attempts \ {a} : recv'[b] = recv[b]
    BY <1>2, OthersUntouched
  <2>1. CASE Reserve(a)
    <3>1. CASE Quota!Acquire(a, "peer", Size[a])
      <4>1. recv[a] = "reserve" /\ recv'[a] \in {"stage", "ack", "failed"}
        BY <2>1 DEF Reserve, Goto, Refuse, DropTypes
      <4> DEFINE n == Quota!Reservation(Size[a])
                 new == [peer |-> "peer", bytes |-> n, unknown |-> Size[a] = 0]
      <4>2. lease' = [lease EXCEPT ![a] = new]
        BY <3>1 DEF Quota!Acquire
      <4>3. new # Quota!NoLease
        BY DEF Quota!NoLease
      <4> HIDE DEF new
      <4>4. LeaseSound'
        BY <1>a, <2>0, <4>1, <4>2, <4>3 DEF QuotaSound, LeaseSound, Settled
      <4>5. QuotaStep
        BY <3>1 DEF QuotaStep
      <4> QED
        BY <1>s, <4>4, <4>5 DEF QuotaSound
    <3>2. CASE UNCHANGED quotaVars /\ ~Quota!Acquire(a, "peer", Size[a])
      <4>1. recv'[a] = "failed"
        BY <2>1, <3>2 DEF Reserve, Goto, Refuse, DropTypes
      <4>2. lease' = lease /\ QuotaStep
        BY <3>2 DEF quotaVars, QuotaStep
      <4>3. LeaseSound'
        BY <2>0, <4>1, <4>2 DEF QuotaSound, LeaseSound, Settled
      <4> QED
        BY <1>s, <4>2, <4>3 DEF QuotaSound
    <3> QED
      BY <2>1, <3>1, <3>2 DEF Reserve
  <2>2. CASE RecvChunk(a)
    <3>1. recv[a] = "chunks" /\ recv'[a] \in {"chunks", "verify"}
      BY <2>2 DEF RecvChunk, Goto, DropTypes
    <3>2. Quota!AddBytes(a, 1) \/ UNCHANGED quotaVars
      BY <2>2 DEF RecvChunk
    <3>3. QuotaStep
      BY <3>2 DEF QuotaStep
    <3>4. lease[a] # Quota!NoLease
      BY <3>1 DEF QuotaSound, LeaseSound
    <3>5. lease'[a] # Quota!NoLease /\ \A b \in Attempts \ {a} : lease'[b] = lease[b]
      <4>1. CASE Quota!AddBytes(a, 1)
        <5>1. lease' = [lease EXCEPT ![a].bytes = @ + 1]
          BY <4>1 DEF Quota!AddBytes
        <5>2. lease[a] \in Counts!Lease
          BY <3>4 DEF QuotaSound, Counts!TypeOK, Quota!NoLease, Counts!NoLease
        <5> QED
          BY <1>a, <5>1, <5>2 DEF Counts!Lease, Quota!NoLease
      <4>2. CASE UNCHANGED quotaVars
        BY <3>4, <4>2 DEF quotaVars
      <4> QED
        BY <3>2, <4>1, <4>2
    <3>6. LeaseSound'
      BY <2>0, <3>1, <3>5 DEF QuotaSound, LeaseSound, Settled
    <3> QED
      BY <1>s, <3>3, <3>6 DEF QuotaSound
  <2>3. CASE Received(a) \/ (Failed(a) /\ lease[a] # Quota!NoLease)
    <3>1. recv'[a] \in {"done", "cleanup", "ended"} /\ Quota!Release(a)
      BY <2>3 DEF Received, Failed, Goto, DropTypes
    <3>2. lease' = [lease EXCEPT ![a] = Quota!NoLease]
      BY <3>1 DEF Quota!Release
    <3>3. LeaseSound'
      BY <1>a, <2>0, <3>1, <3>2 DEF QuotaSound, LeaseSound, Settled
    <3>4. QuotaStep
      BY <3>1 DEF QuotaStep
    <3> QED
      BY <1>s, <3>3, <3>4 DEF QuotaSound
  <2>4. CASE Failed(a) /\ lease[a] = Quota!NoLease
    <3>1. recv'[a] \in {"cleanup", "ended"} /\ UNCHANGED quotaVars
      BY <2>4 DEF Failed, Goto, DropTypes
    <3>2. lease' = lease /\ QuotaStep
      BY <3>1 DEF quotaVars, QuotaStep
    <3>3. LeaseSound'
      BY <2>0, <2>4, <3>1, <3>2 DEF QuotaSound, LeaseSound, Settled
    <3> QED
      BY <1>s, <3>2, <3>3 DEF QuotaSound
  <2>5. CASE ~(Reserve(a) \/ RecvChunk(a) \/ Received(a) \/ Failed(a))
    <3>1. UNCHANGED quotaVars
      BY <1>2, <2>5 DEF ReceiverStep, Lookup, Stage, StageRefused, SendAck, ChunkRefused, RecvConnError, Verify,
         VerifyRefused, CloseFails, RecordCompletion, PersistLedger, SendComplete, Done, Cleanup
    <3>2. lease' = lease /\ QuotaStep
      BY <3>1 DEF quotaVars, QuotaStep
    <3>3. \/ recv'[a] = "failed"
          \/ recv[a] \in {"idle", "done", "cleanup"} /\ recv'[a] \in {"reserve", "ended"}
          \/ /\ recv[a] \in {"stage", "ack", "chunks", "verify"} \cup (Settled \ {"done"})
             /\ recv'[a] \in {"ack", "chunks", "verify"} \cup (Settled \ {"done"})
      BY <1>2, <2>5 DEF DropTypes, Goto, Refuse, Settled, ReceiverStep, Lookup, Stage, StageRefused, SendAck, ChunkRefused,
         RecvConnError, Verify, VerifyRefused, CloseFails, RecordCompletion, PersistLedger, SendComplete, Done, Cleanup
    <3>4. LeaseSound'
      BY <2>0, <3>2, <3>3 DEF QuotaSound, LeaseSound, Settled
    <3> QED
      BY <1>s, <3>2, <3>4 DEF QuotaSound
  <2> QED
    BY <2>1, <2>2, <2>3, <2>4, <2>5
<1>3. CASE Crash
  <2>1. Counts!Init'
    BY <1>3 DEF Crash, Counts!Init, Quota!NoUsage, Counts!NoUsage, Quota!NoLease, Counts!NoLease
  <2>2. \A a \in Attempts : recv'[a] \in {"idle", "ended"} /\ lease'[a] = Quota!NoLease
    BY <1>3 DEF Crash
  <2>3. LeaseSound'
    BY <2>2 DEF LeaseSound, Settled
  <2> QED
    BY <2>1, <2>3, FreshCounts DEF QuotaSound
<1>4. CASE UNCHANGED vars
  BY <1>4, <1>u DEF vars
<1> QED
  BY <1>1, <1>2, <1>3, <1>4 DEF Next, SendSide

-----------------------------------------------------------------------------
(*****************************************************************************)
(* Messages in flight.                                                       *)
(*****************************************************************************)
\* The messages of a queue.
Msgs(s) == {s[i] : i \in 1 .. Len(s)}

\* Consuming a message or losing a tail adds none.
LEMMA MsgsShrink ==
    ASSUME NEW S, NEW s \in Seq(S)
    PROVE  /\ s # <<>> => Head(s) \in Msgs(s) /\ Msgs(Tail(s)) \subseteq Msgs(s)
           /\ \A j \in 0 .. Len(s) : Msgs(SubSeq(s, 1, j)) \subseteq Msgs(s)
<1>0. Len(s) \in Nat
  BY LenProperties
<1>1. ASSUME s # <<>> PROVE Head(s) \in Msgs(s) /\ Msgs(Tail(s)) \subseteq Msgs(s)
  <2>1. /\ Len(s) > 0 /\ Head(s) = s[1] /\ Len(Tail(s)) = Len(s) - 1
        /\ \A i \in 1 .. Len(Tail(s)) : Tail(s)[i] = s[i + 1]
    BY <1>0, <1>1, HeadTailProperties, EmptySeq, LenProperties
  <2>2. \A i \in 1 .. Len(Tail(s)) : i + 1 \in 1 .. Len(s)
    BY <1>0, <2>1
  <2>3. 1 \in 1 .. Len(s)
    BY <1>0, <2>1
  <2> QED
    BY <2>1, <2>2, <2>3 DEF Msgs
<1>2. ASSUME NEW j \in 0 .. Len(s) PROVE Msgs(SubSeq(s, 1, j)) \subseteq Msgs(s)
  <2>1. Len(SubSeq(s, 1, j)) = j /\ \A i \in 1 .. j : SubSeq(s, 1, j)[i] = s[i]
    BY <1>0, SubSeqProperties
  <2>2. \A i \in 1 .. j : i \in 1 .. Len(s)
    BY <1>0
  <2> QED
    BY <2>1, <2>2 DEF Msgs
<1> QED
  BY <1>1, <1>2

\* Sending adds exactly the message sent.
LEMMA MsgsAppend ==
    ASSUME NEW S, NEW s \in Seq(S), NEW m \in S
    PROVE  Msgs(Append(s, m)) = Msgs(s) \cup {m}
<1> DEFINE r == Append(s, m)
<1>1. /\ Len(s) \in Nat /\ Len(r) = Len(s) + 1 /\ r[Len(s) + 1] = m
      /\ \A i \in 1 .. Len(s) : r[i] = s[i]
  BY AppendProperties, LenProperties
<1> HIDE DEF r
<1>2. \A i \in 1 .. Len(r) : i \in 1 .. Len(s) \/ i = Len(s) + 1
  BY <1>1
<1>3. Len(s) + 1 \in 1 .. Len(r) /\ \A i \in 1 .. Len(s) : i \in 1 .. Len(r)
  BY <1>1
<1>4. ASSUME NEW x \in Msgs(r) PROVE x \in Msgs(s) \cup {m}
  <2>1. PICK i \in 1 .. Len(r) : x = r[i]
    BY DEF Msgs
  <2> QED
    BY <1>1, <1>2, <2>1 DEF Msgs
<1>5. m \in Msgs(r) /\ \A x \in Msgs(s) : x \in Msgs(r)
  BY <1>1, <1>3 DEF Msgs
<1> QED
  BY <1>4, <1>5 DEF r

\* An empty queue has no messages.
LEMMA MsgsEmpty == Msgs(<<>>) = {}
  BY DEF Msgs

\* Both directions of a connection are sequences of their messages.
LEMMA WireSeqs ==
    ASSUME WireSound, NEW a \in Attempts
    PROVE  toSend[a] \in Seq(Replies(a)) /\ toRecv[a] \in Seq(DataFrame \cup {MetaFrame})
<1>1. WireOf(a)
  BY DEF WireSound
<1>2. CASE recv[a] = "idle"
  <2> DEFINE T == DataFrame \cup {MetaFrame}
  <2>1. toRecv[a] \in {<<>>, <<MetaFrame>>} /\ toSend[a] \in Seq(Replies(a))
    BY <1>1, <1>2 DEF WireOf
  <2>2. MetaFrame \in T
    OBVIOUS
  <2> HIDE DEF T
  <2>3. <<>> \in Seq(T) /\ <<MetaFrame>> \in Seq(T)
    BY <2>2
  <2> QED
    BY <2>1, <2>3, Zenon DEF T
<1>3. CASE recv[a] # "idle"
  <2>1. toRecv[a] \in Seq(DataFrame)
    BY <1>1, <1>3 DEF WireOf
  <2>2. toRecv[a] \in Seq(DataFrame \cup {MetaFrame})
    BY <2>1, ElementOfSeq, LenProperties
  <2> QED
    BY <1>1, <2>2 DEF WireOf
<1> QED
  BY <1>2, <1>3

\* A sender's step adds the metadata or the next chunk, and nothing else.
LEMMA SenderMessages ==
    ASSUME DropTypes, WireSound, NEW a \in Attempts, SendSide(a)
    PROVE  /\ Msgs(toSend'[a]) \subseteq Msgs(toSend[a])
           /\ SendMeta(a) => Msgs(toRecv'[a]) = {MetaFrame}
           /\ SendChunk(a) => Msgs(toRecv'[a]) = Msgs(toRecv[a]) \cup {Frame(next[a])}
           /\ ~(SendMeta(a) \/ SendChunk(a)) => Msgs(toRecv'[a]) \subseteq Msgs(toRecv[a])
<1>0. toSend[a] \in Seq(Replies(a)) /\ toRecv[a] \in Seq(DataFrame \cup {MetaFrame})
  BY WireSeqs
<1>1. Msgs(toSend'[a]) \subseteq Msgs(toSend[a])
  <2>1. \/ toSend'[a] = toSend[a]
        \/ toSend[a] # <<>> /\ toSend'[a] = Tail(toSend[a])
        \/ \E j \in 0 .. Len(toSend[a]) : toSend'[a] = SubSeq(toSend[a], 1, j)
    BY Zenon DEF SendSide, SendMeta, SenderStep, SendInterrupted, ConnFail, RecvAck, SendChunk, RecvComplete,
           SendConnError, DropTypes
  <2> QED
    BY <1>0, <2>1, MsgsShrink, Zenon
<1>2. SendMeta(a) => Msgs(toRecv'[a]) = {MetaFrame}
  <2>1. SendMeta(a) => toRecv'[a] = <<MetaFrame>>
    BY DEF SendMeta, DropTypes
  <2>2. Msgs(<<MetaFrame>>) = {MetaFrame}
    BY OneFrame DEF Msgs
  <2> QED
    BY <2>1, <2>2
<1>3. SendChunk(a) => Msgs(toRecv'[a]) = Msgs(toRecv[a]) \cup {Frame(next[a])}
  <2>1. SendChunk(a) => toRecv'[a] = Append(toRecv[a], Frame(next[a]))
    BY DEF SendChunk, DropTypes
  <2>2. next[a] \in Nat
    BY PayloadSeq DEF WireSound, WireOf
  <2> DEFINE T == DataFrame \cup {MetaFrame}
  <2>3. Frame(next[a]) \in T /\ toRecv[a] \in Seq(T)
    BY <1>0, <2>2 DEF Frame, DataFrame
  <2> HIDE DEF T
  <2>4. Msgs(Append(toRecv[a], Frame(next[a]))) = Msgs(toRecv[a]) \cup {Frame(next[a])}
    BY <2>3, MsgsAppend
  <2> QED
    BY <2>1, <2>4, Zenon
<1>4. ~(SendMeta(a) \/ SendChunk(a)) => Msgs(toRecv'[a]) \subseteq Msgs(toRecv[a])
  <2>1. ~(SendMeta(a) \/ SendChunk(a)) =>
            \/ toRecv'[a] = toRecv[a]
            \/ \E j \in 0 .. Len(toRecv[a]) : toRecv'[a] = SubSeq(toRecv[a], 1, j)
    BY Zenon DEF SendSide, SenderStep, SendInterrupted, ConnFail, RecvAck, RecvComplete, SendConnError, EndSend, DropTypes
  <2> QED
    BY <1>0, <2>1, MsgsShrink, Zenon
<1> QED
  BY <1>1, <1>2, <1>3, <1>4

\* A receiver's step adds a refusal when it fails, the ack, or the completion.
LEMMA ReceiverMessages ==
    ASSUME DropTypes, DiskSound, WireSound, NEW a \in Attempts, ReceiverStep(a)
    PROVE  /\ Msgs(toRecv'[a]) \subseteq Msgs(toRecv[a])
           /\ \/ Msgs(toSend'[a]) \subseteq Msgs(toSend[a])
              \/ recv'[a] = "failed" /\ recv[a] # "complete" /\ Msgs(toSend'[a]) \subseteq Msgs(toSend[a]) \cup {Reject}
              \/ SendAck(a) /\ Msgs(toSend'[a]) \subseteq Msgs(toSend[a]) \cup {Ack(Len(hashed[a]))}
              \/ SendComplete(a) /\ Msgs(toSend'[a]) \subseteq Msgs(toSend[a]) \cup {Success(dup[a] # {}, hashed[a])}
<1>0. toSend[a] \in Seq(Replies(a)) /\ toRecv[a] \in Seq(DataFrame \cup {MetaFrame})
  BY WireSeqs
<1>1. Msgs(toRecv'[a]) \subseteq Msgs(toRecv[a])
  <2>1. \/ toRecv'[a] = toRecv[a]
        \/ toRecv[a] # <<>> /\ toRecv'[a] = Tail(toRecv[a])
    BY Zenon DEF DropTypes, ReceiverStep, Lookup, Reserve, Stage, StageRefused, SendAck, RecvChunk, ChunkRefused, RecvConnError,
       Verify, VerifyRefused, CloseFails, RecordCompletion, PersistLedger, SendComplete, Received, Done, Failed, Cleanup,
       wireVars
  <2> QED
    BY <1>0, <2>1, MsgsShrink
<1>2. ASSUME NEW m \in Replies(a), Reply(a, m) PROVE Msgs(toSend'[a]) \subseteq Msgs(toSend[a]) \cup {m}
  <2>1. toSend'[a] = toSend[a] \/ toSend'[a] = Append(toSend[a], m)
    BY <1>2 DEF Reply, DropTypes
  <2>2. Msgs(Append(toSend[a], m)) = Msgs(toSend[a]) \cup {m}
    BY <1>0, <1>2, MsgsAppend
  <2> QED
    BY <2>1, <2>2, Zenon
<1>3. /\ Ack(Len(hashed[a])) \in Replies(a) /\ Reject \in Replies(a)
      /\ Success(dup[a] # {}, hashed[a]) \in Replies(a)
  BY PayloadSeq DEF Replies, Ack, Success, DiskSound
<1>4. CASE SendAck(a)
  BY <1>2, <1>3, <1>4 DEF SendAck
<1>5. CASE SendComplete(a)
  BY <1>2, <1>3, <1>5 DEF SendComplete
<1>6. CASE ~(SendAck(a) \/ SendComplete(a))
  <2>1. toSend' = toSend \/ (recv'[a] = "failed" /\ recv[a] # "complete" /\ Reply(a, Reject))
    BY <1>6, Zenon DEF DropTypes, Goto, Refuse, ReceiverStep, Lookup, Reserve, Stage, StageRefused, RecvChunk, ChunkRefused,
       RecvConnError, Verify, VerifyRefused, CloseFails, RecordCompletion, PersistLedger, Received, Done, Failed, Cleanup,
       wireVars
  <2>2. CASE toSend' = toSend
    BY <1>1, <2>2
  <2>3. CASE recv'[a] = "failed" /\ recv[a] # "complete" /\ Reply(a, Reject)
    BY <1>1, <1>2, <1>3, <2>3
  <2> QED
    BY <2>1, <2>2, <2>3
<1> QED
  BY <1>1, <1>4, <1>5, <1>6

-----------------------------------------------------------------------------
(*****************************************************************************)
(* Reported successes.                                                       *)
(*****************************************************************************)
\* A completion message tells the truth about the disk.
Truthful(a, m) ==
    m.type = "complete" => IF m.dup THEN \E e \in Known : e.key = KeyOf[a] /\ e.sha = m.sha
                                    ELSE Shown(a)

\* The same content was delivered under the same key.
SameShown(a) == \E b \in Attempts : KeyOf[b] = KeyOf[a] /\ Payload[b] = Payload[a] /\ Shown(b)

\* What a message or an outcome says of a delivery is so.
SuccessSound == \A a \in Attempts :
    /\ \A m \in Msgs(toSend[a]) : Truthful(a, m)
    /\ outcome[a] = "verified" => Shown(a)
    /\ outcome[a] = "suppressed" => SameShown(a)

\* True claims stay true, since published files stay.
LEMMA TruthKept ==
    ASSUME published \subseteq published', NEW a \in Attempts
    PROVE  /\ Shown(a) => Shown(a)'
           /\ SameShown(a) => SameShown(a)'
           /\ \A m : Truthful(a, m) => Truthful(a, m)'
<1>1. (\A b \in Attempts : Shown(b) => Shown(b)') /\ Known \subseteq Known'
  BY KnownGrows
<1>2. SameShown(a) => SameShown(a)'
  BY <1>1 DEF SameShown
<1>3. ASSUME NEW m, Truthful(a, m) PROVE Truthful(a, m)'
  BY <1>1, <1>3 DEF Truthful
<1> QED
  BY <1>1, <1>2, <1>3

\* No step breaks SuccessSound: drop_complete is sent after publication and
\* recording, and a duplicate's digest was compared with the recorded one.
LEMMA SuccessKept ==
    DropTypes /\ DiskSound /\ WireSound /\ LedgerSound /\ SuccessSound /\ [Next]_vars => SuccessSound'
<1> SUFFICES ASSUME DropTypes, DiskSound, WireSound, LedgerSound, SuccessSound, [Next]_vars PROVE SuccessSound'
  OBVIOUS
<1>0. published \subseteq published'
  BY PublishedGrows
<1>k. ASSUME NEW b \in Attempts, Msgs(toSend'[b]) \subseteq Msgs(toSend[b]), outcome'[b] = outcome[b]
      PROVE  /\ \A m \in Msgs(toSend'[b]) : Truthful(b, m)'
             /\ outcome'[b] = "verified" => Shown(b)'
             /\ outcome'[b] = "suppressed" => SameShown(b)'
  BY <1>0, <1>k, TruthKept DEF SuccessSound
<1>1. ASSUME NEW a \in Attempts, SendSide(a) PROVE SuccessSound'
  <2>1. Msgs(toSend'[a]) \subseteq Msgs(toSend[a])
    BY <1>1, SenderMessages
  <2>2. \A b \in Attempts \ {a} : outcome'[b] = outcome[b] /\ toSend'[b] = toSend[b]
    BY <1>1, OtherSendersUntouched
  <2>3. (outcome'[a] = "verified" => Shown(a)') /\ (outcome'[a] = "suppressed" => SameShown(a)')
    <3>1. CASE RecvComplete(a)
      <4>1. toSend[a] # <<>> /\ toSend[a] \in Seq(Replies(a))
        BY <3>1, WireSeqs DEF RecvComplete
      <4> DEFINE m == Head(toSend[a])
      <4>2. m \in Msgs(toSend[a])
        BY <4>1, MsgsShrink
      <4>3. Truthful(a, m)
        BY <4>2 DEF SuccessSound
      <4>4. \/ outcome'[a] = "rejected"
            \/ /\ m.type = "complete" /\ m.sha = Payload[a]
               /\ outcome'[a] = IF m.dup THEN "suppressed" ELSE "verified"
        BY <3>1 DEF RecvComplete, EndSend, DropTypes
      <4>5. m \in Replies(a)
        BY <4>1, HeadTailProperties
      <4> HIDE DEF m
      <4>6. m.type = "complete" => m.dup \in BOOLEAN
        BY <4>5 DEF Replies, Reject
      <4>7. ASSUME m.type = "complete", m.sha = Payload[a], m.dup PROVE SameShown(a)
        <5>1. PICK e \in Known : e.key = KeyOf[a] /\ e.sha = m.sha
          BY <4>3, <4>7 DEF Truthful
        <5>2. Backed(e)
          BY DEF Known
        <5> QED
          BY <4>7, <5>1, <5>2 DEF Backed, SameShown
      <4>8. ASSUME m.type = "complete", ~m.dup PROVE Shown(a)
        BY <4>3, <4>8 DEF Truthful
      <4> QED
        BY <1>0, <4>4, <4>6, <4>7, <4>8, TruthKept
    <3>2. CASE ~RecvComplete(a)
      <4>1. outcome'[a] = outcome[a] \/ outcome'[a] \in {"rejected", "not_saved", "maybe_saved"}
        BY <1>1, <3>2 DEF SendSide, SendMeta, SenderStep, SendInterrupted, ConnFail, RecvAck, SendChunk,
               SendConnError, EndSend, Claim, DropTypes, sendVars
      <4> QED
        BY <1>0, <4>1, TruthKept DEF SuccessSound
    <3> QED
      BY <3>1, <3>2
  <2>4. \A m \in Msgs(toSend'[a]) : Truthful(a, m)'
    BY <1>0, <2>1, TruthKept DEF SuccessSound
  <2> QED
    BY <1>k, <2>2, <2>3, <2>4 DEF SuccessSound, Msgs
<1>2. ASSUME NEW a \in Attempts, ReceiverStep(a) PROVE SuccessSound'
  <2>1. outcome' = outcome
    BY <1>2, Zenon DEF ReceiverStep, Lookup, Reserve, Stage, StageRefused, SendAck, RecvChunk, ChunkRefused, RecvConnError, Verify,
       VerifyRefused, CloseFails, RecordCompletion, PersistLedger, SendComplete, Received, Done, Failed, Cleanup, sendVars
  <2>2. \A b \in Attempts \ {a} : toSend'[b] = toSend[b]
    BY <1>2, OthersUntouched
  <2>3. ASSUME NEW m \in Msgs(toSend'[a]) PROVE Truthful(a, m)'
    <3>1. CASE m \in Msgs(toSend[a])
      BY <1>0, <3>1, TruthKept DEF SuccessSound
    <3>2. CASE SendComplete(a) /\ m = Success(dup[a] # {}, hashed[a])
      <4>1. recv[a] = "complete" /\ hashed[a] = Payload[a]
        BY <3>2 DEF SendComplete, DiskSound
      <4>2. SessionSound(a)
        BY DEF LedgerSound
      <4>3. CASE dup[a] = {}
        <5>1. Shown(a)
          BY <4>1, <4>2, <4>3 DEF SessionSound, Settled
        <5>2. Truthful(a, m)
          BY <3>2, <4>3, <5>1, Zenon DEF Truthful, Success
        <5> QED
          BY <1>0, <5>2, TruthKept
      <4>4. CASE dup[a] # {}
        <5>1. PICK e \in Known : dup[a] = {e} /\ e.key = KeyOf[a]
          BY <4>2, <4>4 DEF SessionSound
        <5>2. e.sha = hashed[a]
          BY <4>1, <4>2, <5>1 DEF SessionSound
        <5>3. Truthful(a, m)
          BY <3>2, <4>4, <5>1, <5>2, Zenon DEF Truthful, Success
        <5> QED
          BY <1>0, <5>3, TruthKept
      <4> QED
        BY <4>3, <4>4
    <3>3. CASE m \in {Reject, Ack(Len(hashed[a]))}
      BY <3>3 DEF Truthful, Reject, Ack
    <3> QED
      BY <1>2, <3>1, <3>2, <3>3, ReceiverMessages, Zenon
  <2> QED
    BY <1>0, <1>k, <2>1, <2>2, <2>3, TruthKept DEF SuccessSound, Msgs
<1>3. CASE Crash
  <2>1. outcome' = outcome /\ toSend' = toSend
    BY <1>3 DEF Crash, sendVars
  <2> QED
    BY <1>k, <2>1 DEF SuccessSound, Msgs
<1>4. CASE UNCHANGED vars
  <2>1. outcome' = outcome /\ toSend' = toSend
    BY <1>4 DEF vars, sendVars, wireVars
  <2> QED
    BY <1>k, <2>1 DEF SuccessSound, Msgs
<1> QED
  BY <1>1, <1>2, <1>3, <1>4 DEF Next, SendSide

-----------------------------------------------------------------------------
(*****************************************************************************)
(* Reported failures.                                                        *)
(*****************************************************************************)
\* The session states in which nothing of the attempt has been published.
Receiving == Unanswered \cup {"chunks", "verify"}

\* The states of a session whose ReceiveDrop returned an error, or is over.
Refused == {"failed", "cleanup", "ended"}

\* Nothing of the attempt reached the user.
Untouched(a) == a \notin inbox /\ \A p \in published : p.by # a

\* The sender has sent its last chunk, and has not been told it failed.
Sent(a) == send[a] = "await_complete" \/ outcome[a] \in {"verified", "suppressed", "maybe_saved"}

\* The digest of the whole payload is on its way to the receiver.
FinalInFlight(a) == \E m \in Msgs(toRecv[a]) : m.type = "data" /\ m.index >= LastIndex(a)

\* A refusal in flight, or a session before verification, means nothing was
\* published; what was published, or is being verified, was sent to its end.
FailureSoundAt(a) ==
    /\ outcome[a] # "none" => send[a] = "ended"
    /\ send[a] \in {"streaming", "await_complete"} => recv[a] \notin Unanswered
    /\ recv[a] \in Unanswered \ {"idle"} => toRecv[a] = <<>>
    /\ Reject \in Msgs(toSend[a]) => recv[a] \in Refused /\ Untouched(a)
    /\ recv[a] \in Receiving => Untouched(a)
    /\ recv[a] \in {"verify"} \cup Settled => Sent(a)
    /\ recv[a] = "chunks" /\ FinalInFlight(a) => Sent(a)
    /\ Sent(a) \/ Untouched(a)

\* Every attempt.
FailureSound == \A a \in Attempts : FailureSoundAt(a)

\* The hypotheses of the failure claims: declared sizes, so that an interrupted
\* send knows bytes may have arrived, and no error from closing a published file
\* (finalizePartFile reports one after the file has its name).
Careful == (\A a \in Attempts : Size[a] > 0) /\ ~CloseMayFail

\* How a sender's steps move its claim: only a refusal, or a session that never
\* verified, lets it say less than maybe saved.
LEMMA StepsOfSender ==
    ASSUME DropTypes, Careful, FailureSound, WireSound, NEW a \in Attempts, SendSide(a)
    PROVE  /\ outcome'[a] # "none" => send'[a] = "ended"
           /\ send'[a] \in {"streaming", "await_complete"} => recv[a] \notin Unanswered
           /\ recv[a] \notin Refused \/ ~Untouched(a) => (Sent(a) => Sent(a)')
<1>1. FailureSoundAt(a) /\ WireOf(a)
  BY DEF FailureSound, WireSound
<1>2. CASE SendMeta(a)
  BY <1>1, <1>2 DEF SendMeta, DropTypes, FailureSoundAt, Sent
<1>3. CASE RecvAck(a)
  <2>1. /\ send[a] = "await_ack" /\ toSend[a] # <<>>
        /\ \/ send'[a] = "streaming" /\ outcome' = outcome
           \/ send'[a] = "ended" /\ outcome'[a] = "rejected"
    BY <1>3 DEF RecvAck, EndSend, DropTypes
  <2> QED
    BY <1>1, <2>1 DEF FailureSoundAt, WireOf, Sent
<1>4. CASE SendChunk(a)
  <2>1. send[a] = "streaming" /\ send'[a] \in {"streaming", "await_complete"} /\ outcome' = outcome
    BY <1>4 DEF SendChunk, DropTypes
  <2> QED
    BY <1>1, <2>1 DEF FailureSoundAt, Sent
<1>5. CASE RecvComplete(a)
  <2>1. /\ send[a] = "await_complete" /\ send'[a] = "ended" /\ toSend[a] # <<>>
        /\ \/ outcome'[a] \in {"verified", "suppressed"}
           \/ outcome'[a] = "rejected" /\ Head(toSend[a]).type = "reject"
    BY <1>5 DEF RecvComplete, EndSend, DropTypes
  <2>2. toSend[a] \in Seq(Replies(a))
    BY <1>1 DEF WireOf
  <2>3. Head(toSend[a]) \in Msgs(toSend[a]) /\ Head(toSend[a]) \in Replies(a)
    BY <2>1, <2>2, MsgsShrink, HeadTailProperties
  <2>4. Head(toSend[a]).type = "reject" => Head(toSend[a]) = Reject
    BY <2>3 DEF Replies, Reject
  <2>5. outcome'[a] = "rejected" => recv[a] \in Refused /\ Untouched(a)
    BY <1>1, <2>1, <2>3, <2>4 DEF FailureSoundAt
  <2> QED
    BY <2>1, <2>5 DEF Sent
<1>6. CASE SendInterrupted(a)
  <2>1. /\ send[a] \in {"await_ack", "streaming", "await_complete"} /\ send'[a] = "ended"
        /\ outcome'[a] = Claim(a, TRUE)
    BY <1>6 DEF SendInterrupted, EndSend, DropTypes
  <2>2. send[a] = "await_complete" => outcome'[a] = "maybe_saved"
    BY <2>1 DEF Claim, Careful
  <2>3. outcome[a] = "none"
    BY <1>1, <2>1 DEF FailureSoundAt
  <2> QED
    BY <2>1, <2>2, <2>3, Zenon DEF Sent
<1>7. CASE SendConnError(a)
  <2>1. /\ send[a] \in {"await_ack", "streaming", "await_complete"} /\ send'[a] = "ended"
        /\ outcome'[a] = Claim(a, FALSE)
    BY <1>7 DEF SendConnError, EndSend, DropTypes
  <2>2. send[a] = "await_complete" => outcome'[a] = "maybe_saved"
    BY <2>1 DEF Claim
  <2>3. outcome[a] = "none"
    BY <1>1, <2>1 DEF FailureSoundAt
  <2> QED
    BY <2>1, <2>2, <2>3, Zenon DEF Sent
<1>8. CASE ConnFail(a)
  BY <1>1, <1>8 DEF ConnFail, sendVars, FailureSoundAt, Sent
<1> QED
  BY <1>2, <1>3, <1>4, <1>5, <1>6, <1>7, <1>8 DEF SendSide, SenderStep

\* The frame that completes a payload is in flight only once it was sent.
LEMMA FinalFrame ==
    ASSUME DropTypes, Careful, FailureSound, WireSound, NEW a \in Attempts, SendSide(a), recv[a] = "chunks",
           FinalInFlight(a)'
    PROVE  Sent(a)'
<1>1. FailureSoundAt(a) /\ WireOf(a)
  BY DEF FailureSound, WireSound
<1>2. Sent(a) => Sent(a)'
  BY StepsOfSender DEF Refused
<1>3. CASE SendChunk(a) /\ next[a] >= LastIndex(a)
  BY <1>3 DEF SendChunk, Sent, DropTypes
<1>4. CASE SendChunk(a) /\ ~(next[a] >= LastIndex(a))
  <2>1. Msgs(toRecv'[a]) = Msgs(toRecv[a]) \cup {Frame(next[a])}
    BY <1>4, SenderMessages
  <2>2. Frame(next[a]).index = next[a]
    BY DEF Frame
  <2>3. FinalInFlight(a)
    BY <1>4, <2>1, <2>2 DEF FinalInFlight
  <2> QED
    BY <1>1, <1>2, <2>3 DEF FailureSoundAt
<1>5. CASE ~SendChunk(a)
  <2>1. ~SendMeta(a)
    BY <1>1 DEF SendMeta, WireOf
  <2>2. Msgs(toRecv'[a]) \subseteq Msgs(toRecv[a])
    BY <1>5, <2>1, SenderMessages
  <2>3. FinalInFlight(a)
    BY <2>2 DEF FinalInFlight
  <2> QED
    BY <1>1, <1>2, <2>3 DEF FailureSoundAt
<1> QED
  BY <1>3, <1>4, <1>5

\* A sender's step keeps FailureSoundAt of its attempt.
LEMMA SenderKeepsFailures ==
    ASSUME DropTypes, Careful, FailureSound, WireSound, NEW a \in Attempts, SendSide(a)
    PROVE  FailureSoundAt(a)'
<1>1. FailureSoundAt(a) /\ WireOf(a)
  BY DEF FailureSound, WireSound
<1>2. recv' = recv /\ inbox' = inbox /\ published' = published
  BY ReceiverUntouched DEF diskVars
<1>3. Untouched(a)' <=> Untouched(a)
  BY <1>2 DEF Untouched
<1>4. Msgs(toSend'[a]) \subseteq Msgs(toSend[a])
  BY SenderMessages
<1>5. recv[a] \in Unanswered \ {"idle"} => toRecv'[a] = <<>>
  <2> SUFFICES ASSUME recv[a] \in Unanswered \ {"idle"} PROVE toRecv'[a] = <<>>
    OBVIOUS
  <2>1. toRecv[a] = <<>> /\ ~SendMeta(a) /\ ~SendChunk(a)
    BY <1>1 DEF FailureSoundAt, WireOf, SendMeta, SendChunk
  <2>2. \/ toRecv'[a] = toRecv[a]
        \/ \E j \in 0 .. Len(toRecv[a]) : toRecv'[a] = SubSeq(toRecv[a], 1, j)
    BY <2>1, Zenon DEF SendSide, SenderStep, SendInterrupted, ConnFail, RecvAck, RecvComplete, SendConnError, EndSend, DropTypes
  <2> QED
    BY <2>1, <2>2, NothingCut
<1>6. recv[a] = "chunks" /\ FinalInFlight(a)' => Sent(a)'
  BY FinalFrame
<1>7. /\ outcome'[a] # "none" => send'[a] = "ended"
      /\ send'[a] \in {"streaming", "await_complete"} => recv[a] \notin Unanswered
      /\ recv[a] \notin Refused \/ ~Untouched(a) => (Sent(a) => Sent(a)')
  BY StepsOfSender
<1>8. recv[a] \in {"verify"} \cup Settled => Sent(a)'
  BY <1>1, <1>7 DEF FailureSoundAt, Refused, Settled
<1>9. Sent(a)' \/ Untouched(a)
  BY <1>1, <1>7 DEF FailureSoundAt
<1> QED
  BY <1>1, <1>2, <1>3, <1>4, <1>5, <1>6, <1>7, <1>8, <1>9 DEF FailureSoundAt

\* The steps of other attempts publish and hand over only their own files.
LEMMA OthersTouch ==
    ASSUME DropTypes, NEW a \in Attempts, SendSide(a) \/ ReceiverStep(a), NEW b \in Attempts \ {a}
    PROVE  Untouched(b)' <=> Untouched(b)
<1>1. CASE SendSide(a)
  BY <1>1, ReceiverUntouched DEF Untouched, diskVars
<1>2. CASE ReceiverStep(a)
  <2>1. inbox' = inbox \/ inbox' = inbox \cup {a}
    BY <1>2, Zenon DEF ReceiverStep, Lookup, Reserve, Stage, StageRefused, SendAck, RecvChunk, ChunkRefused, RecvConnError, Verify,
       VerifyRefused, CloseFails, RecordCompletion, PersistLedger, SendComplete, Received, Done, Failed, Cleanup
  <2>2. published' = published \/ \E x : published' = published \cup {[by |-> a, bytes |-> x]}
    BY <1>2, Zenon DEF ReceiverStep, Lookup, Reserve, Stage, StageRefused, SendAck, RecvChunk, ChunkRefused, RecvConnError, Verify,
       VerifyRefused, CloseFails, RecordCompletion, PersistLedger, SendComplete, Received, Done, Failed, Cleanup, diskVars
  <2>3. (b \in inbox') <=> (b \in inbox)
    BY <2>1
  <2>4. (\A p \in published' : p.by # b) <=> (\A p \in published : p.by # b)
    BY <2>2
  <2> QED
    BY <2>3, <2>4 DEF Untouched
<1> QED
  BY <1>1, <1>2

\* The steps of one attempt keep FailureSoundAt of the others.
LEMMA OthersKeepFailures ==
    ASSUME DropTypes, FailureSound, NEW a \in Attempts, SendSide(a) \/ ReceiverStep(a), NEW b \in Attempts \ {a}
    PROVE  FailureSoundAt(b)'
<1>1. recv'[b] = recv[b] /\ toRecv'[b] = toRecv[b] /\ toSend'[b] = toSend[b]
  BY OtherSendersUntouched, ReceiverUntouched, OthersUntouched
<1>2. send'[b] = send[b] /\ outcome'[b] = outcome[b]
  <2>1. CASE SendSide(a)
    BY <2>1, OtherSendersUntouched
  <2>2. CASE ReceiverStep(a)
    BY <2>2, Zenon DEF ReceiverStep, Lookup, Reserve, Stage, StageRefused, SendAck, RecvChunk, ChunkRefused, RecvConnError, Verify,
       VerifyRefused, CloseFails, RecordCompletion, PersistLedger, SendComplete, Received, Done, Failed, Cleanup, sendVars
  <2> QED
    BY <2>1, <2>2
<1>3. Untouched(b)' <=> Untouched(b)
  BY OthersTouch
<1>4. (Sent(b)' <=> Sent(b)) /\ (FinalInFlight(b)' <=> FinalInFlight(b))
  BY <1>1, <1>2 DEF Sent, FinalInFlight, Msgs
<1>5. FailureSoundAt(b)
  BY DEF FailureSound
<1> QED
  BY <1>1, <1>2, <1>3, <1>4, <1>5 DEF FailureSoundAt, Msgs

\* A receiver's step keeps FailureSoundAt of its attempt: a refusal is sent only
\* by a session that published nothing.
LEMMA ReceiverKeepsFailures ==
    ASSUME DropTypes, DiskSound, Careful, FailureSound, WireSound, NEW a \in Attempts, ReceiverStep(a)
    PROVE  FailureSoundAt(a)'
<1> USE DEF DropTypes
<1>1. FailureSoundAt(a) /\ WireOf(a)
  BY DEF FailureSound, WireSound
<1>2. send' = send /\ outcome' = outcome
  BY Zenon DEF ReceiverStep, Lookup, Reserve, Stage, StageRefused, SendAck, RecvChunk, ChunkRefused, RecvConnError, Verify,
     VerifyRefused, CloseFails, RecordCompletion, PersistLedger, SendComplete, Received, Done, Failed, Cleanup, sendVars
<1>3. Sent(a)' <=> Sent(a)
  BY <1>2 DEF Sent
<1>4. (Untouched(a)' <=> Untouched(a)) \/ Verify(a) \/ Received(a)
  <2> SUFFICES ASSUME ~(Verify(a) \/ Received(a)) PROVE Untouched(a)' <=> Untouched(a)
    OBVIOUS
  <2>1. inbox' = inbox /\ published' = published
    BY Zenon DEF ReceiverStep, Lookup, Reserve, Stage, StageRefused, SendAck, RecvChunk, ChunkRefused, RecvConnError,
       VerifyRefused, CloseFails, Careful, RecordCompletion, PersistLedger, SendComplete, Done, Failed, Cleanup, diskVars
  <2> QED
    BY <2>1 DEF Untouched
<1>5. Msgs(toRecv'[a]) \subseteq Msgs(toRecv[a])
  BY ReceiverMessages
<1>6. Reject \in Msgs(toSend'[a]) => Reject \in Msgs(toSend[a]) \/ (recv'[a] = "failed" /\ recv[a] # "complete")
  <2>1. Reject # Ack(Len(hashed[a])) /\ Reject # Success(dup[a] # {}, hashed[a])
    BY DEF Reject, Ack, Success
  <2> QED
    BY <2>1, ReceiverMessages
<1>7. CASE recv[a] \in Unanswered
  <2>1. ~Verify(a) /\ ~Received(a)
    BY <1>7 DEF Unanswered, Verify, Received
  <2>2. recv'[a] \in (Unanswered \ {"idle"}) \cup {"chunks", "failed"}
    BY <1>7, SessionMoves DEF Leads, Unanswered
  <2>3. toRecv'[a] = <<>>
    <3>1. CASE recv[a] = "idle"
      <4>1. toRecv[a] # <<>> /\ toRecv'[a] = Tail(toRecv[a])
        BY <3>1 DEF ReceiverStep, Lookup, Reserve, Stage, StageRefused, SendAck, RecvChunk, ChunkRefused,
           RecvConnError, Verify, VerifyRefused, CloseFails, RecordCompletion, PersistLedger, SendComplete, Received,
           Done, Failed, Cleanup
      <4>2. toRecv[a] = <<MetaFrame>>
        BY <1>1, <3>1, <4>1 DEF WireOf
      <4> QED
        BY <4>1, <4>2, OneFrame
    <3>2. CASE recv[a] # "idle"
      <4>1. toRecv'[a] = toRecv[a]
        BY <1>7, <3>2, Zenon DEF Unanswered, ReceiverStep, Lookup, Reserve, Stage, StageRefused, SendAck, RecvChunk, ChunkRefused,
           RecvConnError, Verify, VerifyRefused, CloseFails, RecordCompletion, PersistLedger, SendComplete, Received,
           Done, Failed, Cleanup, wireVars
      <4> QED
        BY <1>1, <1>7, <3>2, <4>1 DEF FailureSoundAt
    <3> QED
      BY <3>1, <3>2
  <2>4. ~FinalInFlight(a)'
    BY <2>3 DEF FinalInFlight, Msgs
  <2>5. send[a] \notin {"streaming", "await_complete"} /\ Untouched(a)
    BY <1>1, <1>7 DEF FailureSoundAt, Receiving
  <2>6. Reject \in Msgs(toSend'[a]) => recv'[a] = "failed"
    <3>1. Reject \notin Msgs(toSend[a])
      BY <1>1, <1>7 DEF FailureSoundAt, Refused, Unanswered
    <3> QED
      BY <1>6, <3>1
  <2>7. Untouched(a)'
    BY <1>4, <2>1, <2>5
  <2> QED
    BY <1>1, <1>2, <2>2, <2>3, <2>4, <2>5, <2>6, <2>7 DEF FailureSoundAt, Refused, Settled, Unanswered
<1>8. CASE recv[a] = "chunks"
  <2>1. ~Verify(a) /\ ~Received(a)
    BY <1>8 DEF Verify, Received
  <2>2. Untouched(a) /\ Reject \notin Msgs(toSend[a])
    BY <1>1, <1>8 DEF FailureSoundAt, Receiving, Refused
  <2>3. Untouched(a)'
    BY <1>4, <2>1, <2>2
  <2>4. recv'[a] \in {"chunks", "verify", "failed"}
    BY <1>8, SessionMoves DEF Leads
  <2>5. Reject \in Msgs(toSend'[a]) => recv'[a] = "failed"
    BY <1>6, <2>2
  <2>6. recv'[a] = "chunks" /\ FinalInFlight(a)' => Sent(a)
    BY <1>1, <1>5, <1>8 DEF FailureSoundAt, FinalInFlight
  <2>7. recv'[a] = "verify" => Sent(a)
    <3> SUFFICES ASSUME recv'[a] = "verify" PROVE Sent(a)
      OBVIOUS
    <3>1. toRecv[a] # <<>> /\ Head(toRecv[a]).index >= LastIndex(a)
      BY <1>8, Zenon DEF Goto, Refuse, ReceiverStep, Lookup, Reserve, Stage, StageRefused, SendAck, RecvChunk, ChunkRefused,
         RecvConnError, Verify, VerifyRefused, CloseFails, RecordCompletion, PersistLedger, SendComplete, Received, Done,
         Failed, Cleanup
    <3>2. toRecv[a] \in Seq(DataFrame)
      BY <1>1, <1>8 DEF WireOf
    <3>3. Head(toRecv[a]) \in Msgs(toRecv[a]) /\ Head(toRecv[a]) \in DataFrame
      BY <3>1, <3>2, MsgsShrink, HeadTailProperties
    <3>4. FinalInFlight(a)
      BY <3>1, <3>3 DEF FinalInFlight, DataFrame
    <3> QED
      BY <1>1, <1>8, <3>4 DEF FailureSoundAt
  <2> QED
    BY <1>1, <1>2, <1>3, <2>3, <2>4, <2>5, <2>6, <2>7 DEF FailureSoundAt, Refused, Settled, Unanswered
<1>9. CASE recv[a] \in {"verify"} \cup Settled
  <2>1. Sent(a) /\ Reject \notin Msgs(toSend[a])
    BY <1>1, <1>9 DEF FailureSoundAt, Refused, Settled
  <2>2. recv'[a] \in Settled \cup {"failed", "ended"}
    BY <1>9, SessionMoves DEF Leads, Settled
  <2>3. Reject \in Msgs(toSend'[a]) => recv'[a] = "failed" /\ Untouched(a)'
    <3> SUFFICES ASSUME Reject \in Msgs(toSend'[a]) PROVE recv'[a] = "failed" /\ Untouched(a)'
      OBVIOUS
    <3>1. recv'[a] = "failed" /\ recv[a] # "complete"
      BY <1>6, <2>1
    <3>2. recv[a] = "verify" /\ ~Verify(a) /\ ~Received(a)
      BY <1>9, <3>1, Zenon DEF Settled, Goto, Refuse, ReceiverStep, Lookup, Reserve, Stage, StageRefused, SendAck, RecvChunk,
         ChunkRefused, RecvConnError, Verify, VerifyRefused, CloseFails, RecordCompletion, PersistLedger, SendComplete,
         Received, Done, Failed, Cleanup
    <3>3. Untouched(a)
      BY <1>1, <3>2 DEF FailureSoundAt, Receiving
    <3> QED
      BY <1>4, <3>1, <3>2, <3>3
  <2> QED
    BY <1>1, <1>2, <1>3, <2>1, <2>2, <2>3 DEF FailureSoundAt, Refused, Settled, Unanswered, Receiving
<1>10. CASE recv[a] \in Refused
  <2>1. ~Verify(a) /\ ~Received(a)
    BY <1>10 DEF Refused, Verify, Received
  <2>2. recv'[a] \in Refused
    BY <1>10, SessionMoves DEF Leads, Refused
  <2>3. toSend' = toSend
    BY <1>10, Zenon DEF Refused, ReceiverStep, Lookup, Reserve, Stage, StageRefused, SendAck, RecvChunk, ChunkRefused,
       RecvConnError, Verify, VerifyRefused, CloseFails, RecordCompletion, PersistLedger, SendComplete, Received, Done,
       Failed, Cleanup
  <2> QED
    BY <1>1, <1>2, <1>3, <1>4, <2>1, <2>2, <2>3 DEF FailureSoundAt, Refused, Settled, Unanswered, Receiving, Msgs
<1> QED
  BY <1>7, <1>8, <1>9, <1>10 DEF RecvStates, Unanswered, Settled, Refused

\* No step, the receiver's restart included, breaks FailureSound.
LEMMA FailureKept ==
    Careful /\ DropTypes /\ DiskSound /\ WireSound /\ FailureSound /\ [Next]_vars => FailureSound'
<1> SUFFICES ASSUME Careful, DropTypes, DiskSound, WireSound, FailureSound, [Next]_vars PROVE FailureSound'
  OBVIOUS
<1>1. ASSUME NEW a \in Attempts, SendSide(a) PROVE FailureSound'
  BY <1>1, SenderKeepsFailures, OthersKeepFailures DEF FailureSound
<1>2. ASSUME NEW a \in Attempts, ReceiverStep(a) PROVE FailureSound'
  BY <1>2, ReceiverKeepsFailures, OthersKeepFailures DEF FailureSound
<1>3. CASE Crash
  <2> SUFFICES ASSUME NEW a \in Attempts PROVE FailureSoundAt(a)'
    BY DEF FailureSound
  <2>1. FailureSoundAt(a) /\ WireOf(a)
    BY DEF FailureSound, WireSound
  <2>2. /\ send' = send /\ outcome' = outcome /\ toSend' = toSend /\ published' = published /\ inbox' = {}
        /\ recv'[a] = IF send[a] = "idle" THEN "idle" ELSE "ended"
    BY <1>3 DEF Crash, sendVars
  <2>3. (Untouched(a) => Untouched(a)') /\ (Sent(a)' <=> Sent(a))
    BY <2>2 DEF Untouched, Sent
  <2>4. send[a] = "idle" => recv[a] = "idle"
    BY <2>1 DEF WireOf
  <2>5. send[a] = "idle" => Untouched(a) /\ Reject \notin Msgs(toSend[a])
    BY <2>1, <2>4 DEF FailureSoundAt, Receiving, Unanswered, Refused
  <2> QED
    BY <2>1, <2>2, <2>3, <2>4, <2>5 DEF FailureSoundAt, Receiving, Unanswered, Refused, Settled, Msgs
<1>4. CASE UNCHANGED vars
  BY <1>4 DEF vars, sendVars, wireVars, diskVars, FailureSound, FailureSoundAt, Untouched, Sent, FinalInFlight, Msgs
<1> QED
  BY <1>1, <1>2, <1>3, <1>4 DEF Next, SendSide

-----------------------------------------------------------------------------
(*****************************************************************************)
(* The theorems.                                                             *)
(*****************************************************************************)
\* The inductive invariant of a transfer.
DropInv == DropTypes /\ Owned /\ DiskSound /\ WireSound /\ LedgerSound /\ QuotaSound /\ SuccessSound

\* It holds before anything is sent.
LEMMA DropInitially == Init => DropInv /\ FailureSound
<1> SUFFICES ASSUME Init PROVE DropInv /\ FailureSound
  OBVIOUS
<1> USE DEF Init
<1>1. DropTypes
  BY DropConstants DEF DropTypes, SendStates, RecvStates, Outcomes
<1>2. Owned
  BY DEF Owned, Staged
<1>3. <<>> \in Seq(Chunks) /\ Len(<<>>) = 0 /\ DOMAIN <<>> = {}
  OBVIOUS
<1>4. DiskSound
  BY <1>3, PayloadSeq DEF DiskSound
<1>5. WireSound
  <2> SUFFICES ASSUME NEW a \in Attempts PROVE WireOf(a)
    BY DEF WireSound
  <2>1. recv[a] = "idle" /\ send[a] = "idle" /\ toSend[a] = <<>> /\ toRecv[a] = <<>> /\ next[a] = 1
    OBVIOUS
  <2>2. <<>> \in Seq(Replies(a)) /\ 1 \in 1 .. Len(Payload[a]) + 1
    BY PayloadSeq
  <2>3. Len(<<>>) <= 2 /\ Len(<<>>) <= 1 /\ Len(<<>>) <= ChannelCap
    BY DropConstants
  <2> QED
    BY <2>1, <2>2, <2>3 DEF WireOf
<1>6. LedgerSound
  <2>1. <<>> \in Books(Known)
    BY NothingKept
  <2>2. StoredSound
    BY <2>1, Zenon DEF StoredSound, Shelved, Ledger!TombInit
  <2>3. \A a \in Attempts : SessionSound(a)
    BY DEF SessionSound, Settled
  <2> QED
    BY <2>2, <2>3 DEF LedgerSound
<1>7. QuotaSound
  <2>1. Counts!TypeOK /\ Counts!SessionsAccounted /\ Counts!ByteTotals
    BY CountsAgree, CountsConstants, Counts!TypeInitially, Counts!SessionsInitially, Counts!BytesInitially
  <2>2. LeaseSound
    BY DEF LeaseSound, Quota!Init, Settled
  <2> QED
    BY <2>1, <2>2 DEF QuotaSound
<1>8. \A a \in Attempts : Msgs(toSend[a]) = {} /\ Msgs(toRecv[a]) = {}
  BY MsgsEmpty
<1>9. SuccessSound
  BY <1>8 DEF SuccessSound
<1>10. FailureSound
  BY <1>8 DEF FailureSound, FailureSoundAt, Untouched, Settled, Sent, Refused
<1> QED
  BY <1>1, <1>2, <1>4, <1>5, <1>6, <1>7, <1>9, <1>10 DEF DropInv

\* It is kept by every step.
LEMMA DropKept == DropInv /\ [Next]_vars => DropInv'
<1> SUFFICES ASSUME DropInv, [Next]_vars PROVE DropInv'
  OBVIOUS
<1>1. DropTypes' /\ Owned' /\ DiskSound' /\ WireSound' /\ QuotaSound' /\ SuccessSound'
  BY TypesKept, OwnedKept, DiskKept, WireKept, QuotaKept, SuccessKept DEF DropInv
<1>2. LedgerSound'
  BY StoredKept, SessionsKept DEF DropInv, LedgerSound
<1> QED
  BY <1>1, <1>2 DEF DropInv

\* A ledger of backed completions is a well-formed ledger.
LEMMA LedgersTyped == LedgerSound => Ledger!TombTypeOK
<1> SUFFICES ASSUME LedgerSound PROVE Ledger!TombTypeOK
  OBVIOUS
<1>1. Books(Known) \subseteq Ledger!Ledger
  BY BooksAreLedgers DEF Known
<1>2. /\ entries \in Books(Known) /\ Shelved(file) /\ lastPersistErr \in BOOLEAN
      /\ \A w \in Attempts : Shelved(snapshot[w]) /\ Shelved(aside[w])
  BY DEF LedgerSound, StoredSound
<1>3. \A s : Shelved(s) => Ledger!OneAtMost(s)
  BY <1>1 DEF Shelved, Ledger!OneAtMost
<1> QED
  BY <1>1, <1>2, <1>3 DEF Ledger!TombTypeOK

\* The invariant gives every variable its type.
LEMMA DropTyped == DropInv => TypeOK
<1> SUFFICES ASSUME DropInv PROVE TypeOK
  OBVIOUS
<1> USE DEF DropInv
<1>1. Ledger!TombTypeOK /\ Quota!TypeOK
  BY LedgersTyped, CountsAgree DEF QuotaSound
<1>2. \A a \in Attempts : dup[a] \subseteq Ledger!Entry
  BY DEF LedgerSound, SessionSound, Known
<1>3. ASSUME NEW a \in Attempts PROVE hashed[a] \in BoundedSeq(Chunks, Len(Payload[a]))
  <2>1. hashed[a] \in Seq(Chunks) /\ Len(hashed[a]) <= Len(Payload[a])
    BY DEF DiskSound
  <2>2. Len(hashed[a]) \in 0 .. Len(Payload[a])
    BY <2>1, PayloadSeq, LenProperties
  <2>3. hashed[a] \in [1 .. Len(hashed[a]) -> Chunks]
    BY <2>1, LenProperties
  <2> QED
    BY <2>2, <2>3 DEF BoundedSeq, SeqOf
<1>4. \A a \in Attempts : /\ next[a] \in 1 .. Len(Payload[a]) + 1
                          /\ Len(toRecv[a]) <= ChannelCap /\ Len(toSend[a]) <= 2
  BY DEF WireSound, WireOf
<1>5. \A p \in published : p.by \in Attempts
  BY DEF DiskSound
<1> QED
  BY <1>1, <1>2, <1>3, <1>4, <1>5 DEF TypeOK, DropTypes

\* The invariant of every behaviour of a transfer, crashes included.
LEMMA DropInvariant == Spec => []DropInv
  BY DropInitially, DropKept, PTL DEF Spec

\* Every variable of a transfer keeps its type: the queues stay within their
\* buffers, the ledger within its cap with one entry per key, the quota's counters
\* within their width (tombstone.go:193-219, quota.go:100-204).
THEOREM DropTypeSafe == Spec => []TypeOK
  BY DropInvariant, DropTyped, PTL

\* A published file is the payload of the attempt that published it, whatever
\* partial it resumed, however attempts interleave and wherever the receiver
\* crashes (receiver.go, finalizePartFile).
THEOREM FilesIntact == Spec => []PublishedIntact
<1>1. DropInv => PublishedIntact
  BY DEF DropInv, DiskSound, PublishedIntact
<1> QED
  BY <1>1, DropInvariant, PTL

\* A session that staged data owns its drop_id until OnDropDoneAttempt, so no
\* other attempt writes its partial or is torn down by its cleanup (hub.go).
THEOREM DropsOwned == Spec => []StagedOwnsDrop
<1>1. DropInv => StagedOwnsDrop
  BY DropTyped DEF DropInv, Owned, StagedOwnsDrop
<1> QED
  BY <1>1, DropInvariant, PTL

\* Every session that is over has given back its lease, and no transfer slot is
\* in use and no byte reserved when no session runs (the deferred Release of
\* ReceiveDrop, receiver.go).
THEOREM LeasesGivenBack == Spec => []QuotaReturned
<1>1. DropInv => QuotaReturned
  <2> SUFFICES ASSUME DropInv PROVE QuotaReturned
    OBVIOUS
  <2>1. LeaseSound /\ Counts!SessionsAccounted /\ Counts!ByteTotals
    BY DEF DropInv, QuotaSound
  <2>2. \A a \in Attempts : recv[a] \in {"idle", "done", "cleanup", "ended"} => lease[a] = Quota!NoLease
    BY <2>1 DEF LeaseSound
  <2>3. ASSUME \A a \in Attempts : recv[a] \in {"idle", "cleanup", "ended"}
        PROVE activeTransfers = 0 /\ activeBytes = 0
    <3>1. Counts!Held = {}
      BY <2>2, <2>3 DEF Counts!Held, Quota!NoLease, Counts!NoLease
    <3> QED
      BY <2>1, <3>1, CountsConstants, Counts!NothingHeld, Counts!NothingReserved
  <2> QED
    BY <2>2, <2>3 DEF QuotaReturned
<1> QED
  BY <1>1, DropInvariant, PTL

\* The hypothesis of the success claims: a text lives in the inbox, which a crash
\* empties.
OnlyFiles == \A a \in Attempts : KindOf[a] = "file"

\* A send of a file reported verified or suppressed was delivered, by this attempt
\* or under the same key with the same content, and crashes, lost completions and
\* concurrent retries do not change it (SendDrop, receiver.go).
THEOREM SuccessesTrue == OnlyFiles => (Spec => []SuccessClaimsTrue)
<1>1. OnlyFiles /\ DropInv => SuccessClaimsTrue
  BY DEF OnlyFiles, DropInv, SuccessSound, SameShown, Shown, SuccessClaimsTrue, Delivered
<1>2. ASSUME OnlyFiles PROVE Spec => []SuccessClaimsTrue
  <2>1. DropInv => SuccessClaimsTrue
    BY <1>1, <1>2
  <2> QED
    BY <2>1, DropInvariant, PTL
<1> QED
  BY <1>2

\* A send reported rejected or not saved has not published and never will
\* (ClassifyTransferError, ReceiveDrop).
THEOREM FailuresTrue == Careful => (Spec => []FailureClaimsTrue)
<1>1. FailureSound => FailureClaimsTrue
  BY DEF FailureSound, FailureSoundAt, Untouched, Sent, FailureClaimsTrue
<1>2. DropInv /\ FailureSound /\ Careful /\ [Next]_vars => FailureSound'
  BY FailureKept DEF DropInv
<1>3. ASSUME Careful PROVE Spec => []FailureClaimsTrue
  <2>1. DropInv /\ FailureSound /\ [Next]_vars => FailureSound'
    BY <1>2, <1>3
  <2> QED
    BY <1>1, <2>1, DropInitially, DropInvariant, PTL DEF Spec
<1> QED
  BY <1>3

\* Whatever a send of a file ends with, what its user is told is so.
THEOREM ClaimsHold == OnlyFiles /\ Careful => (Spec => []ClaimsTrue)
<1>1. FailureClaimsTrue /\ SuccessClaimsTrue => ClaimsTrue
  BY DEF ClaimsTrue
<1> QED
  BY <1>1, SuccessesTrue, FailuresTrue, PTL

-----------------------------------------------------------------------------
(*****************************************************************************)
(* Attempts that take turns.                                                 *)
(*****************************************************************************)
\* The hypotheses of delivery at most once: a retry starts when the attempt before
\* it is over, the receiver neither crashes nor fails to close what it published,
\* and the ledger has room for every key.
Sequential == ~Overlap /\ ~CloseMayFail /\ MaxCrashes = 0 /\ Cardinality(Keys) <= MaxEntries

\* There are finitely many keys.
LEMMA KeysFinite == IsFiniteSet(Keys) /\ Cardinality(Keys) \in Nat
<1> DEFINE f == [a \in Attempts |-> KeyOf[a]]
<1>1. f \in Surjection(Attempts, Keys)
  BY DEF Surjection, Keys
<1>2. IsFiniteSet(Attempts)
  BY DropConstants
<1> QED
  BY <1>1, <1>2, FS_Surjection, FS_CardinalityType

\* A ledger is no longer than there are keys.
LEMMA FewEntries ==
    ASSUME NEW l \in Seq(Ledger!Entry), KeysDiffer(l)
    PROVE  Len(l) <= Cardinality(Keys)
<1> DEFINE f == [i \in 1 .. Len(l) |-> l[i].key]
<1>1. Len(l) \in Nat /\ DOMAIN l = 1 .. Len(l)
  BY LenProperties
<1>2. \A i \in 1 .. Len(l) : l[i] \in Ledger!Entry
  BY ElementOfSeq
<1>3. \A i \in 1 .. Len(l) : l[i].key \in Keys
  BY <1>2 DEF Ledger!Entry
<1>4. f \in Injection(1 .. Len(l), Keys)
  <2>1. \A i, j \in 1 .. Len(l) : f[i] = f[j] => i = j
    BY <1>1 DEF KeysDiffer
  <2>2. f \in [1 .. Len(l) -> Keys]
    BY <1>3
  <2> QED
    BY <2>1, <2>2 DEF Injection, IsInjective
<1> HIDE DEF f
<1>5. Cardinality(1 .. Len(l)) <= Cardinality(Keys)
  BY <1>4, KeysFinite, FS_Injection
<1>6. Cardinality(1 .. Len(l)) = Len(l)
  <2>1. Cardinality(1 .. Len(l)) = IF 1 > Len(l) THEN 0 ELSE Len(l) - 1 + 1
    BY <1>1, FS_Interval
  <2> QED
    BY <1>1, <2>1
<1> QED
  BY <1>5, <1>6

\* With room for every key, Record forgets none.
LEMMA RecordedKeys ==
    ASSUME Sequential, NEW E, E \subseteq Ledger!Entry, NEW l \in Books(E), NEW e \in E
    PROVE  Ledger!KeysOf(l) \cup {e.key} \subseteq Ledger!KeysOf(Ledger!Recorded(l, e))
<1> DEFINE w == Without(l, e.key)
           r == Append(w, e)
<1>1. l \in Seq(E) /\ KeysDiffer(l)
  BY DEF Books
<1>2. Ledger!Recorded(l, e) = Ledger!Pruned(r)
  BY DEF Ledger!Recorded, Ledger!RemoveAt, Without
<1>3. /\ w \in Seq(E) /\ KeysDiffer(w) /\ \A i \in DOMAIN w : w[i].key # e.key
      /\ \A i \in DOMAIN l : l[i].key = e.key \/ \E j \in DOMAIN w : w[j] = l[i]
  BY <1>1, WithoutKeeps
<1> HIDE DEF w
<1>4. r \in Seq(E) /\ KeysDiffer(r) /\ e.key \in Ledger!KeysOf(r) /\ Ledger!KeysOf(w) \subseteq Ledger!KeysOf(r)
  BY <1>3, AppendKeeps
<1> HIDE DEF r
<1>5. Ledger!KeysOf(l) \subseteq Ledger!KeysOf(w) \cup {e.key}
  BY <1>3 DEF Ledger!KeysOf
<1>6. r \in Seq(Ledger!Entry) /\ Len(r) \in Nat
  BY <1>4, ElementOfSeq, LenProperties
<1>7. Len(r) <= Cardinality(Keys)
  BY <1>4, <1>6, FewEntries
<1>8. Ledger!Pruned(r) = r
  BY <1>6, <1>7, KeysFinite, DropConstants DEF Ledger!Pruned, Sequential
<1> QED
  BY <1>2, <1>4, <1>5, <1>8

\* At most one attempt runs at a time.
Alone == \A a, b \in Attempts : a # b => Quiet(a) \/ Quiet(b)

\* An attempt that is over starts nothing.
LEMMA QuietRests ==
    ASSUME DropTypes, NEW a \in Attempts, SendSide(a) \/ ReceiverStep(a), NEW b \in Attempts, Quiet(b)
    PROVE  /\ Quiet(b)' \/ (b = a /\ SendMeta(a))
           /\ b = a => ~ReceiverStep(a)
<1>1. b = a => ~ReceiverStep(a)
  BY Zenon DEF Quiet, ReceiverStep, Lookup, Reserve, Stage, StageRefused, SendAck, RecvChunk, ChunkRefused, RecvConnError, Verify,
     VerifyRefused, CloseFails, RecordCompletion, PersistLedger, SendComplete, Received, Done, Failed, Cleanup
<1>2. CASE b # a
  <2>1. recv'[b] = recv[b] /\ toRecv'[b] = toRecv[b]
    BY <1>2, OtherSendersUntouched, ReceiverUntouched, OthersUntouched
  <2>2. send'[b] = send[b]
    <3>1. CASE SendSide(a)
      BY <1>2, <3>1, OtherSendersUntouched
    <3>2. CASE ReceiverStep(a)
      BY <3>2, Zenon DEF ReceiverStep, Lookup, Reserve, Stage, StageRefused, SendAck, RecvChunk, ChunkRefused, RecvConnError, Verify,
         VerifyRefused, CloseFails, RecordCompletion, PersistLedger, SendComplete, Received, Done, Failed, Cleanup, sendVars
    <3> QED
      BY <3>1, <3>2
  <2> QED
    BY <1>2, <2>1, <2>2 DEF Quiet
<1>3. CASE b = a /\ ~SendMeta(a)
  <2>1. ConnFail(a)
    BY <1>1, <1>3, Zenon DEF SendSide, Quiet, SenderStep, SendInterrupted, RecvAck, SendChunk, RecvComplete, SendConnError
  <2>2. send' = send /\ recv' = recv /\ \E j \in 0 .. Len(toRecv[a]) : toRecv'[a] = SubSeq(toRecv[a], 1, j)
    BY <2>1 DEF ConnFail, sendVars, DropTypes
  <2>3. Quiet(a)
    BY <1>3
  <2>4. toRecv[a] = <<>> => toRecv'[a] = <<>>
    BY <2>2, NothingCut
  <2>a. send'[a] = send[a] /\ recv'[a] = recv[a]
    BY <2>2
  <2> DEFINE clear == toRecv[a] = <<>>
             cleared == toRecv'[a] = <<>>
  <2>b. send[a] \in {"idle", "ended"} /\ (recv[a] = "ended" \/ (recv[a] = "idle" /\ clear))
    BY <2>3 DEF Quiet
  <2>c. clear => cleared
    BY <2>4
  <2>d. Quiet(a)' <=> send'[a] \in {"idle", "ended"} /\ (recv'[a] = "ended" \/ (recv'[a] = "idle" /\ cleared))
    BY DEF Quiet
  <2> HIDE DEF clear, cleared
  <2>5. Quiet(a)'
    BY <2>a, <2>b, <2>c, <2>d
  <2>6. Quiet(b)'
    BY <1>3, <2>5
  <2> QED
    BY <1>1, <2>6
<1> QED
  BY <1>1, <1>2, <1>3

\* A retry that waits for the attempt before it keeps Alone, across crashes too.
LEMMA AloneKept == ~Overlap /\ DropTypes /\ Alone /\ [Next]_vars => Alone'
<1> SUFFICES ASSUME ~Overlap, DropTypes, Alone, [Next]_vars PROVE Alone'
  OBVIOUS
<1>1. ASSUME NEW a \in Attempts, SendSide(a) \/ ReceiverStep(a) PROVE Alone'
  <2>1. CASE SendMeta(a)
    <3>1. \A b \in Attempts \ {a} : Quiet(b)
      BY <2>1 DEF SendMeta
    <3>2. \A b \in Attempts \ {a} : Quiet(b)'
      BY <1>1, <3>1, QuietRests
    <3> QED
      BY <3>2 DEF Alone
  <2>2. CASE ~SendMeta(a)
    <3>1. \A b \in Attempts : Quiet(b) => Quiet(b)'
      BY <1>1, <2>2, QuietRests
    <3> QED
      BY <3>1 DEF Alone
  <2> QED
    BY <2>1, <2>2
<1>2. CASE Crash
  <2>1. /\ send' = send
        /\ \A b \in Attempts : recv'[b] \in {"idle", "ended"} /\ toRecv'[b] = <<>>
    BY <1>2 DEF Crash, sendVars
  <2>2. \A b \in Attempts : Quiet(b) => Quiet(b)'
    BY <2>1 DEF Quiet
  <2> QED
    BY <2>2 DEF Alone
<1>3. CASE UNCHANGED vars
  BY <1>3 DEF vars, sendVars, wireVars, Alone, Quiet
<1> QED
  BY <1>1, <1>2, <1>3 DEF Next, SendSide

\* The states of a session before its completion is recorded.
Unsettled == {"reserve", "stage", "ack", "chunks", "verify"}

\* Every published file is in the ledger, or about to be recorded.
Recalled == \A p \in published : KeyOf[p.by] \in Ledger!KeysOf(entries) \/ recv[p.by] = "record"

\* The key has neither a completion nor a file.
Fresh(a) == KeyOf[a] \notin Ledger!KeysOf(entries) /\ \A p \in published : KeyOf[p.by] # KeyOf[a]

\* One file per key, remembered by the ledger, and no file yet of a key that a
\* session found unknown.
OnceSound ==
    /\ AtMostOncePublication /\ Recalled
    /\ \A a \in Attempts : recv[a] \in Unsettled /\ dup[a] = {} => Fresh(a)

\* The copy a session still writes is the ledger itself; with none to write and no
\* error, the file is.
DurableSound ==
    /\ Alone
    /\ DOMAIN snapshot = Attempts
    /\ \A a \in Attempts : snapshot[a] = IF recv[a] = "persist" THEN {entries} ELSE {}
    /\ ~lastPersistErr /\ (\A a \in Attempts : recv[a] # "persist") => entries = <<>> \/ file = {entries}

\* While one session steps the others are idle or over.
LEMMA OnlyOneRuns ==
    ASSUME DropTypes, Alone, NEW a \in Attempts, ReceiverStep(a), NEW b \in Attempts \ {a}
    PROVE  recv[b] \in {"idle", "ended"} /\ recv'[b] = recv[b] /\ dup'[b] = dup[b]
<1>1. ~Quiet(a)
  BY QuietRests
<1>2. Quiet(b)
  BY <1>1 DEF Alone
<1> QED
  BY <1>2, OthersUntouched DEF Quiet

\* No step breaks DurableSound, the restart included.
LEMMA DurableKept == ~Overlap /\ DropInv /\ DurableSound /\ [Next]_vars => DurableSound'
<1> SUFFICES ASSUME ~Overlap, DropInv, DurableSound, [Next]_vars PROVE DurableSound'
  OBVIOUS
<1>0. Alone' /\ Alone /\ DropTypes
  BY AloneKept DEF DropInv, DurableSound
<1>u. ASSUME UNCHANGED <<recv, entries, file, snapshot, lastPersistErr>> PROVE DurableSound'
  BY <1>0, <1>u DEF DurableSound
<1>1. ASSUME NEW a \in Attempts, SendSide(a) PROVE DurableSound'
  BY <1>1, <1>u, ReceiverUntouched DEF tombVars
<1>2. ASSUME NEW a \in Attempts, ReceiverStep(a) PROVE DurableSound'
  <2>1. \A b \in Attempts \ {a} : recv[b] \in {"idle", "ended"} /\ recv'[b] = recv[b]
    BY <1>0, <1>2, OnlyOneRuns
  <2>2. CASE RecordCompletion(a)
    <3>1. /\ recv'[a] = "persist" /\ snapshot' = [snapshot EXCEPT ![a] = {entries'}]
      BY <1>0, <2>2 DEF RecordCompletion, Ledger!Record, Goto, DropTypes
    <3> QED
      BY <1>0, <2>1, <3>1 DEF DurableSound
  <2>3. CASE PersistLedger(a)
    <3>1. CASE Ledger!MoveAside(a) /\ Goto(a, "persist")
      BY <1>0, <2>1, <2>3, <3>1 DEF PersistLedger, Ledger!MoveAside, Goto, DropTypes, DurableSound
    <3>2. CASE Ledger!Persist(a) \/ Ledger!PersistFails(a)
      <4>1. /\ recv[a] = "persist" /\ recv'[a] \in {"persist", "complete"}
            /\ entries' = entries /\ snapshot' = [snapshot EXCEPT ![a] = {}]
        BY <1>0, <2>3, <3>2 DEF PersistLedger, Ledger!Persist, Ledger!PersistFails, Goto, DropTypes
      <4>2. recv'[a] = "complete"
        BY <1>0, <2>3, <3>2 DEF PersistLedger, Ledger!Persist, Ledger!PersistFails, Ledger!MoveAside, Goto, DropTypes
      <4>3. file' = {entries} \/ lastPersistErr' = TRUE
        BY <3>2, <4>1 DEF Ledger!Persist, Ledger!PersistFails, DurableSound
      <4> QED
        BY <1>0, <2>1, <4>1, <4>2, <4>3 DEF DurableSound
    <3> QED
      BY <2>3, <3>1, <3>2 DEF PersistLedger
  <2>4. CASE ~(RecordCompletion(a) \/ PersistLedger(a))
    <3>1. UNCHANGED <<entries, file, snapshot, lastPersistErr>>
      BY <1>2, <2>4, Zenon DEF ReceiverStep, Lookup, Reserve, Stage, StageRefused, SendAck, RecvChunk, ChunkRefused, RecvConnError,
         Verify, VerifyRefused, CloseFails, SendComplete, Received, Done, Failed, Cleanup, tombVars
    <3>2. recv[a] # "persist" /\ recv'[a] # "persist"
      BY <1>0, <1>2, <2>4, Zenon DEF ReceiverStep, Lookup, Reserve, Stage, StageRefused, SendAck, RecvChunk, ChunkRefused,
         RecvConnError, Verify, VerifyRefused, CloseFails, SendComplete, Received, Done, Failed, Cleanup, Goto, Refuse,
         DropTypes
    <3> QED
      BY <1>0, <2>1, <3>1, <3>2 DEF DurableSound
  <2> QED
    BY <2>2, <2>3, <2>4
<1>3. CASE Crash
  <2>1. /\ \A a \in Attempts : recv'[a] \in {"idle", "ended"}
        /\ entries' = <<>> \/ \E l \in file : entries' = Ledger!Pruned(l)
        /\ snapshot' = [w \in Attempts |-> {}] /\ file' = file
    BY <1>3 DEF Crash, Ledger!Restart
  <2>2. \A l \in file : Ledger!Pruned(l) = l /\ file = {l}
    <3>1. \A l \in file : l \in Seq(Known) /\ Len(l) <= MaxEntries /\ file = {l}
      BY DEF DropInv, LedgerSound, StoredSound, Shelved, Books
    <3>2. \A l \in file : ~(Len(l) - MaxEntries > 0)
      BY <3>1, LenProperties, DropConstants
    <3> QED
      BY <3>1, <3>2 DEF Ledger!Pruned
  <2> QED
    BY <1>0, <2>1, <2>2 DEF DurableSound
<1>4. CASE UNCHANGED vars
  BY <1>4, <1>u DEF vars, tombVars
<1> QED
  BY <1>1, <1>2, <1>3, <1>4 DEF Next, SendSide

\* No step publishes a second file of a key: Verify publishes only for a session
\* whose Lookup found the key unknown, and nobody else ran since.
LEMMA OnceKept == Sequential /\ DropInv /\ Alone /\ OnceSound /\ [Next]_vars => OnceSound'
<1> SUFFICES ASSUME Sequential, DropInv, Alone, OnceSound, [Next]_vars PROVE OnceSound'
  OBVIOUS
<1>0. DropTypes
  BY DEF DropInv
<1>1. ASSUME NEW a \in Attempts, SendSide(a) PROVE OnceSound'
  <2>1. UNCHANGED <<recv, dup, published, entries, file, snapshot, lastPersistErr>>
    BY <1>1, ReceiverUntouched DEF diskVars, tombVars
  <2> QED
    BY <2>1 DEF OnceSound, Recalled, Fresh, AtMostOncePublication, Ledger!KeysOf
<1>2. ASSUME NEW a \in Attempts, ReceiverStep(a) PROVE OnceSound'
  <2>1. \A b \in Attempts \ {a} : recv[b] \in {"idle", "ended"} /\ recv'[b] = recv[b] /\ dup'[b] = dup[b]
    BY <1>0, <1>2, OnlyOneRuns
  <2>2. CASE Verify(a)
    <3>1. /\ recv[a] = "verify" /\ recv'[a] \in {"record", "complete"} /\ dup' = dup
          /\ recv'[a] = "record" <=> dup[a] = {}
          /\ entries' = entries
      BY <1>0, <2>2 DEF Verify, Goto, DropTypes, tombVars
    <3>2. \/ published' = published
          \/ dup[a] = {} /\ published' = published \cup {[by |-> a, bytes |-> hashed[a]]}
      BY <2>2 DEF Verify, diskVars
    <3>3. dup[a] = {} => Fresh(a)
      BY <3>1 DEF OnceSound, Unsettled
    <3>4. \A p \in published' : p \in published \/ (p = [by |-> a, bytes |-> hashed[a]] /\ dup[a] = {})
      BY <3>2
    <3>5. AtMostOncePublication'
      BY <3>3, <3>4 DEF OnceSound, AtMostOncePublication, Fresh
    <3>6. Recalled'
      <4> SUFFICES ASSUME NEW p \in published'
                   PROVE  KeyOf[p.by] \in Ledger!KeysOf(entries)' \/ recv'[p.by] = "record"
        BY DEF Recalled
      <4>1. CASE p \in published
        <5>1. p.by \in Attempts
          BY <4>1 DEF DropInv, DiskSound
        <5>2. recv[p.by] # "record"
          BY <2>1, <3>1, <5>1
        <5> QED
          BY <3>1, <4>1, <5>2 DEF OnceSound, Recalled, Ledger!KeysOf
      <4>2. CASE p.by = a /\ dup[a] = {}
        BY <3>1, <4>2
      <4> QED
        BY <3>4, <4>1, <4>2
    <3>7. \A b \in Attempts : recv'[b] \notin Unsettled
      BY <2>1, <3>1 DEF Unsettled
    <3> QED
      BY <3>5, <3>6, <3>7 DEF OnceSound
  <2>3. CASE RecordCompletion(a)
    <3> DEFINE e == [key |-> KeyOf[a], meta |-> Meta(a), sha |-> hashed[a]]
    <3>1. /\ recv[a] = "record" /\ recv'[a] = "persist" /\ dup' = dup /\ published' = published
          /\ entries' = Ledger!Recorded(entries, e)
      BY <1>0, <2>3 DEF RecordCompletion, Ledger!Record, Goto, DropTypes, diskVars
    <3>2. e \in Ledger!Entry
      <4>1. hashed[a] = Payload[a]
        BY <3>1 DEF DropInv, DiskSound
      <4> QED
        BY <4>1 DEF Ledger!Entry, Keys
    <3>3. entries \in Books(Ledger!Entry)
      <4>1. entries \in Seq(Known) /\ Len(entries) <= MaxEntries /\ KeysDiffer(entries)
        BY DEF DropInv, LedgerSound, StoredSound, Books
      <4>2. entries \in Seq(Ledger!Entry)
        BY <4>1, ElementOfSeq, LenProperties DEF Known
      <4> QED
        BY <4>1, <4>2 DEF Books
    <3>4. e.key = KeyOf[a]
      OBVIOUS
    <3> HIDE DEF e
    <3>5. Ledger!KeysOf(entries) \cup {e.key} \subseteq Ledger!KeysOf(Ledger!Recorded(entries, e))
      BY <3>2, <3>3, RecordedKeys
    <3>6. Recalled'
      <4> SUFFICES ASSUME NEW p \in published
                   PROVE  KeyOf[p.by] \in Ledger!KeysOf(entries')
        BY <3>1 DEF Recalled, Ledger!KeysOf
      <4>1. p.by \in Attempts
        BY DEF DropInv, DiskSound
      <4>2. KeyOf[p.by] \in Ledger!KeysOf(entries) \/ p.by = a
        BY <2>1, <4>1 DEF OnceSound, Recalled
      <4> QED
        BY <3>1, <3>4, <3>5, <4>2
    <3>7. \A b \in Attempts : recv'[b] \notin Unsettled
      BY <2>1, <3>1 DEF Unsettled
    <3>8. AtMostOncePublication'
      BY <3>1 DEF OnceSound, AtMostOncePublication
    <3> QED
      BY <3>6, <3>7, <3>8 DEF OnceSound
  <2>4. CASE PersistLedger(a)
    <3>1. /\ recv[a] = "persist" /\ recv'[a] \in {"persist", "complete"} /\ dup' = dup /\ published' = published
          /\ entries' = entries
      BY <1>0, <2>4 DEF PersistLedger, Ledger!Persist, Ledger!MoveAside, Ledger!PersistFails, Goto, DropTypes, diskVars
    <3>2. Recalled' /\ AtMostOncePublication'
      BY <2>1, <3>1 DEF OnceSound, Recalled, AtMostOncePublication, Ledger!KeysOf, DropInv, DiskSound
    <3>3. \A b \in Attempts : recv'[b] \notin Unsettled
      BY <2>1, <3>1 DEF Unsettled
    <3> QED
      BY <3>2, <3>3 DEF OnceSound
  <2>5. CASE ~(Verify(a) \/ RecordCompletion(a) \/ PersistLedger(a))
    <3>1. UNCHANGED <<published, entries>>
      BY <1>2, <2>5, Zenon DEF ReceiverStep, Lookup, Reserve, Stage, StageRefused, SendAck, RecvChunk, ChunkRefused, RecvConnError,
         VerifyRefused, CloseFails, Sequential, SendComplete, Received, Done, Failed, Cleanup, diskVars, tombVars
    <3>2. recv[a] \notin {"record", "persist"} /\ recv'[a] \notin {"record", "persist"}
      BY <1>0, <1>2, <2>5, Zenon DEF ReceiverStep, Lookup, Reserve, Stage, StageRefused, SendAck, RecvChunk, ChunkRefused,
         RecvConnError, VerifyRefused, CloseFails, SendComplete, Received, Done, Failed, Cleanup, Goto, Refuse, DropTypes
    <3>3. recv'[a] \in Unsettled /\ dup'[a] = {} => Fresh(a)
      <4> SUFFICES ASSUME recv'[a] \in Unsettled, dup'[a] = {} PROVE Fresh(a)
        OBVIOUS
      <4>1. CASE Lookup(a)
        <5>1. recv[a] = "idle" /\ KeyOf[a] \notin Ledger!KeysOf(entries)
          <6>1. Ledger!KnownKey(KeyOf[a]) => recv'[a] = "failed" \/ dup'[a] = {Ledger!EntryOf(KeyOf[a])}
            BY <1>0, <4>1, Zenon DEF Lookup, Goto, Refuse, DropTypes
          <6>2. recv[a] = "idle" /\ recv'[a] # "failed"
            BY <4>1 DEF Lookup, Unsettled
          <6> QED
            BY <6>1, <6>2 DEF Ledger!KnownKey
        <5>2. ASSUME NEW p \in published, KeyOf[p.by] = KeyOf[a] PROVE FALSE
          <6>1. p.by \in Attempts /\ recv[p.by] = "record"
            BY <5>1, <5>2 DEF OnceSound, Recalled, DropInv, DiskSound
          <6> QED
            BY <2>1, <5>1, <6>1
        <5> QED
          BY <5>1, <5>2 DEF Fresh
      <4>2. CASE ~Lookup(a)
        <5>1. recv[a] \in Unsettled /\ dup'[a] = dup[a]
          BY <1>0, <1>2, <4>2, Zenon DEF Unsettled, ReceiverStep, Reserve, Stage, StageRefused, SendAck, RecvChunk, ChunkRefused,
             RecvConnError, Verify, VerifyRefused, CloseFails, RecordCompletion, PersistLedger, SendComplete, Received, Done,
             Failed, Cleanup, Goto, Refuse, DropTypes
        <5> QED
          BY <5>1 DEF OnceSound
      <4> QED
        BY <4>1, <4>2
    <3>4. \A b \in Attempts : recv'[b] \in Unsettled /\ dup'[b] = {} => Fresh(b)'
      BY <2>1, <3>1, <3>3 DEF Fresh, Ledger!KeysOf, Unsettled
    <3>5. Recalled' /\ AtMostOncePublication'
      BY <2>1, <3>1, <3>2 DEF OnceSound, Recalled, AtMostOncePublication, Ledger!KeysOf, DropInv, DiskSound
    <3> QED
      BY <3>4, <3>5 DEF OnceSound
  <2> QED
    BY <2>2, <2>3, <2>4, <2>5
<1>3. CASE Crash
  BY <1>0, <1>3 DEF Crash, Sequential, DropTypes
<1>4. CASE UNCHANGED vars
  BY <1>4 DEF vars, diskVars, tombVars, OnceSound, Recalled, Fresh, AtMostOncePublication, Ledger!KeysOf
<1> QED
  BY <1>1, <1>2, <1>3, <1>4 DEF Next, SendSide

\* Nothing is published or recorded at first.
LEMMA OnceInitially == Init => OnceSound /\ DurableSound
<1> SUFFICES ASSUME Init PROVE OnceSound /\ DurableSound
  OBVIOUS
<1>1. Alone
  BY DEF Init, Alone, Quiet
<1>2. Recalled /\ AtMostOncePublication
  BY DEF Init, Recalled, AtMostOncePublication
<1>3. \A a \in Attempts : recv[a] = "idle"
  BY DEF Init
<1>4. DOMAIN snapshot = Attempts /\ (\A a \in Attempts : snapshot[a] = {}) /\ entries = <<>>
  BY DEF Init, Ledger!TombInit
<1> QED
  BY <1>1, <1>2, <1>3, <1>4 DEF OnceSound, DurableSound, Unsettled

\* Retries that take turns publish one file at most per key, and a settled ledger
\* is durable (Tombstones.Lookup, Tombstones.Record, tombstone.go).
THEOREM RetriesDeliverOnce == Sequential => (Spec => []AtMostOnce)
<1>1. ASSUME Sequential PROVE Spec => []AtMostOnce
  <2>1. ~Overlap
    BY <1>1 DEF Sequential
  <2>2. DropInv /\ DurableSound /\ [Next]_vars => DurableSound'
    BY <2>1, DurableKept
  <2>3. DropInv /\ DurableSound /\ OnceSound /\ [Next]_vars => OnceSound'
    BY <1>1, OnceKept DEF DurableSound
  <2>4. DurableSound /\ OnceSound => AtMostOnce
    BY DEF LedgerDurable, Ledger!SettledLedgerIsDurable, AtMostOnce, OnceSound, DurableSound
  <2> QED
    BY <2>2, <2>3, <2>4, OnceInitially, DropInvariant, PTL DEF Spec
<1> QED
  BY <1>1

-----------------------------------------------------------------------------
(*****************************************************************************)
(* The completion ledger and the quota that a transfer uses are the ones     *)
(* Tombstones and TransferQuota specify.                                     *)
(*****************************************************************************)
\* The ledger of a transfer starts as Tombstones says.
LEMMA LedgerStarts == Init => Ledger!TombInit
  BY DEF Init

\* Every step of a transfer is a step of the ledger or leaves it alone: what a
\* session records is an entry, of its own key, metadata and digest.
LEMMA LedgerSteps == DropInv /\ [Next]_vars => [Ledger!TombNext]_(Ledger!tombVars)
<1> SUFFICES ASSUME DropInv, [Next]_vars PROVE Ledger!TombNext \/ UNCHANGED tombVars
  BY DEF tombVars, Ledger!tombVars
<1>1. ASSUME NEW a \in Attempts, SendSide(a) PROVE UNCHANGED tombVars
  BY <1>1, ReceiverUntouched
<1>2. ASSUME NEW a \in Attempts, ReceiverStep(a) PROVE Ledger!TombNext \/ UNCHANGED tombVars
  <2>1. CASE RecordCompletion(a)
    <3> DEFINE e == [key |-> KeyOf[a], meta |-> Meta(a), sha |-> hashed[a]]
    <3>1. recv[a] = "record" /\ Ledger!Record(a, e)
      BY <2>1 DEF RecordCompletion
    <3>2. hashed[a] = Payload[a]
      BY <3>1 DEF DropInv, DiskSound
    <3>3. e \in Ledger!Entry
      BY <3>2 DEF Ledger!Entry, Keys
    <3> HIDE DEF e
    <3> QED
      BY <3>1, <3>3 DEF Ledger!TombNext
  <2>2. CASE PersistLedger(a)
    BY <2>2 DEF PersistLedger, Ledger!TombNext
  <2>3. CASE ~(RecordCompletion(a) \/ PersistLedger(a))
    BY <1>2, <2>3, Zenon DEF ReceiverStep, Lookup, Reserve, Stage, StageRefused, SendAck, RecvChunk, ChunkRefused, RecvConnError,
       Verify, VerifyRefused, CloseFails, SendComplete, Received, Done, Failed, Cleanup
  <2> QED
    BY <2>1, <2>2, <2>3
<1>3. CASE Crash
  BY <1>3 DEF Crash, Ledger!TombNext
<1>4. CASE UNCHANGED vars
  BY <1>4 DEF vars
<1> QED
  BY <1>1, <1>2, <1>3, <1>4 DEF Next, SendSide

\* The ledger of any number of interleaved receive sessions and restarts of the
\* Hub behaves as Tombstones specifies (tombstone.go, used by receiver.go).
THEOREM LedgerImplemented == Spec => Ledger!TombSpec
  BY LedgerStarts, LedgerSteps, DropInvariant, PTL DEF Spec, Ledger!TombSpec

\* What the quota may do: its operations, or a new process with an empty quota.
QuotaProcess == Quota!Init /\ [][Quota!Next \/ Quota!Init']_(Quota!vars)

\* Every step of a transfer is a quota operation, leaves the quota alone, or is
\* the crash: Acquire for the declared size, AddBytes for a chunk, Release.
LEMMA QuotaSteps == [Next]_vars => [Quota!Next \/ Quota!Init']_(Quota!vars)
<1> SUFFICES ASSUME [Next]_vars PROVE Quota!Next \/ Quota!Init' \/ UNCHANGED quotaVars
  BY DEF quotaVars, Quota!vars
<1>1. ASSUME NEW a \in Attempts, SendSide(a) PROVE UNCHANGED quotaVars
  BY <1>1, ReceiverUntouched
<1>2. ASSUME NEW a \in Attempts, ReceiverStep(a) PROVE Quota!Next \/ UNCHANGED quotaVars
  <2>1. Quota!Acquire(a, "peer", Size[a]) => Quota!Next
    BY DEF Quota!Next
  <2>2. Quota!AddBytes(a, 1) => Quota!Next
    BY DEF Quota!Next
  <2>3. Quota!Release(a) => Quota!Next
    BY DEF Quota!Next
  <2>4. CASE Reserve(a)
    BY <2>1, <2>4 DEF Reserve
  <2>5. CASE RecvChunk(a)
    BY <2>2, <2>5 DEF RecvChunk
  <2>6. CASE Received(a) \/ Failed(a)
    BY <2>3, <2>6 DEF Received, Failed
  <2>7. CASE ~(Reserve(a) \/ RecvChunk(a) \/ Received(a) \/ Failed(a))
    BY <1>2, <2>7, Zenon DEF ReceiverStep, Lookup, Stage, StageRefused, SendAck, ChunkRefused, RecvConnError,
       Verify, VerifyRefused, CloseFails, RecordCompletion, PersistLedger, SendComplete, Done, Cleanup
  <2> QED
    BY <2>4, <2>5, <2>6, <2>7
<1>3. CASE Crash
  BY <1>3 DEF Crash, Quota!Init
<1>4. CASE UNCHANGED vars
  BY <1>4 DEF vars
<1> QED
  BY <1>1, <1>2, <1>3, <1>4 DEF Next, SendSide

\* Sessions use the quota only through its operations, each holding one lease at
\* a time (quota.go, used by receiver.go); a restart of the Hub empties it.
THEOREM QuotaImplemented == Spec => QuotaProcess
<1>1. Init => Quota!Init
  BY DEF Init
<1> QED
  BY <1>1, QuotaSteps, PTL DEF Spec, QuotaProcess

\* Steps of the quota are steps of the module the proofs are about.
LEMMA QuotaMoves == Quota!Next \/ UNCHANGED quotaVars => [Counts!Next]_(Counts!vars)
<1>1. ASSUME NEW a \in Attempts, NEW s \in {Size[b] : b \in Attempts}, Quota!Acquire(a, "peer", s) PROVE Counts!Next
  <2>1. Counts!Acquire(a, "peer", s)
    BY <1>1 DEF Quota!Acquire, Counts!Acquire, Quota!Admits, Counts!Admits, Quota!Reservation, Counts!Reservation,
           Quota!CapAt, Counts!CapAt, Quota!Under, Counts!Under, Quota!NoOverflow, Counts!NoOverflow,
           Quota!Fits, Counts!Fits, Quota!NoLease, Counts!NoLease
  <2> QED
    BY <2>1 DEF Counts!Next
<1>2. ASSUME NEW a \in Attempts, Quota!AddBytes(a, 1) \/ Quota!Release(a) PROVE Counts!Next
  BY <1>2, CountsAgree DEF Counts!Next
<1>3. ASSUME UNCHANGED quotaVars PROVE UNCHANGED Counts!vars
  BY <1>3 DEF quotaVars, Counts!vars
<1> QED
  BY <1>1, <1>2, <1>3 DEF Quota!Next

\* Whatever sessions interleave, fail or die with the Hub, the transfers running
\* and the bytes reserved stay within the limits the Hub was given (quota.go:119-133,
\* 156-164).
THEOREM TransfersWithinLimits == Spec => []Quota!WithinLimits
<1>1. Init => Counts!WithinLimits
  BY CountsConstants, CountsAgree, Counts!LimitsInitially DEF Init
<1>2. DropInv /\ Counts!WithinLimits /\ [Next]_vars => Counts!WithinLimits'
  <2> SUFFICES ASSUME Counts!TypeOK, Counts!WithinLimits, [Next]_vars PROVE Counts!WithinLimits'
    BY DEF DropInv, QuotaSound
  <2>1. Quota!Next \/ Quota!Init' \/ UNCHANGED quotaVars
    BY QuotaSteps DEF Quota!vars, quotaVars
  <2>2. CASE Quota!Next \/ UNCHANGED quotaVars
    <3>1. [Counts!Next]_Counts!vars
      BY <2>2, QuotaMoves
    <3> QED
      BY <3>1, CountsConstants, Counts!LimitsKept
  <2>3. CASE Quota!Init'
    BY <2>3, CountsConstants DEF Quota!Init, Quota!NoUsage, Counts!WithinLimits
  <2> QED
    BY <2>1, <2>2, <2>3
<1>3. Counts!WithinLimits <=> Quota!WithinLimits
  BY DEF Counts!WithinLimits, Quota!WithinLimits
<1> QED
  BY <1>1, <1>2, <1>3, DropInvariant, PTL DEF Spec
=================================================================================
