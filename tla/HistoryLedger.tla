---------------------------- MODULE HistoryLedger ----------------------------
(***************************************************************************)
(* The two histories the Hub keeps of what it sent: transfers              *)
(* (internal/hub/operations.go) and authorizations (relay_history.go).     *)
(* Each is a bounded list under its own mutex and a file; a record is put  *)
(* in the list and the list copied in two sections of the mutex, and the   *)
(* copy is written to the file outside it, so that writers, the clear      *)
(* button and a crash interleave.                                          *)
(***************************************************************************)
EXTENDS Integers, SequencesExt, Selecting

CONSTANTS Sends,        \* operation ids of transfers
          RelayAttempts,     \* ids of authorization attempts
          Capacity,     \* maxOutboundOperations, maxRelayHistory
          MaxTicks,     \* the size of a transfer, in ticks of progress
          MaxClears, MaxHubCrashes  \* bounds: uses of the clear button, crashes

ASSUME HistoryConstants == Capacity \in Nat \ {0} /\ MaxTicks \in Nat /\ Sends \cap RelayAttempts = {}

VARIABLES ops,       \* OperationLedger.items
          opsFile,   \* {} or {transfers.json}
          attempts,  \* RelayLedger.items
          attFile,   \* {} or {authorizations.json}
          expired,   \* records older than the retention window
          at,        \* [Sends \cup RelayAttempts -> where its goroutine stands]
          copy,      \* [Sends \cup RelayAttempts -> the list it is about to write]
          clearing,  \* {} or {the ledger whose file the clear button still has to remove}
          forgotten, \* ended operations whose records were cleared
          raced,     \* some writer held a copy while its ledger was cleared
          outcomes,  \* [Sends -> the terminal record added]
          clears, hubCrashes
historyVars == <<ops, opsFile, attempts, attFile, expired, at, copy, clearing, forgotten,
                 raced, outcomes, clears, hubCrashes>>

InFlight == ""          \* an operation whose outcome nobody knows yet
Failures == {"retryable", "duplicate_risk", "cancelled", "failed"}
Delivered == {"completed", "duplicate_suppressed"}
OpRecord == [id : Sends, state : Failures \cup Delivered \cup {InFlight}, bytes : 0..MaxTicks]
AttState == {"submitted", "waiting_callback", "complete", "failed", "cancelled"}

(* ------------------------------ the lists ------------------------------ *)

\* pruneOperationsByAge, pruneRelayByAge: keep what is within the retention.
Prune(items) == Keep(items, {r \in Range(items) : r.id \notin expired})
PruneRelay(items) == Keep(items, {r \in Range(items) : r.id \notin expired})
\* The oldest entries leave until one more fits.
Evict(items) == IF Len(items) < Capacity THEN items
                ELSE SubSeq(items, Len(items) - Capacity + 2, Len(items))
Newest(items) == IF Len(items) <= Capacity THEN items
                 ELSE SubSeq(items, Len(items) - Capacity + 1, Len(items))
Ids(items) == {items[i].id : i \in DOMAIN items}

\* OperationLedger.Add: one row per operation id, replaced in place.
AddOp(items, r) ==
    IF r.id \in Ids(items)
    THEN [i \in DOMAIN items |-> IF items[i].id = r.id THEN r ELSE items[i]]
    ELSE Prune(Append(Evict(items), r))

AdvanceOp_Always(items, id, n) ==
    [i \in DOMAIN items |->
        IF items[i].id = id /\ n > items[i].bytes
        THEN [items[i] EXCEPT !.bytes = n] ELSE items[i]]

\* UpdateProgress: only an operation in flight advances.
AdvanceOp(items, id, n) ==
    [i \in DOMAIN items |->
        IF items[i].id = id /\ items[i].state = InFlight /\ n > items[i].bytes
        THEN [items[i] EXCEPT !.bytes = n] ELSE items[i]]
\* operationStateForFailure
FailureState(retrySafe, duplicateRisk, cancelled) ==
    IF cancelled THEN "cancelled" ELSE IF duplicateRisk THEN "duplicate_risk"
    ELSE IF retrySafe THEN "retryable" ELSE "failed"
\* RelayLedger.Add appends; Update changes the row with the id, if it is there.
AddAttempt(items, r) == PruneRelay(Append(Evict(items), r))
UpdateAttempt(items, id, state) ==
    [i \in DOMAIN items |-> IF items[i].id = id THEN [items[i] EXCEPT !.state = state] ELSE items[i]]

\* What persisting keeps of a copy, and what a load keeps of a file: only
\* records whose state is one of those listed (validPersistedOperation).
PersistOps(items) == Newest(Prune(items))
PersistAttempts(items) == Newest(PruneRelay(items))
ValidOp(r) == r.state \in Failures \cup {"completed"}
LoadOps == IF opsFile = {} THEN <<>>
           ELSE LET f == CHOOSE g \in opsFile : TRUE IN Newest(Prune(Keep(f, {r \in Range(f) : ValidOp(r)})))
LoadAttempts == IF attFile = {} THEN <<>>
                ELSE LET f == CHOOSE g \in attFile : TRUE IN
                     Newest(PruneRelay(Keep(f, {r \in Range(f) : r.state \in AttState})))

HistoryInit ==
    /\ ops = <<>> /\ opsFile = {} /\ attempts = <<>> /\ attFile = {} /\ expired = {}
    /\ at = [s \in Sends \cup RelayAttempts |-> "new"]
    /\ copy = [s \in Sends \cup RelayAttempts |-> <<>>]
    /\ clearing = {} /\ forgotten = {} /\ raced = FALSE
    /\ outcomes = [s \in Sends |-> {}] /\ clears = 0 /\ hubCrashes = 0

(* ------------------------------ transfers ------------------------------ *)

Step(s, from, to) == at[s] = from /\ at' = [at EXCEPT ![s] = to]
KeepRelay == UNCHANGED <<attempts, attFile>>
KeepOps == UNCHANGED <<ops, opsFile, outcomes>>
KeepBounds == UNCHANGED <<expired, clearing, forgotten, raced, clears, hubCrashes>>

\* The first half of recordOutboundOperation: the record goes into the list.
RecordOp(r) == ops' = AddOp(ops, r) /\ UNCHANGED copy

\* What a send may end with: a classified failure, a verified delivery, or a
\* delivery the receiver recognised and did not write again.
FailedRecords(s) ==
    {[id |-> s, state |-> FailureState(safe, dup, cancelled), bytes |-> 0] : safe, dup, cancelled \in BOOLEAN}
DeliveredRecords(s) == {[id |-> s, state |-> d, bytes |-> MaxTicks] : d \in Delivered}

\* The upload handler cannot reach the peer: the outcome is the only record.
DialFails(s) ==
    /\ Step(s, "new", "copy_end")
    /\ \E r \in FailedRecords(s) : RecordOp(r) /\ outcomes' = [outcomes EXCEPT ![s] = {r}]
    /\ UNCHANGED opsFile /\ KeepRelay /\ KeepBounds

\* Otherwise a record of a send in flight, for the ticks to advance.
BeginOutboundOperation(s) ==
    /\ Step(s, "new", "copy_begin")
    /\ RecordOp([id |-> s, state |-> InFlight, bytes |-> 0])
    /\ UNCHANGED <<opsFile, outcomes>> /\ KeepRelay /\ KeepBounds

\* GetAll, a critical section of its own: others may have been in the list.
CopyHistory(s) ==
    /\ \/ Step(s, "copy_begin", "write_begin")
       \/ Step(s, "copy_end", "write_end")
    /\ copy' = [copy EXCEPT ![s] = ops]
    /\ UNCHANGED <<ops, opsFile, outcomes>> /\ KeepRelay /\ KeepBounds

\* The copy replaces the file (writeAtomicTransferFile), or writing it fails,
\* which never fails the transfer.
WriteHistory(s) ==
    /\ \/ Step(s, "write_begin", "sending")
       \/ Step(s, "write_end", "done")
    /\ opsFile' \in {opsFile, {PersistOps(copy[s])}}
    /\ UNCHANGED <<ops, copy, outcomes>> /\ KeepRelay /\ KeepBounds

\* A progress tick; ticks may also arrive once the outcome is recorded.
AdvanceOutboundProgress(s) ==
    /\ at[s] \in {"sending", "copy_end", "write_end", "done"}
    /\ \E n \in 1..MaxTicks : ops' = AdvanceOp(ops, s, n)
    /\ UNCHANGED <<opsFile, outcomes, at, copy>> /\ KeepRelay /\ KeepBounds

\* SendDrop has returned, and the outcome takes the place of that record.
FinishOutboundOperation(s) ==
    /\ Step(s, "sending", "copy_end")
    /\ \E r \in FailedRecords(s) \cup DeliveredRecords(s) :
          RecordOp(r) /\ outcomes' = [outcomes EXCEPT ![s] = {r}]
    /\ UNCHANGED opsFile /\ KeepRelay /\ KeepBounds

(* ---------------------------- authorizations --------------------------- *)

RecordRelayAttempt(a) ==
    /\ Step(a, "new", "copy_begin")
    /\ attempts' = AddAttempt(attempts, [id |-> a, state |-> "submitted"])
    /\ UNCHANGED <<attFile, copy>> /\ KeepOps /\ KeepBounds
CopyRelayHistory(a) ==
    /\ \/ Step(a, "copy_begin", "write_begin")
       \/ Step(a, "copy_end", "write_end")
    /\ copy' = [copy EXCEPT ![a] = attempts]
    /\ UNCHANGED <<attempts, attFile>> /\ KeepOps /\ KeepBounds
WriteRelayHistory(a) ==
    /\ \/ Step(a, "write_begin", "waiting")
       \/ Step(a, "write_end", "done")
    /\ attFile' \in {attFile, {PersistAttempts(copy[a])}}
    /\ UNCHANGED <<attempts, copy>> /\ KeepOps /\ KeepBounds
UpdateRelayAttempt(a) ==
    /\ Step(a, "waiting", "copy_end")
    /\ \E state \in AttState \ {"submitted", "waiting_callback"} :
          attempts' = UpdateAttempt(attempts, a, state)
    /\ UNCHANGED <<attFile, copy>> /\ KeepOps /\ KeepBounds

(* ------------------- clear, age, crash and restart --------------------- *)

Writing(ids) == {s \in ids : at[s] \in {"write_begin", "write_end"}}
AllIn(items, files) == Ids(items) \cup UNION {Ids(f) : f \in files}

\* clearOutboundOperations: the list under its mutex, then the file.
ClearOutboundOperations ==
    /\ clearing = {} /\ clears < MaxClears
    /\ forgotten' = forgotten \cup {s \in AllIn(ops, opsFile) : at[s] = "done"}
    /\ ops' = <<>> /\ clearing' = {"ops"} /\ clears' = clears + 1
    /\ raced' = (raced \/ Writing(Sends) # {})
    /\ UNCHANGED <<opsFile, outcomes, at, copy, expired, hubCrashes>> /\ KeepRelay
RemoveOpsFile ==
    /\ clearing = {"ops"} /\ opsFile' = {} /\ clearing' = {}
    /\ UNCHANGED <<ops, outcomes, at, copy, expired, forgotten, raced, clears, hubCrashes>> /\ KeepRelay
ClearRelayHistory ==
    /\ clearing = {} /\ clears < MaxClears
    /\ forgotten' = forgotten \cup {s \in AllIn(attempts, attFile) : at[s] = "done"}
    /\ attempts' = <<>> /\ clearing' = {"attempts"} /\ clears' = clears + 1
    /\ raced' = (raced \/ Writing(RelayAttempts) # {})
    /\ UNCHANGED <<attFile, at, copy, expired, hubCrashes>> /\ KeepOps
RemoveRelayFile ==
    /\ clearing = {"attempts"} /\ attFile' = {} /\ clearing' = {}
    /\ UNCHANGED <<attempts, at, copy, expired, forgotten, raced, clears, hubCrashes>> /\ KeepOps

\* The retention window passes over the records of calls that have ended.
Expire ==
    /\ \E s \in Sends \cup RelayAttempts : at[s] = "done" /\ expired' = expired \cup {s}
    /\ UNCHANGED <<ops, opsFile, attempts, attFile, outcomes, at, copy, clearing, forgotten, raced,
                   clears, hubCrashes>>

\* The Hub dies with its lists; it loads them from the files when it starts.
RestartHub ==
    /\ hubCrashes < MaxHubCrashes /\ hubCrashes' = hubCrashes + 1
    /\ ops' = LoadOps /\ attempts' = LoadAttempts
    /\ at' = [s \in DOMAIN at |-> IF at[s] = "new" THEN "new" ELSE "done"]
    /\ copy' = [s \in DOMAIN copy |-> <<>>] /\ clearing' = {}
    /\ raced' = (raced \/ clearing # {})
    /\ UNCHANGED <<opsFile, attFile, expired, forgotten, outcomes, clears>>

TransferNext ==
    \/ \E s \in Sends : DialFails(s) \/ BeginOutboundOperation(s) \/ CopyHistory(s) \/ WriteHistory(s)
                        \/ AdvanceOutboundProgress(s) \/ FinishOutboundOperation(s)
    \/ ClearOutboundOperations \/ RemoveOpsFile \/ Expire \/ RestartHub
RelayHistoryNext ==
    \/ \E a \in RelayAttempts : RecordRelayAttempt(a) \/ CopyRelayHistory(a) \/ WriteRelayHistory(a)
                                \/ UpdateRelayAttempt(a)
    \/ ClearRelayHistory \/ RemoveRelayFile \/ Expire \/ RestartHub
HistoryNext == TransferNext \/ RelayHistoryNext
HistorySpec == HistoryInit /\ [][HistoryNext]_historyVars

(* ------------------------------ properties ----------------------------- *)

HistoryTypeOK ==
    /\ \A i \in DOMAIN ops : ops[i] \in OpRecord
    /\ \A i \in DOMAIN attempts : attempts[i].id \in RelayAttempts /\ attempts[i].state \in AttState
    /\ Len(ops) <= Capacity /\ Len(attempts) <= Capacity

\* A transfer has one row, whatever begin, late progress, eviction, clearing and
\* a reload do in between, and once its outcome is recorded the row never says
\* anything else (OperationLedger.Add, UpdateProgress).
OneTruthfulRow ==
    \A items \in {ops} \cup opsFile :
        /\ \A i, j \in DOMAIN items : items[i].id = items[j].id => i = j
        /\ \A i \in DOMAIN items : items[i].state # InFlight => {items[i]} = outcomes[items[i].id]
        /\ items = ops => \A i \in DOMAIN items :
               items[i].state = InFlight => outcomes[items[i].id] = {}

\* What the user cleared stays cleared, across a restart too, unless a writer
\* held its copy, or the Hub died, between the two steps of the clear button
\* (clearOutboundOperations, clearRelayHistory).
ClearedStaysCleared ==
    ~raced /\ clearing = {} =>
        forgotten \cap (AllIn(ops, opsFile) \cup AllIn(attempts, attFile)) = {}

\* The history the user reads tells what happened, and forgets what it is told
\* to forget.
HistoryTruthful == HistoryTypeOK /\ OneTruthfulRow /\ ClearedStaysCleared
=============================================================================
