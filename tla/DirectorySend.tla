--------------------------- MODULE DirectorySend ---------------------------
(***************************************************************************)
(* `tantu send <directory>' (cmd/tantu/multifile.go, multifile_send.go):   *)
(* a directory becomes a batch of single-file transfers, through the Hub   *)
(* when one runs and directly when none does, and one report.  The user    *)
(* may name an idempotency key, press Ctrl-C, and run the command again.   *)
(* The receiver keeps, for each key, what it completed under it            *)
(* (internal/drop/tombstone.go).                                           *)
(***************************************************************************)
EXTENDS Naturals, FiniteSets, Selecting

CONSTANTS Entries,   \* paths inside the directory
          Listing,   \* the paths in the order of the sort
          Leaf,      \* [Entries -> base name]
          Folded,    \* [Entries -> the path folded into one name]
          Content,   \* [Entries -> content]
          Size,      \* [Entries -> number of bytes]
          BadNames,  \* names that make no valid key
          MaxExpandedFiles, MaxExpandedTotalBytes, \* limits of the expansion
          MaxFiles,  \* bound: entries of a tree
          MaxBatches, \* bound: runs of the command
          MaxBadSends   \* bound: transfers that fail

ASSUME BatchAssumption ==
    /\ MaxExpandedFiles \in Nat /\ MaxBatches \in Nat /\ IsFiniteSet(Entries)
    /\ Size \in [Entries -> Nat]
    /\ Listing \in Seq(Entries) /\ {Listing[i] : i \in DOMAIN Listing} = Entries
    /\ \A i, j \in DOMAIN Listing : Listing[i] = Listing[j] => i = j

VARIABLES tree,        \* [Entries -> "absent", "file", "pipe", "barred"]
          rooted,      \* the directory's own name can stand in a path
          keyed,       \* the user named a key
          flatten,     \* --flatten
          phase,       \* "idle", "sending", "done"
          via,         \* "hub", "direct", "none": the sender of this run
          todo,        \* files still to be sent
          results,     \* [file, exit, risk] of this run
          refused,     \* the expansion failed: exit code 2, nothing tried
          interrupted, \* Ctrl-C
          tombs,       \* the receiver's completions: [key, name, content]
          arrivals,    \* [Entries -> copies published]
          batches, badSends
batchVars == <<tree, rooted, keyed, flatten, phase, via, todo, results, refused, interrupted, tombs, arrivals,
               batches, badSends>>

Ok == 0
Failed == 1
Usage == 2
Risk == 3

BatchInit ==
    /\ tree \in [Entries -> {"absent", "file", "pipe", "barred"}] /\ rooted \in BOOLEAN
    /\ Cardinality({f \in Entries : tree[f] # "absent"}) <= MaxFiles
    /\ keyed \in BOOLEAN /\ flatten \in BOOLEAN
    /\ phase = "idle" /\ via = "none" /\ todo = <<>> /\ results = <<>> /\ refused = FALSE
    /\ interrupted = FALSE /\ tombs = {} /\ arrivals = [f \in Entries |-> 0] /\ batches = 0 /\ badSends = 0

-----------------------------------------------------------------------------
(* The directory.                                                          *)

Files == {f \in Entries : tree[f] = "file"}
\* The name the peer sees, with the structure or without it.
NameOf(f) == IF flatten THEN Folded[f] ELSE Leaf[f]

\* totalBytes: the running sum over the files met.
TotalBytes(files) ==
    LET total[n \in 0..Len(Listing)] ==
            IF n = 0 THEN 0
            ELSE total[n - 1] + (IF Listing[n] \in files THEN Size[Listing[n]] ELSE 0)
    IN total[Len(Listing)]

\* A link or an entry that cannot be read fails the whole expansion; what is
\* no regular file is left out; too many files, too many bytes, none, or paths
\* that cannot be expressed, are an error.
Expandable ==
    /\ \A f \in Entries : tree[f] # "barred"
    /\ Files # {} /\ Cardinality(Files) <= MaxExpandedFiles
    /\ TotalBytes(Files) <= MaxExpandedTotalBytes
    /\ rooted \/ flatten

ExpandDirectory ==
    /\ phase # "sending" /\ batches < MaxBatches /\ batches' = batches + 1
    /\ results' = <<>> /\ interrupted' = FALSE
    /\ IF Expandable
       THEN /\ phase' = "sending" /\ refused' = FALSE
            /\ todo' = Keep(Listing, Files)
            /\ via' \in {"hub", "direct", "none"}      \* newBatchSender
       ELSE phase' = "done" /\ refused' = TRUE /\ todo' = <<>> /\ via' = "none"
    /\ UNCHANGED <<tree, rooted, keyed, flatten, tombs, arrivals, badSends>>

-----------------------------------------------------------------------------
(* One file.  A fresh key is <<>>: the receiver knows nothing under it.    *)

\* The direct sender derives a key per file; one that is not valid is replaced
\* by the attempt's own.
BatchFileKey(f) == IF keyed /\ NameOf(f) \notin BadNames THEN <<"key", NameOf(f)>> ELSE <<>>
\* The Hub is handed the user's key as it is.
DelegatedKey(f) == IF keyed THEN <<"key">> ELSE <<>>
KeyOnWire(f) == IF via = "hub" THEN DelegatedKey(f) ELSE BatchFileKey(f)

Known(f) == {t \in tombs : KeyOnWire(f) # <<>> /\ t.key = KeyOnWire(f)}
\* TombstoneEntry.Matches and the digest: the path inside the tree is no part.
SameTransfer(t, f) == t.name = NameOf(f) /\ t.content = Content[f]

\* ReceiveDrop: a known key is acknowledged again or refused, never published.
Receive(f) ==
    IF Known(f) = {}
    THEN /\ arrivals' = [arrivals EXCEPT ![f] = @ + 1]
         /\ tombs' = tombs \cup {[key |-> k, name |-> NameOf(f), content |-> Content[f]] :
                                    k \in {KeyOnWire(f)} \ {<<>>}}
    ELSE UNCHANGED <<arrivals, tombs>>

Answered(f) == IF \A t \in Known(f) : SameTransfer(t, f) THEN Ok ELSE Failed

Sent(f, exit, risk) ==
    /\ phase = "sending" /\ todo # <<>> /\ f = Head(todo)
    /\ todo' = Tail(todo) /\ results' = Append(results, [file |-> f, exit |-> exit, risk |-> risk])
    /\ UNCHANGED <<tree, rooted, keyed, flatten, phase, via, refused, interrupted, batches>>

\* Only the direct sender watches the context that Ctrl-C cancels.
Stopped == interrupted /\ via = "direct"

SendFile(f) ==
    /\ via # "none" /\ ~Stopped
    /\ Receive(f) /\ Sent(f, Answered(f), FALSE) /\ badSends' = badSends

FailedOrRisk(f) == Sent(f, Failed, FALSE) \/ Sent(f, Risk, TRUE)

\* Nothing reached the inbox: the dial, the open, the receiver's refusal, a
\* connection that is lost, Ctrl-C.  An error while it waited for the answer is
\* a duplicate risk, and, as the direct sender gives the whole size for the
\* bytes it sent, so is any timeout or cancellation of a file with content.
SendFails(f) ==
    /\ \/ via = "none" /\ Sent(f, Failed, FALSE) /\ badSends' = badSends
       \/ Stopped /\ badSends' = badSends /\ IF Size[f] > 0 THEN FailedOrRisk(f) ELSE Sent(f, Failed, FALSE)
       \/ via # "none" /\ badSends < MaxBadSends /\ badSends' = badSends + 1 /\ FailedOrRisk(f)
       \/ via = "hub" /\ badSends < MaxBadSends /\ badSends' = badSends + 1 /\ Sent(f, Usage, FALSE)
    /\ UNCHANGED <<tombs, arrivals>>

AnswerLost_Failed(f) ==
    /\ via # "none" /\ ~Stopped /\ badSends < MaxBadSends /\ badSends' = badSends + 1
    /\ Receive(f) /\ Sent(f, Failed, FALSE)

\* The receiver has answered and nobody heard it: ClassifyTransferError calls
\* that a duplicate risk, but takes the timeout or cancellation of an empty
\* file for one that sent nothing.  So does a command whose own request to the
\* Hub timed out, of any file.
AnswerLost(f) ==
    /\ via # "none" /\ ~Stopped /\ badSends < MaxBadSends /\ badSends' = badSends + 1
    /\ Receive(f)
    /\ \/ Sent(f, Risk, TRUE)
       \/ (via = "hub" \/ Size[f] = 0) /\ Sent(f, Failed, FALSE)

\* signalContext
Interrupt ==
    /\ phase = "sending" /\ ~interrupted /\ interrupted' = TRUE
    /\ UNCHANGED <<tree, rooted, keyed, flatten, phase, via, todo, results, refused, tombs, arrivals, batches, badSends>>

SendBatchFiles ==
    /\ phase = "sending" /\ todo = <<>> /\ phase' = "done"
    /\ UNCHANGED <<tree, rooted, keyed, flatten, via, todo, results, refused, interrupted, tombs, arrivals, batches, badSends>>

BatchNext ==
    \/ ExpandDirectory \/ Interrupt \/ SendBatchFiles
    \/ \E f \in Entries : SendFile(f) \/ SendFails(f) \/ AnswerLost(f)
BatchSpec == BatchInit /\ [][BatchNext]_batchVars

-----------------------------------------------------------------------------
(* The report.                                                             *)

Outcomes == {results[i] : i \in DOMAIN results}
Ambiguous == \E r \in Outcomes : r.risk
Succeeded == {r \in Outcomes : r.exit = Ok}

\* aggregateBatch
Status ==
    IF Ambiguous /\ Succeeded = {} THEN "error"
    ELSE IF Succeeded = Outcomes /\ ~Ambiguous THEN "success"
    ELSE IF Succeeded = {} THEN "error" ELSE "partial"

\* batchExitCode, and the code of an expansion that failed
ExitCode ==
    IF refused THEN Usage
    ELSE IF Ambiguous THEN Risk
    ELSE IF \E r \in Outcomes : r.exit = Failed THEN Failed
    ELSE IF \E r \in Outcomes : r.exit = Usage THEN Usage ELSE Ok

-----------------------------------------------------------------------------
BatchTypeOK ==
    /\ phase \in {"idle", "sending", "done"} /\ via \in {"hub", "direct", "none"}
    /\ Len(results) + Len(todo) <= MaxExpandedFiles /\ \A f \in Entries : arrivals[f] \in 0..MaxBatches
    /\ \A r \in Outcomes : r.exit \in Ok..Risk

\* Within this batch no two files have one key on the wire.
DistinctKeys ==
    \A f, g \in Files : f # g => KeyOnWire(f) = <<>> \/ KeyOnWire(f) # KeyOnWire(g)

\* A script that reads the exit code is told the truth, whatever failed, was
\* unheard or was interrupted: 0 is said of a batch of which every file is on
\* the peer (as long as no two files share a key), 1 or 2 of a
\* first run that went directly and left none of the files that have content
\* on the peer, and a file listed as sent was sent (batchExitCode,
\* aggregateBatch, ClassifyTransferError).
ExitCodeTrue ==
    phase = "done" =>
        /\ (ExitCode = Ok) = (~refused /\ Status = "success")
        /\ ExitCode = Ok /\ DistinctKeys =>
              \A f \in Entries : tree[f] \in {"file", "barred"} => arrivals[f] > 0
        /\ DistinctKeys => \A r \in Succeeded : arrivals[r.file] > 0
        /\ via = "direct" /\ Status = "error" /\ ~Ambiguous /\ batches = 1 =>
              \A f \in Entries : Size[f] > 0 => arrivals[f] = 0

\* A batch that is run again under its key, always directly, publishes no file
\* that has a key of its own twice, whatever happened to the first run
\* (batchFileKey, ReceiveDrop).
RerunSafe ==
    \A f \in Files :
        (\E t \in tombs : t.key = <<"key", NameOf(f)>>)
        /\ ~(\E t \in tombs : t.key = <<"key">>)
        => arrivals[f] <= 1

\* The report of a batch, and what a second run of it does.
BatchSound == BatchTypeOK /\ ExitCodeTrue /\ RerunSafe

\* "A partial send is never mistaken for a complete one": whatever key the user
\* named, a batch reported as sent is on the peer.
SuccessMeansAll ==
    phase = "done" /\ ~refused /\ Status = "success" => \A f \in Files : arrivals[f] > 0
=============================================================================
