------------------------------ MODULE MCFiles ------------------------------
(***************************************************************************)
(* What the Hub keeps in files and counters, for TLC: the transfer quota,  *)
(* the staging area, publication, the two histories, the peer store, and   *)
(* the wire codec.  The parts share no variable; `topic' says which one a  *)
(* behaviour is about, the others keep their initial state.                *)
(***************************************************************************)
EXTENDS TransferQuota, StagingArea, Publication, HistoryLedger, PeerStore, Framing, TLC

VARIABLE topic

filesVars == <<vars, stagingVars, pubVars, historyVars, storeVars, frameVars, topic>>

Topics == {"quota", "staging", "publication", "transfers", "authorizations", "store", "framing"}

\* The store starts without a file, or with every peer paired and one the default.
StartsFrom(m) ==
    \/ m = NoPeers
    \/ m = [fp \in Fingerprints |-> [NewPeer(CHOOSE a \in Addresses : TRUE) EXCEPT
                                        !.isDefault = (fp = CHOOSE f \in Fingerprints : TRUE)]]

\* The parts whose initial state is not fixed start in one state when they
\* are not the topic.
FilesInit ==
    /\ topic \in Topics
    /\ Init
    /\ StagingInit /\ (topic # "staging" => \A p \in PartNames : partial[p] = {})
    /\ PublicationInit
    /\ topic # "publication" =>
          damaged = {} /\ treeDir = "dir" /\ \A d \in Deliveries : wish[d] = "root"
    /\ HistoryInit
    /\ StoreInit /\ (saved = NoPeers => peersFile = {})
    /\ IF topic = "store" THEN slow \subseteq {CHOOSE t \in Tools : TRUE} /\ StartsFrom(saved)
       ELSE replaces /\ slow = {} /\ saved = NoPeers
    /\ FramingInit
    /\ topic # "framing" =>
          \A f \in Frames : shape[f] = [size |-> 1, bulk |-> TRUE, newer |-> FALSE, ours |-> TRUE]

QuotaStep ==
    topic = "quota" /\ Next
    /\ UNCHANGED <<stagingVars, pubVars, historyVars, storeVars, frameVars, topic>>
StagingStep ==
    topic = "staging" /\ StagingNext
    /\ UNCHANGED <<vars, pubVars, historyVars, storeVars, frameVars, topic>>
PublicationStep ==
    topic = "publication" /\ PublicationNext
    /\ UNCHANGED <<vars, stagingVars, historyVars, storeVars, frameVars, topic>>
\* The two histories share their code's shape and no list: one at a time.
HistoryStep ==
    /\ \/ topic = "transfers" /\ TransferNext
       \/ topic = "authorizations" /\ RelayHistoryNext
    /\ UNCHANGED <<vars, stagingVars, pubVars, storeVars, frameVars, topic>>
StoreStep ==
    topic = "store" /\ StoreNext
    /\ UNCHANGED <<vars, stagingVars, pubVars, historyVars, frameVars, topic>>
FramingStep ==
    topic = "framing" /\ FramingNext
    /\ UNCHANGED <<vars, stagingVars, pubVars, historyVars, storeVars, topic>>

FilesNext ==
    QuotaStep \/ StagingStep \/ PublicationStep \/ HistoryStep \/ StoreStep \/ FramingStep

FilesSpec == FilesInit /\ [][FilesNext]_filesVars

\* Four attempts of two peers, and limits small enough that every check of
\* Acquire and AddBytes refuses something.
MCPeers == {"p1", "p2"}
MCSizes == {0, 1, 3}
MCChunks == {0, 1, 2}

\* The receivers of the staging area are alike.
Interchangeable == Permutations(Receivers)
=============================================================================
