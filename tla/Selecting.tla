------------------------------ MODULE Selecting ------------------------------
(***************************************************************************)
(* The loop that copies the elements of a slice that pass a test, in their *)
(* order: pruning a history by age, filtering the event ring, listing the  *)
(* files of a directory.  It is SelectSeq with the elements that pass      *)
(* given as a set, written as a recursive function so that proofs can      *)
(* refer to it.                                                            *)
(***************************************************************************)
EXTENDS Naturals, Sequences

Keep(s, S) ==
    LET kept[n \in 0..Len(s)] ==
            IF n = 0 THEN <<>>
            ELSE IF s[n] \in S THEN Append(kept[n - 1], s[n]) ELSE kept[n - 1]
    IN kept[Len(s)]
=============================================================================
