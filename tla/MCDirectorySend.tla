-------------------------- MODULE MCDirectorySend --------------------------
(***************************************************************************)
(* A directory for DirectorySend: two files of one name and one content in *)
(* two folders, an empty one whose name makes no valid key, and one twice  *)
(* as long.                                                                *)
(***************************************************************************)
EXTENDS DirectorySend

Paths == {"a/x", "b/x", "c d", "e"}
SortedPaths == <<"a/x", "b/x", "c d", "e">>
LeafOf == [f \in Paths |-> IF f \in {"a/x", "b/x"} THEN "x" ELSE f]
FoldedOf == [f \in Paths |-> CASE f = "a/x" -> "a-x" [] f = "b/x" -> "b-x" [] OTHER -> f]
ContentOf == [f \in Paths |-> IF f \in {"a/x", "b/x"} THEN "x" ELSE f]
SizeOf == [f \in Paths |-> CASE f = "c d" -> 0 [] f = "e" -> 2 [] OTHER -> 1]
NamesWithSpaces == {"c d"}
=============================================================================
