--------------------------- MODULE MCRelayCoordinator ---------------------------
(***************************************************************************)
(* Callers of one request key and one of another, and dashboards that      *)
(* cancel.                                                                 *)
(***************************************************************************)
EXTENDS RelayCoordinator

MCKeyOf == [c \in Callers |-> IF c = 3 THEN "other" ELSE "same"]
=============================================================================
