-------------------------------- MODULE MCSignIn --------------------------------
(***************************************************************************)
(* Requests of one peer for one callback port: 1 is a sign-in, 2 its       *)
(* byte-identical retry and 3 a fresh sign-in.                             *)
(***************************************************************************)
EXTENDS SignIn

MCKeyOf == [r \in Requests |-> IF r = 3 THEN "fresh" ELSE "same"]
MCPortOf == [r \in Requests |-> "port"]
OnePeer == [r \in Requests |-> "p"]
=============================================================================
