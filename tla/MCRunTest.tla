------------------------------ MODULE MCRunTest ------------------------------
(***************************************************************************)
(* Instances of RunTest for TLC.                                           *)
(***************************************************************************)
EXTENDS RunTest, TLC

CONSTANTS r1, r2, r3

MCRequests == {r1, r2, r3}
MCOrder    == <<r2, r3, r1>>

(* Different updates per request and per field; with WordSize 4 some of    *)
(* the additions wrap around.                                              *)
MCUpdates == r1 :> [f \in Field |-> 1] @@ r2 :> [f \in Field |-> 2 - f]
             @@ r3 :> [f \in Field |-> 3]
=============================================================================
