-------------------------- MODULE MCSerialScheduler --------------------------
(***************************************************************************)
(* Instances of SerialScheduler for TLC: one transaction of every class.   *)
(***************************************************************************)
EXTENDS SerialScheduler, TLC

CONSTANTS rmw, put, expect, noop

MCTxns == {rmw, put, expect, noop}

(* Key 2 is not one that InitStorage creates; what expect finds depends on *)
(* whether it runs before, between or after the other two.                 *)
MCProgram ==
     rmw    :> RMW({0}, {1, 2})
  @@ put    :> Put(2 :> 5)
  @@ expect :> Expect(1 :> 1 @@ 2 :> 5)
  @@ noop   :> Noop
=============================================================================
