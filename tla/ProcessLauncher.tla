---------------------------- MODULE ProcessLauncher ----------------------------
(***************************************************************************)
(* ProcessLauncher (a1/src/process_launcher.cc): one forked child per      *)
(* request.  A child runs its request, counts it, gives its permit back    *)
(* and exits; the parent takes a permit for each child it has forked.      *)
(* The counters, the mutex and the condition variable are in memory shared *)
(* by parent and children.                                                 *)
(***************************************************************************)
EXTENDS OutstandingGate

(* The constructor's assertion on max_outstanding.                         *)
ASSUME ProcessAssumption == MaxOutstanding > 0

base == <<num_requests, txns_executed, lpc, rpc, waited>>
vars == <<base, gate>>

Init == LauncherInit /\ GateInit

(* ExecuteRequest in the parent up to the fork; the child starts at the    *)
(* other return of fork.                                                   *)
Fork ==
  /\ CountRequest
  /\ rpc' = [rpc EXCEPT ![num_requests + 1] = "execute"]
  /\ lpc' = "gate_lock"
  /\ UNCHANGED <<txns_executed, waited, gate>>

(* The rest of ExecuteRequest in the parent; taking the permit is the last *)
(* thing it does.                                                          *)
Parent == LockGate \/ TestGate \/ TakePermit(AfterReturn)

Wait == WaitOutstanding /\ UNCHANGED gate

MainStep == Fork \/ Parent \/ Wait

(* The child: req->Execute().                                              *)
Execute(r) ==
  /\ rpc[r] = "execute"
  /\ rpc' = [rpc EXCEPT ![r] = "executed"]
  /\ UNCHANGED <<num_requests, txns_executed, lpc, waited, gate>>

(* fetch_and_increment(txns_executed_), before the permit is given back.   *)
Count(r) ==
  /\ rpc[r] = "executed"
  /\ IncrDoneTxns
  /\ rpc' = [rpc EXCEPT ![r] = "give_lock"]
  /\ UNCHANGED <<num_requests, lpc, waited, gate>>

(* The rest of the child, until exit(0).                                   *)
GiveBack(r) == LockGive(r) \/ LoadGive(r) \/ StoreGive(r, "exited")

ChildStep(r) == Execute(r) \/ Count(r) \/ GiveBack(r)

Next == MainStep \/ SpuriousWakeup \/ \E r \in Reqs : ChildStep(r)

Spec == Init /\ [][Next]_vars

-----------------------------------------------------------------------------
(* Every variable has the type the code gives it; the counter stays below  *)
(* INT_MAX because the constructor's argument does, with one to spare.     *)
TypeOK ==
  /\ num_requests \in 0..NumReqs
  /\ txns_executed \in 0..NumReqs
  /\ waited \in 0..NumReqs
  /\ lpc \in {"idle", "gate_lock", "gate_test", "gate_wait", "gate_take", "wait"}
  /\ rpc \in [Reqs -> {"none", "execute", "executed", "give_lock", "give_load",
                       "give_store", "exited"}]
  /\ max_outstanding \in 0..(MaxOutstanding + 1)
  /\ mutex \in {NoOwner, Main} \cup Reqs
  /\ cur \in 0..(MaxOutstanding + 1)
  /\ tmp \in [Reqs -> 0..(MaxOutstanding + 1)]

(* When WaitOutstanding has returned, every request issued before the call *)
(* has been executed, though its child may still have to give its permit   *)
(* back.                                                                   *)
WaitedAreDone ==
  \A r \in 1..waited : rpc[r] \in {"give_lock", "give_load", "give_store", "exited"}

(* When the main thread has a step to take inside the launcher, other than *)
(* a wakeup nobody owes it.                                                *)
ParentCanStep ==
  \/ lpc \in {"gate_test", "gate_take"}
  \/ lpc = "gate_lock" /\ mutex = NoOwner
  \/ lpc = "wait" /\ txns_executed = num_requests

(* When a child has.                                                       *)
ChildCanStep(r) ==
  /\ rpc[r] \notin {"none", "exited"}
  /\ rpc[r] = "give_lock" => mutex = NoOwner
=============================================================================
