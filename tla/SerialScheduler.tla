--------------------------- MODULE SerialScheduler ---------------------------
(***************************************************************************)
(* TxnProcessor in SERIAL mode, and in the OCC and P_OCC modes, whose      *)
(* schedulers only call RunSerialScheduler: the scheduler thread pops one  *)
(* request at a time, executes it itself, commits or aborts it, and pushes *)
(* the result.  The thread pool has nothing to do.  The MVCC mode runs the *)
(* same scheduler, but over MVCCStorage, whose Read and Write are not      *)
(* written yet; what this module says of the store does not hold there.    *)
(***************************************************************************)
EXTENDS TxnProcessor

vars == base

Init == BaseInit

(* txn_requests_.Pop(&txn) and the call of ExecuteTxn.                     *)
PopRequest ==
  /\ spc = "pop"
  /\ \/ /\ txn_requests = <<>>
        /\ spc' = "test"
        /\ UNCHANGED <<txn_requests, txn, exec>>
     \/ /\ txn_requests # <<>>
        /\ txn' = Head(txn_requests)
        /\ txn_requests' = Tail(txn_requests)
        /\ StartExecute(Sched, Head(txn_requests))
        /\ spc' = "execute"
  /\ UNCHANGED <<storage, client, completed_txns, txn_results, returned, local, object>>

ExecuteTxn ==
  /\ spc = "execute"
  /\ \/ /\ ExecuteBody(Sched, txn)
        /\ UNCHANGED <<completed_txns, spc>>
     \/ /\ PushCompleted(Sched, txn)
        /\ spc' = "commit"
  /\ UNCHANGED <<client, txn_requests, txn_results, returned, object, txn>>

RunSerialScheduler ==
  TestStopped \/ PopRequest \/ ExecuteTxn \/ CommitStep \/ PushResult("test")

Next == ClientStep \/ RunSerialScheduler

Spec == Init /\ [][Next]_vars

(* Every thread runs on; the clients take the results that are there.  The *)
(* processor need not be destroyed, nor every transaction submitted.       *)
FairSpec ==
  /\ Spec
  /\ WF_vars(RunSerialScheduler)
  /\ WF_vars(EndConstructor) /\ WF_vars(GetTxnResult)
  /\ WF_vars(JoinScheduler)
  /\ \A t \in Txns : WF_vars(PushRequest(t))

-----------------------------------------------------------------------------
(* Every variable has the type the code gives it.                          *)
TypeOK ==
  /\ BaseTypeOK
  /\ spc \in {"test", "pop", "execute", "commit", "apply", "result", "exited"}

(* From the first queue to the clients the transactions keep the order of  *)
(* their ids, and none appears twice: numbering and queueing are one step  *)
(* to the scheduler, and it overtakes nobody.                              *)
InIdOrder ==
  LET running == IF txn = NoTxn THEN <<>> ELSE <<txn>>
      all     == returned \o txn_results \o running \o txn_requests
  IN  \A i, j \in DOMAIN all : i < j => unique_id[all[i]] < unique_id[all[j]]

(* The pipeline of the serial scheduler in every state: typed, in order,   *)
(* and nothing comes out undecided.                                        *)
SerialInv == TypeOK /\ InIdOrder /\ ResultsAreDecided

(* No client waits for ever for a result, nor for the destructor.          *)
ServesAndStops == AllAnswered /\ ((life = "stopping") ~> (life = "deleted"))
=============================================================================
