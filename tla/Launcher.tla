------------------------------- MODULE Launcher -------------------------------
(***************************************************************************)
(* The base class of the launchers of assignment 1 (a1/src/launcher.cc)    *)
(* and the program that drives one (run_test and run_experiment of         *)
(* a1/src/start.cc): the main thread hands requests to ExecuteRequest one  *)
(* after the other and, after some of them, calls WaitOutstanding.         *)
(***************************************************************************)
EXTENDS Integers, FiniteSets

CONSTANTS
  NumReqs,      \* the requests the driver issues
  WaitPoints    \* after how many requests the driver calls WaitOutstanding

ASSUME LauncherAssumption ==
  /\ NumReqs \in Nat \ {0}
  /\ WaitPoints \subseteq 1..NumReqs

VARIABLES
  num_requests,   \* _num_requests: the requests issued so far
  txns_executed,  \* *txns_executed_, in shared memory
  lpc,            \* where the main thread is
  rpc,            \* where the executor of each request is
  waited          \* _num_requests when WaitOutstanding last returned

Reqs    == 1..NumReqs
Main    == 0        \* the main thread, as the owner of a mutex
NoOwner == -1       \* the owner of a free mutex

LauncherInit ==
  /\ num_requests = 0
  /\ txns_executed = 0
  /\ lpc = "idle"
  /\ rpc = [r \in Reqs |-> "none"]
  /\ waited = 0

(* Launcher::ExecuteRequest, called first by every subclass.               *)
CountRequest ==
  /\ lpc = "idle"
  /\ num_requests < NumReqs
  /\ num_requests' = num_requests + 1

(* fetch_and_increment(txns_executed_): one locked instruction.            *)
IncrDoneTxns == txns_executed' = txns_executed + 1

(* What the driver does once ExecuteRequest has returned.                  *)
AfterReturn == IF num_requests \in WaitPoints THEN "wait" ELSE "idle"

(* Mutant: the loop ends one request too early.                            *)
WaitOutstandingOffByOne ==
  /\ lpc = "wait"
  /\ txns_executed + 1 >= num_requests
  /\ lpc' = "idle"
  /\ waited' = num_requests
  /\ UNCHANGED <<num_requests, txns_executed, rpc>>

(* The exit of the loop of WaitOutstanding; while the two counters differ  *)
(* the loop only spins.                                                    *)
WaitOutstanding ==
  /\ lpc = "wait"
  /\ txns_executed = num_requests
  /\ lpc' = "idle"
  /\ waited' = num_requests
  /\ UNCHANGED <<num_requests, txns_executed, rpc>>

(* The driver has issued its last request and waited where it should.      *)
Finished == lpc = "idle" /\ num_requests = NumReqs
=============================================================================
