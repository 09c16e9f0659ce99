---------------------------- MODULE OutstandingGate ----------------------------
(***************************************************************************)
(* The counter that ThreadLauncher and ProcessLauncher use to limit the    *)
(* requests in flight: max_outstanding_, a mutex and a condition variable. *)
(* The main thread waits until the counter is positive and takes one, an   *)
(* executor that has finished gives one back and signals.  The two classes *)
(* have the same code, except that ProcessLauncher keeps the three in      *)
(* memory shared with its children.  Increments and decrements read and    *)
(* write the counter in two steps: only the mutex makes them one.          *)
(***************************************************************************)
EXTENDS Launcher

CONSTANT MaxOutstanding   \* the constructor's max_outstanding

ASSUME GateAssumption == MaxOutstanding \in Nat

VARIABLES
  max_outstanding,  \* the counter
  mutex,            \* the owner of max_outstanding_mutex_ / done_mutex_
  cur,              \* the value the main thread has read from the counter
  tmp               \* the value each executor has read from the counter

gate == <<max_outstanding, mutex, cur, tmp>>

GateInit ==
  /\ max_outstanding = MaxOutstanding
  /\ mutex = NoOwner
  /\ cur = 0
  /\ tmp = [r \in Reqs |-> 0]

(* Mutant: the mutex keeps nobody out.                                     *)
LockMutexAlways(o) == mutex' = o

LockMutex(o) ==
  /\ mutex = NoOwner
  /\ mutex' = o

(* pthread_mutex_lock in ExecuteRequest; also the re-acquisition that ends *)
(* pthread_cond_wait.                                                      *)
LockGate ==
  /\ lpc = "gate_lock"
  /\ LockMutex(Main)
  /\ lpc' = "gate_test"
  /\ UNCHANGED <<num_requests, txns_executed, rpc, waited, max_outstanding, cur, tmp>>

(* Mutant: "< 0" instead of "<= 0".                                        *)
TestGateOffByOne ==
  /\ lpc = "gate_test"
  /\ IF max_outstanding < 0
       THEN mutex' = NoOwner /\ lpc' = "gate_wait" /\ UNCHANGED cur
       ELSE cur' = max_outstanding /\ lpc' = "gate_take" /\ UNCHANGED mutex
  /\ UNCHANGED <<num_requests, txns_executed, rpc, waited, max_outstanding, tmp>>

(* The test of the while loop: pthread_cond_wait gives the mutex up.       *)
TestGate ==
  /\ lpc = "gate_test"
  /\ \/ /\ max_outstanding <= 0
        /\ mutex' = NoOwner
        /\ lpc' = "gate_wait"
        /\ UNCHANGED cur
     \/ /\ max_outstanding > 0
        /\ cur' = max_outstanding
        /\ lpc' = "gate_take"
        /\ UNCHANGED mutex
  /\ UNCHANGED <<num_requests, txns_executed, rpc, waited, max_outstanding, tmp>>

(* --max_outstanding_ and pthread_mutex_unlock.                            *)
TakePermit(next) ==
  /\ lpc = "gate_take"
  /\ max_outstanding' = cur - 1
  /\ mutex' = NoOwner
  /\ lpc' = next
  /\ UNCHANGED <<num_requests, txns_executed, rpc, waited, cur, tmp>>

(* pthread_cond_wait may return without a signal.                          *)
SpuriousWakeup ==
  /\ lpc = "gate_wait"
  /\ lpc' = "gate_lock"
  /\ UNCHANGED <<num_requests, txns_executed, rpc, waited, gate>>

(* An executor that has finished: pthread_mutex_lock.                      *)
LockGive(r) ==
  /\ rpc[r] = "give_lock"
  /\ LockMutex(r)
  /\ rpc' = [rpc EXCEPT ![r] = "give_load"]
  /\ UNCHANGED <<num_requests, txns_executed, lpc, waited, max_outstanding, cur, tmp>>

(* The read of ++*max_outstanding_.                                        *)
LoadGive(r) ==
  /\ rpc[r] = "give_load"
  /\ tmp' = [tmp EXCEPT ![r] = max_outstanding]
  /\ rpc' = [rpc EXCEPT ![r] = "give_store"]
  /\ UNCHANGED <<num_requests, txns_executed, lpc, waited, max_outstanding, mutex, cur>>

(* Mutant: the executor does not signal.                                   *)
StoreGiveSilently(r, next) ==
  /\ rpc[r] = "give_store"
  /\ max_outstanding' = tmp[r] + 1
  /\ mutex' = NoOwner
  /\ rpc' = [rpc EXCEPT ![r] = next]
  /\ UNCHANGED <<num_requests, txns_executed, lpc, waited, cur, tmp>>

(* The write, pthread_cond_signal and pthread_mutex_unlock.                *)
StoreGive(r, next) ==
  /\ rpc[r] = "give_store"
  /\ max_outstanding' = tmp[r] + 1
  /\ mutex' = NoOwner
  /\ lpc' = IF lpc = "gate_wait" THEN "gate_lock" ELSE lpc
  /\ rpc' = [rpc EXCEPT ![r] = next]
  /\ UNCHANGED <<num_requests, txns_executed, waited, cur, tmp>>

-----------------------------------------------------------------------------
(* The main thread is inside ExecuteRequest and has not got its permit.    *)
AtGate == lpc \in {"gate_lock", "gate_test", "gate_wait", "gate_take"}

(* The permits the main thread has taken: one per request, the last one    *)
(* still to come while it is at the gate.                                  *)
Taken == IF AtGate THEN num_requests - 1 ELSE num_requests

(* The executors that have given a permit back.                            *)
Given == {r \in Reqs : rpc[r] \in {"count", "exited"}}

(* The requests in flight: issued, and their executor not yet past the     *)
(* increment that tells the main thread so.                                *)
Outstanding == (1..num_requests) \ Given

(* No permit is made up or lost by the interleaved reads and writes of the *)
(* counter.                                                                *)
PermitsConserved ==
  max_outstanding + Taken = MaxOutstanding + Cardinality(Given)

(* What the gate does guarantee: the requests in flight exceed the limit   *)
(* by at most the one being issued, which already runs while the main      *)
(* thread waits.                                                           *)
OutstandingBounded ==
  Cardinality(Outstanding) <= IF AtGate THEN MaxOutstanding + 1 ELSE MaxOutstanding

(* What the comments of both classes say of the limit, counting only the   *)
(* requests that are being executed.                                       *)
OutstandingAtMostMax ==
  Cardinality({r \in Reqs : rpc[r] = "execute"}) <= MaxOutstanding

(* Whoever is between its lock and its unlock owns the mutex, and the      *)
(* value it has read is the one the counter still has.                     *)
GateExclusion ==
  /\ lpc \in {"gate_test", "gate_take"} => mutex = Main
  /\ lpc = "gate_take" => cur = max_outstanding
  /\ \A r \in Reqs :
       /\ rpc[r] \in {"give_load", "give_store"} => mutex = r
       /\ rpc[r] = "give_store" => tmp[r] = max_outstanding

(* The main thread never sleeps on the condition variable while a permit   *)
(* is there for it: no wakeup is lost between its test and its wait.       *)
NoLostWakeup == lpc = "gate_wait" => max_outstanding = 0

(* The limit as the callers of ExecuteRequest see it.                      *)
Limit == INSTANCE OutstandingLimit WITH
           launched <- num_requests,
           returned <- Taken,
           finished <- Given

(* The launcher is a limiter: ExecuteRequest returns only when at most     *)
(* MaxOutstanding requests are in flight.                                  *)
ImplementsLimit == Limit!Spec
=============================================================================
