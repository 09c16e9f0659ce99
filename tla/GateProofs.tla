------------------------------ MODULE GateProofs ------------------------------
(***************************************************************************)
(* Proofs about the counter that limits the requests in flight, for any    *)
(* number of requests and any limit: one lemma per step of the gate, and   *)
(* one for the steps that leave the gate alone.  The proofs of             *)
(* ThreadLauncher and ProcessLauncher are put together from them.          *)
(***************************************************************************)
EXTENDS OutstandingGate, FiniteSetTheorems, TLAPS

(* Where an executor can be, in either launcher.                           *)
ExecPcs ==
  {"none", "execute", "executed", "link_lock", "link_read", "link_write",
   "give_lock", "give_load", "give_store", "count", "exited"}

GatePcs  == {"gate_lock", "gate_test", "gate_wait", "gate_take"}
GivePcs  == {"none", "give_load", "give_store"}
GivenPcs == {"count", "exited"}

(* The types the argument needs.                                           *)
GateType ==
  /\ num_requests \in 0..NumReqs
  /\ rpc \in [Reqs -> ExecPcs]
  /\ max_outstanding \in Nat
  /\ cur \in Int
  /\ tmp \in [Reqs -> Int]

(* The requests with an executor are the ones issued.                      *)
IssuedRun == \A r \in Reqs : rpc[r] = "none" <=> r > num_requests

(* The main thread is at the gate with a request, and takes a permit only  *)
(* when it has seen one.                                                   *)
GateOrder ==
  /\ AtGate => num_requests > 0
  /\ lpc = "gate_take" => cur > 0

(* The inductive invariant of the gate.                                    *)
GateInv ==
  GateType /\ IssuedRun /\ GateOrder /\ GateExclusion /\ PermitsConserved
  /\ NoLostWakeup

-----------------------------------------------------------------------------
(* The requests that have given their permit back are among those issued.  *)
LEMMA GivenFinite ==
  ASSUME GateType
  PROVE  IsFiniteSet(Given) /\ Cardinality(Given) \in Nat
<1>1. IsFiniteSet(Reqs)
  BY LauncherAssumption, FS_Interval DEF Reqs
<1>2. Given \in SUBSET Reqs
  BY DEF Given
<1>3. IsFiniteSet(Given)
  BY <1>1, <1>2, FS_Subset
<1> QED
  BY <1>3, FS_CardinalityType

(* How many requests are in flight.                                        *)
LEMMA OutstandingCount ==
  ASSUME GateType, IssuedRun
  PROVE  Cardinality((1..num_requests) \ Given) = num_requests - Cardinality(Given)
<1> DEFINE Issued == 1..num_requests
<1>1. num_requests \in Int /\ num_requests >= 0
  BY LauncherAssumption DEF GateType
<1>2. IsFiniteSet(Issued) /\ Cardinality(Issued) = num_requests
  BY <1>1, FS_Interval
<1>3. Given \subseteq Issued
  BY <1>1, LauncherAssumption DEF Given, IssuedRun, Reqs
<1>4. Issued \cap Given = Given
  BY <1>3
<1>5. Cardinality(Issued \ Given) = Cardinality(Issued) - Cardinality(Issued \cap Given)
  BY <1>2, FS_Difference
<1> QED
  BY <1>2, <1>4, <1>5

(* If as many requests have been counted as have been issued, every one    *)
(* issued has been.                                                        *)
LEMMA AllCounted ==
  ASSUME NEW n \in Nat, NEW S \in SUBSET (1..n), Cardinality(S) = n
  PROVE  S = 1..n
<1>1. IsFiniteSet(1..n) /\ Cardinality(1..n) = n
  BY FS_Interval
<1> QED
  BY <1>1, FS_Subset

(* Conservation of the permits keeps the counter and the requests in       *)
(* flight within their bounds.                                             *)
LEMMA GateBounds ==
  ASSUME GateInv
  PROVE  OutstandingBounded /\ max_outstanding \in 0..(MaxOutstanding + 1)
<1>1. /\ num_requests \in Int /\ max_outstanding \in Nat /\ MaxOutstanding \in Nat
      /\ Cardinality(Given) \in Nat
  BY GivenFinite, GateAssumption, LauncherAssumption DEF GateInv, GateType
<1>2. Cardinality(Outstanding) = num_requests - Cardinality(Given)
  BY OutstandingCount DEF GateInv, Outstanding
<1>3. max_outstanding + Taken = MaxOutstanding + Cardinality(Given)
  BY DEF GateInv, PermitsConserved
<1>4. Cardinality(Outstanding) >= 0
  <2>1. IsFiniteSet(1..num_requests)
    BY <1>1, FS_Interval
  <2>2. IsFiniteSet(Outstanding)
    BY <2>1, FS_Difference DEF Outstanding
  <2> QED
    BY <2>2, FS_CardinalityType
<1>5. CASE AtGate
  <2>1. Taken = num_requests - 1
    BY <1>5 DEF Taken
  <2> QED
    BY <1>1, <1>2, <1>3, <1>4, <1>5, <2>1 DEF OutstandingBounded
<1>6. CASE ~AtGate
  <2>1. Taken = num_requests
    BY <1>6 DEF Taken
  <2> QED
    BY <1>1, <1>2, <1>3, <1>4, <1>6, <2>1 DEF OutstandingBounded
<1> QED
  BY <1>5, <1>6

-----------------------------------------------------------------------------
(* The constructors establish the invariant.                               *)
LEMMA GateInitInv ==
  ASSUME LauncherInit, GateInit
  PROVE  GateInv /\ Limit!Init
<1> USE LauncherAssumption, GateAssumption
<1>1. Given = {} /\ Taken = 0 /\ ~AtGate
  BY DEF LauncherInit, Given, Taken, AtGate
<1>2. PermitsConserved
  BY <1>1, FS_EmptySet DEF PermitsConserved, GateInit
<1>3. GateType
  <2>1. rpc \in [Reqs -> ExecPcs]
    BY DEF LauncherInit, ExecPcs
  <2> QED
    BY <2>1 DEF GateType, LauncherInit, GateInit
<1>4. IssuedRun
  BY DEF IssuedRun, LauncherInit, Reqs
<1>5. GateOrder /\ GateExclusion /\ NoLostWakeup
  BY <1>1 DEF GateOrder, GateExclusion, NoLostWakeup, LauncherInit
<1>6. Limit!Init
  BY <1>1 DEF Limit!Init, LauncherInit
<1> QED
  BY <1>2, <1>3, <1>4, <1>5, <1>6 DEF GateInv

(* A step outside the gate keeps the invariant and stutters.               *)
LEMMA OutsideStep ==
  ASSUME GateInv, UNCHANGED <<num_requests, gate>>,
         lpc' = lpc \/ (lpc \notin GatePcs /\ lpc' \notin GatePcs),
         rpc' \in [Reqs -> ExecPcs],
         \A r \in Reqs :
           \/ rpc'[r] = rpc[r]
           \/ /\ rpc[r] \notin GivePcs /\ rpc'[r] \notin GivePcs
              /\ rpc[r] \in GivenPcs <=> rpc'[r] \in GivenPcs
  PROVE  GateInv' /\ UNCHANGED Limit!vars
<1>1. Given' = Given
  BY DEF Given, GivenPcs
<1>2. AtGate' = AtGate /\ Taken' = Taken
  BY DEF AtGate, Taken, GatePcs
<1>3. GateType'
  BY DEF GateInv, GateType, gate
<1>4. IssuedRun'
  BY DEF GateInv, IssuedRun, GivePcs
<1>5. GateOrder' /\ NoLostWakeup'
  BY <1>2 DEF GateInv, GateOrder, NoLostWakeup, gate, GatePcs
<1>6. GateExclusion'
  BY DEF GateInv, GateExclusion, gate, GatePcs, GivePcs
<1>7. PermitsConserved'
  BY <1>1, <1>2 DEF GateInv, PermitsConserved, gate
<1> QED
  BY <1>1, <1>2, <1>3, <1>4, <1>5, <1>6, <1>7 DEF GateInv, Limit!vars

(* Issuing a request maps to Launch.                                       *)
LEMMA IssueStep ==
  ASSUME GateInv, CountRequest, UNCHANGED gate,
         rpc' = [rpc EXCEPT ![num_requests + 1] = "execute"], lpc' = "gate_lock"
  PROVE  GateInv' /\ Limit!Launch
<1> USE LauncherAssumption
<1>1. num_requests \in Nat /\ num_requests + 1 \in Reqs /\ num_requests < NumReqs
  BY DEF GateInv, GateType, CountRequest, Reqs
<1>2. rpc[num_requests + 1] = "none" /\ num_requests' = num_requests + 1
  BY <1>1 DEF GateInv, IssuedRun, CountRequest
<1>3. \A r \in Reqs : rpc'[r] = IF r = num_requests + 1 THEN "execute" ELSE rpc[r]
  BY <1>1 DEF GateInv, GateType
<1>4. Given' = Given
  BY <1>2, <1>3 DEF Given
<1>5. ~AtGate /\ AtGate' /\ Taken = num_requests /\ Taken' = num_requests
  BY <1>1, <1>2 DEF AtGate, Taken, CountRequest
<1>6. GateType'
  <2>1. rpc' \in [Reqs -> ExecPcs]
    BY <1>1 DEF GateInv, GateType, ExecPcs
  <2> QED
    BY <1>1, <1>2, <2>1 DEF GateInv, GateType, gate
<1>7. IssuedRun'
  BY <1>1, <1>2, <1>3 DEF GateInv, IssuedRun, Reqs
<1>8. GateOrder' /\ NoLostWakeup'
  BY <1>1, <1>2 DEF GateOrder, NoLostWakeup, gate
<1>9. GateExclusion'
  BY <1>3 DEF GateInv, GateExclusion, gate
<1>10. PermitsConserved'
  BY <1>4, <1>5 DEF GateInv, PermitsConserved, gate
<1>11. Limit!Launch
  BY <1>1, <1>2, <1>4, <1>5 DEF Limit!Launch
<1> QED
  BY <1>6, <1>7, <1>8, <1>9, <1>10, <1>11 DEF GateInv

(* The main thread gets the mutex only when nobody is inside.              *)
LEMMA LockGateStep ==
  ASSUME GateInv, LockGate
  PROVE  GateInv' /\ UNCHANGED Limit!vars
<1>1. /\ lpc = "gate_lock" /\ lpc' = "gate_test" /\ mutex = NoOwner /\ mutex' = Main
      /\ UNCHANGED <<num_requests, rpc, max_outstanding, cur, tmp>>
  BY DEF LockGate, LockMutex
<1>2. Given' = Given /\ AtGate' /\ AtGate /\ Taken' = Taken
  BY <1>1 DEF Given, AtGate, Taken
<1>3. GateType' /\ IssuedRun' /\ GateOrder' /\ NoLostWakeup'
  BY <1>1 DEF GateInv, GateType, IssuedRun, GateOrder, NoLostWakeup, AtGate
<1>4. GateExclusion'
  <2>1. \A r \in Reqs : rpc[r] \notin {"give_load", "give_store"}
    BY <1>1, LauncherAssumption DEF GateInv, GateExclusion, Reqs, NoOwner
  <2> QED
    BY <1>1, <2>1 DEF GateExclusion
<1>5. PermitsConserved'
  BY <1>1, <1>2 DEF GateInv, PermitsConserved
<1> QED
  BY <1>1, <1>2, <1>3, <1>4, <1>5 DEF GateInv, Limit!vars

(* The main thread waits only at zero, and goes on only above.             *)
LEMMA TestGateStep ==
  ASSUME GateInv, TestGate
  PROVE  GateInv' /\ UNCHANGED Limit!vars
<1>1. /\ lpc = "gate_test" /\ mutex = Main
      /\ UNCHANGED <<num_requests, rpc, max_outstanding, tmp>>
      /\ max_outstanding \in Nat
  BY DEF TestGate, GateInv, GateExclusion, GateType
<1>2. \/ max_outstanding = 0 /\ mutex' = NoOwner /\ lpc' = "gate_wait" /\ cur' = cur
      \/ max_outstanding > 0 /\ mutex' = Main /\ lpc' = "gate_take"
           /\ cur' = max_outstanding
  BY <1>1 DEF TestGate
<1>3. Given' = Given /\ AtGate' /\ AtGate /\ Taken' = Taken
  BY <1>1, <1>2 DEF Given, AtGate, Taken
<1>4. GateType' /\ IssuedRun'
  BY <1>1, <1>2 DEF GateInv, GateType, IssuedRun
<1>5. GateOrder' /\ NoLostWakeup'
  BY <1>1, <1>2, <1>3 DEF GateInv, GateOrder, NoLostWakeup
<1>6. GateExclusion'
  <2>1. \A r \in Reqs : rpc[r] \notin {"give_load", "give_store"}
    BY <1>1, LauncherAssumption DEF GateInv, GateExclusion, Reqs, Main
  <2> QED
    BY <1>1, <1>2, <2>1 DEF GateExclusion
<1>7. PermitsConserved'
  BY <1>1, <1>3 DEF GateInv, PermitsConserved
<1> QED
  BY <1>1, <1>3, <1>4, <1>5, <1>6, <1>7 DEF GateInv, Limit!vars

(* Taking a permit maps to Return: the permit taken is one that exists, so *)
(* at most MaxOutstanding requests are in flight.                          *)
LEMMA TakePermitStep ==
  ASSUME GateInv, NEW next, next \notin GatePcs, TakePermit(next)
  PROVE  GateInv' /\ Limit!Return
<1> USE LauncherAssumption, GateAssumption
<1>1. /\ lpc = "gate_take" /\ lpc' = next /\ mutex = Main /\ mutex' = NoOwner
      /\ max_outstanding' = cur - 1 /\ cur = max_outstanding /\ cur > 0
      /\ UNCHANGED <<num_requests, rpc, cur, tmp>>
  BY DEF TakePermit, GateInv, GateExclusion, GateOrder
<1>2. /\ max_outstanding \in Nat /\ num_requests \in Nat
      /\ num_requests > 0 /\ Cardinality(Given) \in Nat
  BY <1>1, GivenFinite DEF GateInv, GateType, GateOrder, AtGate
<1>3. Given' = Given /\ AtGate /\ ~AtGate'
  BY <1>1 DEF Given, AtGate, GatePcs
<1>4. Taken = num_requests - 1 /\ Taken' = num_requests
  BY <1>1, <1>3 DEF Taken
<1>5. GateType' /\ IssuedRun' /\ GateOrder' /\ NoLostWakeup'
  <2>1. max_outstanding' \in Nat
    BY <1>1, <1>2
  <2> QED
    BY <1>1, <1>3, <2>1 DEF GateInv, GateType, IssuedRun, GateOrder, NoLostWakeup, GatePcs
<1>6. GateExclusion'
  <2>1. \A r \in Reqs : rpc[r] \notin {"give_load", "give_store"}
    BY <1>1 DEF GateInv, GateExclusion, Reqs, Main
  <2> QED
    BY <1>1, <2>1 DEF GateExclusion, GatePcs
<1>7. max_outstanding + (num_requests - 1) = MaxOutstanding + Cardinality(Given)
  BY <1>4 DEF GateInv, PermitsConserved
<1>8. PermitsConserved'
  BY <1>1, <1>2, <1>3, <1>4, <1>7 DEF PermitsConserved
<1>9. Cardinality((1..num_requests) \ Given) <= MaxOutstanding
  <2>1. Cardinality((1..num_requests) \ Given) = num_requests - Cardinality(Given)
    BY OutstandingCount DEF GateInv
  <2> QED
    BY <1>1, <1>2, <1>7, <2>1
<1>10. Limit!Return
  <2>1. Taken < num_requests
    BY <1>2, <1>4
  <2>2. UNCHANGED <<num_requests, Given>>
    BY <1>1, <1>3
  <2> QED
    BY <1>4, <1>9, <2>1, <2>2 DEF Limit!Return, Limit!Cardinality, Cardinality
<1> QED
  BY <1>5, <1>6, <1>8, <1>10 DEF GateInv

(* A wakeup without a signal only sends the main thread back to the test.  *)
LEMMA WakeupStep ==
  ASSUME GateInv, SpuriousWakeup
  PROVE  GateInv' /\ UNCHANGED Limit!vars
<1>1. /\ lpc = "gate_wait" /\ lpc' = "gate_lock"
      /\ UNCHANGED <<num_requests, rpc, max_outstanding, mutex, cur, tmp>>
  BY DEF SpuriousWakeup, gate
<1>2. Given' = Given /\ AtGate' /\ AtGate /\ Taken' = Taken
  BY <1>1 DEF Given, AtGate, Taken
<1>3. GateType' /\ IssuedRun' /\ GateOrder' /\ NoLostWakeup'
  BY <1>1 DEF GateInv, GateType, IssuedRun, GateOrder, NoLostWakeup, AtGate
<1>4. GateExclusion' /\ PermitsConserved'
  BY <1>1, <1>2 DEF GateInv, GateExclusion, PermitsConserved
<1> QED
  BY <1>1, <1>2, <1>3, <1>4 DEF GateInv, Limit!vars

(* An executor gets the mutex only when nobody is inside.                  *)
LEMMA LockGiveStep ==
  ASSUME GateInv, NEW r \in Reqs, LockGive(r)
  PROVE  GateInv' /\ UNCHANGED Limit!vars
<1> USE LauncherAssumption
<1>1. /\ rpc[r] = "give_lock" /\ rpc' = [rpc EXCEPT ![r] = "give_load"]
      /\ mutex = NoOwner /\ mutex' = r
      /\ UNCHANGED <<num_requests, lpc, max_outstanding, cur, tmp>>
  BY DEF LockGive, LockMutex
<1>2. \A q \in Reqs : rpc'[q] = IF q = r THEN "give_load" ELSE rpc[q]
  BY <1>1 DEF GateInv, GateType
<1>3. Given' = Given /\ AtGate' = AtGate /\ Taken' = Taken
  BY <1>1, <1>2 DEF Given, AtGate, Taken
<1>4. GateType'
  <2>1. rpc' \in [Reqs -> ExecPcs]
    BY <1>1 DEF GateInv, GateType, ExecPcs
  <2> QED
    BY <1>1, <2>1 DEF GateInv, GateType
<1>5. IssuedRun' /\ GateOrder' /\ NoLostWakeup'
  BY <1>1, <1>2, <1>3 DEF GateInv, IssuedRun, GateOrder, NoLostWakeup
<1>6. GateExclusion'
  <2>1. /\ lpc \notin {"gate_test", "gate_take"}
        /\ \A q \in Reqs : rpc[q] \notin {"give_load", "give_store"}
    BY <1>1 DEF GateInv, GateExclusion, Reqs, NoOwner, Main
  <2> QED
    BY <1>1, <1>2, <2>1 DEF GateExclusion
<1>7. PermitsConserved'
  BY <1>1, <1>3 DEF GateInv, PermitsConserved
<1> QED
  BY <1>1, <1>3, <1>4, <1>5, <1>6, <1>7 DEF GateInv, Limit!vars

(* The value it reads is the one it will increment.                        *)
LEMMA LoadGiveStep ==
  ASSUME GateInv, NEW r \in Reqs, LoadGive(r)
  PROVE  GateInv' /\ UNCHANGED Limit!vars
<1> USE LauncherAssumption
<1>1. /\ rpc[r] = "give_load" /\ rpc' = [rpc EXCEPT ![r] = "give_store"]
      /\ mutex = r /\ tmp' = [tmp EXCEPT ![r] = max_outstanding]
      /\ UNCHANGED <<num_requests, lpc, max_outstanding, mutex, cur>>
  BY DEF LoadGive, GateInv, GateExclusion
<1>2. \A q \in Reqs : /\ rpc'[q] = IF q = r THEN "give_store" ELSE rpc[q]
                      /\ tmp'[q] = IF q = r THEN max_outstanding ELSE tmp[q]
  BY <1>1 DEF GateInv, GateType
<1>3. Given' = Given /\ AtGate' = AtGate /\ Taken' = Taken
  BY <1>1, <1>2 DEF Given, AtGate, Taken
<1>4. GateType'
  <2>1. rpc' \in [Reqs -> ExecPcs]
    BY <1>1 DEF GateInv, GateType, ExecPcs
  <2> QED
    BY <1>1, <2>1 DEF GateInv, GateType
<1>5. IssuedRun' /\ GateOrder' /\ NoLostWakeup'
  BY <1>1, <1>2, <1>3 DEF GateInv, IssuedRun, GateOrder, NoLostWakeup
<1>6. GateExclusion'
  BY <1>1, <1>2 DEF GateInv, GateExclusion
<1>7. PermitsConserved'
  BY <1>1, <1>3 DEF GateInv, PermitsConserved
<1> QED
  BY <1>1, <1>3, <1>4, <1>5, <1>6, <1>7 DEF GateInv, Limit!vars

(* Giving a permit back maps to Finish.                                    *)
LEMMA StoreGiveStep ==
  ASSUME GateInv, NEW r \in Reqs, NEW next \in GivenPcs, StoreGive(r, next)
  PROVE  GateInv' /\ Limit!Finish(r)
<1> USE LauncherAssumption
<1>1. /\ rpc[r] = "give_store" /\ rpc' = [rpc EXCEPT ![r] = next]
      /\ mutex = r /\ mutex' = NoOwner
      /\ max_outstanding' = max_outstanding + 1
      /\ lpc' = IF lpc = "gate_wait" THEN "gate_lock" ELSE lpc
      /\ UNCHANGED <<num_requests, cur, tmp>>
  BY DEF StoreGive, GateInv, GateExclusion
<1>2. \A q \in Reqs : rpc'[q] = IF q = r THEN next ELSE rpc[q]
  BY <1>1 DEF GateInv, GateType
<1>3. Given' = Given \cup {r} /\ r \notin Given
  BY <1>1, <1>2 DEF Given, GivenPcs
<1>4. AtGate' = AtGate /\ Taken' = Taken
  BY <1>1 DEF AtGate, Taken
<1>5. GateType'
  <2>1. rpc' \in [Reqs -> ExecPcs]
    BY <1>1 DEF GateInv, GateType, ExecPcs, GivenPcs
  <2> QED
    BY <1>1, <2>1 DEF GateInv, GateType
<1>6. IssuedRun'
  BY <1>1, <1>2 DEF GateInv, IssuedRun, GivenPcs
<1>7. GateOrder' /\ NoLostWakeup'
  BY <1>1, <1>4 DEF GateInv, GateOrder, NoLostWakeup
<1>8. GateExclusion'
  <2>1. /\ lpc \notin {"gate_test", "gate_take"}
        /\ \A q \in Reqs \ {r} : rpc[q] \notin {"give_load", "give_store"}
    BY <1>1 DEF GateInv, GateExclusion, Reqs, Main
  <2> QED
    BY <1>1, <1>2, <2>1 DEF GateExclusion, GivenPcs
<1>9. PermitsConserved'
  <2>1. Cardinality(Given') = Cardinality(Given) + 1
    BY <1>3, GivenFinite, FS_AddElement DEF GateInv
  <2>2. /\ max_outstanding \in Nat /\ Cardinality(Given) \in Nat
        /\ Taken \in Int /\ MaxOutstanding \in Nat
    BY GivenFinite, GateAssumption DEF GateInv, GateType, Taken
  <2> QED
    BY <1>1, <1>4, <2>1, <2>2 DEF GateInv, PermitsConserved
<1>10. Limit!Finish(r)
  <2>1. r \in 1..num_requests
    BY <1>1 DEF GateInv, GateType, IssuedRun, Reqs
  <2> QED
    BY <1>1, <1>3, <1>4, <2>1 DEF Limit!Finish
<1> QED
  BY <1>5, <1>6, <1>7, <1>8, <1>9, <1>10 DEF GateInv

-----------------------------------------------------------------------------
(* The other direction of GateExclusion: whoever owns the mutex is between *)
(* its lock and its unlock, where nothing keeps it from going on.          *)
MutexOwned ==
  \/ mutex = NoOwner
  \/ mutex = Main /\ lpc \in {"gate_test", "gate_take"}
  \/ \E r \in Reqs : mutex = r /\ rpc[r] \in {"give_load", "give_store"}

LEMMA InitOwned == GateInit => MutexOwned
BY DEF GateInit, MutexOwned

(* A step outside the gate leaves the owner where it is.                   *)
LEMMA OutsideOwned ==
  ASSUME MutexOwned, mutex' = mutex,
         lpc \in {"gate_test", "gate_take"} => lpc' = lpc,
         \A r \in Reqs : rpc[r] \in {"give_load", "give_store"} => rpc'[r] = rpc[r]
  PROVE  MutexOwned'
BY DEF MutexOwned

LEMMA MainOwned ==
  ASSUME MutexOwned, NEW next,
         LockGate \/ TestGate \/ TakePermit(next) \/ SpuriousWakeup
  PROVE  MutexOwned'
<1>1. CASE LockGate
  BY <1>1 DEF LockGate, LockMutex, MutexOwned
<1>2. CASE TestGate
  BY <1>2 DEF TestGate, MutexOwned
<1>3. CASE TakePermit(next)
  BY <1>3 DEF TakePermit, MutexOwned
<1>4. CASE SpuriousWakeup
  BY <1>4 DEF SpuriousWakeup, gate, MutexOwned
<1> QED
  BY <1>1, <1>2, <1>3, <1>4

LEMMA GiveOwned ==
  ASSUME GateType, MutexOwned, NEW r \in Reqs, NEW next,
         LockGive(r) \/ LoadGive(r) \/ StoreGive(r, next)
  PROVE  MutexOwned'
<1>1. rpc \in [Reqs -> ExecPcs]
  BY DEF GateType
<1>2. CASE LockGive(r)
  BY <1>1, <1>2 DEF LockGive, LockMutex, MutexOwned
<1>3. CASE LoadGive(r)
  <2>1. /\ rpc' = [rpc EXCEPT ![r] = "give_store"] /\ UNCHANGED <<mutex, lpc>>
    BY <1>3 DEF LoadGive
  <2>2. \A q \in Reqs : rpc[q] \in {"give_load", "give_store"} =>
                        rpc'[q] \in {"give_load", "give_store"}
    BY <1>1, <2>1
  <2> QED
    BY <2>1, <2>2 DEF MutexOwned
<1>4. CASE StoreGive(r, next)
  BY <1>4 DEF StoreGive, MutexOwned
<1> QED
  BY <1>2, <1>3, <1>4

(* The main thread sleeps at the gate only while some executor has a       *)
(* permit to give back, even if the limit is 0: the request it is issuing  *)
(* runs before it has a permit.                                            *)
LEMMA SomebodyGives ==
  ASSUME GateInv, lpc = "gate_wait"
  PROVE  \E r \in Reqs : rpc[r] \notin {"none"} \cup GivenPcs
<1> USE LauncherAssumption, GateAssumption
<1>1. /\ num_requests \in Nat /\ num_requests > 0 /\ num_requests <= NumReqs
      /\ max_outstanding = 0 /\ Taken = num_requests - 1
      /\ Cardinality(Given) \in Nat
  BY GivenFinite DEF GateInv, GateType, GateOrder, NoLostWakeup, AtGate, Taken
<1>2. Cardinality(Given) < num_requests
  BY <1>1 DEF GateInv, PermitsConserved
<1>3. Given # 1..num_requests
  <2>1. Cardinality(1..num_requests) = num_requests
    BY <1>1, FS_Interval
  <2> QED
    BY <1>1, <1>2, <2>1
<1>4. Given \subseteq 1..num_requests
  BY <1>1 DEF Given, GateInv, IssuedRun, Reqs
<1>5. PICK r \in 1..num_requests : r \notin Given
  BY <1>3, <1>4
<1>6. r \in Reqs /\ rpc[r] # "none"
  BY <1>1, <1>5 DEF GateInv, IssuedRun, Reqs
<1> QED
  BY <1>5, <1>6 DEF Given, GivenPcs
=============================================================================
