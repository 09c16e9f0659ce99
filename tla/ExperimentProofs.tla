--------------------------- MODULE ExperimentProofs ---------------------------
(***************************************************************************)
(* The program of assignment 1 with processes, from its command line to    *)
(* its measurements.  ProcessLauncher limits the requests in flight, for   *)
(* any number of requests, any positive limit and any placement of the     *)
(* calls of WaitOutstanding.  So it does under run_experiment, whose       *)
(* samples add up whatever children are killed and whatever the clock      *)
(* says.  And what main passes on before that - options, requests, copies  *)
(* of requests - arrives, for all sizes.                                   *)
(***************************************************************************)
EXTENDS Start, Experiment, GateProofs, WellFoundedInduction

(* Every step of the parent keeps the gate's invariant, and is a step of   *)
(* the limit or leaves it alone.                                           *)
LEMMA ParentKeepsGate ==
  ASSUME GateInv, MainStep
  PROVE  GateInv' /\ [Limit!Next]_(Limit!vars)
<1>1. rpc \in [Reqs -> ExecPcs]
  BY DEF GateInv, GateType
<1>2. CASE Fork
  <2>1. GateInv' /\ Limit!Launch
    BY <1>2, IssueStep DEF Fork
  <2> QED
    BY <2>1 DEF Limit!Next
<1>3. CASE LockGate \/ TestGate
  BY <1>3, LockGateStep, TestGateStep
<1>4. CASE TakePermit(AfterReturn)
  <2>1. AfterReturn \notin GatePcs
    BY DEF GatePcs, AfterReturn
  <2>2. GateInv' /\ Limit!Return
    BY <1>4, <2>1, TakePermitStep
  <2> QED
    BY <2>2 DEF Limit!Next
<1>5. CASE Wait
  <2>1. UNCHANGED <<num_requests, rpc, gate>> /\ lpc = "wait" /\ lpc' = "idle"
    BY <1>5 DEF Wait, WaitOutstanding
  <2> QED
    BY <1>1, <2>1, OutsideStep DEF GatePcs
<1> QED
  BY <1>2, <1>3, <1>4, <1>5 DEF MainStep, Parent

(* So does every step of a child.                                          *)
LEMMA ChildKeepsGate ==
  ASSUME GateInv, NEW r \in Reqs, ChildStep(r)
  PROVE  GateInv' /\ [Limit!Next]_(Limit!vars)
<1>1. rpc \in [Reqs -> ExecPcs]
  BY DEF GateInv, GateType
<1>2. CASE Execute(r) \/ Count(r)
  <2>1. PICK p \in {"executed", "give_lock"} :
          /\ rpc[r] \in {"execute", "executed"} /\ rpc' = [rpc EXCEPT ![r] = p]
          /\ UNCHANGED <<num_requests, lpc, gate>>
    BY <1>2 DEF Execute, Count
  <2>2. rpc' \in [Reqs -> ExecPcs]
    BY <1>1, <2>1 DEF ExecPcs
  <2>3. \A q \in Reqs :
           \/ rpc'[q] = rpc[q]
           \/ /\ rpc[q] \notin GivePcs /\ rpc'[q] \notin GivePcs
              /\ rpc[q] \in GivenPcs <=> rpc'[q] \in GivenPcs
    BY <1>1, <2>1 DEF GivePcs, GivenPcs
  <2> QED
    BY <2>1, <2>2, <2>3, OutsideStep
<1>3. CASE LockGive(r) \/ LoadGive(r)
  BY <1>3, LockGiveStep, LoadGiveStep
<1>4. CASE StoreGive(r, "exited")
  <2>1. "exited" \in GivenPcs
    BY DEF GivenPcs
  <2>2. GateInv' /\ Limit!Finish(r)
    BY <1>4, <2>1, StoreGiveStep
  <2> QED
    BY <2>2 DEF Limit!Next, Reqs
<1> QED
  BY <1>2, <1>3, <1>4 DEF ChildStep, GiveBack

(* The gate's invariant is inductive, and every step maps to the limit.    *)
LEMMA StepKeepsGate ==
  ASSUME GateInv, [Next]_vars
  PROVE  GateInv' /\ [Limit!Next]_(Limit!vars)
<1>1. CASE MainStep
  BY <1>1, ParentKeepsGate
<1>2. CASE SpuriousWakeup
  BY <1>2, WakeupStep
<1>3. ASSUME NEW r \in Reqs, ChildStep(r)
      PROVE  GateInv' /\ [Limit!Next]_(Limit!vars)
  BY <1>3, ChildKeepsGate
<1>4. CASE UNCHANGED vars
  <2>1. UNCHANGED <<num_requests, lpc, rpc, gate>>
    BY <1>4 DEF vars, base
  <2>2. rpc \in [Reqs -> ExecPcs]
    BY DEF GateInv, GateType
  <2> QED
    BY <2>1, <2>2, OutsideStep
<1> QED
  BY <1>1, <1>2, <1>3, <1>4 DEF Next

LEMMA GateInvariant == Spec => []GateInv
<1>1. Init => GateInv
  BY GateInitInv DEF Init
<1>2. GateInv /\ [Next]_vars => GateInv'
  BY StepKeepsGate
<1> QED
  BY <1>1, <1>2, PTL DEF Spec

-----------------------------------------------------------------------------
(* No interleaving of ExecuteRequest with the children that end makes up   *)
(* or loses a permit.                                                      *)
THEOREM ProcessPermitsConserved == Spec => []PermitsConserved
<1>1. GateInv => PermitsConserved
  BY DEF GateInv
<1> QED
  BY <1>1, GateInvariant, PTL

(* Between lock and unlock nobody else changes the counter.                *)
THEOREM ProcessGateExclusion == Spec => []GateExclusion
<1>1. GateInv => GateExclusion
  BY DEF GateInv
<1> QED
  BY <1>1, GateInvariant, PTL

(* The parent never sleeps while a permit is there for it.                 *)
THEOREM ProcessNoLostWakeup == Spec => []NoLostWakeup
<1>1. GateInv => NoLostWakeup
  BY DEF GateInv
<1> QED
  BY <1>1, GateInvariant, PTL

(* At most MaxOutstanding requests are in flight, plus the one being       *)
(* issued.                                                                 *)
THEOREM ProcessOutstandingBounded == Spec => []OutstandingBounded
<1>1. GateInv => OutstandingBounded
  BY GateBounds
<1> QED
  BY <1>1, GateInvariant, PTL

(* ProcessLauncher implements the limit its callers rely on.               *)
THEOREM ProcessImplementsLimit == Spec => ImplementsLimit
<1>1. Init => Limit!Init
  BY GateInitInv DEF Init
<1>2. GateInv /\ [Next]_vars => [Limit!Next]_(Limit!vars)
  BY StepKeepsGate
<1> QED
  BY <1>1, <1>2, GateInvariant, PTL DEF Spec, ImplementsLimit, Limit!Spec

-----------------------------------------------------------------------------
(* The requests counted in txns_executed_.                                 *)
Counted == {r \in Reqs : rpc[r] \in {"give_lock", "give_load", "give_store", "exited"}}

(* What WaitOutstanding compares is the number of requests counted.        *)
WaitInv ==
  /\ txns_executed = Cardinality(Counted)
  /\ waited \in 0..num_requests
  /\ 1..waited \subseteq Counted

(* A step that counts nothing keeps it.                                    *)
LEMMA QuietStep ==
  ASSUME GateInv, WaitInv, UNCHANGED <<txns_executed, waited>>, Counted' = Counted,
         num_requests' \in Nat, num_requests' >= num_requests
  PROVE  WaitInv'
BY DEF WaitInv, GateInv, GateType

LEMMA StepKeepsWait ==
  ASSUME GateInv, WaitInv, [Next]_vars
  PROVE  WaitInv'
<1> USE LauncherAssumption
<1>1. /\ num_requests \in Nat /\ rpc \in [Reqs -> ExecPcs]
      /\ Counted \subseteq 1..num_requests /\ IsFiniteSet(Counted)
  <2>1. num_requests \in Nat /\ rpc \in [Reqs -> ExecPcs]
    BY DEF GateInv, GateType
  <2>2. Counted \subseteq 1..num_requests
    BY <2>1 DEF Counted, GateInv, IssuedRun, Reqs
  <2>3. IsFiniteSet(1..num_requests)
    BY <2>1, FS_Interval
  <2> QED
    BY <2>1, <2>2, <2>3, FS_Subset
<1>2. CASE Fork
  <2>1. /\ num_requests' = num_requests + 1 /\ UNCHANGED <<txns_executed, waited>>
        /\ num_requests + 1 \in Reqs
        /\ rpc' = [rpc EXCEPT ![num_requests + 1] = "execute"]
    BY <1>1, <1>2 DEF Fork, CountRequest, Reqs
  <2>2. rpc[num_requests + 1] = "none"
    BY <1>1, <2>1 DEF GateInv, IssuedRun
  <2>3. Counted' = Counted
    BY <1>1, <2>1, <2>2 DEF Counted
  <2> QED
    BY <1>1, <2>1, <2>3, QuietStep
<1>3. CASE Parent \/ SpuriousWakeup
  <2>1. UNCHANGED <<num_requests, txns_executed, waited, rpc>>
    BY <1>3 DEF Parent, LockGate, TestGate, TakePermit, SpuriousWakeup
  <2>2. Counted' = Counted
    BY <2>1 DEF Counted
  <2> QED
    BY <1>1, <2>1, <2>2, QuietStep
<1>4. CASE Wait
  <2>1. /\ txns_executed = num_requests /\ waited' = num_requests
        /\ UNCHANGED <<num_requests, txns_executed, rpc>>
    BY <1>4 DEF Wait, WaitOutstanding
  <2>2. Counted = 1..num_requests
    BY <1>1, <2>1, AllCounted DEF WaitInv
  <2>3. Counted' = Counted
    BY <2>1 DEF Counted
  <2>4. txns_executed' = Cardinality(Counted')
    BY <2>1, <2>3 DEF WaitInv
  <2>5. waited' \in 0..num_requests' /\ 1..waited' \subseteq Counted'
    BY <1>1, <2>1, <2>2, <2>3
  <2> QED
    BY <2>4, <2>5 DEF WaitInv
<1>5. ASSUME NEW r \in Reqs, ChildStep(r)
      PROVE  WaitInv'
  <2>1. CASE Execute(r) \/ GiveBack(r)
    <3>1. UNCHANGED <<num_requests, txns_executed, waited>>
      BY <2>1 DEF Execute, GiveBack, LockGive, LoadGive, StoreGive
    <3>2. Counted' = Counted
      BY <1>1, <2>1 DEF Counted, Execute, GiveBack, LockGive, LoadGive, StoreGive
    <3> QED
      BY <1>1, <3>1, <3>2, QuietStep
  <2>2. CASE Count(r)
    <3>1. /\ rpc[r] = "executed" /\ rpc' = [rpc EXCEPT ![r] = "give_lock"]
          /\ txns_executed' = txns_executed + 1 /\ UNCHANGED <<num_requests, waited>>
      BY <2>2 DEF Count, IncrDoneTxns
    <3>2. Counted' = Counted \cup {r} /\ r \notin Counted
      BY <1>1, <3>1 DEF Counted
    <3>3. Cardinality(Counted') = Cardinality(Counted) + 1
      BY <1>1, <3>2, FS_AddElement
    <3> QED
      BY <3>1, <3>2, <3>3 DEF WaitInv
  <2> QED
    BY <1>5, <2>1, <2>2 DEF ChildStep
<1>6. CASE UNCHANGED vars
  <2>1. UNCHANGED <<num_requests, txns_executed, waited, rpc>>
    BY <1>6 DEF vars, base
  <2>2. Counted' = Counted
    BY <2>1 DEF Counted
  <2> QED
    BY <1>1, <2>1, <2>2, QuietStep
<1> QED
  BY <1>2, <1>3, <1>4, <1>5, <1>6 DEF Next, MainStep

(* After WaitOutstanding every request issued before it has been executed: *)
(* its loop on two plain integers can be left only when all their          *)
(* children have counted them.                                             *)
THEOREM ProcessWaitedAreDone == Spec => []WaitedAreDone
<1>1. Init => WaitInv
  <2>1. SUFFICES ASSUME Init PROVE WaitInv
    OBVIOUS
  <2>2. Counted = {} /\ txns_executed = 0 /\ waited = 0 /\ num_requests = 0
    BY <2>1 DEF Init, LauncherInit, Counted
  <2> QED
    BY <2>2, FS_EmptySet DEF WaitInv
<1>2. GateInv /\ WaitInv /\ [Next]_vars => WaitInv'
  BY StepKeepsWait
<1>3. WaitInv => WaitedAreDone
  BY DEF WaitInv, WaitedAreDone, Counted
<1> QED
  BY <1>1, <1>2, <1>3, GateInvariant, PTL DEF Spec

-----------------------------------------------------------------------------
(* In a driver between its calls, the wait that was due has been made.     *)
WaitKept == lpc = "idle" /\ num_requests \in WaitPoints => waited = num_requests

(* The variables that no bound of the gate speaks of.                      *)
PcTypes ==
  /\ lpc \in {"idle", "gate_lock", "gate_test", "gate_wait", "gate_take", "wait"}
  /\ rpc \in [Reqs -> {"none", "execute", "executed", "give_lock", "give_load",
                       "give_store", "exited"}]
  /\ mutex \in {NoOwner, Main} \cup Reqs
  /\ cur \in 0..(MaxOutstanding + 1)
  /\ tmp \in [Reqs -> 0..(MaxOutstanding + 1)]

(* The launcher's state in full.                                           *)
LauncherInv == GateInv /\ WaitInv /\ PcTypes /\ WaitKept

(* No more requests are counted than there are.                            *)
LEMMA CountedBounded ==
  ASSUME GateInv, WaitInv
  PROVE  txns_executed \in 0..NumReqs
<1>1. Counted \in SUBSET Reqs
  BY DEF Counted
<1>2. IsFiniteSet(Reqs) /\ Cardinality(Reqs) = NumReqs
  BY LauncherAssumption, FS_Interval DEF Reqs
<1>3. IsFiniteSet(Counted) /\ Cardinality(Counted) <= NumReqs
  BY <1>1, <1>2, FS_Subset
<1>4. Cardinality(Counted) \in Nat
  BY <1>3, FS_CardinalityType
<1> QED
  BY <1>3, <1>4, LauncherAssumption DEF WaitInv

(* So every variable has its type.                                         *)
LEMMA LauncherTypes ==
  ASSUME LauncherInv
  PROVE  TypeOK
<1>1. num_requests \in 0..NumReqs /\ max_outstanding \in 0..(MaxOutstanding + 1)
  BY GateBounds DEF LauncherInv, GateInv, GateType
<1>2. txns_executed \in 0..NumReqs
  BY CountedBounded DEF LauncherInv
<1>3. waited \in 0..NumReqs
  BY <1>1, LauncherAssumption DEF LauncherInv, WaitInv
<1> QED
  BY <1>1, <1>2, <1>3 DEF LauncherInv, PcTypes, TypeOK

LEMMA InitLauncher == Init => LauncherInv
<1> SUFFICES ASSUME Init PROVE LauncherInv
  OBVIOUS
<1> USE LauncherAssumption, GateAssumption
<1>1. GateInv
  BY GateInitInv DEF Init
<1>2. WaitInv
  <2>1. Counted = {} /\ txns_executed = 0 /\ waited = 0 /\ num_requests = 0
    BY DEF Init, LauncherInit, Counted
  <2> QED
    BY <2>1, FS_EmptySet DEF WaitInv
<1>3. PcTypes
  BY DEF Init, LauncherInit, GateInit, PcTypes
<1>4. WaitKept
  BY DEF Init, LauncherInit, WaitKept
<1> QED
  BY <1>1, <1>2, <1>3, <1>4 DEF LauncherInv

LEMMA StepKeepsPcs ==
  ASSUME LauncherInv, [Next]_vars
  PROVE  PcTypes'
<1> USE LauncherAssumption DEF PcTypes
<1>1. PcTypes /\ num_requests \in 0..NumReqs /\ max_outstanding \in 0..(MaxOutstanding + 1)
  BY GateBounds DEF LauncherInv, GateInv, GateType
<1>2. CASE Fork
  BY <1>1, <1>2 DEF Fork, CountRequest, gate, Reqs
<1>3. CASE Parent
  BY <1>1, <1>3 DEF Parent, LockGate, LockMutex, TestGate, TakePermit, AfterReturn
<1>4. CASE Wait
  BY <1>1, <1>4 DEF Wait, WaitOutstanding, gate
<1>5. CASE SpuriousWakeup
  BY <1>1, <1>5 DEF SpuriousWakeup, gate
<1>6. ASSUME NEW r \in Reqs, Execute(r) \/ Count(r) PROVE PcTypes'
  BY <1>1, <1>6 DEF Execute, Count, gate
<1>7. ASSUME NEW r \in Reqs, GiveBack(r) PROVE PcTypes'
  BY <1>1, <1>7 DEF GiveBack, LockGive, LockMutex, LoadGive, StoreGive
<1>8. CASE UNCHANGED vars
  BY <1>1, <1>8 DEF vars, base, gate
<1> QED
  BY <1>2, <1>3, <1>4, <1>5, <1>6, <1>7, <1>8 DEF Next, MainStep, ChildStep

(* The launcher's invariant is inductive.                                  *)
LEMMA StepKeepsLauncher ==
  ASSUME LauncherInv, [Next]_vars
  PROVE  LauncherInv'
<1> USE LauncherAssumption
<1>1. GateInv' /\ WaitInv'
  BY StepKeepsGate, StepKeepsWait DEF LauncherInv
<1>2. PcTypes'
  BY StepKeepsPcs
<1>3. WaitKept'
  <2>1. WaitKept /\ rpc \in [Reqs -> ExecPcs]
    BY DEF LauncherInv, GateInv, GateType
  <2>2. CASE Fork
    BY <2>2 DEF Fork, WaitKept
  <2>3. CASE Parent
    BY <2>1, <2>3 DEF Parent, LockGate, TestGate, TakePermit, AfterReturn, WaitKept
  <2>4. CASE Wait
    BY <2>4 DEF Wait, WaitOutstanding, WaitKept
  <2>5. CASE SpuriousWakeup
    BY <2>5 DEF SpuriousWakeup, WaitKept
  <2>6. ASSUME NEW r \in Reqs, ChildStep(r) PROVE WaitKept'
    <3>1. UNCHANGED <<num_requests, waited>> /\ (lpc' = lpc \/ lpc' = "gate_lock")
      BY <2>6 DEF ChildStep, Execute, Count, GiveBack, LockGive, LoadGive, StoreGive
    <3> QED
      BY <2>1, <3>1 DEF WaitKept
  <2>7. CASE UNCHANGED vars
    BY <2>1, <2>7 DEF vars, base, WaitKept
  <2> QED
    BY <2>2, <2>3, <2>4, <2>5, <2>6, <2>7 DEF Next, MainStep
<1> QED
  BY <1>1, <1>2, <1>3 DEF LauncherInv

-----------------------------------------------------------------------------
(* The experiment drives the launcher only as the launcher allows: each of *)
(* its steps, the killing of a child among them, is a step of the launcher *)
(* or leaves it alone.                                                     *)
LEMMA ExperimentStep ==
  ASSUME [ExperimentNext]_<<vars, xvars>>
  PROVE  [Next]_vars
<1>1. CASE MainThread
  <2>1. CASE IssueDry
    BY <2>1 DEF IssueDry, Next, MainStep
  <2>2. CASE Issue
    BY <2>2 DEF Issue, Next, MainStep
  <2>3. CASE CreateMonitor \/ TestDone \/ Report
    BY <2>3 DEF CreateMonitor, TestDone, Report
  <2>4. CASE InLauncher
    BY <2>4 DEF InLauncher, Next, MainStep
  <2> QED
    BY <1>1, <2>1, <2>2, <2>3, <2>4 DEF MainThread
<1>2. CASE Monitor
  BY <1>2 DEF Monitor, Begin, ReadTxns, Divide, Finish
<1>3. CASE Wakeup
  BY <1>3 DEF Wakeup, Next
<1>4. ASSUME NEW r \in Reqs, Child(r) \/ Kill(r) PROVE [Next]_vars
  BY <1>4 DEF Child, Kill, Next
<1> QED
  BY <1>1, <1>2, <1>3, <1>4 DEF ExperimentNext

LEMMA ExperimentLaunches == ExperimentSpec => Spec
<1>1. ExperimentInit => Init
  BY DEF ExperimentInit
<1>2. [ExperimentNext]_<<vars, xvars>> => [Next]_vars
  BY ExperimentStep
<1> QED
  BY <1>1, <1>2, PTL DEF ExperimentSpec, Spec

(* Under the experiment, with its dry run, its measured run and children   *)
(* that are killed, the requests in flight stay within the limit.          *)
THEOREM ExperimentOutstandingBounded == ExperimentSpec => []OutstandingBounded
BY ExperimentLaunches, ProcessOutstandingBounded, PTL

(* Nor is a permit made up or lost there: a killed child keeps its own and *)
(* leaves those of the others alone.                                       *)
THEOREM ExperimentPermitsConserved == ExperimentSpec => []PermitsConserved
BY ExperimentLaunches, ProcessPermitsConserved, PTL

(* The wait at the end of the dry run is a wait for all of it, although a  *)
(* killed child may keep it from ever ending.                              *)
THEOREM ExperimentWaitedAreDone == ExperimentSpec => []WaitedAreDone
BY ExperimentLaunches, ProcessWaitedAreDone, PTL

(* And the launcher still implements its limit.                            *)
THEOREM ExperimentImplementsLimit == ExperimentSpec => ImplementsLimit
BY ExperimentLaunches, ProcessImplementsLimit, PTL

LEMMA LauncherInExperiment == ExperimentSpec => []LauncherInv
<1>1. LauncherInv /\ [Next]_vars => LauncherInv'
  BY StepKeepsLauncher
<1> QED
  BY <1>1, InitLauncher, ExperimentLaunches, PTL DEF Spec

-----------------------------------------------------------------------------
(* Nobody is stuck.                                                        *)

(* Until the driver has made all its calls and every child has exited,     *)
(* somebody can go on.                                                     *)
NobodyStuck ==
  \/ Finished /\ \A r \in Reqs : rpc[r] = "exited"
  \/ lpc = "idle" /\ num_requests < NumReqs
  \/ ParentCanStep
  \/ \E r \in Reqs : ChildCanStep(r)

(* Inside the launcher the main thread or a child can go on.               *)
LEMMA LauncherGoesOn ==
  ASSUME LauncherInv, MutexOwned, \A r \in Reqs : ~ChildCanStep(r), lpc # "idle"
  PROVE  ParentCanStep
<1> SUFFICES ASSUME ~ParentCanStep PROVE FALSE
  OBVIOUS
<1> USE LauncherAssumption
<1>1. mutex = NoOwner
  <2>1. ~(mutex = Main /\ lpc \in {"gate_test", "gate_take"})
    BY DEF ParentCanStep
  <2>2. ~\E r \in Reqs : mutex = r /\ rpc[r] \in {"give_load", "give_store"}
    BY DEF ChildCanStep
  <2> QED
    BY <2>1, <2>2 DEF MutexOwned
<1>2. \A r \in Reqs : rpc[r] \in {"none", "exited"}
  BY <1>1 DEF ChildCanStep
<1>3. lpc # "gate_wait"
  BY <1>2, SomebodyGives DEF GivenPcs, LauncherInv
<1>4. lpc = "wait"
  BY <1>1, <1>3 DEF LauncherInv, PcTypes, ParentCanStep
<1>5. num_requests \in Nat /\ num_requests <= NumReqs
  BY DEF LauncherInv, GateInv, GateType
<1>6. Counted = 1..num_requests
  BY <1>2, <1>5 DEF Counted, LauncherInv, GateInv, IssuedRun, Reqs
<1>7. txns_executed = num_requests
  BY <1>5, <1>6, FS_Interval DEF LauncherInv, WaitInv
<1> QED
  BY <1>4, <1>7 DEF ParentCanStep

LEMMA ChildrenGoOn ==
  ASSUME LauncherInv, MutexOwned
  PROVE  NobodyStuck
<1> USE LauncherAssumption
<1> SUFFICES ASSUME ~ParentCanStep, \A r \in Reqs : ~ChildCanStep(r),
                    ~(lpc = "idle" /\ num_requests < NumReqs)
             PROVE  Finished /\ \A r \in Reqs : rpc[r] = "exited"
  BY DEF NobodyStuck
<1>1. lpc = "idle" /\ num_requests = NumReqs
  BY LauncherGoesOn DEF LauncherInv, GateInv, GateType
<1>2. \A r \in Reqs : rpc[r] # "none"
  BY <1>1 DEF LauncherInv, GateInv, IssuedRun, Reqs
<1>3. ~\E r \in Reqs : mutex = r /\ rpc[r] \in {"give_load", "give_store"}
  BY DEF ChildCanStep
<1>4. mutex = NoOwner
  BY <1>1, <1>3 DEF MutexOwned
<1>5. \A r \in Reqs : rpc[r] = "exited"
  BY <1>2, <1>4 DEF ChildCanStep
<1> QED
  BY <1>1, <1>5 DEF Finished

LEMMA StepKeepsOwned ==
  ASSUME LauncherInv, MutexOwned, [Next]_vars
  PROVE  MutexOwned'
<1> USE LauncherAssumption
<1>1. num_requests \in Nat /\ rpc \in [Reqs -> ExecPcs] /\ GateType
  BY DEF LauncherInv, GateInv, GateType
<1>2. CASE Fork
  <2>1. /\ lpc = "idle" /\ num_requests + 1 \in Reqs /\ mutex' = mutex
        /\ rpc' = [rpc EXCEPT ![num_requests + 1] = "execute"]
    BY <1>1, <1>2 DEF Fork, CountRequest, gate, Reqs
  <2>2. rpc[num_requests + 1] = "none"
    BY <1>1, <2>1 DEF LauncherInv, GateInv, IssuedRun
  <2>3. \A r \in Reqs : rpc[r] # "none" => rpc'[r] = rpc[r]
    BY <1>1, <2>1, <2>2
  <2> QED
    BY <2>1, <2>3, OutsideOwned
<1>3. CASE Parent \/ SpuriousWakeup
  BY <1>3, MainOwned DEF Parent
<1>4. CASE Wait
  BY <1>4, OutsideOwned DEF Wait, WaitOutstanding, gate
<1>5. ASSUME NEW r \in Reqs, Execute(r) \/ Count(r)
      PROVE  MutexOwned'
  <2>1. /\ rpc[r] \in {"execute", "executed"} /\ UNCHANGED <<mutex, lpc>>
        /\ \A q \in Reqs : q # r => rpc'[q] = rpc[q]
    BY <1>1, <1>5 DEF Execute, Count, gate
  <2> QED
    BY <2>1, OutsideOwned
<1>6. ASSUME NEW r \in Reqs, GiveBack(r)
      PROVE  MutexOwned'
  BY <1>1, <1>6, GiveOwned DEF GiveBack
<1>7. CASE UNCHANGED vars
  BY <1>7, OutsideOwned DEF vars, base, gate
<1> QED
  BY <1>2, <1>3, <1>4, <1>5, <1>6, <1>7 DEF Next, MainStep, ChildStep

LEMMA OwnedInvariant == Spec => [](LauncherInv /\ MutexOwned)
<1>1. Init => MutexOwned
  BY InitOwned DEF Init
<1>2. LauncherInv /\ MutexOwned /\ [Next]_vars => LauncherInv' /\ MutexOwned'
  BY StepKeepsLauncher, StepKeepsOwned
<1> QED
  BY <1>1, <1>2, InitLauncher, PTL DEF Spec

(* As long as no child is killed, the parent and its children never all    *)
(* wait for each other.                                                    *)
THEOREM ProcessNobodyStuck == Spec => []NobodyStuck
<1>1. LauncherInv /\ MutexOwned => NobodyStuck
  BY ChildrenGoOn
<1> QED
  BY <1>1, OwnedInvariant, PTL

(* Where run_experiment is when it is inside no call of the launcher.      *)
DriverOrder ==
  /\ xpc \in {"dry_run", "test_done", "issue", "report", "exit"}
  /\ xpc = "dry_run" => num_requests <= DryRun
  /\ xpc = "issue" => lpc = "idle"

LEMMA StepKeepsOrder ==
  ASSUME LauncherInv, DriverOrder, [ExperimentNext]_<<vars, xvars>>
  PROVE  DriverOrder'
<1> USE LauncherAssumption, ExperimentAssumption DEF DriverOrder
<1>1. num_requests \in Nat /\ DryRun \in Nat
  BY DEF LauncherInv, GateInv, GateType
<1>2. CASE IssueDry
  BY <1>1, <1>2 DEF IssueDry, Fork, CountRequest, xvars
<1>3. CASE CreateMonitor \/ TestDone \/ Report
  BY <1>3 DEF CreateMonitor, TestDone, Report, Between, vars, base
<1>4. CASE Issue
  BY <1>4 DEF Issue
<1>5. CASE InLauncher
  BY <1>5 DEF InLauncher, Parent, LockGate, TestGate, TakePermit, Wait, WaitOutstanding,
              xvars
<1>6. CASE Monitor
  BY <1>6 DEF Monitor, Begin, ReadTxns, Divide, Finish, vars, base
<1>7. CASE Wakeup
  BY <1>7 DEF Wakeup, SpuriousWakeup, xvars
<1>8. ASSUME NEW r \in Reqs, Child(r)
      PROVE  DriverOrder'
  BY <1>8 DEF Child, ChildStep, Execute, Count, GiveBack, LockGive, LoadGive, StoreGive,
              xvars
<1>9. ASSUME NEW r \in Reqs, Kill(r)
      PROVE  DriverOrder'
  BY <1>9 DEF Kill, vars, base
<1>10. CASE UNCHANGED <<vars, xvars>>
  BY <1>10 DEF vars, base, xvars
<1> QED
  BY <1>2, <1>3, <1>4, <1>5, <1>6, <1>7, <1>8, <1>9, <1>10 DEF ExperimentNext, MainThread

(* The experiment can hang in one way only: a child that is killed keeps a *)
(* permit, the mutex, or a count that somebody waits for.  The counter     *)
(* that the monitor reads and the flag that it sets hold up nobody.        *)
THEOREM ExperimentHangsOnlyByKill == ExperimentSpec => []OnlyKillsHang
<1>1. ExperimentInit => DriverOrder
  <2>1. DryRun \in 1..NumReqs
    BY ExperimentAssumption, LauncherAssumption
  <2> QED
    BY <2>1 DEF ExperimentInit, Init, LauncherInit, DriverOrder
<1>2. LauncherInv /\ DriverOrder /\ [ExperimentNext]_<<vars, xvars>> => DriverOrder'
  BY StepKeepsOrder
<1>3. LauncherInv /\ MutexOwned /\ DriverOrder => OnlyKillsHang
  <2> SUFFICES ASSUME LauncherInv, MutexOwned, DriverOrder, xpc # "exit",
                      ~MainThreadCanStep, killed = {}
               PROVE  \E r \in Reqs : ChildCanStep(r)
    BY DEF OnlyKillsHang
  <2> QED
    BY LauncherGoesOn DEF MainThreadCanStep, DriverOrder
<1> QED
  BY <1>1, <1>2, <1>3, ExperimentLaunches, OwnedInvariant, LauncherInExperiment, PTL
     DEF ExperimentSpec

-----------------------------------------------------------------------------
(* A set of numbers has a least one.                                       *)
LEMMA LeastNumber ==
  ASSUME NEW T \in SUBSET Nat, T # {}
  PROVE  \E n \in T : \A m \in T : n <= m
<1>1. PICK n \in T : \A m \in T : ~(<<m, n>> \in OpToRel(<, Nat))
  BY NatLessThanWellFounded, WFMin
<1>2. ASSUME NEW m \in T PROVE n <= m
  <2>1. n \in Nat /\ m \in Nat
    OBVIOUS
  <2>2. ~(m < n)
    BY <1>1, <2>1, Zenon DEF OpToRel
  <2> QED
    BY <2>1, <2>2
<1> QED
  BY <1>2

(* s is the sequence of the sums of the first numbers of d.                *)
Partial(d, n, s) ==
  /\ s \in [0..n -> Nat]
  /\ s[0] = 0
  /\ \A m \in 1..n : s[m] = s[m - 1] + d[m]

(* There are such sums: the least n that has none would be one more than   *)
(* an n that has.                                                          *)
LEMMA PartialExists ==
  ASSUME NEW d \in Seq(Nat), NEW l \in 0..Len(d)
  PROVE  \E s : Partial(d, l, s)
<1> DEFINE T == {n \in 0..Len(d) : ~ \E s : Partial(d, n, s)}
<1> SUFFICES ASSUME T # {} PROVE FALSE
  OBVIOUS
<1>1. Len(d) \in Nat
  OBVIOUS
<1>2. PICK n \in T : \A k \in T : n <= k
  <2>1. T \in SUBSET Nat
    BY <1>1
  <2> HIDE DEF T
  <2> QED
    BY <2>1, LeastNumber
<1>3. n # 0
  <2>1. Partial(d, 0, [m \in 0..0 |-> 0])
    BY DEF Partial
  <2> QED
    BY <1>2, <2>1
<1>4. n \in 1..Len(d) /\ n - 1 \in 0..Len(d) /\ n - 1 \notin T
  BY <1>1, <1>2, <1>3
<1>5. PICK s : Partial(d, n - 1, s)
  BY <1>4
<1> DEFINE t == [m \in 0..n |-> IF m = n THEN s[n - 1] + d[n] ELSE s[m]]
<1>6. t \in [0..n -> Nat] /\ t[0] = 0
  <2>1. n - 1 \in 0..(n - 1) /\ 0 \in 0..(n - 1) /\ \A m \in 0..n : m # n => m \in 0..(n - 1)
    BY <1>1, <1>4
  <2>2. s[0] = 0 /\ \A m \in 0..(n - 1) : s[m] \in Nat
    BY <1>5 DEF Partial
  <2>3. d[n] \in Nat
    BY <1>4
  <2>4. s[n - 1] + d[n] \in Nat
    BY <2>1, <2>2, <2>3
  <2> QED
    BY <1>4, <2>1, <2>2, <2>4
<1>7. ASSUME NEW m \in 1..n PROVE t[m] = t[m - 1] + d[m]
  <2>1. CASE m = n
    BY <1>1, <1>4, <2>1
  <2>2. CASE m # n
    <3>1. m \in 1..(n - 1) /\ m - 1 \in 0..n /\ m - 1 # n /\ m \in 0..n
      BY <1>1, <1>4, <2>2
    <3> QED
      BY <1>5, <2>2, <3>1 DEF Partial
  <2> QED
    BY <2>1, <2>2
<1>8. Partial(d, n, t)
  BY <1>6, <1>7 DEF Partial
<1> QED
  BY <1>2, <1>8

(* There are no others, and they depend on no number further on.           *)
LEMMA PartialUnique ==
  ASSUME NEW n \in Nat, NEW d, NEW s, Partial(d, n, s), NEW e, NEW t, Partial(e, n, t),
         \A m \in 1..n : d[m] = e[m]
  PROVE  s[n] = t[n]
<1> DEFINE T == {m \in 0..n : s[m] # t[m]}
<1> SUFFICES ASSUME T # {} PROVE FALSE
  OBVIOUS
<1>1. PICK m \in T : \A k \in T : m <= k
  <2>1. T \in SUBSET Nat
    OBVIOUS
  <2> HIDE DEF T
  <2> QED
    BY <2>1, LeastNumber
<1>2. m # 0
  BY <1>1 DEF Partial
<1>3. m \in 1..n /\ m - 1 \in 0..n /\ m - 1 \notin T
  BY <1>1, <1>2
<1>4. s[m] = s[m - 1] + d[m] /\ t[m] = t[m - 1] + e[m]
  BY <1>3 DEF Partial
<1> QED
  BY <1>1, <1>3, <1>4

(* SumOf is the last of them.                                              *)
LEMMA SumIsPartial ==
  ASSUME NEW d \in Seq(Nat)
  PROVE  \E s : Partial(d, Len(d), s) /\ SumOf(d) = s[Len(d)]
<1> DEFINE L == Len(d)
           Fix(s) == s = [n \in 0..L |-> IF n = 0 THEN 0 ELSE s[n - 1] + d[n]]
           f == CHOOSE s : Fix(s)
<1>1. L \in Nat
  OBVIOUS
<1>2. SumOf(d) = f[L]
  BY DEF SumOf
<1>3. \E s : Fix(s)
  <2>1. PICK s : Partial(d, L, s)
    <3>1. L \in 0..L
      BY <1>1
    <3> QED
      BY <3>1, PartialExists
  <2>2. s = [n \in 0..L |-> s[n]]
    BY <2>1 DEF Partial
  <2>3. ASSUME NEW n \in 0..L PROVE s[n] = IF n = 0 THEN 0 ELSE s[n - 1] + d[n]
    BY <1>1, <2>1 DEF Partial
  <2>4. Fix(s)
    BY <2>2, <2>3
  <2> QED
    BY <2>4
<1>4. Fix(f)
  BY <1>3
<1> HIDE DEF f
<1>5. f[0] = 0 /\ \A m \in 1..L : f[m] = f[m - 1] + d[m]
  BY <1>1, <1>4
<1>6. PICK s : Partial(d, L, s)
  <2>1. L \in 0..L
    BY <1>1
  <2> QED
    BY <2>1, PartialExists
<1> DEFINE T == {m \in 0..L : f[m] # s[m]}
<1>7. T = {}
  <2> SUFFICES ASSUME T # {} PROVE FALSE
    OBVIOUS
  <2>1. PICK m \in T : \A k \in T : m <= k
    <3>1. T \in SUBSET Nat
      BY <1>1
    <3> HIDE DEF T
    <3> QED
      BY <3>1, LeastNumber
  <2>2. m # 0
    BY <1>5, <1>6, <2>1 DEF Partial
  <2>3. m \in 1..L /\ m - 1 \in 0..L /\ m - 1 \notin T
    BY <1>1, <2>1, <2>2
  <2>4. f[m] = f[m - 1] + d[m] /\ s[m] = s[m - 1] + d[m]
    BY <1>5, <1>6, <2>3 DEF Partial
  <2> QED
    BY <2>1, <2>3, <2>4
<1>8. f[L] = s[L]
  BY <1>1, <1>7
<1> QED
  BY <1>2, <1>6, <1>8

LEMMA SumOfNone == SumOf(<<>>) = 0
<1>1. <<>> \in Seq(Nat) /\ Len(<<>>) = 0
  OBVIOUS
<1> QED
  BY <1>1, SumIsPartial DEF Partial

(* One number more adds itself.                                            *)
LEMMA SumOfOneMore ==
  ASSUME NEW d \in Seq(Nat), NEW x \in Nat
  PROVE  SumOf(Append(d, x)) = SumOf(d) + x
<1> DEFINE e == Append(d, x)
           L == Len(d)
<1>1. e \in Seq(Nat) /\ Len(e) = L + 1 /\ L \in Nat /\ e[L + 1] = x
  OBVIOUS
<1>2. \A m \in 1..L : d[m] = e[m]
  OBVIOUS
<1> HIDE DEF e
<1>3. PICK s : Partial(d, L, s) /\ SumOf(d) = s[L]
  BY SumIsPartial
<1>4. PICK t : Partial(e, L + 1, t) /\ SumOf(e) = t[L + 1]
  BY <1>1, SumIsPartial
<1> DEFINE u == [n \in 0..L |-> t[n]]
<1>5. t[L + 1] = t[L] + x
  <2>1. L + 1 \in 1..(L + 1) /\ (L + 1) - 1 = L
    BY <1>1
  <2> QED
    BY <1>1, <1>4, <2>1 DEF Partial
<1>6. Partial(e, L, u)
  <2>1. \A n \in 0..L : n \in 0..(L + 1) /\ u[n] = t[n]
    BY <1>1
  <2>2. \A n \in 1..L : n \in 1..(L + 1) /\ n \in 0..L /\ n - 1 \in 0..L
    BY <1>1
  <2>3. u \in [0..L -> Nat] /\ u[0] = 0
    BY <1>1, <1>4, <2>1 DEF Partial
  <2>4. ASSUME NEW n \in 1..L PROVE u[n] = u[n - 1] + e[n]
    BY <1>4, <2>1, <2>2 DEF Partial
  <2> QED
    BY <2>3, <2>4 DEF Partial
<1>7. s[L] = u[L] /\ u[L] = t[L]
  <2>1. s[L] = u[L]
    <3> HIDE DEF u, L
    <3> QED
      BY <1>1, <1>2, <1>3, <1>6, PartialUnique
  <2> QED
    BY <1>1, <2>1
<1> QED
  BY <1>3, <1>4, <1>5, <1>7 DEF e

-----------------------------------------------------------------------------
(* The values of a timespec, however long the program has been running.    *)
Time == [tv_sec : Nat, tv_nsec : 0..(NsecPerSec - 1)]

(* The clock shows the time that has passed.                               *)
LEMMA LaterIsLater ==
  ASSUME NEW t \in Time, NEW d \in Nat
  PROVE  Later(t, d) \in Time /\ Nsec(Later(t, d)) = Nsec(t) + d
<1> DEFINE n == Nsec(t) + d
<1>1. NsecPerSec \in Nat /\ NsecPerSec > 0
  BY ExperimentAssumption
<1>2. n \in Nat
  BY <1>1 DEF Nsec, Time
<1> HIDE DEF n
<1>3. /\ n \div NsecPerSec \in Nat
      /\ n % NsecPerSec \in 0..(NsecPerSec - 1)
      /\ (n \div NsecPerSec) * NsecPerSec + (n % NsecPerSec) = n
  BY <1>1, <1>2
<1>4. Later(t, d) = [tv_sec |-> n \div NsecPerSec, tv_nsec |-> n % NsecPerSec]
  BY DEF Later, n
<1>5. Later(t, d) \in Time
  BY <1>3, <1>4 DEF Time
<1>6. Nsec(Later(t, d)) = n
  BY <1>3, <1>4 DEF Nsec
<1> QED
  BY <1>5, <1>6 DEF n

(* A multiple of the second that exceeds 0 is a second at least.           *)
LEMMA WholeSeconds ==
  ASSUME NEW k \in Int, k * NsecPerSec > 0
  PROVE  k >= 1
<1>1. NsecPerSec \in Nat /\ NsecPerSec > 0
  BY ExperimentAssumption
<1>2. CASE k <= 0
  <2>1. k * NsecPerSec <= 0
    BY <1>1, <1>2
  <2>2. k * NsecPerSec \in Int
    BY <1>1
  <2> QED
    BY <2>1, <2>2
<1> QED
  BY <1>2

(* Borrowing a second where it must, the difference is the time between.   *)
LEMMA DiffIsDelay ==
  ASSUME NEW t \in Time, NEW d \in Nat, d >= NsecPerSec
  PROVE  LET diff == DiffTime(Later(t, d), t)
         IN  diff \in Time /\ diff.tv_sec >= 1 /\ Nsec(diff) = d
<1> DEFINE now == Later(t, d)
           diff == DiffTime(now, t)
           q == now.tv_sec - t.tv_sec
           r == now.tv_nsec - t.tv_nsec
<1>1. NsecPerSec \in Nat /\ NsecPerSec > 0
  BY ExperimentAssumption
<1>2. now \in Time /\ Nsec(now) = Nsec(t) + d
  BY LaterIsLater
<1> HIDE DEF now
<1>3. /\ now.tv_sec \in Nat /\ now.tv_nsec \in 0..(NsecPerSec - 1)
      /\ t.tv_sec \in Nat /\ t.tv_nsec \in 0..(NsecPerSec - 1)
  BY <1>2 DEF Time
<1>4. q * NsecPerSec = d - r
  <2>1. now.tv_sec * NsecPerSec + now.tv_nsec = t.tv_sec * NsecPerSec + t.tv_nsec + d
    BY <1>2 DEF Nsec
  <2>2. (now.tv_sec - t.tv_sec) * NsecPerSec
          = now.tv_sec * NsecPerSec - t.tv_sec * NsecPerSec
    BY <1>1, <1>3
  <2>3. now.tv_sec * NsecPerSec \in Int /\ t.tv_sec * NsecPerSec \in Int
    BY <1>1, <1>3
  <2> QED
    BY <1>3, <2>1, <2>2, <2>3
<1>5. q \in Int /\ r \in Int /\ r > -NsecPerSec /\ r < NsecPerSec
  BY <1>1, <1>3
<1>6. CASE r < 0
  <2>1. diff = [tv_sec |-> q - 1, tv_nsec |-> NsecPerSec + r]
    BY <1>1, <1>3, <1>6 DEF DiffTime
  <2>2. (q - 1) * NsecPerSec = q * NsecPerSec - NsecPerSec
    BY <1>1, <1>5
  <2> HIDE DEF q, r, diff
  <2>3. (q - 1) * NsecPerSec = d - (NsecPerSec + r)
    BY <1>1, <1>4, <1>5, <2>2
  <2>4. (q - 1) * NsecPerSec > 0
    BY <1>1, <1>5, <1>6, <2>3
  <2>5. q - 1 >= 1
    BY <1>5, <2>4, WholeSeconds
  <2>6. diff \in Time /\ diff.tv_sec >= 1
    BY <1>1, <1>5, <1>6, <2>1, <2>5 DEF Time
  <2>7. Nsec(diff) = d
    BY <1>1, <1>5, <2>1, <2>3 DEF Nsec
  <2> QED
    BY <2>6, <2>7 DEF diff, now
<1>7. CASE r >= 0
  <2>1. diff = [tv_sec |-> q, tv_nsec |-> r]
    BY <1>3, <1>7 DEF DiffTime
  <2> HIDE DEF q, r, diff
  <2>2. q * NsecPerSec > 0
    BY <1>1, <1>4, <1>5
  <2>3. q >= 1
    BY <1>5, <2>2, WholeSeconds
  <2>4. diff \in Time /\ diff.tv_sec >= 1
    BY <1>1, <1>5, <1>7, <2>1, <2>3 DEF Time
  <2>5. Nsec(diff) = d
    BY <1>1, <1>4, <1>5, <2>1 DEF Nsec
  <2> QED
    BY <2>4, <2>5 DEF diff, now
<1> QED
  BY <1>5, <1>6, <1>7

-----------------------------------------------------------------------------
Xpcs == {"dry_run", "test_done", "issue", "report", "exit"}
Mpcs == {"none", "begin", "sample", "divide", "finish", "returned"}

(* What the monitor writes down.                                           *)
Sample == [executed : Nat, elapsed : Time]

MonitorType ==
  /\ xpc \in Xpcs /\ mpc \in Mpcs
  /\ prev_txns \in 0..NumReqs /\ total \in 0..NumReqs
  /\ prev_time \in Time
  /\ begin \in [txns : 0..NumReqs, time : Time]
  /\ results \in Seq(Sample)
  /\ killed \subseteq Reqs

(* The monitor is created after the dry run has been waited for, and the   *)
(* flag tells the main thread that it has returned.                        *)
MonitorOrder ==
  /\ xpc = "dry_run" <=> mpc = "none"
  /\ mpc # "none" => txns_executed >= DryRun
  /\ mpc \in {"none", "begin"} => results = <<>>
  /\ mpc \in {"sample", "divide"} => Len(results) < ExptLen
  /\ mpc \in {"finish", "returned"} => Len(results) = ExptLen
  /\ done = IF mpc = "returned" THEN 1 ELSE 0
  /\ xpc \in {"report", "exit"} => done = 1

(* The readings come one after the other, and the samples are what lies    *)
(* between them.                                                           *)
Readings ==
  /\ mpc = "divide" => prev_txns <= total /\ total <= txns_executed
  /\ mpc \notin {"none", "begin"} =>
       /\ begin.txns >= DryRun
       /\ begin.txns + SumOf(Counts) = prev_txns
       /\ prev_txns <= txns_executed
       /\ Nsec(begin.time) + SumOf(Elapsed) = Nsec(prev_time)
  /\ \A i \in DOMAIN results : results[i].elapsed.tv_sec >= 1

(* The inductive invariant of the monitor.                                 *)
MonitorInv == MonitorType /\ MonitorOrder /\ Readings

(* It is what the run checks.                                              *)
LEMMA ExperimentAccounts ==
  ASSUME LauncherInv, MonitorInv
  PROVE  ExperimentInv
<1> USE ExperimentAssumption
<1>1. Len(results) \in Nat /\ Len(results) <= ExptLen
  BY DEF MonitorInv, MonitorType, MonitorOrder, Mpcs
<1>2. ExperimentTypeOK
  BY <1>1, LauncherTypes DEF MonitorInv, MonitorType, MonitorOrder, ExperimentTypeOK, Xpcs, Mpcs
<1>3. ASSUME NEW i \in DOMAIN results
      PROVE  /\ results[i].executed >= 0
             /\ results[i].elapsed.tv_sec >= 1
             /\ results[i].elapsed.tv_nsec \in 0..(NsecPerSec - 1)
  <2>1. results[i] \in Sample
    BY DEF MonitorInv, MonitorType
  <2> QED
    BY <2>1 DEF MonitorInv, Readings, Sample, Time
<1>4. xpc \in {"report", "exit"} => Len(results) = ExptLen
  BY DEF MonitorInv, MonitorOrder
<1>5. SamplesAddUp
  BY <1>3, <1>4 DEF MonitorInv, Readings, SamplesAddUp
<1> QED
  BY <1>2, <1>5 DEF ExperimentInv

LEMMA InitMonitor == ExperimentInit => MonitorInv
<1> SUFFICES ASSUME ExperimentInit PROVE MonitorInv
  OBVIOUS
<1>1. prev_time \in Time /\ 0 \in 0..NumReqs
  BY LauncherAssumption, ExperimentAssumption DEF ExperimentInit, Timespec, Time
<1>2. MonitorType
  BY <1>1 DEF ExperimentInit, MonitorType, Xpcs, Mpcs
<1>3. MonitorOrder /\ Readings
  BY DEF ExperimentInit, MonitorOrder, Readings
<1> QED
  BY <1>2, <1>3 DEF MonitorInv

(* The counter of executed requests never goes back.                       *)
LEMMA TxnsGrow ==
  ASSUME LauncherInv, [Next]_vars
  PROVE  txns_executed' \in {txns_executed, txns_executed + 1} /\ txns_executed \in 0..NumReqs
<1>1. txns_executed \in 0..NumReqs
  BY CountedBounded DEF LauncherInv
<1>2. CASE MainStep \/ SpuriousWakeup
  BY <1>1, <1>2 DEF MainStep, Fork, Parent, LockGate, TestGate, TakePermit, Wait,
                    WaitOutstanding, SpuriousWakeup
<1>3. ASSUME NEW r \in Reqs, ChildStep(r)
      PROVE  txns_executed' \in {txns_executed, txns_executed + 1}
  BY <1>3 DEF ChildStep, Execute, Count, IncrDoneTxns, GiveBack, LockGive, LoadGive, StoreGive
<1>4. CASE UNCHANGED vars
  BY <1>1, <1>4 DEF vars, base
<1> QED
  BY <1>1, <1>2, <1>3, <1>4 DEF Next

(* While the monitor does nothing its invariant stays.                     *)
LEMMA MonitorRests ==
  ASSUME MonitorInv, txns_executed \in Nat, txns_executed' \in {txns_executed, txns_executed + 1},
         UNCHANGED <<monitor, done>>, xpc' \in Xpcs, xpc' = "dry_run" <=> xpc = "dry_run",
         xpc' \in {"report", "exit"} => done = 1, killed' \subseteq Reqs
  PROVE  MonitorInv'
<1> USE LauncherAssumption, ExperimentAssumption
<1>1. UNCHANGED <<mpc, prev_txns, prev_time, total, results, begin, done>>
  BY DEF monitor
<1>2. MonitorType'
  BY <1>1 DEF MonitorInv, MonitorType
<1>3. DryRun \in Nat
  OBVIOUS
<1>4. MonitorOrder'
  BY <1>1, <1>3 DEF MonitorInv, MonitorOrder
<1>5. Counts' = Counts /\ Elapsed' = Elapsed
  BY <1>1 DEF Counts, Elapsed
<1>6. total \in Nat /\ prev_txns \in Nat
  BY DEF MonitorInv, MonitorType
<1>7. total <= txns_executed => total <= txns_executed'
  BY <1>6
<1>8. prev_txns <= txns_executed => prev_txns <= txns_executed'
  BY <1>6
<1>9. Readings'
  BY <1>1, <1>5, <1>7, <1>8 DEF MonitorInv, Readings
<1> QED
  BY <1>2, <1>4, <1>9 DEF MonitorInv

(* The wait for the dry run has counted all of it.                         *)
LEMMA CreateKeepsMonitor ==
  ASSUME LauncherInv, MonitorInv, CreateMonitor
  PROVE  MonitorInv'
<1>1. /\ xpc = "dry_run" /\ xpc' = "test_done" /\ mpc' = "begin" /\ lpc = "idle"
      /\ num_requests = DryRun
      /\ UNCHANGED <<txns_executed, prev_txns, prev_time, total, results, begin, done, killed>>
  BY DEF CreateMonitor, Between, vars, base
<1>2. mpc = "none" /\ results = <<>> /\ done = 0
  BY <1>1 DEF MonitorInv, MonitorOrder
<1>3. txns_executed >= DryRun
  <2>1. DryRun \in Nat /\ DryRun \in WaitPoints
    BY LauncherAssumption, ExperimentAssumption
  <2>2. waited = DryRun
    BY <1>1, <2>1 DEF LauncherInv, WaitKept
  <2>3. Counted \in SUBSET Reqs /\ 1..DryRun \subseteq Counted
    BY <2>2 DEF LauncherInv, WaitInv, Counted
  <2>4. IsFiniteSet(Counted)
    <3>1. IsFiniteSet(Reqs)
      BY LauncherAssumption, FS_Interval DEF Reqs
    <3> QED
      BY <2>3, <3>1, FS_Subset
  <2>5. Cardinality(1..DryRun) <= Cardinality(Counted)
    BY <2>3, <2>4, FS_Subset
  <2>6. Cardinality(1..DryRun) = DryRun
    BY <2>1, FS_Interval
  <2>7. Cardinality(Counted) = txns_executed /\ Cardinality(Counted) \in Nat
    BY <2>4, FS_CardinalityType DEF LauncherInv, WaitInv
  <2> QED
    BY <2>1, <2>5, <2>6, <2>7
<1>4. MonitorType'
  BY <1>1 DEF MonitorInv, MonitorType, Xpcs, Mpcs
<1>5. MonitorOrder' /\ Readings'
  BY <1>1, <1>2, <1>3 DEF MonitorOrder, Readings
<1> QED
  BY <1>4, <1>5 DEF MonitorInv

(* The first readings: nothing is summed up yet.                           *)
LEMMA BeginKeepsMonitor ==
  ASSUME LauncherInv, MonitorInv, Begin
  PROVE  MonitorInv'
<1> USE ExperimentAssumption
<1>1. /\ mpc = "begin" /\ mpc' = "sample" /\ prev_txns' = txns_executed
      /\ begin' = [txns |-> txns_executed, time |-> prev_time]
      /\ UNCHANGED <<txns_executed, xpc, prev_time, total, results, done, killed>>
  BY DEF Begin, vars, base
<1>2. txns_executed \in 0..NumReqs /\ prev_time \in Time /\ results = <<>>
  BY <1>1, CountedBounded DEF LauncherInv, MonitorInv, MonitorType, MonitorOrder
<1>3. MonitorType'
  BY <1>1, <1>2 DEF MonitorInv, MonitorType, Mpcs
<1>4. MonitorOrder'
  BY <1>1, <1>2 DEF MonitorInv, MonitorOrder
<1>5. SumOf(Counts') = 0 /\ SumOf(Elapsed') = 0
  <2>1. Counts' = <<>> /\ Elapsed' = <<>>
    BY <1>1, <1>2 DEF Counts, Elapsed
  <2> QED
    BY <2>1, SumOfNone
<1>6. Nsec(begin'.time) = Nsec(prev_time') /\ Nsec(prev_time') \in Int
  BY <1>1, <1>2 DEF Nsec, Time
<1>7. Readings'
  <2>1. begin'.txns >= DryRun
    BY <1>1 DEF MonitorInv, MonitorOrder
  <2>2. begin'.txns + SumOf(Counts') = prev_txns' /\ prev_txns' <= txns_executed'
    BY <1>1, <1>2, <1>5
  <2>3. Nsec(begin'.time) + SumOf(Elapsed') = Nsec(prev_time')
    BY <1>5, <1>6
  <2> QED
    BY <1>1, <1>2, <2>1, <2>2, <2>3 DEF Readings
<1> QED
  BY <1>3, <1>4, <1>7 DEF MonitorInv

(* A reading of the counter finds no less than the one before.             *)
LEMMA ReadKeepsMonitor ==
  ASSUME LauncherInv, MonitorInv, ReadTxns
  PROVE  MonitorInv'
<1>1. /\ mpc = "sample" /\ mpc' = "divide" /\ total' = txns_executed
      /\ UNCHANGED <<txns_executed, xpc, prev_txns, prev_time, results, begin, done, killed>>
  BY DEF ReadTxns, vars, base
<1>2. txns_executed \in 0..NumReqs
  BY CountedBounded DEF LauncherInv
<1>3. MonitorType'
  BY <1>1, <1>2 DEF MonitorInv, MonitorType, Mpcs
<1>4. MonitorOrder'
  BY <1>1 DEF MonitorInv, MonitorOrder
<1>5. Counts' = Counts /\ Elapsed' = Elapsed
  BY <1>1 DEF Counts, Elapsed
<1>6. Readings'
  BY <1>1, <1>2, <1>5 DEF MonitorInv, Readings
<1> QED
  BY <1>3, <1>4, <1>6 DEF MonitorInv

(* A new sample adds what has been executed, and the time that has passed, *)
(* since the one before.                                                   *)
LEMMA SampleAdds ==
  ASSUME MonitorType, NEW s \in Sample, results' = Append(results, s)
  PROVE  /\ results' \in Seq(Sample) /\ Len(results') = Len(results) + 1
         /\ \A i \in DOMAIN results' : \/ i \in DOMAIN results /\ results'[i] = results[i]
                                       \/ results'[i] = s
         /\ SumOf(Counts') = SumOf(Counts) + s.executed
         /\ SumOf(Elapsed') = SumOf(Elapsed) + Nsec(s.elapsed)
         /\ SumOf(Counts) \in Nat /\ SumOf(Elapsed) \in Nat
<1>1. /\ results \in Seq(Sample) /\ results' \in Seq(Sample)
      /\ Len(results) \in Nat /\ Len(results') = Len(results) + 1
      /\ \A i \in 1..Len(results) : results'[i] = results[i] /\ results[i] \in Sample
      /\ results'[Len(results) + 1] = s
      /\ DOMAIN results = 1..Len(results) /\ DOMAIN results' = 1..(Len(results) + 1)
  BY DEF MonitorType
<1>2. \A x \in Sample : x.executed \in Nat /\ Nsec(x.elapsed) \in Nat
  <2>1. NsecPerSec \in Nat
    BY ExperimentAssumption
  <2>2. \A x \in Sample : x.executed \in Nat /\ x.elapsed \in Time
    BY DEF Sample
  <2>3. \A t \in Time : t.tv_sec \in Nat /\ t.tv_nsec \in Nat
    BY <2>1 DEF Time
  <2>4. \A t \in Time : t.tv_sec * NsecPerSec \in Nat
    BY <2>1, <2>3
  <2> QED
    BY <2>2, <2>3, <2>4 DEF Nsec
<1>3. Counts \in Seq(Nat) /\ Counts' = Append(Counts, s.executed)
  BY <1>1, <1>2 DEF Counts
<1>4. Elapsed \in Seq(Nat) /\ Elapsed' = Append(Elapsed, Nsec(s.elapsed))
  <2> DEFINE N(x) == Nsec(x.elapsed)
  <2>1. \A x \in Sample : N(x) \in Nat
    BY <1>2
  <2>2. Elapsed = [i \in DOMAIN results |-> N(results[i])]
    BY DEF Elapsed
  <2>3. Elapsed' = [i \in DOMAIN results' |-> N(results'[i])]
    BY DEF Elapsed, Nsec
  <2> HIDE DEF N
  <2>4. Elapsed \in Seq(Nat) /\ Elapsed' = Append(Elapsed, N(s))
    BY <1>1, <2>1, <2>2, <2>3
  <2> QED
    BY <2>4 DEF N
<1>5. \A d \in Seq(Nat) : SumOf(d) \in Nat
  <2> TAKE d \in Seq(Nat)
  <2>1. PICK p : Partial(d, Len(d), p) /\ SumOf(d) = p[Len(d)]
    BY SumIsPartial
  <2>2. Len(d) \in 0..Len(d)
    OBVIOUS
  <2> QED
    BY <2>1, <2>2 DEF Partial
<1>6. SumOf(Counts') = SumOf(Counts) + s.executed
  BY <1>2, <1>3, SumOfOneMore
<1>7. SumOf(Elapsed') = SumOf(Elapsed) + Nsec(s.elapsed)
  BY <1>2, <1>4, SumOfOneMore
<1> QED
  BY <1>1, <1>3, <1>4, <1>5, <1>6, <1>7

LEMMA DivideKeepsMonitor ==
  ASSUME LauncherInv, MonitorInv, Divide
  PROVE  MonitorInv'
<1> USE LauncherAssumption, ExperimentAssumption
<1>1. /\ mpc = "divide" /\ prev_txns' = total
      /\ mpc' = IF Len(results') = ExptLen THEN "finish" ELSE "sample"
      /\ UNCHANGED <<txns_executed, xpc, total, begin, done, killed>>
  BY DEF Divide, vars, base
<1>2. PICK d \in Delays :
        /\ prev_time' = Later(prev_time, d)
        /\ results' = Append(results, [executed |-> total - prev_txns,
                                       elapsed  |-> DiffTime(Later(prev_time, d), prev_time)])
  BY DEF Divide
<1> DEFINE s == [executed |-> total - prev_txns,
                 elapsed  |-> DiffTime(Later(prev_time, d), prev_time)]
<1>3. /\ prev_time \in Time /\ d \in Nat /\ d >= NsecPerSec
      /\ prev_txns \in 0..NumReqs /\ total \in 0..NumReqs
      /\ prev_txns <= total /\ total <= txns_executed
  BY <1>1 DEF MonitorInv, MonitorType, Readings
<1>4. prev_time' \in Time /\ Nsec(prev_time') = Nsec(prev_time) + d
  BY <1>2, <1>3, LaterIsLater
<1>5. s \in Sample /\ s.elapsed.tv_sec >= 1 /\ Nsec(s.elapsed) = d
  <2>1. total - prev_txns \in Nat
    BY <1>3
  <2> QED
    BY <1>3, <2>1, DiffIsDelay DEF Sample
<1>6. s.executed = total - prev_txns /\ results' = Append(results, s)
  BY <1>2
<1> HIDE DEF s
<1>7. /\ results' \in Seq(Sample) /\ Len(results') = Len(results) + 1
      /\ \A i \in DOMAIN results' : \/ i \in DOMAIN results /\ results'[i] = results[i]
                                    \/ results'[i] = s
      /\ SumOf(Counts') = SumOf(Counts) + s.executed
      /\ SumOf(Elapsed') = SumOf(Elapsed) + Nsec(s.elapsed)
      /\ SumOf(Counts) \in Nat /\ SumOf(Elapsed) \in Nat
  BY <1>5, <1>6, SampleAdds DEF MonitorInv
<1>8. MonitorType'
  BY <1>1, <1>3, <1>4, <1>7 DEF MonitorInv, MonitorType, Mpcs
<1>9. MonitorOrder'
  <2>1. Len(results) \in Nat /\ Len(results) < ExptLen
    BY <1>1 DEF MonitorInv, MonitorType, MonitorOrder
  <2>2. \/ mpc' = "finish" /\ Len(results') = ExptLen
        \/ mpc' = "sample" /\ Len(results') < ExptLen
    BY <1>1, <1>7, <2>1
  <2> QED
    BY <1>1, <2>2 DEF MonitorInv, MonitorOrder
<1>10. Readings'
  <2>1. begin.txns \in Nat /\ begin.time \in Time
    BY DEF MonitorInv, MonitorType
  <2>2. Nsec(begin.time) \in Int /\ Nsec(prev_time) \in Int
    <3>1. \A t \in Time : t.tv_sec \in Nat /\ t.tv_nsec \in Nat
      BY DEF Time
    <3>2. \A t \in Time : t.tv_sec * NsecPerSec \in Nat
      BY <3>1
    <3> QED
      BY <1>3, <2>1, <3>1, <3>2 DEF Nsec
  <2>3. /\ begin.txns >= DryRun /\ begin.txns + SumOf(Counts) = prev_txns
        /\ Nsec(begin.time) + SumOf(Elapsed) = Nsec(prev_time)
    BY <1>1 DEF MonitorInv, Readings
  <2>4. begin.txns + SumOf(Counts') = total
    <3>1. SumOf(Counts') = SumOf(Counts) + (total - prev_txns) /\ SumOf(Counts) \in Nat
      BY <1>6, <1>7
    <3> QED
      BY <1>3, <2>1, <2>3, <3>1
  <2>5. Nsec(begin'.time) = Nsec(begin.time)
    BY <1>1
  <2>6. Nsec(begin'.time) + SumOf(Elapsed') = Nsec(prev_time')
    BY <1>3, <1>4, <1>5, <1>7, <2>2, <2>3, <2>5
  <2>7. mpc' # "divide"
    BY <1>1
  <2>8. \A i \in DOMAIN results' : results'[i].elapsed.tv_sec >= 1
    BY <1>5, <1>7 DEF MonitorInv, Readings
  <2> QED
    BY <1>1, <1>3, <2>3, <2>4, <2>6, <2>7, <2>8 DEF Readings
<1> QED
  BY <1>8, <1>9, <1>10 DEF MonitorInv

(* Only a monitor that has written everything sets the flag.               *)
LEMMA FinishKeepsMonitor ==
  ASSUME LauncherInv, MonitorInv, Finish
  PROVE  MonitorInv'
<1>1. /\ mpc = "finish" /\ mpc' = "returned" /\ done' = done + 1
      /\ UNCHANGED <<txns_executed, xpc, prev_txns, prev_time, total, results, begin, killed>>
  BY DEF Finish, vars, base
<1>2. done = 0 /\ done' = 1
  BY <1>1 DEF MonitorInv, MonitorOrder
<1>3. MonitorType'
  BY <1>1 DEF MonitorInv, MonitorType, Mpcs
<1>4. MonitorOrder'
  BY <1>1, <1>2 DEF MonitorInv, MonitorOrder
<1>5. Counts' = Counts /\ Elapsed' = Elapsed
  BY <1>1 DEF Counts, Elapsed
<1>6. Readings'
  BY <1>1, <1>5 DEF MonitorInv, Readings
<1> QED
  BY <1>3, <1>4, <1>6 DEF MonitorInv

(* The monitor's invariant is inductive.                                   *)
LEMMA StepKeepsMonitor ==
  ASSUME LauncherInv, MonitorInv, [ExperimentNext]_<<vars, xvars>>
  PROVE  MonitorInv'
<1>1. [Next]_vars
  BY ExperimentStep
<1>2. txns_executed \in Nat /\ txns_executed' \in {txns_executed, txns_executed + 1}
  BY <1>1, TxnsGrow
<1>3. /\ xpc \in Xpcs /\ killed \subseteq Reqs /\ (done = 0 \/ done = 1)
      /\ xpc \in {"report", "exit"} => done = 1
  BY DEF MonitorInv, MonitorType, MonitorOrder
<1>4. CASE CreateMonitor
  BY <1>4, CreateKeepsMonitor
<1>5. CASE IssueDry \/ TestDone \/ Issue \/ Report \/ InLauncher
  <2>1. /\ UNCHANGED <<monitor, done, killed>>
        /\ xpc' \in Xpcs /\ (xpc' = "dry_run" <=> xpc = "dry_run")
        /\ xpc' \in {"report", "exit"} => done = 1
    BY <1>3, <1>5 DEF IssueDry, TestDone, Issue, Report, InLauncher, xvars, Xpcs
  <2> QED
    BY <1>2, <1>3, <2>1, MonitorRests
<1>6. CASE Monitor
  BY <1>6, BeginKeepsMonitor, ReadKeepsMonitor, DivideKeepsMonitor, FinishKeepsMonitor DEF Monitor
<1>7. CASE Wakeup \/ UNCHANGED <<vars, xvars>> \/ (\E r \in Reqs : Child(r) \/ Kill(r))
  <2>1. UNCHANGED <<xpc, monitor, done>> /\ killed' \subseteq Reqs
    BY <1>3, <1>7 DEF Wakeup, Child, Kill, xvars
  <2> QED
    BY <1>2, <1>3, <2>1, MonitorRests
<1> QED
  BY <1>4, <1>5, <1>6, <1>7 DEF ExperimentNext, MainThread

(* Whatever the children, the main thread and the clock do, the samples    *)
(* account for every request and every nanosecond since the monitor began, *)
(* no quotient is by zero, and the results are complete when they are      *)
(* written.                                                                *)
THEOREM ExperimentMeasures == ExperimentSpec => []ExperimentInv
<1>1. ExperimentInit => MonitorInv
  BY InitMonitor
<1>2. LauncherInv /\ MonitorInv /\ [ExperimentNext]_<<vars, xvars>> => MonitorInv'
  BY StepKeepsMonitor
<1>3. LauncherInv /\ MonitorInv => ExperimentInv
  BY ExperimentAccounts
<1> QED
  BY <1>1, <1>2, <1>3, LauncherInExperiment, PTL DEF ExperimentSpec

-----------------------------------------------------------------------------
(* What main hands on.  First the copy of a request into a buffer: its     *)
(* words, counted from the word of its address.                            *)
Footprint == HeaderWords + TxnSz + NumFields

LEMMA SizesAreNumbers ==
  /\ WordBytes \in Nat /\ WordBytes > 0 /\ HeaderWords = 4
  /\ TxnSz \in Nat /\ TxnSz > 0 /\ NumFields \in Nat /\ NumFields > 0
  /\ RqstBufSz \in Nat /\ RqstBufSz >= WordBytes * Footprint
  /\ Footprint = 4 + TxnSz + NumFields /\ RandMax \in Nat
BY CopyAssumption, StartAssumption DEF Footprint

(* n words after an address is n words after its word.                     *)
LEMMA WordsAfter ==
  ASSUME NEW x \in Nat, NEW n \in Nat
  PROVE  /\ x \div WordBytes \in Nat
         /\ x + WordBytes * n \in Nat
         /\ (x + WordBytes * n) \div WordBytes = x \div WordBytes + n
<1>1. WordBytes \in Nat /\ WordBytes > 0
  BY SizesAreNumbers
<1>2. WordBytes * n = n * WordBytes /\ n * WordBytes \in Nat
  BY <1>1
<1>3. (x + n * WordBytes) \div WordBytes = (x \div WordBytes) + n
  BY <1>1
<1>4. x \div WordBytes \in Nat
  BY <1>1
<1> QED
  BY <1>2, <1>3, <1>4

(* The object fills its words, so its arrays follow it at once.            *)
LEMMA ObjectIsRound == RoundUp(SizeofRequest, WordBytes) = WordBytes * 4
<1> DEFINE w == WordBytes
<1>1. w \in Nat /\ w > 0 /\ SizeofRequest = 4 * w
  BY SizesAreNumbers DEF SizeofRequest
<1> HIDE DEF w
<1>2. 4 * w - 1 = w * 3 + (w - 1) /\ w - 1 \in 0..(w - 1) /\ w * 4 = 4 * w
  BY <1>1
<1>3. \A q, r \in Nat : r < w => (w * q + r) % w = r
  BY <1>1
<1>4. (w * 3 + (w - 1)) % w = w - 1
  <2>1. w - 1 \in Nat /\ w - 1 < w /\ 3 \in Nat
    BY <1>1
  <2> QED
    BY <1>3, <2>1
<1>5. (4 * w - 1) % w = w - 1
  BY <1>2, <1>4
<1>6. RoundUp(4 * w, w) = (4 * w - 1) + w - (w - 1)
  BY <1>5 DEF RoundUp
<1> QED
  BY <1>1, <1>2, <1>6 DEF w

(* Each buffer has room for a request before the next one begins.          *)
LEMMA BuffersApart ==
  ASSUME NEW i \in Nat, NEW j \in Nat, i < j
  PROVE  /\ Buffer(i) \in Nat /\ Buffer(i) \div WordBytes \in Nat
         /\ Buffer(i) \div WordBytes + Footprint <= Buffer(j) \div WordBytes
<1> DEFINE b == i * RqstBufSz
           c == j * RqstBufSz
<1>1. /\ WordBytes \in Nat /\ WordBytes > 0 /\ RqstBufSz \in Nat /\ Footprint \in Nat
      /\ RqstBufSz >= WordBytes * Footprint
  BY SizesAreNumbers
<1>2. b \in Nat /\ c \in Nat
  BY <1>1
<1>3. b + RqstBufSz <= c
  BY <1>1
<1> HIDE DEF b, c
<1>4. WordBytes * Footprint \in Nat
  BY <1>1
<1>5. b + WordBytes * Footprint <= c
  BY <1>1, <1>2, <1>3, <1>4
<1>6. /\ b \div WordBytes \in Nat
      /\ (b + WordBytes * Footprint) \div WordBytes = b \div WordBytes + Footprint
  BY <1>1, <1>2, WordsAfter
<1>7. (b + WordBytes * Footprint) \div WordBytes <= c \div WordBytes
  <2>1. \A x, y \in Nat : x <= y => x \div WordBytes <= y \div WordBytes
    BY <1>1
  <2> QED
    BY <1>2, <1>4, <1>5, <2>1
<1> QED
  BY <1>2, <1>6, <1>7 DEF b, c, Buffer

(* The words of a request copied to an address.                            *)
HoldsAt(mem, buf, req) ==
  LET b     == buf \div WordBytes
      array == buf + WordBytes * 4
  IN  /\ mem[b] = req.db /\ mem[b + 1] = TxnSz
      /\ mem[b + 2] = array /\ mem[b + 3] = array + WordBytes * TxnSz
      /\ \A n \in 1..TxnSz : mem[b + 3 + n] = req.writeset[n]
      /\ \A n \in 1..NumFields : mem[b + 3 + TxnSz + n] = req.updates[n]

(* A request as main generates it.                                         *)
Generable ==
  [db : Nat, writeset : [1..TxnSz -> Nat], updates : [1..NumFields -> Nat]]

(* Three memcpys write the request and nothing else.                       *)
LEMMA CopyWrites ==
  ASSUME NEW req \in Generable, NEW buf \in Nat, NEW mem, NEW size \in Nat,
         DOMAIN mem = 0..(size - 1), buf \div WordBytes + Footprint <= size
  PROVE  LET copy == CopyRequest(mem, buf, req)
             b    == buf \div WordBytes
         IN  /\ HoldsAt(copy, buf, req)
             /\ DOMAIN copy = DOMAIN mem
             /\ \A a \in DOMAIN mem : ~(b <= a /\ a < b + Footprint) => copy[a] = mem[a]
<1> DEFINE b == buf \div WordBytes
           array == buf + WordBytes * 4
           after == array + WordBytes * TxnSz
           copy == CopyRequest(mem, buf, req)
<1>1. /\ WordBytes \in Nat /\ WordBytes > 0 /\ TxnSz \in Nat /\ NumFields \in Nat
      /\ Footprint = 4 + TxnSz + NumFields /\ TxnSz > 0 /\ NumFields > 0
  BY SizesAreNumbers
<1>2. /\ b \in Nat /\ array \in Nat /\ after \in Nat
      /\ array \div WordBytes = b + 4 /\ after \div WordBytes = b + 4 + TxnSz
  <2>1. b \in Nat /\ array \in Nat /\ array \div WordBytes = b + 4
    BY WordsAfter
  <2> HIDE DEF array
  <2>2. after \in Nat /\ after \div WordBytes = array \div WordBytes + TxnSz
    BY <1>1, <2>1, WordsAfter
  <2> QED
    BY <2>1, <2>2
<1>3. /\ Len(req.writeset) = TxnSz /\ Len(req.updates) = NumFields
      /\ req.writeset \in [1..TxnSz -> Nat] /\ req.updates \in [1..NumFields -> Nat]
  BY <1>1 DEF Generable
<1> DEFINE head == Header(req, array, after)
           m1 == Memcpy(mem, buf, head)
           m2 == Memcpy(m1, array, req.writeset)
           m3 == Memcpy(m2, after, req.updates)
<1>4. copy = m3
  BY <1>3, ObjectIsRound DEF CopyRequest
<1>5. /\ Len(head) = 4 /\ head[1] = req.db /\ head[2] = TxnSz
      /\ head[3] = array /\ head[4] = after
  BY <1>3 DEF Header
<1> HIDE DEF head, array, after, copy, b
<1>6. m1 = [a \in DOMAIN mem |-> IF a \in b..(b + 3) THEN head[a - b + 1] ELSE mem[a]]
  <2>1. b + 4 - 1 = b + 3
    BY <1>2
  <2> QED
    BY <1>5, <2>1 DEF Memcpy, b
<1>7. m2 = [a \in DOMAIN m1 |-> IF a \in (b + 4)..(b + 4 + TxnSz - 1)
                                  THEN req.writeset[a - (b + 4) + 1] ELSE m1[a]]
  BY <1>2, <1>3 DEF Memcpy
<1>8. m3 = [a \in DOMAIN m2 |-> IF a \in (b + 4 + TxnSz)..(b + 4 + TxnSz + NumFields - 1)
                                  THEN req.updates[a - (b + 4 + TxnSz) + 1] ELSE m2[a]]
  BY <1>2, <1>3 DEF Memcpy
<1> HIDE DEF m1, m2, m3
<1>9. DOMAIN m1 = DOMAIN mem /\ DOMAIN m2 = DOMAIN mem /\ DOMAIN m3 = DOMAIN mem
  BY <1>6, <1>7, <1>8
<1>10. ASSUME NEW a \in DOMAIN mem, ~(b <= a /\ a < b + Footprint)
       PROVE  m3[a] = mem[a]
  <2>1. /\ a \in Int /\ a \notin b..(b + 3) /\ a \notin (b + 4)..(b + 4 + TxnSz - 1)
        /\ a \notin (b + 4 + TxnSz)..(b + 4 + TxnSz + NumFields - 1)
    BY <1>1, <1>2, <1>10
  <2> QED
    BY <1>6, <1>7, <1>8, <1>9, <2>1
<1>11. \A n \in 1..4 : m3[b + n - 1] = head[n]
  <2> TAKE n \in 1..4
  <2> DEFINE a == b + n - 1
  <2>1. /\ a \in DOMAIN mem /\ a \in b..(b + 3) /\ a \notin (b + 4)..(b + 4 + TxnSz - 1)
        /\ a \notin (b + 4 + TxnSz)..(b + 4 + TxnSz + NumFields - 1) /\ a - b + 1 = n
    BY <1>1, <1>2 DEF b
  <2> HIDE DEF a
  <2>2. m3[a] = head[n]
    BY <1>6, <1>7, <1>8, <1>9, <2>1
  <2> QED
    BY <2>2 DEF a
<1>12. ASSUME NEW n \in 1..TxnSz PROVE m3[b + 3 + n] = req.writeset[n]
  <2> DEFINE a == b + 3 + n
  <2>1. /\ a \in DOMAIN mem /\ a \in (b + 4)..(b + 4 + TxnSz - 1)
        /\ a \notin (b + 4 + TxnSz)..(b + 4 + TxnSz + NumFields - 1) /\ a - (b + 4) + 1 = n
    BY <1>1, <1>2 DEF b
  <2> HIDE DEF a
  <2>2. m3[a] = req.writeset[n]
    BY <1>7, <1>8, <1>9, <2>1
  <2> QED
    BY <2>2 DEF a
<1>13. ASSUME NEW n \in 1..NumFields PROVE m3[b + 3 + TxnSz + n] = req.updates[n]
  <2> DEFINE a == b + 3 + TxnSz + n
  <2>1. /\ a \in DOMAIN mem /\ a - (b + 4 + TxnSz) + 1 = n
        /\ a \in (b + 4 + TxnSz)..(b + 4 + TxnSz + NumFields - 1)
    BY <1>1, <1>2 DEF b
  <2> HIDE DEF a
  <2>2. m3[a] = req.updates[n]
    BY <1>8, <1>9, <2>1
  <2> QED
    BY <2>2 DEF a
<1>14. HoldsAt(m3, buf, req)
  <2>1. /\ b + 1 - 1 = b /\ b + 2 - 1 = b + 1 /\ b + 3 - 1 = b + 2 /\ b + 4 - 1 = b + 3
    BY <1>2
  <2>2. /\ m3[b] = req.db /\ m3[b + 1] = TxnSz /\ m3[b + 2] = array /\ m3[b + 3] = after
    <3>1. 1 \in 1..4 /\ 2 \in 1..4 /\ 3 \in 1..4 /\ 4 \in 1..4
      OBVIOUS
    <3> QED
      BY <1>5, <1>11, <2>1, <3>1
  <2> QED
    BY <1>12, <1>13, <2>2 DEF HoldsAt, b, array, after
<1> QED
  BY <1>4, <1>9, <1>10, <1>14 DEF b, copy

(* And whoever holds these words can be read as the request.               *)
LEMMA HeldIsFaithful ==
  ASSUME NEW req \in Generable, NEW buf \in Nat, NEW mem, HoldsAt(mem, buf, req)
  PROVE  /\ LiesIn(mem, buf, buf + RqstBufSz, NumFields)
         /\ RequestAt(mem, buf, NumFields) = req
<1> DEFINE b == buf \div WordBytes
           array == buf + WordBytes * 4
           after == array + WordBytes * TxnSz
<1>1. /\ WordBytes \in Nat /\ WordBytes > 0 /\ TxnSz \in Nat /\ NumFields \in Nat
      /\ RqstBufSz \in Nat /\ RqstBufSz >= WordBytes * Footprint
      /\ Footprint = 4 + TxnSz + NumFields
  BY SizesAreNumbers
<1>2. /\ b \in Nat /\ array \in Nat /\ after \in Nat
      /\ array \div WordBytes = b + 4 /\ after \div WordBytes = b + 4 + TxnSz
  <2>1. b \in Nat /\ array \in Nat /\ array \div WordBytes = b + 4
    BY WordsAfter
  <2> HIDE DEF array
  <2>2. after \in Nat /\ after \div WordBytes = array \div WordBytes + TxnSz
    BY <1>1, <2>1, WordsAfter
  <2> QED
    BY <2>1, <2>2
<1>3. /\ mem[b] = req.db /\ mem[b + 1] = TxnSz /\ mem[b + 2] = array /\ mem[b + 3] = after
      /\ \A n \in 1..TxnSz : mem[b + 3 + n] = req.writeset[n]
      /\ \A n \in 1..NumFields : mem[b + 3 + TxnSz + n] = req.updates[n]
  BY DEF HoldsAt
<1>4. /\ WordBytes * Footprint = WordBytes * 4 + WordBytes * TxnSz + WordBytes * NumFields
      /\ WordBytes * 4 \in Nat /\ WordBytes * TxnSz \in Nat /\ WordBytes * NumFields \in Nat
  BY <1>1
<1>5. /\ buf <= array /\ array + WordBytes * TxnSz <= buf + RqstBufSz
      /\ buf <= after /\ after + WordBytes * NumFields <= buf + RqstBufSz
  BY <1>1, <1>4
<1> HIDE DEF array, after, b
<1>6. /\ Db(mem, buf) = req.db /\ NumWrites(mem, buf) = TxnSz
      /\ WriteSet(mem, buf) = array /\ Updates(mem, buf) = after
  <2>1. /\ b + 1 - 1 = b /\ b + 2 - 1 = b + 1 /\ b + 3 - 1 = b + 2 /\ b + 4 - 1 = b + 3
    BY <1>2
  <2> QED
    BY <1>3, <2>1 DEF Db, NumWrites, WriteSet, Updates, Member, b
<1>7. LiesIn(mem, buf, buf + RqstBufSz, NumFields)
  BY <1>5, <1>6 DEF LiesIn
<1>8. Words(mem, array, TxnSz) = req.writeset
  <2>1. \A n \in 1..TxnSz : b + 4 + n - 1 = b + 3 + n
    BY <1>1, <1>2
  <2>2. Words(mem, array, TxnSz) = [n \in 1..TxnSz |-> req.writeset[n]]
    BY <1>2, <1>3, <2>1 DEF Words
  <2> QED
    BY <2>2 DEF Generable
<1>9. Words(mem, after, NumFields) = req.updates
  <2>1. \A n \in 1..NumFields : b + 4 + TxnSz + n - 1 = b + 3 + TxnSz + n
    BY <1>1, <1>2
  <2>2. Words(mem, after, NumFields) = [n \in 1..NumFields |-> req.updates[n]]
    BY <1>2, <1>3, <2>1 DEF Words
  <2> QED
    BY <2>2 DEF Generable
<1>10. RequestAt(mem, buf, NumFields) = req
  BY <1>6, <1>8, <1>9 DEF RequestAt, Generable
<1> QED
  BY <1>7, <1>10

-----------------------------------------------------------------------------
(* The states of main before the database is created, and after the        *)
(* launcher is.                                                            *)
Early == {"read_args", "init_config", "create_db"}
Late  == {"run", "aborted", "returned"}

(* The keys drawn for the next request are as many as were drawn, and keys *)
(* of the database.                                                        *)
KeysDrawn ==
  /\ db_size \in Nat /\ (phase = "generate" => db_size # 0)
  /\ phase \in Early => seen = {} /\ writeset = <<>> /\ reqs = <<>>
  /\ writeset \in Seq(0..(db_size - 1))
  /\ seen = Range(writeset) /\ IsFiniteSet(seen) /\ Cardinality(seen) = Len(writeset)

(* So are those of every request.                                          *)
Generated ==
  /\ reqs \in Seq(Generable)
  /\ \A k \in DOMAIN reqs :
       /\ reqs[k].writeset \in [1..TxnSz -> 0..(db_size - 1)]
       /\ Cardinality(Range(reqs[k].writeset)) = TxnSz

(* The options read, and the configuration made of them.                   *)
ArgsRead == arg_map \in [DOMAIN arg_map -> Int] /\ DOMAIN arg_map \subseteq Options

Configured ==
  phase \notin {"read_args", "init_config", "exited"} =>
    LET size == SizeOption(arg_map["exp_type"])
    IN  /\ Accepted
        /\ DOMAIN conf = {"type", size} \cup Flags
        /\ conf["type"] = arg_map["exp_type"] /\ conf[size] = arg_map[size]
        /\ \A f \in Flags : conf[f] = (f \in DOMAIN arg_map)

(* What is made of the configuration: the argument of the launcher is the  *)
(* member of conf that goes with its type.                                 *)
Argument == conf[LauncherMember(conf["type"])]

Passed ==
  /\ phase \in {"generate", "launch"} \cup Late => shared = (conf["type"] \in {0, 1})
  /\ launcher # <<>> => phase \in Late /\ launcher = <<conf["type"], Argument>>
  /\ line # <<>> => phase = "returned" /\ line = <<conf["type"], Argument, conf["contention"]>>

(* There is a buffer for each process of the pool, and each holds all of   *)
(* the request copied into it last.                                        *)
Pooled ==
  /\ phase \notin Late => DOMAIN held = {}
  /\ \E procs \in Nat :
       /\ held \in [0..(procs - 1) -> 0..Len(reqs)]
       /\ DOMAIN memory = 0..((procs * RqstBufSz) \div WordBytes - 1)
  /\ \A i \in DOMAIN held : held[i] # 0 => HoldsAt(memory, Buffer(i), reqs[held[i]])

(* The inductive invariant of the program up to its launcher.              *)
StartInv == KeysDrawn /\ Generated /\ ArgsRead /\ Configured /\ Passed /\ Pooled

-----------------------------------------------------------------------------
(* The type of an accepted command line is one of four, and the option     *)
(* that must go with it is the member its launcher is given.               *)
LEMMA MemberIsOption ==
  ASSUME NEW type \in 0..3
  PROVE  /\ LauncherMember(type) = SizeOption(type) /\ SizeOption(type) \in Sizes
         /\ Class[type + 1] \in {"ProcessPoolLauncher", "ProcessLauncher"} <=> type \in {0, 1}
<1>1. type = 0 \/ type = 1 \/ type = 2 \/ type = 3
  OBVIOUS
<1>2. /\ Class[0 + 1] = "ProcessPoolLauncher" /\ Class[1 + 1] = "ProcessLauncher"
      /\ Class[2 + 1] = "ThreadPoolLauncher" /\ Class[3 + 1] = "ThreadLauncher"
  BY DEF Class
<1> QED
  BY <1>1, <1>2 DEF LauncherMember, SizeOption, Sizes

(* Once configured, the member the launcher is given is the option's       *)
(* argument, a number.                                                     *)
LEMMA ArgumentGiven ==
  ASSUME StartInv, phase \notin {"read_args", "init_config", "exited"}
  PROVE  LET type   == arg_map["exp_type"]
             member == LauncherMember(type)
         IN  /\ type \in 0..3 /\ conf["type"] = type
             /\ member \in DOMAIN arg_map /\ Argument = arg_map[member] /\ Argument \in Int
             /\ MemberOf(LauncherMember(conf["type"])) = {Argument}
             /\ DOMAIN arg_map \subseteq Flags \cup {"exp_type", member}
             /\ conf["contention"] = ("contention" \in DOMAIN arg_map)
<1> DEFINE type == arg_map["exp_type"]
           member == LauncherMember(type)
<1>1. /\ Accepted /\ conf["type"] = type /\ conf[SizeOption(type)] = arg_map[SizeOption(type)]
      /\ DOMAIN conf = {"type", SizeOption(type)} \cup Flags
      /\ \A f \in Flags : conf[f] = (f \in DOMAIN arg_map)
  BY DEF StartInv, Configured
<1>2. type \in 0..3 /\ Sizes \cap DOMAIN arg_map = {SizeOption(type)}
  BY <1>1 DEF Accepted
<1>3. member = SizeOption(type)
  BY <1>2, MemberIsOption
<1>4. /\ member \in DOMAIN arg_map /\ member \in DOMAIN conf
      /\ Argument = arg_map[member] /\ Argument = conf[member]
  BY <1>1, <1>2, <1>3 DEF Argument
<1>5. Argument \in Int
  BY <1>4 DEF StartInv, ArgsRead
<1>6. MemberOf(LauncherMember(conf["type"])) = {Argument}
  BY <1>1, <1>4 DEF MemberOf
<1>7. DOMAIN arg_map \subseteq Flags \cup {"exp_type", member}
  BY <1>2, <1>3 DEF StartInv, ArgsRead, Options
<1>8. conf["contention"] = ("contention" \in DOMAIN arg_map)
  BY <1>1 DEF Flags
<1> HIDE DEF type, member
<1> QED
  BY <1>1, <1>2, <1>4, <1>5, <1>6, <1>7, <1>8 DEF type, member

(* So the invariant says what the run checks.                              *)
LEMMA OptionsArrive == StartInv => OptionsReachLauncher
<1> SUFFICES ASSUME StartInv, launcher # <<>>
    PROVE  LET type == launcher[1]
           IN  /\ Class[type + 1] = Class[arg_map["exp_type"] + 1]
               /\ LauncherMember(type) \in DOMAIN arg_map
               /\ launcher[2] = arg_map[LauncherMember(type)]
               /\ DOMAIN arg_map \subseteq Flags \cup {"exp_type", LauncherMember(type)}
               /\ shared <=> Class[type + 1] \in {"ProcessPoolLauncher", "ProcessLauncher"}
               /\ line # <<>> => line = <<type, launcher[2], "contention" \in DOMAIN arg_map>>
  BY DEF OptionsReachLauncher
<1> DEFINE type == arg_map["exp_type"]
<1>1. phase \in Late /\ launcher = <<conf["type"], Argument>> /\ shared = (conf["type"] \in {0, 1})
  BY DEF StartInv, Passed
<1>2. /\ type \in 0..3 /\ conf["type"] = type
      /\ LauncherMember(type) \in DOMAIN arg_map /\ Argument = arg_map[LauncherMember(type)]
      /\ DOMAIN arg_map \subseteq Flags \cup {"exp_type", LauncherMember(type)}
      /\ conf["contention"] = ("contention" \in DOMAIN arg_map)
  BY <1>1, ArgumentGiven DEF Late
<1>3. launcher[1] = type /\ launcher[2] = Argument
  BY <1>1, <1>2
<1>4. shared <=> Class[type + 1] \in {"ProcessPoolLauncher", "ProcessLauncher"}
  BY <1>1, <1>2, MemberIsOption
<1>5. line # <<>> => line = <<type, Argument, "contention" \in DOMAIN arg_map>>
  BY <1>2 DEF StartInv, Passed
<1> HIDE DEF type
<1> QED
  BY <1>2, <1>3, <1>4, <1>5 DEF type

LEMMA KeysAreDistinct == StartInv => WriteSetsDistinct
<1> SUFFICES ASSUME StartInv, NEW k \in DOMAIN reqs
    PROVE  /\ Cardinality(Range(reqs[k].writeset)) = TxnSz
           /\ Range(reqs[k].writeset) \subseteq 0..(db_size - 1)
  BY DEF WriteSetsDistinct
<1> QED
  BY DEF StartInv, Generated, Range

LEMMA CopiesAreFaithful == StartInv => CopyIsFaithful
<1> SUFFICES ASSUME StartInv, NEW i \in DOMAIN held, held[i] # 0
    PROVE  /\ LiesIn(memory, Buffer(i), Buffer(i) + RqstBufSz, NumFields)
           /\ RequestAt(memory, Buffer(i), NumFields) = reqs[held[i]]
  BY DEF CopyIsFaithful
<1>1. PICK procs \in Nat : held \in [0..(procs - 1) -> 0..Len(reqs)]
  BY DEF StartInv, Pooled
<1>2. i \in Nat /\ reqs[held[i]] \in Generable
  BY <1>1 DEF StartInv, Generated
<1>3. Buffer(i) \in Nat
  BY <1>2, SizesAreNumbers DEF Buffer
<1> QED
  BY <1>2, <1>3, HeldIsFaithful DEF StartInv, Pooled

-----------------------------------------------------------------------------
LEMMA InitStarts == StartInit => StartInv
<1> SUFFICES ASSUME StartInit PROVE StartInv
  OBVIOUS
<1>1. KeysDrawn
  <2>1. Range(<<>>) = {} /\ Len(<<>>) = 0
    BY DEF Range
  <2> QED
    BY <2>1, FS_EmptySet DEF StartInit, KeysDrawn, Early
<1>2. Generated
  BY DEF StartInit, Generated
<1>3. ArgsRead /\ Configured /\ Passed
  BY DEF StartInit, Empty, ArgsRead, Configured, Passed, Late
<1>4. Pooled
  <2>1. DOMAIN held = {} /\ held \in [0..(0 - 1) -> 0..Len(reqs)]
    BY DEF StartInit, Empty
  <2>2. DOMAIN memory = 0..((0 * RqstBufSz) \div WordBytes - 1)
    <3>1. (0 * RqstBufSz) \div WordBytes = 0
      BY SizesAreNumbers
    <3>2. DOMAIN memory = {} /\ 0..(0 - 1) = {}
      BY DEF StartInit, Empty
    <3> QED
      BY <3>1, <3>2
  <2> QED
    BY <2>1, <2>2 DEF StartInit, Pooled, Late
<1> QED
  BY <1>1, <1>2, <1>3, <1>4 DEF StartInv

(* Reading the options touches nothing else.                               *)
LEMMA ReadingKeepsStart ==
  ASSUME StartInv, (\E o \in Options : ReadArg(o)) \/ BadArg \/ EndArgs
  PROVE  StartInv'
<1>1. /\ phase = "read_args" /\ phase' \in {"read_args", "exited", "init_config"}
      /\ UNCHANGED <<conf, db_size, shared, seen, writeset, reqs, launcher, line, memory, held>>
  BY DEF ReadArg, BadArg, EndArgs, config, generator, pooled
<1>2. KeysDrawn' /\ Generated' /\ Passed' /\ Pooled'
  BY <1>1 DEF StartInv, KeysDrawn, Generated, Passed, Argument, Pooled, Early, Late
<1>3. Configured'
  BY <1>1 DEF Configured
<1>4. ArgsRead'
  <2>1. CASE arg_map' = arg_map
    BY <2>1 DEF StartInv, ArgsRead
  <2>2. CASE \E o \in Options : ReadArg(o)
    <3>1. PICK o \in Options :
            \E n \in Arguments(o) :
              arg_map' = [a \in {o} \cup DOMAIN arg_map |-> IF a = o THEN n ELSE arg_map[a]]
      BY <2>2 DEF ReadArg
    <3>2. Arguments(o) \subseteq Int
      BY StartAssumption DEF Arguments
    <3> QED
      BY <3>1, <3>2 DEF StartInv, ArgsRead
  <2> QED
    BY <2>1, <2>2 DEF BadArg, EndArgs, config
<1> QED
  BY <1>2, <1>3, <1>4 DEF StartInv

(* A configuration that is not accepted ends the program.                  *)
LEMMA ConfigKeepsStart ==
  ASSUME StartInv, InitConfig
  PROVE  StartInv'
<1>1. /\ phase = "init_config" /\ phase' \in {"create_db", "exited"}
      /\ UNCHANGED <<arg_map, db_size, shared, seen, writeset, reqs, launcher, line, memory, held>>
  BY DEF InitConfig, generator, pooled
<1>2. KeysDrawn' /\ Generated' /\ ArgsRead' /\ Pooled'
  BY <1>1 DEF StartInv, KeysDrawn, Generated, ArgsRead, Pooled, Early, Late
<1>3. Passed'
  <2>1. launcher = <<>> /\ line = <<>>
    BY <1>1 DEF StartInv, Passed, Late
  <2> QED
    BY <1>1, <2>1 DEF Passed, Late
<1>4. Configured'
  <2> DEFINE size == SizeOption(arg_map["exp_type"])
  <2> SUFFICES ASSUME phase' # "exited" PROVE Configured'
    BY DEF Configured
  <2>1. /\ Accepted
        /\ conf' = [m \in {"type", size} \cup Flags |->
                      CASE m = "type" -> arg_map["exp_type"]
                        [] m = size   -> arg_map[size]
                        [] OTHER      -> m \in DOMAIN arg_map]
    BY DEF InitConfig
  <2>2. size \in Sizes
    BY DEF SizeOption, Sizes
  <2>3. size \notin Flags /\ size # "type" /\ "type" \notin Flags
    BY <2>2 DEF Sizes, Flags
  <2> HIDE DEF size
  <2>4. /\ DOMAIN conf' = {"type", size} \cup Flags
        /\ conf'["type"] = arg_map["exp_type"] /\ conf'[size] = arg_map[size]
    BY <2>1, <2>3
  <2>5. \A f \in Flags : conf'[f] = (f \in DOMAIN arg_map)
    BY <2>1, <2>3
  <2>6. Accepted'
    BY <1>1, <2>1 DEF Accepted
  <2> QED
    BY <1>1, <2>4, <2>5, <2>6 DEF Configured, size
<1> QED
  BY <1>2, <1>3, <1>4 DEF StartInv

(* The database has one of the three sizes; no request is there yet.       *)
LEMMA CreateKeepsStart ==
  ASSUME StartInv, CreateDatabase
  PROVE  StartInv'
<1>1. /\ phase = "create_db" /\ phase' = "generate" /\ db_size' \in Nat /\ db_size' # 0
      /\ shared' = (conf["type"] \in {0, 1})
      /\ UNCHANGED <<arg_map, conf, seen, writeset, reqs, launcher, line, memory, held>>
  BY StartAssumption DEF CreateDatabase, config, pooled
<1>2. seen = {} /\ writeset = <<>> /\ reqs = <<>>
  BY <1>1 DEF StartInv, KeysDrawn, Early
<1>3. KeysDrawn'
  <2>1. seen' = Range(writeset') /\ IsFiniteSet(seen') /\ Cardinality(seen') = Len(writeset')
    BY <1>1 DEF StartInv, KeysDrawn
  <2> QED
    BY <1>1, <1>2, <2>1 DEF KeysDrawn, Early
<1>4. Generated'
  BY <1>1, <1>2 DEF Generated
<1>5. ArgsRead' /\ Configured'
  BY <1>1 DEF StartInv, ArgsRead, Configured, Accepted
<1>6. Passed'
  BY <1>1 DEF StartInv, Passed, Late
<1>7. Pooled'
  BY <1>1 DEF StartInv, Pooled, Late
<1> QED
  BY <1>3, <1>4, <1>5, <1>6, <1>7 DEF StartInv

(* A key is drawn only once.                                               *)
LEMMA DrawKeepsStart ==
  ASSUME StartInv, DrawKey
  PROVE  StartInv'
<1>1. /\ phase = "generate"
      /\ UNCHANGED <<phase, arg_map, conf, db_size, shared, reqs, launcher, line, memory, held>>
  BY DEF DrawKey, config, pooled
<1>2. PICK n \in 0..RandMax :
        /\ n % db_size \notin seen
        /\ seen' = seen \cup {n % db_size}
        /\ writeset' = Append(writeset, n % db_size)
  BY DEF DrawKey, GenUnique
<1> DEFINE key == n % db_size
<1>3. db_size \in Nat /\ db_size > 0 /\ n \in Nat
  BY <1>1, SizesAreNumbers DEF StartInv, KeysDrawn
<1>4. key \in 0..(db_size - 1)
  BY <1>3
<1> HIDE DEF key
<1>5. key \notin seen /\ seen' = seen \cup {key} /\ writeset' = Append(writeset, key)
  BY <1>2 DEF key
<1>6. KeysDrawn'
  <2>1. /\ writeset \in Seq(0..(db_size - 1)) /\ seen = Range(writeset)
        /\ IsFiniteSet(seen) /\ Cardinality(seen) = Len(writeset)
    BY DEF StartInv, KeysDrawn
  <2>2. writeset' \in Seq(0..(db_size' - 1)) /\ Len(writeset') = Len(writeset) + 1
    BY <1>1, <1>4, <1>5, <2>1
  <2>3. Range(writeset') = Range(writeset) \cup {key}
    <3>1. /\ DOMAIN writeset' = 1..(Len(writeset) + 1) /\ DOMAIN writeset = 1..Len(writeset)
          /\ Len(writeset) \in Nat /\ writeset'[Len(writeset) + 1] = key
          /\ \A i \in 1..Len(writeset) : writeset'[i] = writeset[i]
      BY <1>4, <1>5, <2>1
    <3> QED
      BY <3>1 DEF Range
  <2>4. IsFiniteSet(seen') /\ Cardinality(seen') = Cardinality(seen) + 1
    BY <1>5, <2>1, FS_AddElement
  <2> QED
    BY <1>1, <1>3, <1>5, <2>1, <2>2, <2>3, <2>4 DEF KeysDrawn, Early
<1>7. Generated' /\ ArgsRead' /\ Configured' /\ Passed' /\ Pooled'
  BY <1>1 DEF StartInv, Generated, ArgsRead, Configured, Accepted, Passed, Argument, Pooled
<1> QED
  BY <1>6, <1>7 DEF StartInv

(* A request is made of TXN_SZ keys, and the next one starts with none.    *)
LEMMA NewKeepsStart ==
  ASSUME StartInv, NewRequest
  PROVE  StartInv'
<1>1. /\ phase = "generate" /\ phase' \in {"generate", "launch"} /\ Len(writeset) = TxnSz
      /\ seen' = {} /\ writeset' = <<>>
      /\ UNCHANGED <<arg_map, conf, db_size, shared, launcher, line, memory, held>>
  BY DEF NewRequest, config, pooled
<1>2. PICK u \in [1..NumFields -> 0..RandMax] :
        reqs' = Append(reqs, [db |-> db_size, writeset |-> writeset, updates |-> u])
  BY DEF NewRequest
<1> DEFINE req == [db |-> db_size, writeset |-> writeset, updates |-> u]
<1>3. /\ db_size \in Nat /\ writeset \in [1..TxnSz -> 0..(db_size - 1)]
      /\ Cardinality(Range(writeset)) = TxnSz
  BY <1>1 DEF StartInv, KeysDrawn
<1>4. req \in Generable
  <2>1. writeset \in [1..TxnSz -> Nat]
    BY <1>3
  <2>2. u \in [1..NumFields -> Nat]
    BY SizesAreNumbers
  <2> QED
    BY <1>3, <2>1, <2>2 DEF Generable
<1>5. req.writeset = writeset /\ reqs' = Append(reqs, req)
  BY <1>2
<1> HIDE DEF req
<1>6. reqs \in Seq(Generable) /\ reqs' \in Seq(Generable)
  BY <1>4, <1>5 DEF StartInv, Generated
<1>7. Generated'
  <2>1. \A k \in DOMAIN reqs' : \/ k \in DOMAIN reqs /\ reqs'[k] = reqs[k]
                                \/ reqs'[k] = req
    BY <1>4, <1>5, <1>6
  <2> QED
    BY <1>1, <1>3, <1>5, <1>6, <2>1 DEF StartInv, Generated
<1>8. KeysDrawn'
  <2>1. Range(<<>>) = {} /\ Len(<<>>) = 0
    BY DEF Range
  <2>2. db_size' \in Nat /\ db_size' # 0
    BY <1>1 DEF StartInv, KeysDrawn
  <2> QED
    BY <1>1, <2>1, <2>2, FS_EmptySet DEF KeysDrawn, Early
<1>9. ArgsRead' /\ Configured'
  BY <1>1 DEF StartInv, ArgsRead, Configured, Accepted
<1>10. Passed'
  BY <1>1 DEF StartInv, Passed, Late
<1>11. Pooled'
  <2>1. DOMAIN held = {} /\ DOMAIN held' = {}
    BY <1>1 DEF StartInv, Pooled, Late
  <2>2. PICK procs \in Nat :
          /\ held \in [0..(procs - 1) -> 0..Len(reqs)]
          /\ DOMAIN memory = 0..((procs * RqstBufSz) \div WordBytes - 1)
    BY DEF StartInv, Pooled
  <2>3. held' \in [0..(procs - 1) -> 0..Len(reqs')]
    BY <1>1, <2>1, <2>2
  <2>4. DOMAIN memory' = 0..((procs * RqstBufSz) \div WordBytes - 1)
    BY <1>1, <2>2
  <2> QED
    BY <1>1, <2>1, <2>2, <2>3, <2>4 DEF Pooled, Late
<1> QED
  BY <1>7, <1>8, <1>9, <1>10, <1>11 DEF StartInv

(* The launcher is given its argument; a pool has empty buffers.           *)
LEMMA LaunchKeepsStart ==
  ASSUME StartInv, CreateLauncher
  PROVE  StartInv'
<1>1. /\ phase = "launch" /\ phase' \in {"run", "aborted"}
      /\ UNCHANGED <<arg_map, conf, db_size, shared, seen, writeset, reqs, line>>
  BY DEF CreateLauncher, config, generator
<1>2. MemberOf(LauncherMember(conf["type"])) = {Argument} /\ Argument \in Int
  BY <1>1, ArgumentGiven
<1>3. /\ launcher' = <<conf["type"], Argument>>
      /\ phase' = "run" => ConstructorAccepts(conf["type"], Argument)
  BY <1>2 DEF CreateLauncher
<1>4. KeysDrawn' /\ Generated' /\ ArgsRead' /\ Configured'
  BY <1>1 DEF StartInv, KeysDrawn, Generated, ArgsRead, Configured, Accepted, Early
<1>5. Passed'
  <2>1. Argument' = Argument
    BY <1>1 DEF Argument
  <2> QED
    BY <1>1, <1>3, <2>1 DEF StartInv, Passed, Late
<1>6. Pooled'
  <2> DEFINE procs == IF conf["type"] = 0 /\ phase' = "run" THEN launcher'[2] ELSE 0
  <2>1. /\ memory' = [a \in 0..((procs * RqstBufSz) \div WordBytes - 1) |-> 0]
        /\ held' = [i \in 0..(procs - 1) |-> 0]
    BY DEF CreateLauncher
  <2>2. procs \in Nat
    <3>1. CASE conf["type"] = 0 /\ phase' = "run"
      <4>1. Argument > 0
        BY <1>3, <3>1 DEF ConstructorAccepts
      <4> QED
        BY <1>2, <1>3, <3>1, <4>1
    <3>2. CASE ~(conf["type"] = 0 /\ phase' = "run")
      BY <3>2
    <3> QED
      BY <3>1, <3>2
  <2> HIDE DEF procs
  <2>3. Len(reqs') \in Nat
    BY <1>1 DEF StartInv, Generated
  <2>4. /\ held' \in [0..(procs - 1) -> 0..Len(reqs')]
        /\ DOMAIN memory' = 0..((procs * RqstBufSz) \div WordBytes - 1)
    BY <2>1, <2>3
  <2>5. \A i \in DOMAIN held' : held'[i] = 0
    BY <2>1
  <2>6. phase' \in Late
    BY <1>1 DEF Late
  <2> QED
    BY <2>2, <2>4, <2>5, <2>6 DEF Pooled
<1> QED
  BY <1>4, <1>5, <1>6 DEF StartInv

(* The results name the same launcher.                                     *)
LEMMA ResultsKeepStart ==
  ASSUME StartInv, WriteResults
  PROVE  StartInv'
<1>1. /\ phase = "run" /\ phase' = "returned"
      /\ UNCHANGED <<arg_map, conf, db_size, shared, seen, writeset, reqs, launcher, memory, held>>
  BY DEF WriteResults, config, generator, pooled
<1>2. MemberOf(LauncherMember(conf["type"])) = {Argument}
  BY <1>1, ArgumentGiven
<1>3. line' = <<>> \/ line' = <<conf["type"], Argument, conf["contention"]>>
  BY <1>2 DEF WriteResults
<1>4. KeysDrawn' /\ Generated' /\ ArgsRead' /\ Configured' /\ Pooled'
  BY <1>1 DEF StartInv, KeysDrawn, Generated, ArgsRead, Configured, Accepted, Pooled, Early, Late
<1>5. Argument' = Argument
  BY <1>1 DEF Argument
<1>6. Passed'
  BY <1>1, <1>3, <1>5 DEF StartInv, Passed, Late
<1> QED
  BY <1>4, <1>6 DEF StartInv

(* A copy stays in its buffer, so the other buffers hold what they held.   *)
LEMMA AssignKeepsStart ==
  ASSUME StartInv, NEW i \in DOMAIN held, NEW k \in DOMAIN reqs, Assign(i, k)
  PROVE  StartInv'
<1>1. /\ phase = "run" /\ memory' = CopyRequest(memory, Buffer(i), reqs[k])
      /\ held' = [held EXCEPT ![i] = k]
      /\ UNCHANGED <<phase, arg_map, conf, db_size, shared, seen, writeset, reqs, launcher, line>>
  BY DEF Assign, config, generator
<1>2. KeysDrawn' /\ Generated' /\ ArgsRead' /\ Configured' /\ Passed'
  BY <1>1 DEF StartInv, KeysDrawn, Generated, ArgsRead, Configured, Accepted, Passed, Argument
<1>3. PICK procs \in Nat :
        /\ held \in [0..(procs - 1) -> 0..Len(reqs)]
        /\ DOMAIN memory = 0..((procs * RqstBufSz) \div WordBytes - 1)
  BY DEF StartInv, Pooled
<1>4. i \in Nat /\ i < procs /\ reqs[k] \in Generable /\ k \in 1..Len(reqs)
  BY <1>3 DEF StartInv, Generated
<1> DEFINE size == (procs * RqstBufSz) \div WordBytes
           word(j) == Buffer(j) \div WordBytes
<1>5. size = word(procs)
  BY DEF Buffer
<1>6. \A j, l \in Nat :
        j < l => /\ Buffer(j) \in Nat /\ word(j) \in Nat
                 /\ word(j) + Footprint <= word(l)
  BY BuffersApart
<1>7. size \in Nat
  <2>1. \A x \in Nat : x \div WordBytes \in Nat
    BY SizesAreNumbers
  <2>2. procs * RqstBufSz \in Nat
    BY SizesAreNumbers
  <2> QED
    BY <2>1, <2>2
<1> HIDE DEF size, word
<1>8. /\ HoldsAt(memory', Buffer(i), reqs[k]) /\ DOMAIN memory' = DOMAIN memory
      /\ \A a \in DOMAIN memory :
           ~(word(i) <= a /\ a < word(i) + Footprint) => memory'[a] = memory[a]
  <2>1. Buffer(i) \in Nat /\ Buffer(i) \div WordBytes + Footprint <= size
    BY <1>4, <1>5, <1>6 DEF word
  <2>2. DOMAIN memory = 0..(size - 1)
    BY <1>3 DEF size
  <2> QED
    BY <1>1, <1>4, <1>7, <2>1, <2>2, CopyWrites DEF word
<1>9. ASSUME NEW j \in DOMAIN held, j # i, held[j] # 0
      PROVE  HoldsAt(memory', Buffer(j), reqs[held[j]])
  <2>1. j \in Nat /\ j < procs /\ HoldsAt(memory, Buffer(j), reqs[held[j]])
    BY <1>3, <1>9 DEF StartInv, Pooled
  <2>2. /\ Footprint \in Nat /\ TxnSz \in Nat /\ NumFields \in Nat
        /\ Footprint = 4 + TxnSz + NumFields
    BY SizesAreNumbers
  <2>3. /\ word(i) \in Nat /\ word(j) \in Nat /\ word(j) + Footprint <= size
        /\ word(j) + Footprint <= word(i) \/ word(i) + Footprint <= word(j)
    <3>1. i < j \/ j < i
      BY <1>4, <1>9, <2>1
    <3> QED
      BY <1>4, <1>5, <1>6, <2>1, <3>1
  <2>4. \A n \in 0..(Footprint - 1) : memory'[word(j) + n] = memory[word(j) + n]
    <3> TAKE n \in 0..(Footprint - 1)
    <3>1. word(j) + n \in 0..(size - 1)
      BY <1>7, <2>2, <2>3
    <3>2. ~(word(i) <= word(j) + n /\ word(j) + n < word(i) + Footprint)
      BY <2>2, <2>3
    <3>3. DOMAIN memory = 0..(size - 1)
      BY <1>3 DEF size
    <3> QED
      BY <1>8, <3>1, <3>2, <3>3
  <2> DEFINE b == word(j)
  <2>5. /\ memory'[b] = memory[b] /\ memory'[b + 1] = memory[b + 1]
        /\ memory'[b + 2] = memory[b + 2] /\ memory'[b + 3] = memory[b + 3]
    <3>1. 0 \in 0..(Footprint - 1) /\ 1 \in 0..(Footprint - 1)
          /\ 2 \in 0..(Footprint - 1) /\ 3 \in 0..(Footprint - 1) /\ b + 0 = b
      BY <2>2, <2>3
    <3> QED
      BY <2>4, <3>1
  <2>6. \A n \in 1..TxnSz : memory'[b + 3 + n] = memory[b + 3 + n]
    <3>1. \A n \in 1..TxnSz : 3 + n \in 0..(Footprint - 1) /\ b + (3 + n) = b + 3 + n
      BY <2>2, <2>3
    <3> QED
      BY <2>4, <3>1
  <2>7. \A n \in 1..NumFields : memory'[b + 3 + TxnSz + n] = memory[b + 3 + TxnSz + n]
    <3>1. \A n \in 1..NumFields :
            3 + TxnSz + n \in 0..(Footprint - 1) /\ b + (3 + TxnSz + n) = b + 3 + TxnSz + n
      BY <2>2, <2>3
    <3> QED
      BY <2>4, <3>1
  <2> QED
    BY <2>1, <2>5, <2>6, <2>7 DEF HoldsAt, word
<1>10. Pooled'
  <2>1. held' \in [0..(procs - 1) -> 0..Len(reqs')]
    BY <1>1, <1>3, <1>4
  <2>2. DOMAIN memory' = 0..((procs * RqstBufSz) \div WordBytes - 1)
    BY <1>3, <1>8
  <2>3. ASSUME NEW j \in DOMAIN held', held'[j] # 0
        PROVE  HoldsAt(memory', Buffer(j), reqs'[held'[j]])
    <3>1. j \in DOMAIN held /\ held'[j] = IF j = i THEN k ELSE held[j]
      BY <1>1, <1>3, <2>3
    <3>2. reqs' = reqs
      BY <1>1
    <3>3. CASE j = i
      BY <1>8, <3>1, <3>2, <3>3
    <3>4. CASE j # i
      BY <1>9, <2>3, <3>1, <3>2, <3>4
    <3> QED
      BY <3>3, <3>4
  <2>4. phase' \in Late
    BY <1>1 DEF Late
  <2>5. \A j \in DOMAIN held' : held'[j] # 0 => HoldsAt(memory', Buffer(j)', reqs'[held'[j]])
    BY <2>3 DEF Buffer
  <2> QED
    BY <2>1, <2>2, <2>4, <2>5 DEF Pooled
<1> QED
  BY <1>2, <1>10 DEF StartInv

(* The invariant is inductive.                                             *)
LEMMA StepKeepsStart == StartInv /\ [StartNext]_startvars => StartInv'
<1> SUFFICES ASSUME StartInv, [StartNext]_startvars PROVE StartInv'
  OBVIOUS
<1>1. CASE MainProgram
  BY <1>1, ReadingKeepsStart, ConfigKeepsStart, CreateKeepsStart, DrawKeepsStart, NewKeepsStart,
     LaunchKeepsStart, ResultsKeepStart DEF MainProgram
<1>2. CASE \E i \in DOMAIN held, k \in DOMAIN reqs : Assign(i, k)
  BY <1>2, AssignKeepsStart
<1>3. CASE UNCHANGED startvars
  <2>1. UNCHANGED <<phase, arg_map, conf, db_size, shared, seen, writeset, reqs, launcher, line,
                    memory, held>>
    BY <1>3 DEF startvars, config, generator, pooled
  <2>2. KeysDrawn' /\ Generated' /\ ArgsRead' /\ Configured' /\ Passed' /\ Pooled'
    BY <2>1 DEF StartInv, KeysDrawn, Generated, ArgsRead, Configured, Accepted, Passed, Argument,
                Pooled
  <2> QED
    BY <2>2 DEF StartInv
<1> QED
  BY <1>1, <1>2, <1>3 DEF StartNext

LEMMA StartInvariant == StartSpec => []StartInv
BY InitStarts, StepKeepsStart, PTL DEF StartSpec

(* Every accepted command line reaches the constructor of its launcher and *)
(* the line in the results unchanged, whatever numbers the options carry.  *)
THEOREM CommandLineArrives == StartSpec => []OptionsReachLauncher
BY OptionsArrive, StartInvariant, PTL

(* Every request generated writes TXN_SZ different records of its          *)
(* database, for any sizes and whatever rand() returns.                    *)
THEOREM GeneratedKeysDistinct == StartSpec => []WriteSetsDistinct
BY KeysAreDistinct, StartInvariant, PTL

(* However many processes the pool has and in whatever order requests are  *)
(* copied into their buffers, each buffer holds all of its request, read   *)
(* through pointers that stay inside it.                                   *)
THEOREM CopiesStayFaithful == StartSpec => []CopyIsFaithful
BY CopiesAreFaithful, StartInvariant, PTL
=============================================================================
