------------------------- MODULE ThreadLauncherProofs -------------------------
(***************************************************************************)
(* ThreadLauncher limits the requests in flight, for any number of         *)
(* requests, any limit and any placement of the calls of WaitOutstanding.  *)
(***************************************************************************)
EXTENDS ThreadLauncher, GateProofs, SequenceTheorems

(* Every step of the main thread keeps the gate's invariant, and is a step *)
(* of the limit or leaves it alone.                                        *)
LEMMA MainKeepsGate ==
  ASSUME GateInv, MainStep
  PROVE  GateInv' /\ [Limit!Next]_(Limit!vars)
<1>1. rpc \in [Reqs -> ExecPcs]
  BY DEF GateInv, GateType
<1>2. CASE Create
  <2>1. GateInv' /\ Limit!Launch
    BY <1>2, IssueStep DEF Create
  <2> QED
    BY <2>1 DEF Limit!Next
<1>3. CASE MainGate
  BY <1>3, LockGateStep, TestGateStep DEF MainGate
<1>4. CASE Take
  <2>1. "list_lock" \notin GatePcs
    BY DEF GatePcs
  <2>2. GateInv' /\ Limit!Return
    BY <1>4, <2>1, TakePermitStep DEF Take
  <2> QED
    BY <2>2 DEF Limit!Next
<1>5. CASE LockList \/ ReadList \/ ClearList \/ JoinAndFree \/ Return \/ Wait
  <2>1. UNCHANGED <<num_requests, rpc, gate>>
    BY <1>5 DEF LockList, ReadList, ClearList, JoinAndFree, Return, Wait,
                WaitOutstanding, base
  <2>2. lpc' = lpc \/ (lpc \notin GatePcs /\ lpc' \notin GatePcs)
    BY <1>5 DEF LockList, ReadList, ClearList, JoinAndFree, Return, Wait,
                WaitOutstanding, base, AfterReturn, GatePcs
  <2> QED
    BY <1>1, <2>1, <2>2, OutsideStep
<1> QED
  BY <1>2, <1>3, <1>4, <1>5 DEF MainStep

(* So does every step of a thread.                                         *)
LEMMA ThreadKeepsGate ==
  ASSUME GateInv, NEW r \in Reqs, ThreadStep(r)
  PROVE  GateInv' /\ [Limit!Next]_(Limit!vars)
<1>1. rpc \in [Reqs -> ExecPcs]
  BY DEF GateInv, GateType
<1>2. ASSUME NEW p \in {"link_lock", "link_read", "link_write", "give_lock"},
             rpc[r] \in {"execute", "link_lock", "link_read", "link_write"},
             rpc' = [rpc EXCEPT ![r] = p], UNCHANGED <<num_requests, lpc, gate>>
      PROVE  GateInv' /\ UNCHANGED Limit!vars
  <2>1. rpc' \in [Reqs -> ExecPcs]
    BY <1>1, <1>2 DEF ExecPcs
  <2>2. \A q \in Reqs : rpc'[q] = IF q = r THEN p ELSE rpc[q]
    BY <1>1, <1>2
  <2>3. \A q \in Reqs :
           \/ rpc'[q] = rpc[q]
           \/ /\ rpc[q] \notin GivePcs /\ rpc'[q] \notin GivePcs
              /\ rpc[q] \in GivenPcs <=> rpc'[q] \in GivenPcs
    BY <1>2, <2>2 DEF GivePcs, GivenPcs
  <2> QED
    BY <1>2, <2>1, <2>3, OutsideStep
<1>3. CASE Execute(r)
  BY <1>2, <1>3 DEF Execute
<1>4. CASE LockLink(r)
  BY <1>2, <1>4 DEF LockLink
<1>5. CASE ReadLink(r)
  BY <1>2, <1>5 DEF ReadLink
<1>6. CASE WriteLink(r)
  BY <1>2, <1>6 DEF WriteLink
<1>7. CASE GiveBack(r)
  <2>1. CASE LockGive(r) \/ LoadGive(r)
    BY <2>1, LockGiveStep, LoadGiveStep
  <2>2. CASE StoreGive(r, "count")
    <3>1. "count" \in GivenPcs
      BY DEF GivenPcs
    <3>2. GateInv' /\ Limit!Finish(r)
      BY <2>2, <3>1, StoreGiveStep
    <3> QED
      BY <3>2 DEF Limit!Next, Reqs
  <2> QED
    BY <1>7, <2>1, <2>2 DEF GiveBack
<1>8. CASE CountAndExit(r)
  <2>1. /\ rpc[r] = "count" /\ rpc' = [rpc EXCEPT ![r] = "exited"]
        /\ UNCHANGED <<num_requests, lpc, gate>>
    BY <1>8 DEF CountAndExit
  <2>2. rpc' \in [Reqs -> ExecPcs]
    BY <1>1, <2>1 DEF ExecPcs
  <2>3. \A q \in Reqs :
           \/ rpc'[q] = rpc[q]
           \/ /\ rpc[q] \notin GivePcs /\ rpc'[q] \notin GivePcs
              /\ rpc[q] \in GivenPcs <=> rpc'[q] \in GivenPcs
    BY <1>1, <2>1 DEF GivePcs, GivenPcs
  <2> QED
    BY <2>1, <2>2, <2>3, OutsideStep
<1> QED
  BY <1>3, <1>4, <1>5, <1>6, <1>7, <1>8 DEF ThreadStep

(* The gate's invariant is inductive, and every step maps to the limit.    *)
LEMMA StepKeepsGate ==
  ASSUME GateInv, [Next]_vars
  PROVE  GateInv' /\ [Limit!Next]_(Limit!vars)
<1>1. CASE MainStep
  BY <1>1, MainKeepsGate
<1>2. CASE Wakeup
  BY <1>2, WakeupStep DEF Wakeup
<1>3. ASSUME NEW r \in Reqs, ThreadStep(r)
      PROVE  GateInv' /\ [Limit!Next]_(Limit!vars)
  BY <1>3, ThreadKeepsGate
<1>4. CASE UNCHANGED vars
  <2>1. UNCHANGED <<num_requests, lpc, rpc, gate>>
    BY <1>4 DEF vars, base
  <2>2. rpc \in [Reqs -> ExecPcs]
    BY DEF GateInv, GateType
  <2> QED
    BY <2>1, <2>2, OutsideStep
<1> QED
  BY <1>1, <1>2, <1>3, <1>4 DEF Next

LEMMA GateInvariant == Spec => []GateInv
<1>1. Init => GateInv
  BY GateInitInv DEF Init
<1>2. GateInv /\ [Next]_vars => GateInv'
  BY StepKeepsGate
<1> QED
  BY <1>1, <1>2, PTL DEF Spec

-----------------------------------------------------------------------------
(* No interleaving of ExecuteRequest with the threads that end makes up or *)
(* loses a permit.                                                         *)
THEOREM ThreadPermitsConserved == Spec => []PermitsConserved
<1>1. GateInv => PermitsConserved
  BY DEF GateInv
<1> QED
  BY <1>1, GateInvariant, PTL

(* Between lock and unlock nobody else changes the counter.                *)
THEOREM ThreadGateExclusion == Spec => []GateExclusion
<1>1. GateInv => GateExclusion
  BY DEF GateInv
<1> QED
  BY <1>1, GateInvariant, PTL

(* The main thread never sleeps while a permit is there for it.            *)
THEOREM ThreadNoLostWakeup == Spec => []NoLostWakeup
<1>1. GateInv => NoLostWakeup
  BY DEF GateInv
<1> QED
  BY <1>1, GateInvariant, PTL

(* At most MaxOutstanding requests are in flight, plus the one being       *)
(* issued.                                                                 *)
THEOREM ThreadOutstandingBounded == Spec => []OutstandingBounded
<1>1. GateInv => OutstandingBounded
  BY GateBounds
<1> QED
  BY <1>1, GateInvariant, PTL

(* ThreadLauncher implements the limit its callers rely on.                *)
THEOREM ThreadImplementsLimit == Spec => ImplementsLimit
<1>1. Init => Limit!Init
  BY GateInitInv DEF Init
<1>2. GateInv /\ [Next]_vars => [Limit!Next]_(Limit!vars)
  BY StepKeepsGate
<1> QED
  BY <1>1, <1>2, GateInvariant, PTL DEF Spec, ImplementsLimit, Limit!Spec

-----------------------------------------------------------------------------
(* The requests counted in txns_executed_.                                 *)
Counted == {r \in Reqs : rpc[r] \in {"exited"}}

(* What WaitOutstanding compares is the number of requests counted.        *)
WaitInv ==
  /\ txns_executed = Cardinality(Counted)
  /\ waited \in 0..num_requests
  /\ 1..waited \subseteq Counted

(* A step that counts nothing keeps it.                                    *)
LEMMA QuietStep ==
  ASSUME GateInv, WaitInv, UNCHANGED <<txns_executed, waited>>, Counted' = Counted,
         num_requests' \in Nat, num_requests' >= num_requests
  PROVE  WaitInv'
BY DEF WaitInv, GateInv, GateType

LEMMA StepKeepsWait ==
  ASSUME GateInv, WaitInv, [Next]_vars
  PROVE  WaitInv'
<1> USE LauncherAssumption
<1>1. /\ num_requests \in Nat /\ rpc \in [Reqs -> ExecPcs]
      /\ Counted \subseteq 1..num_requests /\ IsFiniteSet(Counted)
  <2>1. num_requests \in Nat /\ rpc \in [Reqs -> ExecPcs]
    BY DEF GateInv, GateType
  <2>2. Counted \subseteq 1..num_requests
    BY <2>1 DEF Counted, GateInv, IssuedRun, Reqs
  <2>3. IsFiniteSet(1..num_requests)
    BY <2>1, FS_Interval
  <2> QED
    BY <2>1, <2>2, <2>3, FS_Subset
<1>2. CASE Create
  <2>1. /\ num_requests' = num_requests + 1 /\ UNCHANGED <<txns_executed, waited>>
        /\ num_requests + 1 \in Reqs
        /\ rpc' = [rpc EXCEPT ![num_requests + 1] = "execute"]
    BY <1>1, <1>2 DEF Create, CountRequest, Reqs
  <2>2. rpc[num_requests + 1] = "none"
    BY <1>1, <2>1 DEF GateInv, IssuedRun
  <2>3. Counted' = Counted
    BY <1>1, <2>1, <2>2 DEF Counted
  <2> QED
    BY <1>1, <2>1, <2>3, QuietStep
<1>3. CASE MainGate \/ Take \/ LockList \/ ReadList \/ ClearList \/ JoinAndFree \/ Return
          \/ Wakeup
  <2>1. UNCHANGED <<num_requests, txns_executed, waited, rpc>>
    BY <1>3 DEF MainGate, LockGate, TestGate, Take, TakePermit, LockList, ReadList,
                ClearList, JoinAndFree, Return, Wakeup, SpuriousWakeup, base
  <2>2. Counted' = Counted
    BY <2>1 DEF Counted
  <2> QED
    BY <1>1, <2>1, <2>2, QuietStep
<1>4. CASE Wait
  <2>1. /\ txns_executed = num_requests /\ waited' = num_requests
        /\ UNCHANGED <<num_requests, txns_executed, rpc>>
    BY <1>4 DEF Wait, WaitOutstanding
  <2>2. Counted = 1..num_requests
    BY <1>1, <2>1, AllCounted DEF WaitInv
  <2>3. Counted' = Counted
    BY <2>1 DEF Counted
  <2>4. txns_executed' = Cardinality(Counted')
    BY <2>1, <2>3 DEF WaitInv
  <2>5. waited' \in 0..num_requests' /\ 1..waited' \subseteq Counted'
    BY <1>1, <2>1, <2>2, <2>3
  <2> QED
    BY <2>4, <2>5 DEF WaitInv
<1>5. ASSUME NEW r \in Reqs, ThreadStep(r)
      PROVE  WaitInv'
  <2>1. CASE Execute(r) \/ LockLink(r) \/ ReadLink(r) \/ WriteLink(r) \/ GiveBack(r)
    <3>1. UNCHANGED <<num_requests, txns_executed, waited>>
      BY <2>1 DEF Execute, LockLink, ReadLink, WriteLink, GiveBack, LockGive, LoadGive, StoreGive
    <3>2. Counted' = Counted
      BY <1>1, <2>1 DEF Counted, Execute, LockLink, ReadLink, WriteLink, GiveBack, LockGive, LoadGive, StoreGive
    <3> QED
      BY <1>1, <3>1, <3>2, QuietStep
  <2>2. CASE CountAndExit(r)
    <3>1. /\ rpc[r] = "count" /\ rpc' = [rpc EXCEPT ![r] = "exited"]
          /\ txns_executed' = txns_executed + 1 /\ UNCHANGED <<num_requests, waited>>
      BY <2>2 DEF CountAndExit, IncrDoneTxns
    <3>2. Counted' = Counted \cup {r} /\ r \notin Counted
      BY <1>1, <3>1 DEF Counted
    <3>3. Cardinality(Counted') = Cardinality(Counted) + 1
      BY <1>1, <3>2, FS_AddElement
    <3> QED
      BY <3>1, <3>2, <3>3 DEF WaitInv
  <2> QED
    BY <1>5, <2>1, <2>2 DEF ThreadStep
<1>6. CASE UNCHANGED vars
  <2>1. UNCHANGED <<num_requests, txns_executed, waited, rpc>>
    BY <1>6 DEF vars, base
  <2>2. Counted' = Counted
    BY <2>1 DEF Counted
  <2> QED
    BY <1>1, <2>1, <2>2, QuietStep
<1> QED
  BY <1>2, <1>3, <1>4, <1>5, <1>6 DEF Next, MainStep

LEMMA WaitInvariant == Spec => []WaitInv
<1>1. Init => WaitInv
  <2>1. SUFFICES ASSUME Init PROVE WaitInv
    OBVIOUS
  <2>2. Counted = {} /\ txns_executed = 0 /\ waited = 0 /\ num_requests = 0
    BY <2>1 DEF Init, LauncherInit, Counted
  <2> QED
    BY <2>2, FS_EmptySet DEF WaitInv
<1>2. GateInv /\ WaitInv /\ [Next]_vars => WaitInv'
  BY StepKeepsWait
<1> QED
  BY <1>1, <1>2, GateInvariant, PTL DEF Spec

(* After WaitOutstanding every request issued before it has been executed: *)
(* its loop on two plain integers can be left only when all their          *)
(* threads have returned.                                                  *)
THEOREM ThreadWaitedAreDone == Spec => []WaitedAreDone
<1>1. WaitInv => WaitedAreDone
  BY DEF WaitInv, WaitedAreDone, Counted
<1> QED
  BY <1>1, WaitInvariant, PTL

-----------------------------------------------------------------------------
(* The list of finished threads.                                           *)

(* No element appears twice.                                               *)
Distinct(s) == \A i, j \in DOMAIN s : s[i] = s[j] => i = j

(* Such a sequence is as long as it has elements.                          *)
LEMMA DistinctLength ==
  ASSUME NEW s \in Seq(Reqs), Distinct(s)
  PROVE  /\ IsFiniteSet(Elements(s)) /\ Cardinality(Elements(s)) = Len(s)
         /\ Len(s) \in Nat
<1>1. Len(s) \in Nat /\ s \in [1..Len(s) -> Reqs] /\ DOMAIN s = 1..Len(s)
  BY LenProperties
<1>2. s \in Bijection(1..Len(s), Elements(s))
  BY <1>1 DEF Bijection, Injection, Surjection, IsInjective, Distinct, Elements
<1>3. ExistsBijection(1..Len(s), Elements(s))
  BY <1>2 DEF ExistsBijection
<1>4. IsFiniteSet(1..Len(s)) /\ Cardinality(1..Len(s)) = Len(s)
  BY <1>1, FS_Interval
<1> QED
  BY <1>1, <1>3, <1>4, FS_Bijection

LEMMA ElementsOfEmpty == Elements(<<>>) = {} /\ Distinct(<<>>)
BY DEF Elements, Distinct

(* Linking an element in front of a list.                                  *)
LEMMA ElementsOfCons ==
  ASSUME NEW s \in Seq(Reqs), NEW r \in Reqs
  PROVE  /\ <<r>> \o s \in Seq(Reqs)
         /\ Elements(<<r>> \o s) = Elements(s) \cup {r}
         /\ r \notin Elements(s) /\ Distinct(s) => Distinct(<<r>> \o s)
<1> DEFINE t == <<r>> \o s
<1>1. Len(s) \in Nat /\ DOMAIN s = 1..Len(s)
  BY LenProperties
<1>2. <<r>> \in Seq(Reqs) /\ Len(<<r>>) = 1 /\ <<r>>[1] = r
  OBVIOUS
<1>3. /\ t \in Seq(Reqs) /\ Len(t) = Len(s) + 1
      /\ \A i \in 1..(Len(s) + 1) : t[i] = IF i <= 1 THEN r ELSE s[i - 1]
  <2>1. /\ t \in Seq(Reqs) /\ Len(t) = 1 + Len(s)
        /\ \A i \in 1..(1 + Len(s)) : t[i] = IF i <= 1 THEN <<r>>[i] ELSE s[i - 1]
    BY <1>2, ConcatProperties
  <2> QED
    BY <1>1, <1>2, <2>1
<1>4. DOMAIN t = 1..(Len(s) + 1)
  BY <1>3, LenProperties
<1> HIDE DEF t
<1>5. t[1] = r /\ \A i \in 1..Len(s) : i + 1 \in DOMAIN t /\ t[i + 1] = s[i]
  BY <1>1, <1>3, <1>4
<1>6. \A i \in DOMAIN t : i = 1 \/ (i - 1 \in 1..Len(s) /\ t[i] = s[i - 1])
  BY <1>1, <1>3, <1>4
<1>7. Elements(t) = Elements(s) \cup {r}
  <2>1. 1 \in DOMAIN t
    BY <1>1, <1>4
  <2> QED
    BY <1>1, <1>5, <1>6, <2>1 DEF Elements
<1>8. ASSUME r \notin Elements(s), Distinct(s)
      PROVE  Distinct(t)
  BY <1>1, <1>4, <1>5, <1>6, <1>8 DEF Elements, Distinct
<1> QED
  BY <1>3, <1>7, <1>8 DEF t

(* Taking the first element off a list.                                    *)
LEMMA ElementsOfTail ==
  ASSUME NEW s \in Seq(Reqs), s # <<>>
  PROVE  /\ Head(s) \in Reqs /\ Tail(s) \in Seq(Reqs) /\ Len(Tail(s)) = Len(s) - 1
         /\ Elements(s) = Elements(Tail(s)) \cup {Head(s)}
         /\ Distinct(s) => Distinct(Tail(s)) /\ Head(s) \notin Elements(Tail(s))
<1> DEFINE t == Tail(s)
<1>1. Len(s) \in Nat \ {0} /\ DOMAIN s = 1..Len(s) /\ Head(s) = s[1]
  BY LenProperties, EmptySeq
<1>2. /\ Head(s) \in Reqs /\ t \in Seq(Reqs) /\ Len(t) = Len(s) - 1
      /\ \A i \in 1..Len(t) : t[i] = s[i + 1]
  BY HeadTailProperties
<1>3. DOMAIN t = 1..(Len(s) - 1)
  BY <1>2, LenProperties
<1> HIDE DEF t
<1>4. \A i \in DOMAIN t : i + 1 \in DOMAIN s /\ i + 1 # 1 /\ t[i] = s[i + 1]
  BY <1>1, <1>2, <1>3
<1>5. \A i \in DOMAIN s : i = 1 \/ (i - 1 \in DOMAIN t /\ t[i - 1] = s[i])
  BY <1>1, <1>2, <1>3
<1>6. Elements(s) = Elements(t) \cup {Head(s)}
  <2>1. 1 \in DOMAIN s
    BY <1>1
  <2> QED
    BY <1>1, <1>4, <1>5, <2>1 DEF Elements
<1>7. ASSUME Distinct(s)
      PROVE  Distinct(t) /\ Head(s) \notin Elements(t)
  <2>1. 1 \in DOMAIN s
    BY <1>1
  <2>2. Head(s) \notin Elements(t)
    BY <1>1, <1>4, <1>7, <2>1 DEF Distinct, Elements
  <2>3. Distinct(t)
    <3> SUFFICES ASSUME NEW i \in DOMAIN t, NEW j \in DOMAIN t, t[i] = t[j]
                 PROVE  i = j
      BY DEF Distinct
    <3>1. i + 1 = j + 1
      BY <1>4, <1>7 DEF Distinct
    <3> QED
      BY <1>1, <1>3, <3>1
  <2> QED
    BY <2>2, <2>3
<1> QED
  BY <1>2, <1>6, <1>7 DEF t

-----------------------------------------------------------------------------
(* The part of the list that the main thread has not taken: after it has   *)
(* read the head and before it has cleared it, nothing.                    *)
Rest == IF lpc = "list_clear" THEN <<>> ELSE targ_list

ListPcs == {"list_lock", "list_read", "list_clear", "reap"}

(* The types the argument needs.                                           *)
ListType ==
  /\ lpc \in {"idle", "wait"} \cup GatePcs \cup ListPcs
  /\ rpc \in [Reqs -> ExecPcs \ {"executed"}]
  /\ targ_list \in Seq(Reqs)
  /\ list_mutex \in {NoOwner, Main} \cup Reqs
  /\ link \in [Reqs -> Seq(Reqs)]
  /\ reaping \in Seq(Reqs)
  /\ freed \subseteq Reqs

(* Whoever is between lock and unlock of the list owns its mutex, and what *)
(* it has read as the head is still the head.                              *)
ListExclusion ==
  /\ lpc \in {"list_read", "list_clear"} => list_mutex = Main
  /\ lpc = "list_clear" => reaping = targ_list
  /\ lpc \notin {"list_clear", "reap"} => reaping = <<>>
  /\ \A r \in Reqs :
       /\ rpc[r] \in {"link_read", "link_write"} => list_mutex = r
       /\ rpc[r] = "link_write" => link[r] = targ_list

(* The thread_args that have been linked are split into three parts.       *)
ListSplit ==
  /\ Linked = Elements(Rest) \cup Elements(reaping) \cup freed
  /\ Distinct(Rest) /\ Distinct(reaping)
  /\ Elements(Rest) \cap Elements(reaping) = {}
  /\ Elements(Rest) \cap freed = {}
  /\ Elements(reaping) \cap freed = {}

(* The inductive invariant of the list.                                    *)
ArgsInv == ListType /\ ListExclusion /\ ListSplit /\ NoUseAfterFree

(* A step that neither links nor reaps and leaves the list alone.          *)
LEMMA QuietList ==
  ASSUME ArgsInv, UNCHANGED list, lpc' \in {"idle", "wait"} \cup GatePcs \cup ListPcs,
         rpc' \in [Reqs -> ExecPcs \ {"executed"}],
         \/ lpc' = lpc
         \/ /\ lpc \notin {"list_read", "list_clear"}
            /\ lpc' \notin {"list_read", "list_clear", "reap"}
            /\ lpc = "reap" => reaping = <<>>,
         \A r \in Reqs : rpc'[r] \in {"link_read", "link_write"} => rpc'[r] = rpc[r],
         \A r \in Reqs : rpc[r] = "exited" => rpc'[r] = "exited",
         Linked' = Linked
  PROVE  ArgsInv'
<1>1. UNCHANGED <<targ_list, list_mutex, link, reaping, freed>>
  BY DEF list
<1>2. Rest' = Rest
  BY <1>1 DEF Rest, ArgsInv, ListExclusion
<1>3. ListType' /\ ListExclusion'
  BY <1>1 DEF ArgsInv, ListType, ListExclusion
<1>4. ListSplit'
  BY <1>1, <1>2 DEF ArgsInv, ListSplit
<1>5. NoUseAfterFree'
  BY <1>1 DEF ArgsInv, NoUseAfterFree, ListType
<1> QED
  BY <1>3, <1>4, <1>5 DEF ArgsInv

(* The steps of the main thread outside the list.                          *)
LEMMA MainQuiet ==
  ASSUME GateInv, ArgsInv, Create \/ MainGate \/ Take \/ Return \/ Wait \/ Wakeup
  PROVE  ArgsInv'
<1> USE LauncherAssumption
<1>1. num_requests \in Nat /\ rpc \in [Reqs -> ExecPcs \ {"executed"}]
  BY DEF GateInv, GateType, ArgsInv, ListType
<1>2. UNCHANGED list
  BY DEF Create, MainGate, Take, Return, Wait, Wakeup
<1>3. CASE Create
  <2>1. /\ num_requests + 1 \in Reqs /\ lpc = "idle" /\ lpc' = "gate_lock"
        /\ rpc' = [rpc EXCEPT ![num_requests + 1] = "execute"]
    BY <1>1, <1>3 DEF Create, CountRequest, Reqs
  <2>2. rpc[num_requests + 1] = "none"
    BY <1>1, <2>1 DEF GateInv, IssuedRun
  <2>3. rpc' \in [Reqs -> ExecPcs \ {"executed"}] /\ Linked' = Linked
    BY <1>1, <2>1, <2>2 DEF ExecPcs, Linked
  <2>4. \A r \in Reqs : /\ rpc'[r] \in {"link_read", "link_write"} => rpc'[r] = rpc[r]
                        /\ rpc[r] = "exited" => rpc'[r] = "exited"
    BY <1>1, <2>1, <2>2
  <2> QED
    BY <1>2, <2>1, <2>3, <2>4, QuietList DEF GatePcs
<1>4. CASE MainGate \/ Take \/ Return \/ Wait \/ Wakeup
  <2>1. rpc' = rpc
    BY <1>4 DEF MainGate, LockGate, TestGate, Take, TakePermit, Return, Wait,
                WaitOutstanding, Wakeup, SpuriousWakeup
  <2>2. Linked' = Linked
    BY <2>1 DEF Linked
  <2>3. /\ lpc' \in {"idle", "wait"} \cup GatePcs \cup ListPcs
        /\ lpc \notin {"list_read", "list_clear"}
        /\ lpc' \notin {"list_read", "list_clear", "reap"}
        /\ lpc = "reap" => reaping = <<>>
    BY <1>4 DEF MainGate, LockGate, TestGate, Take, TakePermit, Return, Wait,
                WaitOutstanding, Wakeup, SpuriousWakeup, AfterReturn, GatePcs, ListPcs
  <2> QED
    BY <1>1, <1>2, <2>1, <2>2, <2>3, QuietList
<1> QED
  BY <1>3, <1>4

(* Taking the list, and joining and freeing what is in it.                 *)
LEMMA MainTakesList ==
  ASSUME ArgsInv, LockList \/ ReadList \/ ClearList \/ JoinAndFree
  PROVE  ArgsInv'
<1> USE LauncherAssumption
<1>1. rpc' = rpc /\ Linked' = Linked
  BY DEF LockList, ReadList, ClearList, JoinAndFree, base, Linked
<1>2. ListType /\ ListExclusion /\ ListSplit /\ NoUseAfterFree
  BY DEF ArgsInv
<1>3. Main \notin Reqs /\ NoOwner \notin Reqs /\ Main # NoOwner
  BY DEF Main, NoOwner, Reqs
<1>4. CASE LockList
  <2>1. /\ lpc = "list_lock" /\ lpc' = "list_read" /\ list_mutex = NoOwner
        /\ list_mutex' = Main /\ UNCHANGED <<targ_list, link, reaping, freed>>
    BY <1>4 DEF LockList
  <2>2. \A r \in Reqs : rpc[r] \notin {"link_read", "link_write"}
    BY <1>2, <1>3, <2>1 DEF ListExclusion
  <2>3. ListType' /\ ListExclusion'
    BY <1>1, <1>2, <2>1, <2>2 DEF ListType, ListExclusion, ListPcs
  <2>4. ListSplit' /\ NoUseAfterFree'
    BY <1>1, <1>2, <2>1 DEF ListSplit, NoUseAfterFree, Rest
  <2> QED
    BY <2>3, <2>4 DEF ArgsInv
<1>5. CASE ReadList
  <2>1. /\ lpc = "list_read" /\ lpc' = "list_clear" /\ reaping' = targ_list
        /\ UNCHANGED <<targ_list, list_mutex, link, freed>>
    BY <1>5 DEF ReadList
  <2>2. ListType' /\ ListExclusion'
    BY <1>1, <1>2, <2>1 DEF ListType, ListExclusion, ListPcs
  <2>3. Rest = targ_list /\ reaping = <<>> /\ Rest' = <<>>
    BY <1>2, <2>1 DEF Rest, ListExclusion
  <2>4. ListSplit' /\ NoUseAfterFree'
    BY <1>1, <1>2, <2>1, <2>3, ElementsOfEmpty DEF ListSplit, NoUseAfterFree
  <2> QED
    BY <2>2, <2>4 DEF ArgsInv
<1>6. CASE ClearList
  <2>1. /\ lpc = "list_clear" /\ lpc' = "reap" /\ targ_list' = <<>>
        /\ list_mutex' = NoOwner /\ UNCHANGED <<link, reaping, freed>>
    BY <1>6 DEF ClearList
  <2>2. \A r \in Reqs : rpc[r] \notin {"link_read", "link_write"}
    BY <1>2, <1>3, <2>1 DEF ListExclusion
  <2>3. ListType' /\ ListExclusion'
    BY <1>1, <1>2, <2>1, <2>2 DEF ListType, ListExclusion, ListPcs
  <2>4. Rest = <<>> /\ Rest' = <<>>
    BY <2>1 DEF Rest
  <2>5. ListSplit' /\ NoUseAfterFree'
    BY <1>1, <1>2, <2>1, <2>4 DEF ListSplit, NoUseAfterFree
  <2> QED
    BY <2>3, <2>5 DEF ArgsInv
<1>7. CASE JoinAndFree
  <2> DEFINE r == Head(reaping)
  <2>1. /\ lpc = "reap" /\ lpc' = "reap" /\ reaping # <<>> /\ rpc[r] = "exited"
        /\ freed' = freed \cup {r} /\ reaping' = Tail(reaping)
        /\ UNCHANGED <<targ_list, list_mutex, link>>
    BY <1>7 DEF JoinAndFree, base
  <2>2. /\ r \in Reqs /\ Tail(reaping) \in Seq(Reqs)
        /\ Elements(reaping) = Elements(Tail(reaping)) \cup {r}
        /\ Distinct(Tail(reaping)) /\ r \notin Elements(Tail(reaping))
    BY <1>2, <2>1, ElementsOfTail DEF ListType, ListSplit
  <2> HIDE DEF r
  <2>3. ListType' /\ ListExclusion'
    BY <1>1, <1>2, <2>1, <2>2 DEF ListType, ListExclusion
  <2>4. Rest' = Rest
    BY <2>1 DEF Rest
  <2>5. ListSplit'
    BY <1>1, <1>2, <2>1, <2>2, <2>4 DEF ListSplit
  <2>6. NoUseAfterFree'
    BY <1>1, <1>2, <2>1 DEF NoUseAfterFree
  <2> QED
    BY <2>3, <2>5, <2>6 DEF ArgsInv
<1> QED
  BY <1>4, <1>5, <1>6, <1>7

(* The steps of a thread outside the list.                                 *)
LEMMA ThreadQuiet ==
  ASSUME GateInv, ArgsInv, NEW r \in Reqs, Execute(r) \/ GiveBack(r) \/ CountAndExit(r)
  PROVE  ArgsInv'
<1>1. rpc \in [Reqs -> ExecPcs \ {"executed"}] /\ lpc \in {"idle", "wait"} \cup GatePcs \cup ListPcs
  BY DEF ArgsInv, ListType
<1>2. UNCHANGED list
  BY DEF Execute, GiveBack, CountAndExit
<1>3. /\ lpc' \in {"idle", "wait"} \cup GatePcs \cup ListPcs
      /\ lpc' = lpc \/ (lpc = "gate_wait" /\ lpc' = "gate_lock")
  BY <1>1 DEF Execute, GiveBack, LockGive, LoadGive, StoreGive, CountAndExit, GatePcs
<1>4. PICK p \in {"link_lock", "give_load", "give_store", "count", "exited"} :
             /\ rpc' = [rpc EXCEPT ![r] = p] /\ rpc[r] # "exited"
             /\ p = "link_lock" <=> rpc[r] = "execute"
             /\ rpc[r] \in {"execute", "give_lock", "give_load", "give_store", "count"}
  BY DEF Execute, GiveBack, LockGive, LoadGive, StoreGive, CountAndExit
<1>5. /\ rpc' \in [Reqs -> ExecPcs \ {"executed"}]
      /\ \A q \in Reqs : rpc'[q] = IF q = r THEN p ELSE rpc[q]
  BY <1>1, <1>4 DEF ExecPcs
<1>6. Linked' = Linked
  BY <1>4, <1>5 DEF Linked
<1> QED
  BY <1>2, <1>3, <1>4, <1>5, <1>6, QuietList

(* Linking a thread_arg into the list.                                     *)
LEMMA ThreadLinks ==
  ASSUME ArgsInv, NEW r \in Reqs, LockLink(r) \/ ReadLink(r) \/ WriteLink(r)
  PROVE  ArgsInv'
<1> USE LauncherAssumption
<1>1. ListType /\ ListExclusion /\ ListSplit /\ NoUseAfterFree
  BY DEF ArgsInv
<1>2. Main \notin Reqs /\ NoOwner \notin Reqs /\ Main # NoOwner
  BY DEF Main, NoOwner, Reqs
<1>3. rpc \in [Reqs -> ExecPcs \ {"executed"}]
  BY <1>1 DEF ListType
<1>4. lpc' = lpc /\ reaping' = reaping /\ freed' = freed
  BY DEF LockLink, ReadLink, WriteLink
<1>5. CASE LockLink(r)
  <2>1. /\ rpc[r] = "link_lock" /\ rpc' = [rpc EXCEPT ![r] = "link_read"]
        /\ list_mutex = NoOwner /\ list_mutex' = r /\ UNCHANGED <<targ_list, link>>
    BY <1>5 DEF LockLink
  <2>2. \A q \in Reqs : rpc[q] \notin {"link_read", "link_write"}
    BY <1>1, <1>2, <2>1 DEF ListExclusion
  <2>3. lpc \notin {"list_read", "list_clear"}
    BY <1>1, <1>2, <2>1 DEF ListExclusion
  <2>4. ListType'
    BY <1>1, <1>3, <1>4, <2>1 DEF ListType, ExecPcs
  <2>5. ListExclusion'
    BY <1>1, <1>3, <1>4, <2>1, <2>2, <2>3 DEF ListExclusion
  <2>6. Linked' = Linked /\ Rest' = Rest
    BY <1>3, <1>4, <2>1 DEF Linked, Rest
  <2>7. ListSplit' /\ NoUseAfterFree'
    BY <1>1, <1>3, <1>4, <2>1, <2>6 DEF ListSplit, NoUseAfterFree, ListType
  <2> QED
    BY <2>4, <2>5, <2>7 DEF ArgsInv
<1>6. CASE ReadLink(r)
  <2>1. /\ rpc[r] = "link_read" /\ rpc' = [rpc EXCEPT ![r] = "link_write"]
        /\ link' = [link EXCEPT ![r] = targ_list] /\ UNCHANGED <<targ_list, list_mutex>>
    BY <1>6 DEF ReadLink
  <2>2. list_mutex = r
    BY <1>1, <2>1 DEF ListExclusion
  <2>3. ListType'
    BY <1>1, <1>3, <1>4, <2>1 DEF ListType, ExecPcs
  <2>4. ListExclusion'
    BY <1>1, <1>3, <1>4, <2>1, <2>2 DEF ListExclusion, ListType
  <2>5. Linked' = Linked /\ Rest' = Rest
    BY <1>3, <1>4, <2>1 DEF Linked, Rest
  <2>6. ListSplit' /\ NoUseAfterFree'
    BY <1>1, <1>3, <1>4, <2>1, <2>5 DEF ListSplit, NoUseAfterFree, ListType
  <2> QED
    BY <2>3, <2>4, <2>6 DEF ArgsInv
<1>7. CASE WriteLink(r)
  <2>1. /\ rpc[r] = "link_write" /\ rpc' = [rpc EXCEPT ![r] = "give_lock"]
        /\ targ_list' = <<r>> \o link[r] /\ list_mutex' = NoOwner /\ UNCHANGED link
    BY <1>7 DEF WriteLink
  <2>2. list_mutex = r /\ link[r] = targ_list /\ targ_list \in Seq(Reqs)
    BY <1>1, <2>1 DEF ListExclusion, ListType
  <2>3. lpc \notin {"list_read", "list_clear"}
    BY <1>1, <1>2, <2>2 DEF ListExclusion
  <2>4. \A q \in Reqs \ {r} : rpc[q] \notin {"link_read", "link_write"}
    BY <1>1, <2>2 DEF ListExclusion
  <2>5. Rest = targ_list /\ Rest' = targ_list'
    BY <1>4, <2>3 DEF Rest
  <2>6. r \notin Linked /\ Linked' = Linked \cup {r}
    BY <1>3, <2>1 DEF Linked
  <2>7. r \notin Elements(targ_list) /\ r \notin Elements(reaping) /\ r \notin freed
    BY <1>1, <2>5, <2>6 DEF ListSplit
  <2>8. /\ targ_list' \in Seq(Reqs) /\ Elements(targ_list') = Elements(targ_list) \cup {r}
        /\ Distinct(targ_list')
    BY <1>1, <2>1, <2>2, <2>5, <2>7, ElementsOfCons DEF ListSplit
  <2>9. ListType'
    BY <1>1, <1>3, <1>4, <2>1, <2>8 DEF ListType, ExecPcs
  <2>10. ListExclusion'
    BY <1>1, <1>3, <1>4, <2>1, <2>3, <2>4 DEF ListExclusion
  <2>11. Elements(reaping') = Elements(reaping) /\ Distinct(reaping')
    BY <1>1, <1>4 DEF ListSplit
  <2>12. Elements(Rest') = Elements(Rest) \cup {r}
    BY <2>5, <2>8
  <2>13. ListSplit'
    BY <1>1, <1>4, <2>5, <2>6, <2>7, <2>8, <2>11, <2>12 DEF ListSplit
  <2>14. NoUseAfterFree'
    BY <1>1, <1>3, <1>4, <2>1 DEF NoUseAfterFree, ListType
  <2> QED
    BY <2>9, <2>10, <2>13, <2>14 DEF ArgsInv
<1> QED
  BY <1>5, <1>6, <1>7

LEMMA StepKeepsArgs ==
  ASSUME GateInv, ArgsInv, [Next]_vars
  PROVE  ArgsInv'
<1>1. CASE MainStep \/ Wakeup
  BY <1>1, MainQuiet, MainTakesList DEF MainStep
<1>2. ASSUME NEW r \in Reqs, ThreadStep(r)
      PROVE  ArgsInv'
  BY <1>2, ThreadQuiet, ThreadLinks DEF ThreadStep
<1>3. CASE UNCHANGED vars
  <2>1. UNCHANGED <<lpc, rpc>> /\ UNCHANGED list
    BY <1>3 DEF vars, base
  <2>2. Linked' = Linked
    BY <2>1 DEF Linked
  <2>3. lpc \in {"idle", "wait"} \cup GatePcs \cup ListPcs /\ rpc \in [Reqs -> ExecPcs \ {"executed"}]
    BY DEF ArgsInv, ListType
  <2> QED
    BY <2>1, <2>2, <2>3, QuietList
<1> QED
  BY <1>1, <1>2, <1>3 DEF Next

LEMMA ArgsInvariant == Spec => []ArgsInv
<1>1. Init => ArgsInv
  <2> SUFFICES ASSUME Init PROVE ArgsInv
    OBVIOUS
  <2>1. /\ lpc = "idle" /\ rpc = [r \in Reqs |-> "none"] /\ targ_list = <<>>
        /\ list_mutex = NoOwner /\ link = [r \in Reqs |-> <<>>] /\ reaping = <<>> /\ freed = {}
    BY DEF Init, LauncherInit
  <2>2. ListType /\ ListExclusion /\ NoUseAfterFree
    BY <2>1 DEF ListType, ListExclusion, NoUseAfterFree, ExecPcs
  <2>3. Rest = <<>> /\ Linked = {}
    BY <2>1 DEF Rest, Linked
  <2>4. ListSplit
    BY <2>1, <2>3, ElementsOfEmpty DEF ListSplit
  <2> QED
    BY <2>2, <2>4 DEF ArgsInv
<1>2. GateInv /\ ArgsInv /\ [Next]_vars => ArgsInv'
  BY StepKeepsArgs
<1> QED
  BY <1>1, <1>2, GateInvariant, PTL DEF Spec

(* A thread_arg is freed only when its thread has returned.                *)
THEOREM ThreadNoUseAfterFree == Spec => []NoUseAfterFree
<1>1. ArgsInv => NoUseAfterFree
  BY DEF ArgsInv
<1> QED
  BY <1>1, ArgsInvariant, PTL

(* The three parts together have as many thread_args as have been linked.  *)
LEMMA SplitCount ==
  ASSUME ArgsInv
  PROVE  /\ Len(Rest) \in Nat /\ Len(reaping) \in Nat /\ Cardinality(freed) \in Nat
         /\ IsFiniteSet(Linked) /\ IsFiniteSet(freed)
         /\ Len(Rest) + Len(reaping) + Cardinality(freed) = Cardinality(Linked)
<1> DEFINE A == Elements(Rest)
           B == Elements(reaping)
<1>1. /\ Linked = (A \cup B) \cup freed /\ A \cap B = {} /\ (A \cup B) \cap freed = {}
      /\ Distinct(Rest) /\ Distinct(reaping)
  BY DEF ArgsInv, ListSplit
<1>2. Rest \in Seq(Reqs) /\ reaping \in Seq(Reqs) /\ freed \in SUBSET Reqs
  BY DEF ArgsInv, ListType, Rest
<1>3. /\ IsFiniteSet(A) /\ Cardinality(A) = Len(Rest) /\ Len(Rest) \in Nat
      /\ IsFiniteSet(B) /\ Cardinality(B) = Len(reaping) /\ Len(reaping) \in Nat
  BY <1>1, <1>2, DistinctLength
<1>4. IsFiniteSet(freed) /\ Cardinality(freed) \in Nat
  <2>1. IsFiniteSet(Reqs)
    BY LauncherAssumption, FS_Interval DEF Reqs
  <2> QED
    BY <1>2, <2>1, FS_Subset, FS_CardinalityType
<1> HIDE DEF A, B
<1>5. IsFiniteSet(A \cup B) /\ Cardinality(A \cup B) = Len(Rest) + Len(reaping)
  <2>1. Cardinality(A \cap B) = 0
    BY <1>1, FS_EmptySet
  <2>2. IsFiniteSet(A \cup B) /\ Cardinality(A \cup B) = Cardinality(A) + Cardinality(B) - Cardinality(A \cap B)
    BY <1>3, FS_Union
  <2> QED
    BY <1>3, <2>1, <2>2
<1>6. /\ IsFiniteSet((A \cup B) \cup freed)
      /\ Cardinality((A \cup B) \cup freed) = Len(Rest) + Len(reaping) + Cardinality(freed)
  <2>1. Cardinality((A \cup B) \cap freed) = 0
    BY <1>1, FS_EmptySet
  <2>2. /\ IsFiniteSet((A \cup B) \cup freed)
        /\ Cardinality((A \cup B) \cup freed) =
             Cardinality(A \cup B) + Cardinality(freed) - Cardinality((A \cup B) \cap freed)
    BY <1>4, <1>5, FS_Union
  <2> QED
    BY <1>3, <1>4, <1>5, <2>1, <2>2
<1> QED
  BY <1>1, <1>3, <1>4, <1>6

LEMMA ArgsGiveOnePlace ==
  ASSUME ArgsInv
  PROVE  ArgInOnePlace
<1> SUFFICES ASSUME lpc # "list_clear"
             PROVE  /\ Linked = Elements(targ_list) \cup Elements(reaping) \cup freed
                    /\ Len(targ_list) + Len(reaping) + Cardinality(freed) = Cardinality(Linked)
  BY DEF ArgInOnePlace
<1>1. Rest = targ_list
  BY DEF Rest
<1> QED
  BY <1>1, SplitCount DEF ArgsInv, ListSplit

-----------------------------------------------------------------------------
(* Once the main thread has taken the list, only what it has taken and the *)
(* requests in flight are left to free.                                    *)
ReclaimInv ==
  /\ LiveArgsBounded
  /\ lpc \in {"list_clear", "reap"} =>
       num_requests - Cardinality(freed) - Len(reaping) <= MaxOutstanding

LEMMA StepReclaims ==
  ASSUME GateInv, ArgsInv, ArgsInv', ReclaimInv, [Next]_vars
  PROVE  ReclaimInv'
<1> USE LauncherAssumption, GateAssumption
<1>1. /\ num_requests \in Nat /\ Cardinality(freed) \in Nat /\ Len(reaping) \in Nat
      /\ IsFiniteSet(freed) /\ lpc \in {"idle", "wait"} \cup GatePcs \cup ListPcs
  BY SplitCount DEF GateInv, GateType, ArgsInv, ListType
<1>2. AtGate <=> lpc \in GatePcs
  BY DEF AtGate, GatePcs
<1>3. AtGate' <=> lpc' \in GatePcs
  BY DEF AtGate, GatePcs
<1>4. ASSUME UNCHANGED <<num_requests, freed, reaping>>,
             \/ lpc' = lpc
             \/ lpc \in GatePcs /\ lpc' \in GatePcs \cup {"list_lock"}
             \/ lpc = "list_lock" /\ lpc' = "list_read"
             \/ lpc = "list_clear" /\ lpc' = "reap"
             \/ lpc = "wait" /\ lpc' = "idle"
      PROVE  ReclaimInv'
  BY <1>1, <1>2, <1>3, <1>4 DEF ReclaimInv, LiveArgsBounded, GatePcs, ListPcs
<1>5. CASE Create
  <2>1. /\ lpc = "idle" /\ lpc' = "gate_lock" /\ num_requests' = num_requests + 1
        /\ freed' = freed
    BY <1>5 DEF Create, CountRequest, list
  <2> QED
    BY <1>1, <1>2, <1>3, <2>1 DEF ReclaimInv, LiveArgsBounded, GatePcs
<1>6. CASE MainGate \/ Take \/ LockList \/ ClearList \/ Wait \/ Wakeup
  BY <1>4, <1>6 DEF MainGate, LockGate, TestGate, Take, TakePermit, LockList, ClearList,
       Wait, WaitOutstanding, Wakeup, SpuriousWakeup, list, GatePcs
<1>7. CASE ReadList
  <2>1. /\ lpc = "list_read" /\ lpc' = "list_clear" /\ reaping' = targ_list
        /\ UNCHANGED <<num_requests, freed>>
    BY <1>7 DEF ReadList
  <2>2. Rest = targ_list /\ reaping = <<>>
    BY <2>1 DEF Rest, ArgsInv, ListExclusion
  <2>3. Len(targ_list) \in Nat /\ Len(targ_list) + Cardinality(freed) = Cardinality(Linked)
    BY <2>2, SplitCount
  <2>4. Cardinality(Given) \in Nat /\ Cardinality(Given) <= Cardinality(Linked)
    <3>1. Given \in SUBSET Linked
      BY DEF Given, Linked
    <3>2. IsFiniteSet(Linked)
      BY SplitCount
    <3> QED
      BY <3>1, <3>2, FS_Subset, FS_CardinalityType
  <2>5. num_requests - Cardinality(Given) <= MaxOutstanding
    <3>1. ~AtGate
      BY <2>1 DEF AtGate
    <3>2. Cardinality(Outstanding) = num_requests - Cardinality(Given)
      BY OutstandingCount DEF GateInv, Outstanding
    <3> QED
      BY <3>1, <3>2, GateBounds DEF OutstandingBounded
  <2>6. Cardinality(Linked) \in Nat
    BY SplitCount, FS_CardinalityType
  <2>7. num_requests - Cardinality(freed) - Len(targ_list) <= MaxOutstanding
    BY <1>1, <2>3, <2>4, <2>5, <2>6
  <2>8. num_requests - Cardinality(freed) <= MaxOutstanding + 1
    BY <1>2, <2>1 DEF ReclaimInv, LiveArgsBounded, GatePcs
  <2> QED
    BY <2>1, <2>7, <2>8 DEF ReclaimInv, LiveArgsBounded
<1>8. CASE JoinAndFree
  <2>1. /\ lpc = "reap" /\ lpc' = "reap" /\ reaping # <<>> /\ num_requests' = num_requests
        /\ freed' = freed \cup {Head(reaping)} /\ reaping' = Tail(reaping)
    BY <1>8 DEF JoinAndFree, base
  <2>2. Head(reaping) \in Elements(reaping) /\ Len(Tail(reaping)) = Len(reaping) - 1
    BY <2>1, ElementsOfTail DEF ArgsInv, ListType
  <2>3. Head(reaping) \notin freed
    BY <2>2 DEF ArgsInv, ListSplit
  <2>4. Cardinality(freed') = Cardinality(freed) + 1
    BY <1>1, <2>1, <2>3, FS_AddElement
  <2>5. Len(reaping') = Len(reaping) - 1
    BY <2>1, <2>2
  <2>6. num_requests - Cardinality(freed) <= MaxOutstanding + 1
    BY <1>2, <2>1 DEF ReclaimInv, LiveArgsBounded
  <2>7. num_requests - Cardinality(freed) - Len(reaping) <= MaxOutstanding
    BY <2>1 DEF ReclaimInv
  <2>8. num_requests' - Cardinality(freed') <= MaxOutstanding + 1
    BY <1>1, <2>1, <2>4, <2>6
  <2>9. num_requests' - Cardinality(freed') - Len(reaping') <= MaxOutstanding
    BY <1>1, <2>1, <2>4, <2>5, <2>7
  <2> QED
    BY <2>1, <2>8, <2>9 DEF ReclaimInv, LiveArgsBounded
<1>9. CASE Return
  <2>1. /\ lpc = "reap" /\ lpc' \in {"wait", "idle"} /\ reaping = <<>>
        /\ UNCHANGED <<num_requests, freed>>
    BY <1>9 DEF Return, AfterReturn, list
  <2>2. Len(reaping) = 0
    BY <2>1
  <2>3. num_requests - Cardinality(freed) - 0 <= MaxOutstanding
    BY <2>1, <2>2 DEF ReclaimInv
  <2> QED
    BY <1>1, <1>3, <2>1, <2>3 DEF ReclaimInv, LiveArgsBounded, GatePcs
<1>10. ASSUME NEW r \in Reqs, ThreadStep(r)
       PROVE  ReclaimInv'
  BY <1>4, <1>10 DEF ThreadStep, Execute, LockLink, ReadLink, WriteLink, GiveBack,
       LockGive, LoadGive, StoreGive, CountAndExit, list, GatePcs
<1>11. CASE UNCHANGED vars
  BY <1>4, <1>11 DEF vars, base, list
<1> QED
  BY <1>5, <1>6, <1>7, <1>8, <1>9, <1>10, <1>11 DEF Next, MainStep

(* Joining finished threads once per call of ExecuteRequest is enough: the *)
(* thread_args, and the threads they stand for, never outnumber the limit  *)
(* by more than one.                                                       *)
THEOREM ThreadLiveArgsBounded == Spec => []LiveArgsBounded
<1>1. Init => ReclaimInv
  <2> SUFFICES ASSUME Init PROVE ReclaimInv
    OBVIOUS
  <2>1. lpc = "idle" /\ freed = {} /\ num_requests = 0
    BY DEF Init, LauncherInit
  <2>2. Cardinality(freed) = 0
    BY <2>1, FS_EmptySet
  <2> QED
    BY <2>1, <2>2, GateAssumption DEF ReclaimInv, LiveArgsBounded, AtGate
<1>2. GateInv /\ ArgsInv /\ ArgsInv' /\ ReclaimInv /\ [Next]_vars => ReclaimInv'
  BY StepReclaims
<1>3. ReclaimInv => LiveArgsBounded
  BY DEF ReclaimInv
<1> QED
  BY <1>1, <1>2, <1>3, GateInvariant, ArgsInvariant, PTL DEF Spec

-----------------------------------------------------------------------------
(* What has been read from the counter is a value the counter can have.    *)
ReadType ==
  /\ mutex \in {NoOwner, Main} \cup Reqs
  /\ cur \in 0..(MaxOutstanding + 1)
  /\ tmp \in [Reqs -> 0..(MaxOutstanding + 1)]

LEMMA StepKeepsRead ==
  ASSUME GateInv, ReadType, [Next]_vars
  PROVE  ReadType'
<1>1. max_outstanding \in 0..(MaxOutstanding + 1)
  BY GateBounds
<1>2. CASE MainGate
  BY <1>1, <1>2 DEF MainGate, LockGate, LockMutex, TestGate, ReadType
<1>3. CASE Take
  BY <1>3 DEF Take, TakePermit, ReadType
<1>4. CASE Create \/ LockList \/ ReadList \/ ClearList \/ JoinAndFree \/ Return \/ Wait \/ Wakeup
  <2>1. UNCHANGED <<mutex, cur, tmp>>
    BY <1>4 DEF Create, LockList, ReadList, ClearList, JoinAndFree, Return, Wait, Wakeup,
                SpuriousWakeup, gate
  <2> QED
    BY <2>1 DEF ReadType
<1>5. ASSUME NEW r \in Reqs, ThreadStep(r)
      PROVE  ReadType'
  <2>1. CASE Execute(r) \/ LockLink(r) \/ ReadLink(r) \/ WriteLink(r) \/ CountAndExit(r)
    <3>1. UNCHANGED <<mutex, cur, tmp>>
      BY <2>1 DEF Execute, LockLink, ReadLink, WriteLink, CountAndExit, gate
    <3> QED
      BY <3>1 DEF ReadType
  <2>2. CASE GiveBack(r)
    BY <1>1, <2>2 DEF GiveBack, LockGive, LockMutex, LoadGive, StoreGive, ReadType
  <2> QED
    BY <1>5, <2>1, <2>2 DEF ThreadStep
<1>6. CASE UNCHANGED vars
  BY <1>6 DEF vars, gate, ReadType
<1> QED
  BY <1>2, <1>3, <1>4, <1>5, <1>6 DEF Next, MainStep

(* A finished thread is in the list, being joined or freed, in one of them *)
(* only, and every variable keeps its type: in particular the counter of   *)
(* the gate stays between 0 and the limit plus one, whatever the           *)
(* interleaving of its reads and writes.                                   *)
THEOREM ThreadListInv == Spec => []ListInv
<1> USE LauncherAssumption, GateAssumption
<1>1. Init => ReadType
  BY DEF Init, GateInit, ReadType
<1>2. GateInv /\ ReadType /\ [Next]_vars => ReadType'
  BY StepKeepsRead
<1>3. ASSUME GateInv, WaitInv, ArgsInv, ReadType
      PROVE  ListInv
  <2>1. max_outstanding \in 0..(MaxOutstanding + 1)
    BY <1>3, GateBounds
  <2>2. num_requests \in 0..NumReqs /\ waited \in 0..NumReqs
    BY <1>3 DEF GateInv, GateType, WaitInv
  <2>3. txns_executed \in 0..NumReqs
    <3>1. IsFiniteSet(Reqs) /\ Cardinality(Reqs) = NumReqs
      BY FS_Interval DEF Reqs
    <3>2. Counted \in SUBSET Reqs
      BY DEF Counted
    <3>3. Cardinality(Counted) \in Nat /\ Cardinality(Counted) <= NumReqs
      BY <3>1, <3>2, FS_Subset, FS_CardinalityType
    <3> QED
      BY <1>3, <3>3 DEF WaitInv
  <2>4. TypeOK
    BY <1>3, <2>1, <2>2, <2>3 DEF TypeOK, ReadType, ArgsInv, ListType, GatePcs, ListPcs, ExecPcs
  <2> QED
    BY <1>3, <2>4, ArgsGiveOnePlace DEF ListInv
<1> QED
  BY <1>1, <1>2, <1>3, GateInvariant, WaitInvariant, ArgsInvariant, PTL DEF Spec

-----------------------------------------------------------------------------
(* Nobody is stuck.                                                        *)

(* The owner of the list's mutex is between its lock and its unlock.       *)
ListOwned ==
  \/ list_mutex = NoOwner
  \/ list_mutex = Main /\ lpc \in {"list_read", "list_clear"}
  \/ \E r \in Reqs : list_mutex = r /\ rpc[r] \in {"link_read", "link_write"}

(* When the main thread has a step to take, other than a wakeup nobody     *)
(* owes it.                                                                *)
MainCanStep ==
  /\ lpc # "gate_wait"
  /\ lpc = "idle" => num_requests < NumReqs
  /\ lpc = "gate_lock" => mutex = NoOwner
  /\ lpc = "list_lock" => list_mutex = NoOwner
  /\ lpc = "reap" => reaping = <<>> \/ rpc[Head(reaping)] = "exited"
  /\ lpc = "wait" => txns_executed = num_requests

(* When a thread has.                                                      *)
ThreadCanStep(r) ==
  /\ rpc[r] \notin {"none", "exited"}
  /\ rpc[r] = "give_lock" => mutex = NoOwner
  /\ rpc[r] = "link_lock" => list_mutex = NoOwner

(* Until the driver has made all its calls and every thread has returned,  *)
(* somebody can go on.                                                     *)
NobodyStuck ==
  \/ Finished /\ \A r \in Reqs : rpc[r] = "exited"
  \/ MainCanStep
  \/ \E r \in Reqs : ThreadCanStep(r)

(* Who waits for whom ends at somebody who does not wait.                  *)
LEMMA ThreadsGoOn ==
  ASSUME GateInv, WaitInv, ArgsInv, MutexOwned, ListOwned
  PROVE  NobodyStuck
<1> USE LauncherAssumption
<1> SUFFICES ASSUME ~MainCanStep, \A r \in Reqs : ~ThreadCanStep(r)
             PROVE  Finished /\ \A r \in Reqs : rpc[r] = "exited"
  BY DEF NobodyStuck
<1>1. mutex = NoOwner
  <2>1. ~(mutex = Main /\ lpc \in {"gate_test", "gate_take"})
    BY DEF MainCanStep
  <2>2. ~\E r \in Reqs : mutex = r /\ rpc[r] \in {"give_load", "give_store"}
    BY DEF ThreadCanStep
  <2> QED
    BY <2>1, <2>2 DEF MutexOwned
<1>2. list_mutex = NoOwner
  <2>1. ~(list_mutex = Main /\ lpc \in {"list_read", "list_clear"})
    BY DEF MainCanStep
  <2>2. ~\E r \in Reqs : list_mutex = r /\ rpc[r] \in {"link_read", "link_write"}
    BY DEF ThreadCanStep
  <2> QED
    BY <2>1, <2>2 DEF ListOwned
<1>3. \A r \in Reqs : rpc[r] \in {"none", "exited"}
  BY <1>1, <1>2 DEF ThreadCanStep
<1>4. lpc # "gate_wait"
  BY <1>3, SomebodyGives DEF GivenPcs
<1>5. ASSUME lpc = "reap", reaping # <<>>
      PROVE  rpc[Head(reaping)] = "exited"
  <2>1. Head(reaping) \in Reqs /\ Head(reaping) \in Linked
    BY <1>5, ElementsOfTail DEF ArgsInv, ListType, ListSplit
  <2> QED
    BY <1>3, <2>1 DEF Linked
<1>6. ASSUME lpc = "wait"
      PROVE  txns_executed = num_requests
  <2>1. num_requests \in Nat /\ num_requests <= NumReqs
    BY DEF GateInv, GateType
  <2>2. Counted = 1..num_requests
    BY <1>3, <2>1 DEF Counted, GateInv, IssuedRun, Reqs
  <2> QED
    BY <2>1, <2>2, FS_Interval DEF WaitInv
<1>7. lpc = "idle" /\ ~(num_requests < NumReqs)
  BY <1>1, <1>2, <1>4, <1>5, <1>6 DEF MainCanStep
<1>8. num_requests = NumReqs
  BY <1>7 DEF GateInv, GateType
<1>9. \A r \in Reqs : rpc[r] # "none"
  BY <1>8 DEF GateInv, IssuedRun, Reqs
<1> QED
  BY <1>3, <1>7, <1>8, <1>9 DEF Finished

(* A step outside the list leaves the owner of its mutex where it is.      *)
LEMMA OutsideListOwned ==
  ASSUME ListOwned, list_mutex' = list_mutex,
         lpc \in {"list_read", "list_clear"} => lpc' = lpc,
         \A r \in Reqs : rpc[r] \in {"link_read", "link_write"} => rpc'[r] = rpc[r]
  PROVE  ListOwned'
BY DEF ListOwned

LEMMA MainStepOwned ==
  ASSUME GateInv, MutexOwned, ListOwned, MainStep \/ Wakeup
  PROVE  MutexOwned' /\ ListOwned'
<1> USE LauncherAssumption
<1>1. num_requests \in Nat /\ rpc \in [Reqs -> ExecPcs]
  BY DEF GateInv, GateType
<1>2. CASE Create
  <2>1. /\ lpc = "idle" /\ num_requests + 1 \in Reqs /\ UNCHANGED <<mutex, list_mutex>>
        /\ rpc' = [rpc EXCEPT ![num_requests + 1] = "execute"]
    BY <1>1, <1>2 DEF Create, CountRequest, gate, list, Reqs
  <2>2. rpc[num_requests + 1] = "none"
    BY <1>1, <2>1 DEF GateInv, IssuedRun
  <2>3. \A r \in Reqs : rpc[r] # "none" => rpc'[r] = rpc[r]
    BY <1>1, <2>1, <2>2
  <2> QED
    BY <2>1, <2>3, OutsideOwned, OutsideListOwned
<1>3. CASE MainGate \/ Take \/ Wakeup
  <2>1. MutexOwned'
    BY <1>3, MainOwned DEF MainGate, Take, Wakeup
  <2>2. /\ UNCHANGED <<list_mutex, rpc>> /\ lpc \in GatePcs
    BY <1>3 DEF MainGate, LockGate, TestGate, Take, TakePermit, Wakeup, SpuriousWakeup,
                list, GatePcs
  <2> QED
    BY <2>1, <2>2, OutsideListOwned DEF GatePcs
<1>4. CASE LockList \/ ReadList \/ ClearList
  <2>1. /\ UNCHANGED <<mutex, rpc>> /\ lpc \in {"list_lock", "list_read", "list_clear"}
    BY <1>4 DEF LockList, ReadList, ClearList, gate
  <2>2. MutexOwned'
    BY <2>1, OutsideOwned
  <2>3. ListOwned'
    BY <1>4, <2>1 DEF LockList, ReadList, ClearList, ListOwned
  <2> QED
    BY <2>2, <2>3
<1>5. CASE JoinAndFree \/ Return \/ Wait
  <2>1. /\ UNCHANGED <<mutex, list_mutex, rpc>> /\ lpc \in {"reap", "wait"}
    BY <1>5 DEF JoinAndFree, Return, Wait, WaitOutstanding, base, gate, list
  <2> QED
    BY <2>1, OutsideOwned, OutsideListOwned
<1> QED
  BY <1>2, <1>3, <1>4, <1>5 DEF MainStep

LEMMA ThreadStepOwned ==
  ASSUME GateInv, MutexOwned, ListOwned, NEW r \in Reqs, ThreadStep(r)
  PROVE  MutexOwned' /\ ListOwned'
<1>1. rpc \in [Reqs -> ExecPcs] /\ GateType
  BY DEF GateInv, GateType
<1>2. CASE Execute(r) \/ CountAndExit(r)
  <2>1. /\ rpc[r] \in {"execute", "count"} /\ UNCHANGED <<mutex, list_mutex, lpc>>
        /\ \A q \in Reqs : q # r => rpc'[q] = rpc[q]
    BY <1>1, <1>2 DEF Execute, CountAndExit, gate, list
  <2> QED
    BY <2>1, OutsideOwned, OutsideListOwned
<1>3. CASE LockLink(r) \/ ReadLink(r) \/ WriteLink(r)
  <2>1. /\ rpc[r] \in {"link_lock", "link_read", "link_write"} /\ UNCHANGED <<mutex, lpc>>
        /\ \A q \in Reqs : q # r => rpc'[q] = rpc[q]
    BY <1>1, <1>3 DEF LockLink, ReadLink, WriteLink, gate
  <2>2. MutexOwned'
    BY <2>1, OutsideOwned
  <2>3. CASE LockLink(r)
    BY <1>1, <2>2, <2>3 DEF LockLink, ListOwned
  <2>4. CASE ReadLink(r)
    <3>1. rpc'[r] = "link_write" /\ list_mutex' = list_mutex
      BY <1>1, <2>4 DEF ReadLink
    <3>2. \A q \in Reqs : rpc[q] \in {"link_read", "link_write"} =>
                          rpc'[q] \in {"link_read", "link_write"}
      BY <2>1, <3>1
    <3> QED
      BY <2>1, <2>2, <3>1, <3>2 DEF ListOwned
  <2>5. CASE WriteLink(r)
    BY <2>2, <2>5 DEF WriteLink, ListOwned
  <2> QED
    BY <1>3, <2>3, <2>4, <2>5
<1>4. CASE GiveBack(r)
  <2>1. MutexOwned'
    BY <1>1, <1>4, GiveOwned DEF GiveBack
  <2>2. /\ rpc[r] \in {"give_lock", "give_load", "give_store"} /\ list_mutex' = list_mutex
        /\ \A q \in Reqs : q # r => rpc'[q] = rpc[q]
        /\ lpc # "gate_wait" => lpc' = lpc
    BY <1>1, <1>4 DEF GiveBack, LockGive, LoadGive, StoreGive, list
  <2> QED
    BY <2>1, <2>2, OutsideListOwned
<1> QED
  BY <1>2, <1>3, <1>4 DEF ThreadStep

(* Neither the gate, whatever its limit, nor the list, nor the joins of    *)
(* ExecuteRequest nor the loop of WaitOutstanding can leave everybody      *)
(* waiting: a thread that has linked its thread_arg needs no help from the *)
(* main thread, which joins it outside both mutexes.                       *)
THEOREM ThreadNobodyStuck == Spec => []NobodyStuck
<1>1. Init => MutexOwned /\ ListOwned
  BY InitOwned DEF Init, ListOwned
<1>2. GateInv /\ MutexOwned /\ ListOwned /\ [Next]_vars => MutexOwned' /\ ListOwned'
  <2> SUFFICES ASSUME GateInv, MutexOwned, ListOwned, [Next]_vars
               PROVE  MutexOwned' /\ ListOwned'
    OBVIOUS
  <2>1. CASE UNCHANGED vars
    BY <2>1, OutsideOwned, OutsideListOwned DEF vars, base, gate, list
  <2> QED
    BY <2>1, MainStepOwned, ThreadStepOwned DEF Next
<1>3. GateInv /\ WaitInv /\ ArgsInv /\ MutexOwned /\ ListOwned => NobodyStuck
  BY ThreadsGoOn
<1> QED
  BY <1>1, <1>2, <1>3, GateInvariant, WaitInvariant, ArgsInvariant, PTL DEF Spec
=============================================================================
