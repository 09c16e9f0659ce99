------------------------ MODULE LockingSchedulerProofs ------------------------
(***************************************************************************)
(* The locking scheduler and its pool, for any transactions, programs and  *)
(* number of threads.  Four invariants build on each other: the shape of   *)
(* the state (ShapeInv), where each transaction is (PlaceInv), how far it  *)
(* has got there (StageInv), and what a transaction without conflicts has  *)
(* read and written (AloneInv).                                            *)
(***************************************************************************)
EXTENDS LockingScheduler, FiniteSetTheorems, SequenceTheorems, WellFoundedInduction, TLAPS

(* The variables of the processor, apart from their contents.              *)
Tables ==
  /\ storage = [k \in Key |-> storage[k]]
  /\ reads = [t \in Txns |-> reads[t]]
  /\ writes = [t \in Txns |-> writes[t]]
  /\ \A t \in Txns : DOMAIN writes[t] \subseteq Program[t].writeset

(* The scheduler has a transaction while it commits one, and a pool thread *)
(* is in ExecuteTxn while it has a task.                                   *)
ShapeInv ==
  /\ TypeOK
  /\ Tables
  /\ next_unique_id = Cardinality({t \in Txns : cpc[t] # "new"}) + 1
  /\ txn # NoTxn <=> spc \in {"commit", "apply", "result"}
  /\ \A w \in Threads : Busy(w) <=> task[w] # NoTask
  /\ \A w \in Threads : Busy(w) <=> epc[w] # "idle"

(* The places where transactions are: the queues of the scheduler and its  *)
(* local variable, and for each pool thread its queue and its task.        *)
Lines == {"txn_requests", "ready_txns", "completed_txns", "scheduler", "txn_results", "returned"}

Stations == (Lines \X {Sched}) \cup ({"queue", "task"} \X Threads)

At(p) ==
  CASE p[1] = "txn_requests"   -> Elements(txn_requests)
    [] p[1] = "ready_txns"     -> Elements(ready_txns)
    [] p[1] = "queue"          -> Elements(queues[p[2]])
    [] p[1] = "task"           -> {task[p[2]]} \ {NoTask}
    [] p[1] = "completed_txns" -> Elements(completed_txns)
    [] p[1] = "scheduler"      -> {txn} \ {NoTxn}
    [] p[1] = "txn_results"    -> Elements(txn_results)
    [] OTHER                   -> Elements(returned)

Distinct(s) == \A i, j \in DOMAIN s : s[i] = s[j] => i = j

(* A transaction is in one place, once, from its submission on.            *)
Apart   == \A p, q \in Stations : \A t \in Txns : t \in At(p) /\ t \in At(q) => p = q
Covered == \A t \in Txns : cpc[t] = "submitted" <=> \E p \in Stations : t \in At(p)
OnlyOnce ==
  /\ Distinct(txn_requests) /\ Distinct(ready_txns) /\ Distinct(completed_txns)
  /\ Distinct(txn_results) /\ Distinct(returned)
  /\ \A w \in Threads : Distinct(queues[w])

PlaceInv == Apart /\ Covered /\ OnlyOnce

Fresh(t)    == status[t] = "INCOMPLETE" /\ reads[t] = NoEntries
Executed(t) == status[t] \in {"COMPLETED_C", "COMPLETED_A"}
Decided(t)  == status[t] \in {"COMMITTED", "ABORTED"}

(* How far a transaction has got in each place.                            *)
StageInv ==
  /\ \A t \in Txns : cpc[t] # "submitted" => Fresh(t)
  /\ \A t \in Elements(txn_requests) \cup Elements(ready_txns) : Fresh(t)
  /\ \A w \in Threads : \A t \in Elements(queues[w]) : Fresh(t)
  /\ \A w \in Threads : Busy(w) =>
       IF epc[w] = "push" THEN Executed(task[w]) ELSE status[task[w]] = "INCOMPLETE"
  /\ \A t \in Elements(completed_txns) : Executed(t)
  /\ spc = "commit" => Executed(txn)
  /\ spc = "apply" => status[txn] = "COMPLETED_C"
  /\ spc = "result" => Decided(txn)
  /\ \A t \in Elements(txn_results) \cup Elements(returned) : Decided(t)

(* What has been read for t is what the initial store has for K.           *)
HasRead(t, K) == reads[t] = [k \in K |-> InitStorage[k]]

ReadAlone(t) ==
  \A w \in Threads : task[w] = t =>
    /\ epc[w] = "readset" => todo[w] \subseteq Program[t].readset /\ HasRead(t, Program[t].readset \ todo[w])
    /\ epc[w] = "writeset" =>
         /\ todo[w] \subseteq Program[t].writeset
         /\ HasRead(t, Program[t].readset \cup (Program[t].writeset \ todo[w]))

RanAlone(t) ==
  status[t] # "INCOMPLETE" =>
    /\ writes[t] = RunWrites(Program[t], InitStorage)
    /\ status[t] \in {"COMPLETED_C", "COMMITTED"} <=> RunStatus(Program[t], InitStorage) = "COMPLETED_C"

StoreAlone(t) ==
  \A k \in KeysOf(t) : storage[k] = IF k \in Written(t) THEN writes[t][k] ELSE InitStorage[k]

AloneInv ==
  \A t \in Txns : Unconflicted(t) => ReadAlone(t) /\ RanAlone(t) /\ StoreAlone(t)

-----------------------------------------------------------------------------
(* Sequences without repetition, as the queues change.                     *)
LEMMA Pushed ==
  ASSUME NEW S, NEW s \in Seq(S), NEW x \in S
  PROVE  /\ Append(s, x) \in Seq(S) /\ Elements(Append(s, x)) = Elements(s) \cup {x}
         /\ Distinct(s) /\ x \notin Elements(s) => Distinct(Append(s, x))
<1>1. /\ Append(s, x) \in Seq(S) /\ DOMAIN Append(s, x) = DOMAIN s \cup {Len(s) + 1}
      /\ Append(s, x)[Len(s) + 1] = x /\ \A i \in DOMAIN s : Append(s, x)[i] = s[i]
  OBVIOUS
<1>2. Elements(Append(s, x)) = Elements(s) \cup {x}
  BY <1>1 DEF Elements
<1>3. ASSUME Distinct(s), x \notin Elements(s) PROVE Distinct(Append(s, x))
  <2>1. \A i \in DOMAIN s : s[i] # x
    BY <1>3 DEF Elements
  <2> QED
    BY <1>1, <1>3, <2>1 DEF Distinct
<1> QED
  BY <1>1, <1>2, <1>3

LEMMA Popped ==
  ASSUME NEW S, NEW s \in Seq(S), s # <<>>
  PROVE  /\ Tail(s) \in Seq(S) /\ Head(s) \in S
         /\ Elements(s) = {Head(s)} \cup Elements(Tail(s))
         /\ Distinct(s) => Distinct(Tail(s)) /\ Head(s) \notin Elements(Tail(s))
<1>1. /\ Tail(s) \in Seq(S) /\ Head(s) \in S /\ Head(s) = s[1] /\ 1 \in DOMAIN s
      /\ \A i \in DOMAIN Tail(s) : i + 1 \in DOMAIN s /\ Tail(s)[i] = s[i + 1]
      /\ \A i \in DOMAIN s : i # 1 => i - 1 \in DOMAIN Tail(s) /\ Tail(s)[i - 1] = s[i]
  OBVIOUS
<1>0. \A i \in DOMAIN Tail(s) : i \in Nat /\ i + 1 # 1
  OBVIOUS
<1>2. Elements(Tail(s)) \subseteq Elements(s)
  BY <1>1 DEF Elements
<1>3. Elements(s) \subseteq {Head(s)} \cup Elements(Tail(s))
  BY <1>1 DEF Elements
<1>4. Elements(s) = {Head(s)} \cup Elements(Tail(s))
  BY <1>1, <1>2, <1>3 DEF Elements
<1>5. ASSUME Distinct(s) PROVE Distinct(Tail(s)) /\ Head(s) \notin Elements(Tail(s))
  <2>1. \A i \in DOMAIN Tail(s) : Tail(s)[i] # Head(s)
    BY <1>0, <1>1, <1>5 DEF Distinct
  <2>2. ASSUME NEW i \in DOMAIN Tail(s), NEW j \in DOMAIN Tail(s), Tail(s)[i] = Tail(s)[j] PROVE i = j
    <3>1. s[i + 1] = s[j + 1] /\ i + 1 \in DOMAIN s /\ j + 1 \in DOMAIN s /\ i \in Nat /\ j \in Nat
      BY <1>0, <1>1, <2>2
    <3>2. i + 1 = j + 1
      BY <1>5, <3>1 DEF Distinct
    <3> QED
      BY <3>1, <3>2
  <2>3. Head(s) \notin Elements(Tail(s))
    BY <2>1 DEF Elements
  <2> QED
    BY <2>2, <2>3 DEF Distinct
<1> QED
  BY <1>1, <1>4, <1>5

LEMMA NoElements == Elements(<<>>) = {} /\ Distinct(<<>>)
BY DEF Elements, Distinct

LEMMA TypedElements ==
  ASSUME NEW S, NEW s \in Seq(S)
  PROVE  Elements(s) \subseteq S
BY DEF Elements

(* A sequence without repetition is as long as its set of elements.        *)
LEMMA Counted ==
  ASSUME NEW S, NEW s \in Seq(S), Distinct(s)
  PROVE  Cardinality(Elements(s)) = Len(s)
<1>1. Len(s) \in Nat /\ DOMAIN s = 1..Len(s)
  OBVIOUS
<1> DEFINE f == [i \in 1..Len(s) |-> s[i]]
<1>2. f \in Bijection(1..Len(s), Elements(s))
  <2>1. f \in [1..Len(s) -> Elements(s)]
    BY <1>1 DEF Elements
  <2>2. \A i, j \in 1..Len(s) : f[i] = f[j] => i = j
    BY <1>1 DEF Distinct
  <2>3. \A x \in Elements(s) : \E i \in 1..Len(s) : f[i] = x
    BY <1>1 DEF Elements
  <2> QED
    BY <2>1, <2>2, <2>3 DEF Bijection, Injection, Surjection, IsInjective
<1>3. IsFiniteSet(1..Len(s)) /\ Cardinality(1..Len(s)) = Len(s)
  BY <1>1, FS_Interval
<1> HIDE DEF f
<1>4. ExistsBijection(1..Len(s), Elements(s))
  BY <1>2 DEF ExistsBijection
<1> QED
  BY <1>3, <1>4, FS_Bijection

(* A set<Key> that is not empty has a first key.                           *)
LEMMA FirstKey ==
  ASSUME NEW e \in Executors, todo[e] \subseteq Key, todo[e] # {}
  PROVE  NextKey(e) \in todo[e]
<1>1. todo[e] \subseteq Nat
  BY TxnAssumption
<1>2. PICK k \in todo[e] : \A j \in todo[e] : ~(<<j, k>> \in OpToRel(<, Nat))
  BY <1>1, NatLessThanWellFounded, WFMin
<1>3. \A j \in todo[e] : ~(j < k)
  <2> SUFFICES ASSUME NEW j \in todo[e] PROVE ~(j < k)
    OBVIOUS
  <2>1. j \in Nat /\ k \in Nat
    BY <1>1
  <2> QED
    BY <1>2, <2>1, Zenon DEF OpToRel
<1>4. \A j \in todo[e] : k <= j
  BY <1>1, <1>3
<1> QED
  BY <1>4 DEF NextKey

(* The programs: what they declare and what they write.                    *)
LEMMA ProgramKinds ==
  ASSUME NEW p, IsProgram(p)
  PROVE  /\ p.type = "Put" => p.writeset = DOMAIN p.m
         /\ p.type = "Expect" => p.readset = DOMAIN p.m
         /\ p.readset \subseteq Key /\ p.writeset \subseteq Key
<1>1. p.type = "Put" => p = Put(p.m)
  BY DEF IsProgram, Noop, Expect, Put, RMW
<1>2. p.type = "Expect" => p = Expect(p.m)
  BY DEF IsProgram, Noop, Expect, Put, RMW
<1>3. p.readset \subseteq Key /\ p.writeset \subseteq Key
  BY DEF IsProgram
<1>4. \A m : Put(m).writeset = DOMAIN m /\ Expect(m).readset = DOMAIN m
  BY DEF Put, Expect
<1>5. p.type = "Put" => p.writeset = DOMAIN p.m
  <2> HAVE p.type = "Put"
  <2>1. p.writeset = Put(p.m).writeset
    BY <1>1
  <2> QED
    BY <1>4, <2>1
<1>6. p.type = "Expect" => p.readset = DOMAIN p.m
  <2> HAVE p.type = "Expect"
  <2>1. p.readset = Expect(p.m).readset
    BY <1>2
  <2> QED
    BY <1>4, <2>1
<1> QED
  BY <1>3, <1>5, <1>6

LEMMA WritesDeclared ==
  ASSUME NEW p, IsProgram(p), NEW part
  PROVE  DOMAIN RunWrites(p, part) \subseteq p.writeset
<1>1. CASE p.type = "Put"
  BY <1>1, ProgramKinds DEF RunWrites
<1>2. CASE p.type = "RMW"
  BY <1>2 DEF RunWrites, Incremented
<1>3. CASE p.type # "Put" /\ p.type # "RMW"
  BY <1>3 DEF RunWrites, NoEntries
<1> QED
  BY <1>1, <1>2, <1>3

-----------------------------------------------------------------------------
(* The shape of the state.  First the facts the steps use most.            *)
LEMMA Shaped ==
  ASSUME ShapeInv
  PROVE  /\ txn_requests \in Seq(Txns) /\ ready_txns \in Seq(Txns) /\ completed_txns \in Seq(Txns)
         /\ txn_results \in Seq(Txns) /\ returned \in Seq(Txns)
         /\ \A w \in Threads : queues[w] \in Seq(Txns) /\ (Busy(w) => task[w] \in Txns)
         /\ spc \in {"commit", "apply", "result"} => txn \in Txns
         /\ Sched \in Executors /\ Threads \subseteq Executors /\ Sched \notin Threads
         /\ NoTxn \notin Txns /\ NoTask \notin Txns
         /\ \A t \in Txns : /\ Program[t].readset \subseteq Key /\ Program[t].writeset \subseteq Key
                            /\ DOMAIN writes[t] \subseteq Key
<1>1. \A t \in Txns : Program[t].readset \subseteq Key /\ Program[t].writeset \subseteq Key
  BY ProcessorAssumption, ProgramKinds
<1>2. \A t \in Txns : DOMAIN writes[t] \subseteq Key
  BY <1>1 DEF ShapeInv, Tables
<1>3. \A w \in Threads : queues[w] \in Seq(Txns) /\ (Busy(w) => task[w] \in Txns)
  BY DEF ShapeInv, TypeOK
<1> QED
  BY <1>1, <1>2, <1>3, ProcessorAssumption, LockingAssumption DEF ShapeInv, TypeOK, BaseTypeOK

(* Steps that leave the transactions where and as they are.                *)
Quiet ==
  /\ UNCHANGED <<storage, client, txnqueues, local, exec, txn, ready_txns>>
  /\ \/ UNCHANGED <<spc, pool>> /\ stopped' \in BOOLEAN
        /\ life' \in {"constructing", "running", "stopping", "deleted", "destroyed"}
     \/ UNCHANGED <<object, pool>> /\ spc \in {"test", "completed", "pop", "dispatch"}
        /\ spc' \in {"test", "pop", "completed", "dispatch", "exited"}
     \/ UNCHANGED <<object, spc, queues, task, wpc>> /\ pstopped' \in BOOLEAN

LEMMA QuietShape ==
  ASSUME ShapeInv, Quiet
  PROVE  ShapeInv'
<1>1. TypeOK'
  BY DEF Quiet, ShapeInv, TypeOK, BaseTypeOK, client, txnqueues, local, exec, object, pool
<1>2. Tables'
  BY DEF Quiet, ShapeInv, Tables, local
<1>3. \A w \in Threads : Busy(w)' <=> Busy(w)
  BY DEF Quiet, Busy, pool
<1> QED
  BY <1>1, <1>2, <1>3 DEF Quiet, ShapeInv, client, exec, pool

LEMMA AssignShape ==
  ASSUME ShapeInv, NEW t \in Txns, AssignId(t), UNCHANGED <<pool, ready_txns>>
  PROVE  ShapeInv'
<1>1. TypeOK /\ Tables
  BY DEF ShapeInv
<1>2. /\ cpc[t] = "new" /\ mutex' = t /\ next_unique_id' = next_unique_id + 1
      /\ unique_id' = [unique_id EXCEPT ![t] = next_unique_id]
      /\ UNCHANGED <<storage, txnqueues, local, exec, object, sched>>
  BY DEF AssignId
<1>3. /\ cpc' = [cpc EXCEPT ![t] = "numbered"] /\ cpc'[t] = "numbered"
      /\ \A s \in Txns : s # t => cpc'[s] = cpc[s]
  BY <1>1 DEF AssignId, TypeOK, BaseTypeOK
<1> DEFINE N == {s \in Txns : cpc[s] # "new"}
<1>4. /\ {s \in Txns : cpc'[s] # "new"} = N \cup {t} /\ Cardinality(N) \in Nat
      /\ Cardinality(N \cup {t}) = Cardinality(N) + 1 /\ Cardinality(N) + 1 <= Cardinality(Txns)
  <2>1. {s \in Txns : cpc'[s] # "new"} = N \cup {t} /\ t \notin N /\ N \cup {t} \subseteq Txns
    BY <1>2, <1>3
  <2>2. IsFiniteSet(N) /\ IsFiniteSet(N \cup {t}) /\ Cardinality(N \cup {t}) <= Cardinality(Txns)
    BY <2>1, ProcessorAssumption, FS_Subset
  <2>3. Cardinality(N \cup {t}) = Cardinality(N) + 1
    BY <2>1, <2>2, FS_AddElement
  <2>4. Cardinality(N) \in Nat
    BY <2>2, FS_CardinalityType
  <2> QED
    BY <2>1, <2>2, <2>3, <2>4
<1>5. next_unique_id = Cardinality(N) + 1 /\ Cardinality(Txns) \in Nat
  BY ProcessorAssumption, FS_CardinalityType DEF ShapeInv
<1> HIDE DEF N
<1>6. next_unique_id' \in 1..(Cardinality(Txns) + 1) /\ next_unique_id \in 0..Cardinality(Txns)
  BY <1>2, <1>4, <1>5
<1>7. unique_id' \in [Txns -> 0..Cardinality(Txns)]
  BY <1>1, <1>2, <1>6 DEF TypeOK, BaseTypeOK
<1>8. mutex' \in Txns \cup {NoTxn} /\ cpc' \in [Txns -> {"new", "numbered", "submitted"}]
  BY <1>1, <1>2, <1>3 DEF TypeOK, BaseTypeOK
<1>9. TypeOK'
  BY <1>1, <1>2, <1>6, <1>7, <1>8 DEF TypeOK, BaseTypeOK, txnqueues, local, exec, object, sched, pool
<1>10. Tables' /\ next_unique_id' = Cardinality({s \in Txns : cpc'[s] # "new"}) + 1
  BY <1>1, <1>2, <1>4, <1>5 DEF Tables, local
<1>11. UNCHANGED <<spc, txn, epc, task>> /\ \A w \in Threads : Busy(w)' <=> Busy(w)
  BY <1>2 DEF sched, exec, pool, Busy
<1> QED
  BY <1>9, <1>10, <1>11 DEF ShapeInv

LEMMA PushRequestShape ==
  ASSUME ShapeInv, NEW t \in Txns, PushRequest(t), UNCHANGED <<pool, ready_txns>>
  PROVE  ShapeInv'
<1>1. TypeOK /\ Tables
  BY DEF ShapeInv
<1>2. /\ cpc[t] = "numbered" /\ mutex' = NoTxn /\ txn_requests' = Append(txn_requests, t)
      /\ UNCHANGED <<storage, next_unique_id, unique_id, completed_txns, txn_results,
                     returned, local, exec, object, sched>>
  BY DEF PushRequest
<1>3. /\ cpc' = [cpc EXCEPT ![t] = "submitted"] /\ cpc'[t] = "submitted"
      /\ \A s \in Txns : s # t => cpc'[s] = cpc[s]
  BY <1>1 DEF PushRequest, TypeOK, BaseTypeOK
<1>4. txn_requests' \in Seq(Txns)
  BY <1>2, Shaped, Pushed
<1>5. TypeOK'
  BY <1>1, <1>2, <1>3, <1>4 DEF TypeOK, BaseTypeOK, local, exec, object, sched, pool
<1>6. {s \in Txns : cpc'[s] # "new"} = {s \in Txns : cpc[s] # "new"}
  BY <1>2, <1>3
<1>7. Tables'
  BY <1>1, <1>2 DEF Tables, local
<1>8. UNCHANGED <<next_unique_id, spc, txn, epc, task>> /\ \A w \in Threads : Busy(w)' <=> Busy(w)
  BY <1>2 DEF sched, exec, pool, Busy
<1> QED
  BY <1>5, <1>6, <1>7, <1>8 DEF ShapeInv

LEMMA GetResultShape ==
  ASSUME ShapeInv, GetTxnResult, UNCHANGED <<pool, ready_txns>>
  PROVE  ShapeInv'
<1>1. TypeOK /\ Tables
  BY DEF ShapeInv
<1>2. /\ txn_results # <<>> /\ returned' = Append(returned, Head(txn_results)) /\ txn_results' = Tail(txn_results)
      /\ UNCHANGED <<storage, client, txn_requests, completed_txns, local, exec, object, sched>>
  BY DEF GetTxnResult
<1>3. txn_results' \in Seq(Txns) /\ returned' \in Seq(Txns)
  BY <1>2, Shaped, Pushed, Popped
<1>4. TypeOK'
  BY <1>1, <1>2, <1>3 DEF TypeOK, BaseTypeOK, client, local, exec, object, sched, pool
<1>5. Tables'
  BY <1>1, <1>2 DEF Tables, local
<1>6. UNCHANGED <<next_unique_id, cpc, spc, txn, epc, task>> /\ \A w \in Threads : Busy(w)' <=> Busy(w)
  BY <1>2 DEF client, sched, exec, pool, Busy
<1> QED
  BY <1>4, <1>5, <1>6 DEF ShapeInv

(* The lock managers grant every lock.                                     *)
LEMMA NeverBlocked == \A t : ~Blocked(t)
BY DEF Blocked, ReadLock, WriteLock

LEMMA PopRequestShape ==
  ASSUME ShapeInv, PopRequest
  PROVE  ShapeInv'
<1>1. TypeOK /\ Tables
  BY DEF ShapeInv
<1>2. /\ spc = "pop" /\ spc' = "completed"
      /\ UNCHANGED <<storage, client, completed_txns, txn_results, returned, local, exec, object, txn, pool>>
  BY DEF PopRequest
<1>3. txn_requests' \in Seq(Txns) /\ ready_txns' \in Seq(Txns)
  <2>1. CASE txn_requests = <<>>
    BY <2>1, Shaped DEF PopRequest
  <2>2. CASE txn_requests # <<>>
    <3>1. txn_requests' = Tail(txn_requests) /\ ready_txns' = Append(ready_txns, Head(txn_requests))
      BY <2>2, NeverBlocked DEF PopRequest
    <3> QED
      BY <2>2, <3>1, Shaped, Pushed, Popped
  <2> QED
    BY <2>1, <2>2
<1>4. TypeOK'
  BY <1>1, <1>2, <1>3 DEF TypeOK, BaseTypeOK, client, local, exec, object, pool
<1>5. Tables'
  BY <1>1, <1>2 DEF Tables, local
<1>6. UNCHANGED <<next_unique_id, cpc, epc, task>> /\ \A w \in Threads : Busy(w)' <=> Busy(w)
  BY <1>2 DEF client, exec, pool, Busy
<1> QED
  BY <1>2, <1>4, <1>5, <1>6 DEF ShapeInv

LEMMA PopCompletedShape ==
  ASSUME ShapeInv, PopCompleted, completed_txns # <<>>
  PROVE  ShapeInv'
<1>1. TypeOK /\ Tables
  BY DEF ShapeInv
<1>2. /\ spc = "completed" /\ spc' = "commit"
      /\ txn' = Head(completed_txns) /\ completed_txns' = Tail(completed_txns)
      /\ UNCHANGED <<storage, client, txn_requests, txn_results, returned, local, exec, object, pool, ready_txns>>
  BY DEF PopCompleted
<1>3. completed_txns' \in Seq(Txns) /\ txn' \in Txns /\ NoTxn \notin Txns
  BY <1>2, Shaped, Popped
<1>4. TypeOK'
  BY <1>1, <1>2, <1>3 DEF TypeOK, BaseTypeOK, client, local, exec, object, pool
<1>5. Tables'
  BY <1>1, <1>2 DEF Tables, local
<1>6. UNCHANGED <<next_unique_id, cpc, epc, task>> /\ \A w \in Threads : Busy(w)' <=> Busy(w)
  BY <1>2 DEF client, exec, pool, Busy
<1> QED
  BY <1>2, <1>3, <1>4, <1>5, <1>6 DEF ShapeInv

LEMMA CommitShape ==
  ASSUME ShapeInv, CommitStep, UNCHANGED <<pool, ready_txns>>
  PROVE  ShapeInv'
<1>1. TypeOK /\ Tables
  BY DEF ShapeInv
<1>2. /\ spc \in {"commit", "apply"} /\ spc' \in {"apply", "result"}
      /\ UNCHANGED <<client, txnqueues, reads, writes, epc, object, txn>>
  BY DEF CommitStep, Decide, ApplyWrite, Commit, local, exec, sched
<1>3. txn \in Txns /\ Sched \in Executors /\ DOMAIN writes[txn] \subseteq Key
  BY <1>2, Shaped
<1>4. status' \in [Txns -> {"INCOMPLETE", "COMPLETED_C", "COMPLETED_A", "COMMITTED", "ABORTED"}]
  <2>1. \/ status' = status \/ status' = [status EXCEPT ![txn] = "ABORTED"]
        \/ status' = [status EXCEPT ![txn] = "COMMITTED"]
    BY DEF CommitStep, Decide, ApplyWrite, Commit, local
  <2> QED
    BY <1>1, <1>3, <2>1 DEF TypeOK, BaseTypeOK
<1>5. todo' \in [Executors -> SUBSET Key]
  <2>1. \/ todo' = todo \/ todo' = [todo EXCEPT ![Sched] = DOMAIN writes[txn]]
        \/ todo' = [todo EXCEPT ![Sched] = todo[Sched] \ {NextKey(Sched)}]
    BY DEF CommitStep, Decide, ApplyWrite, Commit, exec
  <2> QED
    BY <1>1, <1>3, <2>1 DEF TypeOK, BaseTypeOK
<1>6. storage' = [k \in Key |-> storage'[k]]
  <2>1. CASE ApplyWrite
    <3>1. NextKey(Sched) \in Key /\ storage' = Overlay(Lookup(writes[txn], NextKey(Sched)), storage)
      BY <1>1, <1>3, <2>1, FirstKey DEF ApplyWrite, TypeOK, BaseTypeOK
    <3>2. DOMAIN Lookup(writes[txn], NextKey(Sched)) \cup DOMAIN storage = Key
      BY <1>1, <3>1 DEF Tables, Lookup
    <3> QED
      BY <3>1, <3>2 DEF Overlay
  <2>2. CASE Decide \/ Commit
    BY <1>1, <2>2 DEF Decide, Commit, Tables
  <2> QED
    BY <2>1, <2>2 DEF CommitStep
<1>7. TypeOK'
  <2>1. DOMAIN storage' \subseteq Key
    BY <1>6
  <2> QED
    BY <1>1, <1>2, <1>4, <1>5, <2>1 DEF TypeOK, BaseTypeOK, client, txnqueues, object, pool
<1>8. Tables'
  BY <1>1, <1>2, <1>6 DEF Tables
<1>9. UNCHANGED <<next_unique_id, cpc, task>> /\ \A w \in Threads : Busy(w)' <=> Busy(w)
  BY <1>2 DEF client, pool, Busy
<1> QED
  BY <1>2, <1>7, <1>8, <1>9 DEF ShapeInv

LEMMA ResultShape ==
  ASSUME ShapeInv, PushResult("completed"), UNCHANGED <<pool, ready_txns>>
  PROVE  ShapeInv'
<1>1. TypeOK /\ Tables
  BY DEF ShapeInv
<1>2. /\ spc = "result" /\ spc' = "completed" /\ txn' = NoTxn /\ txn_results' = Append(txn_results, txn)
      /\ UNCHANGED <<storage, client, txn_requests, completed_txns, returned, local, exec, object>>
  BY DEF PushResult
<1>3. txn_results' \in Seq(Txns)
  BY <1>2, Shaped, Pushed
<1>4. TypeOK'
  BY <1>1, <1>2, <1>3 DEF TypeOK, BaseTypeOK, client, local, exec, object, pool
<1>5. Tables'
  BY <1>1, <1>2 DEF Tables, local
<1>6. UNCHANGED <<next_unique_id, cpc, epc, task>> /\ \A w \in Threads : Busy(w)' <=> Busy(w)
  BY <1>2 DEF client, exec, pool, Busy
<1> QED
  BY <1>2, <1>4, <1>5, <1>6 DEF ShapeInv

LEMMA DispatchShape ==
  ASSUME ShapeInv, NEW w \in Threads, Dispatch(w)
  PROVE  ShapeInv'
<1>1. TypeOK /\ Tables
  BY DEF ShapeInv
<1>2. /\ ready_txns # <<>> /\ ready_txns' = Tail(ready_txns)
      /\ queues' = [queues EXCEPT ![w] = Append(queues[w], Head(ready_txns))]
      /\ UNCHANGED <<task, wpc, pstopped>> /\ UNCHANGED base
  BY DEF Dispatch, AddTask
<1>3. ready_txns' \in Seq(Txns) /\ Append(queues[w], Head(ready_txns)) \in Seq(Txns)
  BY <1>2, Shaped, Pushed, Popped
<1>4. TypeOK'
  BY <1>1, <1>2, <1>3 DEF TypeOK, BaseTypeOK, base, client, txnqueues, local, exec, object, sched
<1>5. Tables'
  BY <1>1, <1>2 DEF Tables, base, local
<1>6. UNCHANGED <<next_unique_id, cpc, epc, task, spc, txn>> /\ \A v \in Threads : Busy(v)' <=> Busy(v)
  BY <1>2 DEF base, client, exec, sched, Busy
<1> QED
  BY <1>4, <1>5, <1>6 DEF ShapeInv

LEMMA StartTaskShape ==
  ASSUME ShapeInv, NEW w \in Threads, StartTask(w)
  PROVE  ShapeInv'
<1>1. TypeOK /\ Tables
  BY DEF ShapeInv
<1> DEFINE h == Head(queues[w])
<1>2. /\ queues[w] # <<>> /\ UNCHANGED <<storage, client, txnqueues, local, object, sched, ready_txns, pstopped>>
      /\ queues' = [queues EXCEPT ![w] = Tail(queues[w])]
      /\ task' = [task EXCEPT ![w] = h]
      /\ epc' = [epc EXCEPT ![w] = "readset"]
      /\ todo' = [todo EXCEPT ![w] = Program[h].readset]
  BY DEF StartTask, PopTask, DrainTask, TakeTask, StartExecute
<1>3. PICK next \in {"run", "drain_run"} : wpc' = [wpc EXCEPT ![w] = next]
  BY DEF StartTask, PopTask, DrainTask, TakeTask
<1>4. Tail(queues[w]) \in Seq(Txns) /\ h \in Txns /\ h # NoTask /\ Program[h].readset \subseteq Key /\ w \in Executors
  BY <1>2, Shaped, Popped
<1> HIDE DEF h
<1>5. TypeOK'
  <2>1. queues' \in [Threads -> Seq(Txns)] /\ task' \in [Threads -> Txns \cup {NoTask}]
    BY <1>1, <1>2, <1>4 DEF TypeOK
  <2>2. wpc' \in [Threads -> {"poll", "run", "check", "drain", "drain_run", "exited"}]
    BY <1>1, <1>3 DEF TypeOK
  <2>3. epc' \in [Executors -> {"idle", "readset", "writeset", "push"}] /\ todo' \in [Executors -> SUBSET Key]
    BY <1>1, <1>2, <1>4 DEF TypeOK, BaseTypeOK
  <2> QED
    BY <1>1, <1>2, <2>1, <2>2, <2>3 DEF TypeOK, BaseTypeOK, client, txnqueues, local, object, sched
<1>6. Tables'
  BY <1>1, <1>2 DEF Tables, local
<1>7. /\ wpc'[w] \in {"run", "drain_run"} /\ task'[w] = h /\ epc'[w] = "readset"
      /\ \A v \in Threads : v # w => wpc'[v] = wpc[v] /\ task'[v] = task[v] /\ epc'[v] = epc[v]
  BY <1>1, <1>2, <1>3, <1>4, Shaped DEF TypeOK, BaseTypeOK
<1> QED
  BY <1>2, <1>4, <1>5, <1>6, <1>7 DEF ShapeInv, Busy, client, sched

LEMMA ReadShape ==
  ASSUME ShapeInv, NEW w \in Threads, Busy(w), UNCHANGED <<client, txnqueues, object, sched, ready_txns, pool>>,
         ReadKey(w, task[w]) \/ EndReadset(w, task[w])
  PROVE  ShapeInv'
<1>1. TypeOK /\ Tables
  BY DEF ShapeInv
<1>2. task[w] \in Txns /\ w \in Executors /\ Program[task[w]].writeset \subseteq Key
  BY Shaped
<1>3. UNCHANGED <<storage, status, writes>>
  BY DEF ReadKey, EndReadset, local
<1>4. /\ epc' \in [Executors -> {"idle", "readset", "writeset", "push"}]
      /\ epc'[w] # "idle" /\ epc[w] # "idle" /\ \A v \in Executors : v # w => epc'[v] = epc[v]
  BY <1>1, <1>2 DEF ReadKey, EndReadset, TypeOK, BaseTypeOK
<1>5. todo' \in [Executors -> SUBSET Key]
  <2>1. todo \in [Executors -> SUBSET Key]
    BY <1>1 DEF TypeOK, BaseTypeOK
  <2>2. CASE ReadKey(w, task[w])
    BY <1>2, <2>1, <2>2 DEF ReadKey
  <2>3. CASE EndReadset(w, task[w])
    BY <1>2, <2>1, <2>3 DEF EndReadset
  <2> QED
    BY <2>2, <2>3
<1>6. reads' = [t \in Txns |-> reads'[t]]
  BY <1>1, <1>2 DEF ReadKey, EndReadset, Tables, local
<1>7. TypeOK'
  BY <1>1, <1>3, <1>4, <1>5 DEF TypeOK, BaseTypeOK, client, txnqueues, object, sched, pool
<1>8. Tables'
  BY <1>1, <1>3, <1>6 DEF Tables
<1>9. UNCHANGED <<next_unique_id, cpc, task, spc, txn>> /\ \A v \in Threads : Busy(v)' <=> Busy(v)
  BY DEF client, sched, pool, Busy
<1> QED
  BY <1>4, <1>7, <1>8, <1>9, Shaped DEF ShapeInv

LEMMA RunShape ==
  ASSUME ShapeInv, NEW w \in Threads, Busy(w), UNCHANGED <<client, txnqueues, object, sched, ready_txns, pool>>,
         RunTxn(w, task[w])
  PROVE  ShapeInv'
<1>1. TypeOK /\ Tables
  BY DEF ShapeInv
<1> DEFINE t == task[w]
<1>2. t \in Txns /\ w \in Executors /\ IsProgram(Program[t])
  BY Shaped, ProcessorAssumption
<1>3. /\ UNCHANGED <<storage, todo>> /\ epc' = [epc EXCEPT ![w] = "push"]
      /\ status' = [status EXCEPT ![t] = RunStatus(Program[t], reads[t])]
      /\ writes' = [writes EXCEPT ![t] = RunWrites(Program[t], reads[t])]
  BY DEF RunTxn
<1>4. PICK r : reads' = [reads EXCEPT ![t] = r]
  BY DEF RunTxn
<1>5. DOMAIN RunWrites(Program[t], reads[t]) \subseteq Program[t].writeset
  BY <1>2, WritesDeclared
<1>6. RunStatus(Program[t], reads[t]) \in {"COMPLETED_C", "COMPLETED_A"}
  BY DEF RunStatus
<1> HIDE DEF t
<1>7. /\ epc' \in [Executors -> {"idle", "readset", "writeset", "push"}]
      /\ epc'[w] = "push" /\ \A v \in Executors : v # w => epc'[v] = epc[v]
  BY <1>1, <1>2, <1>3 DEF TypeOK, BaseTypeOK
<1>8. status' \in [Txns -> {"INCOMPLETE", "COMPLETED_C", "COMPLETED_A", "COMMITTED", "ABORTED"}]
  BY <1>1, <1>2, <1>3, <1>6 DEF TypeOK, BaseTypeOK
<1>9. Tables'
  <2>1. /\ writes' = [u \in Txns |-> writes'[u]] /\ writes'[t] = RunWrites(Program[t], reads[t])
        /\ \A u \in Txns : u # t => writes'[u] = writes[u]
    BY <1>1, <1>2, <1>3 DEF Tables
  <2>2. reads' = [u \in Txns |-> reads'[u]]
    BY <1>1, <1>2, <1>4 DEF Tables
  <2>3. \A u \in Txns : DOMAIN writes'[u] \subseteq Program[u].writeset
    BY <1>1, <1>5, <2>1 DEF Tables
  <2> QED
    BY <1>1, <1>3, <2>1, <2>2, <2>3 DEF Tables
<1>10. TypeOK'
  BY <1>1, <1>3, <1>7, <1>8 DEF TypeOK, BaseTypeOK, client, txnqueues, object, sched, pool
<1>11. UNCHANGED <<next_unique_id, cpc, task, spc, txn>> /\ \A v \in Threads : Busy(v)' <=> Busy(v)
  BY DEF client, sched, pool, Busy
<1> QED
  BY <1>7, <1>9, <1>10, <1>11, Shaped DEF ShapeInv

LEMMA PushCompletedShape ==
  ASSUME ShapeInv, NEW w \in Threads, Busy(w), PushCompleted(w, task[w]), TaskDone(w),
         UNCHANGED <<client, txn_requests, txn_results, returned, object, sched, ready_txns>>
  PROVE  ShapeInv'
<1>1. TypeOK /\ Tables
  BY DEF ShapeInv
<1>2. /\ completed_txns' = Append(completed_txns, task[w]) /\ epc' = [epc EXCEPT ![w] = "idle"]
      /\ UNCHANGED <<storage, status, reads, writes, todo, queues, pstopped>>
      /\ task' = [task EXCEPT ![w] = NoTask]
  BY DEF PushCompleted, TaskDone, local
<1>3. PICK next \in {"check", "drain"} : wpc' = [wpc EXCEPT ![w] = next]
  BY DEF TaskDone
<1>4. completed_txns' \in Seq(Txns) /\ w \in Executors
  BY <1>2, Shaped, Pushed
<1>5. /\ wpc'[w] \in {"check", "drain"} /\ task'[w] = NoTask /\ epc'[w] = "idle"
      /\ \A v \in Threads : v # w => wpc'[v] = wpc[v] /\ task'[v] = task[v] /\ epc'[v] = epc[v]
  BY <1>1, <1>2, <1>3, <1>4, Shaped DEF TypeOK, BaseTypeOK
<1>6. TypeOK'
  <2>1. wpc' \in [Threads -> {"poll", "run", "check", "drain", "drain_run", "exited"}]
    BY <1>1, <1>3 DEF TypeOK
  <2>2. epc' \in [Executors -> {"idle", "readset", "writeset", "push"}] /\ task' \in [Threads -> Txns \cup {NoTask}]
    BY <1>1, <1>2 DEF TypeOK, BaseTypeOK
  <2> QED
    BY <1>1, <1>2, <1>4, <2>1, <2>2 DEF TypeOK, BaseTypeOK, client, object, sched
<1>7. Tables'
  BY <1>1, <1>2 DEF Tables
<1> QED
  BY <1>5, <1>6, <1>7 DEF ShapeInv, Busy, client, sched

LEMMA IdleShape ==
  ASSUME ShapeInv, NEW w \in Threads, Idle(w)
  PROVE  ShapeInv'
<1>1. TypeOK /\ Tables
  BY DEF ShapeInv
<1>2. UNCHANGED <<base, ready_txns, queues, task, pstopped>> /\ wpc[w] \in {"poll", "check", "drain"}
  BY DEF Idle, PopFails, CheckStopped, Exit
<1>3. PICK next \in {"poll", "check", "drain", "exited"} : wpc' = [wpc EXCEPT ![w] = next]
  BY DEF Idle, PopFails, CheckStopped, Exit
<1>4. TypeOK'
  BY <1>1, <1>2, <1>3 DEF TypeOK, BaseTypeOK, base, client, txnqueues, local, exec, object, sched
<1>5. Tables'
  BY <1>1, <1>2 DEF Tables, base, local
<1>6. \A v \in Threads : Busy(v)' <=> Busy(v)
  BY <1>1, <1>2, <1>3 DEF Busy, TypeOK
<1> QED
  BY <1>2, <1>4, <1>5, <1>6 DEF ShapeInv, base, client, exec, sched

(* A pool thread inside ExecuteTxn, before it hands its transaction back.  *)
Executes(w) ==
  /\ Busy(w)
  /\ ExecuteBody(w, task[w])
  /\ UNCHANGED <<client, txnqueues, object, sched, ready_txns, pool>>

HandsBack(w) ==
  /\ Busy(w)
  /\ PushCompleted(w, task[w])
  /\ TaskDone(w)
  /\ UNCHANGED <<client, txn_requests, txn_results, returned, object, sched, ready_txns>>

(* The steps of the processor, as the proofs take them apart.              *)
LEMMA StepCases ==
  ASSUME ShapeInv, [Next]_vars
  PROVE  \/ Quiet
         \/ \E w \in Threads : Idle(w)
         \/ \E t \in Txns : AssignId(t) /\ UNCHANGED <<pool, ready_txns>>
         \/ \E t \in Txns : PushRequest(t) /\ UNCHANGED <<pool, ready_txns>>
         \/ GetTxnResult /\ UNCHANGED <<pool, ready_txns>>
         \/ PopRequest
         \/ PopCompleted /\ completed_txns # <<>>
         \/ CommitStep /\ UNCHANGED <<pool, ready_txns>>
         \/ PushResult("completed") /\ UNCHANGED <<pool, ready_txns>>
         \/ \E w \in Threads : Dispatch(w)
         \/ \E w \in Threads : StartTask(w)
         \/ \E w \in Threads : Executes(w)
         \/ \E w \in Threads : HandsBack(w)
<1>1. CASE Client
  <2>1. EndConstructor \/ Stop \/ JoinScheduler => Quiet
    BY <1>1 DEF Client, EndConstructor, Stop, JoinScheduler, Quiet, sched, ShapeInv, TypeOK, BaseTypeOK
  <2> QED
    BY <1>1, <2>1 DEF Client, ClientStep
<1>2. CASE RunLockingScheduler
  <2>1. TestStopped /\ UNCHANGED <<pool, ready_txns>> => Quiet
    BY DEF TestStopped, Quiet
  <2>2. EndDispatch => Quiet
    BY DEF EndDispatch, Quiet
  <2>3. PopCompleted /\ completed_txns = <<>> => Quiet
    BY DEF PopCompleted, Quiet, txnqueues
  <2> QED
    BY <1>2, <2>1, <2>2, <2>3 DEF RunLockingScheduler, Finish
<1>3. CASE DestroyPool
  BY <1>3 DEF DestroyPool, StopPool, Quiet, base, sched
<1>4. CASE JoinPool
  <2>1. Quiet
    BY <1>4 DEF JoinPool, Quiet, sched, ShapeInv, TypeOK, BaseTypeOK
  <2> QED
    BY <2>1
<1>5. ASSUME NEW w \in Threads, Thread(w)
      PROVE  StartTask(w) \/ Executes(w) \/ HandsBack(w) \/ Idle(w)
  BY <1>5 DEF Thread, ExecuteTxn, Executes, HandsBack, txnqueues
<1>6. CASE UNCHANGED vars
  BY <1>6 DEF vars, base, Quiet, object, sched, ShapeInv, TypeOK, BaseTypeOK
<1> QED
  BY <1>1, <1>2, <1>3, <1>4, <1>5, <1>6 DEF Next

LEMMA StepShape ==
  ASSUME ShapeInv, [Next]_vars
  PROVE  ShapeInv'
<1>1. \A w \in Threads : Executes(w) => ShapeInv'
  BY ReadShape, RunShape DEF Executes, ExecuteBody
<1>2. \A w \in Threads : HandsBack(w) => ShapeInv'
  BY PushCompletedShape DEF HandsBack
<1> QED
  BY <1>1, <1>2, StepCases, QuietShape, AssignShape, PushRequestShape, GetResultShape, PopRequestShape,
     PopCompletedShape, CommitShape, ResultShape, DispatchShape, StartTaskShape, IdleShape

LEMMA InitShape ==
  ASSUME Init
  PROVE  ShapeInv
<1>1. Cardinality(Txns) \in Nat /\ Sched \in Executors /\ NoTxn \notin Txns
  BY ProcessorAssumption, FS_CardinalityType
<1>2. /\ next_unique_id = 1 /\ mutex = NoTxn /\ txn = NoTxn /\ spc = "test" /\ life = "constructing"
      /\ txn_requests = <<>> /\ completed_txns = <<>> /\ txn_results = <<>> /\ returned = <<>>
      /\ unique_id = [t \in Txns |-> 0] /\ cpc = [t \in Txns |-> "new"]
      /\ status = [t \in Txns |-> "INCOMPLETE"] /\ stopped \in BOOLEAN
      /\ epc = [e \in Executors |-> "idle"] /\ todo = [e \in Executors |-> {}]
  BY ProcessorAssumption DEF Init, BaseInit
<1>3. storage = [k \in Key |-> 0] /\ ready_txns = <<>>
  BY LockingAssumption DEF Init, BaseInit, InitStorage
<1>4. {txn_requests, completed_txns, txn_results, returned} \subseteq Seq(Txns) /\ ready_txns \in Seq(Txns)
  BY <1>2, <1>3, EmptySeq
<1>5. BaseTypeOK
  <2>1. next_unique_id \in 1..(Cardinality(Txns) + 1) /\ unique_id \in [Txns -> 0..Cardinality(Txns)]
    BY <1>1, <1>2
  <2>2. status \in [Txns -> {"INCOMPLETE", "COMPLETED_C", "COMPLETED_A", "COMMITTED", "ABORTED"}]
    BY <1>2
  <2> QED
    BY <1>2, <1>3, <1>4, <2>1, <2>2 DEF BaseTypeOK
<1>6. /\ queues \in [Threads -> Seq(Txns)] /\ task \in [Threads -> Txns \cup {NoTask}] /\ pstopped \in BOOLEAN
      /\ wpc \in [Threads -> {"poll", "run", "check", "drain", "drain_run", "exited"}]
  BY EmptySeq DEF Init, PoolInit
<1>7. TypeOK
  BY <1>2, <1>4, <1>5, <1>6 DEF TypeOK
<1>8. Tables
  <2>1. reads = [t \in Txns |-> reads[t]] /\ writes = [t \in Txns |-> writes[t]]
    BY DEF Init, BaseInit
  <2>2. \A t \in Txns : writes[t] = NoEntries /\ DOMAIN NoEntries = {}
    BY DEF Init, BaseInit, NoEntries
  <2> QED
    BY <1>3, <2>1, <2>2 DEF Tables
<1>9. next_unique_id = Cardinality({t \in Txns : cpc[t] # "new"}) + 1
  <2>1. {t \in Txns : cpc[t] # "new"} = {}
    BY <1>2
  <2>2. Cardinality({t \in Txns : cpc[t] # "new"}) = 0
    BY <2>1, FS_EmptySet
  <2> QED
    BY <1>2, <2>2
<1>10. \A w \in Threads : ~Busy(w) /\ task[w] = NoTask /\ epc[w] = "idle"
  BY <1>2, LockingAssumption DEF Init, PoolInit, Busy
<1> QED
  BY <1>2, <1>7, <1>8, <1>9, <1>10 DEF ShapeInv

-----------------------------------------------------------------------------
(* Where the transactions are.  The stations by name.                      *)
LEMMA AtStations ==
  /\ At(<<"txn_requests", Sched>>) = Elements(txn_requests)
  /\ At(<<"ready_txns", Sched>>) = Elements(ready_txns)
  /\ At(<<"completed_txns", Sched>>) = Elements(completed_txns)
  /\ At(<<"scheduler", Sched>>) = {txn} \ {NoTxn}
  /\ At(<<"txn_results", Sched>>) = Elements(txn_results)
  /\ At(<<"returned", Sched>>) = Elements(returned)
  /\ \A w \in Threads : At(<<"queue", w>>) = Elements(queues[w]) /\ At(<<"task", w>>) = {task[w]} \ {NoTask}
BY DEF At

LEMMA StationNames ==
  /\ \A s \in Lines : <<s, Sched>> \in Stations
  /\ \A w \in Threads : <<"queue", w>> \in Stations /\ <<"task", w>> \in Stations
  /\ \A p \in Stations : \/ \E s \in Lines : p = <<s, Sched>>
                         \/ \E w \in Threads : p = <<"queue", w>> \/ p = <<"task", w>>
BY DEF Stations

LEMMA OtherStation ==
  ASSUME NEW p \in Stations
  PROVE  /\ \A s \in Lines : p # <<s, Sched>> => p[1] # s
         /\ \A w \in Threads : p # <<"queue", w>> => p[1] # "queue" \/ p[2] # w
         /\ \A w \in Threads : p # <<"task", w>> => p[1] # "task" \/ p[2] # w
         /\ p[1] \in {"queue", "task"} => p[2] \in Threads
BY DEF Stations, Lines

LEMMA AtNext ==
  /\ At(<<"txn_requests", Sched>>)' = Elements(txn_requests')
  /\ At(<<"ready_txns", Sched>>)' = Elements(ready_txns')
  /\ At(<<"completed_txns", Sched>>)' = Elements(completed_txns')
  /\ At(<<"scheduler", Sched>>)' = {txn'} \ {NoTxn}
  /\ At(<<"txn_results", Sched>>)' = Elements(txn_results')
  /\ At(<<"returned", Sched>>)' = Elements(returned')
  /\ \A w \in Threads : At(<<"queue", w>>)' = Elements(queues'[w]) /\ At(<<"task", w>>)' = {task'[w]} \ {NoTask}
BY DEF At

(* A transaction goes from one station to another.                         *)
LEMMA Moved ==
  ASSUME Apart, Covered, NEW a \in Stations, NEW b \in Stations, a # b, NEW x \in Txns,
         At(a) = At(a)' \cup {x}, x \notin At(a)', At(b)' = At(b) \cup {x},
         \A p \in Stations : p # a /\ p # b => At(p)' = At(p),
         cpc' = cpc
  PROVE  Apart' /\ Covered'
<1>1. \A p \in Stations : \A t \in Txns :
        t \in At(p)' <=> \/ t # x /\ t \in At(p)
                         \/ t = x /\ p = b
  <2> SUFFICES ASSUME NEW p \in Stations, NEW t \in Txns
               PROVE  t \in At(p)' <=> (t # x /\ t \in At(p)) \/ (t = x /\ p = b)
    OBVIOUS
  <2>1. x \in At(a)
    OBVIOUS
  <2>2. p # a => x \notin At(p)
    BY <2>1 DEF Apart
  <2> QED
    BY <2>2
<1>2. Apart'
  BY <1>1 DEF Apart
<1>3. \A t \in Txns : (\E p \in Stations : t \in At(p)) <=> \E p \in Stations : t \in At(p)'
  <2>1. x \in At(a)
    OBVIOUS
  <2> QED
    BY <1>1, <2>1
<1> QED
  BY <1>2, <1>3 DEF Covered

(* A step that moves none.                                                 *)
LEMMA PlacesStay ==
  ASSUME PlaceInv, \A t \in Txns : cpc'[t] = "submitted" <=> cpc[t] = "submitted",
         UNCHANGED <<txnqueues, ready_txns, queues, task, txn>>
  PROVE  PlaceInv'
<1>1. \A p : At(p)' = At(p)
  BY DEF At, txnqueues
<1> QED
  BY <1>1 DEF PlaceInv, Apart, Covered, OnlyOnce, Distinct, txnqueues

LEMMA PushRequestPlaces ==
  ASSUME ShapeInv, PlaceInv, NEW t \in Txns, PushRequest(t), UNCHANGED <<pool, ready_txns>>
  PROVE  PlaceInv'
<1> DEFINE a == <<"txn_requests", Sched>>
<1>1. /\ cpc[t] = "numbered" /\ txn_requests' = Append(txn_requests, t)
      /\ UNCHANGED <<completed_txns, txn_results, returned, ready_txns, queues, task, txn>>
  BY DEF PushRequest, sched, pool
<1>2. cpc'[t] = "submitted" /\ \A s \in Txns : s # t => cpc'[s] = cpc[s]
  BY DEF PushRequest, ShapeInv, TypeOK, BaseTypeOK
<1>3. \A p \in Stations : t \notin At(p)
  BY <1>1 DEF PlaceInv, Covered
<1>4. a \in Stations
  BY StationNames DEF Lines
<1>5. t \notin Elements(txn_requests)
  BY <1>3, <1>4, AtStations
<1>6. Elements(txn_requests') = Elements(txn_requests) \cup {t} /\ Distinct(txn_requests')
  BY <1>1, <1>5, Shaped, Pushed DEF PlaceInv, OnlyOnce
<1>7. At(a)' = At(a) \cup {t}
  BY <1>6, AtStations, AtNext
<1>8. \A p \in Stations : p # a => At(p)' = At(p)
  <2>1. \A p \in Stations : p # a => p[1] # "txn_requests"
    BY OtherStation DEF Lines
  <2>2. UNCHANGED <<completed_txns, txn_results, returned, ready_txns, queues, task, txn>>
    BY <1>1
  <2> QED
    BY <2>1, <2>2 DEF At
<1> HIDE DEF a
<1>9. Apart'
  BY <1>3, <1>7, <1>8 DEF PlaceInv, Apart
<1>10. Covered'
  BY <1>2, <1>4, <1>7, <1>8 DEF PlaceInv, Covered
<1> QED
  BY <1>1, <1>6, <1>9, <1>10 DEF PlaceInv, OnlyOnce, Distinct

LEMMA GetResultPlaces ==
  ASSUME ShapeInv, PlaceInv, GetTxnResult, UNCHANGED <<pool, ready_txns>>
  PROVE  PlaceInv'
<1> DEFINE a == <<"txn_results", Sched>>
           b == <<"returned", Sched>>
           x == Head(txn_results)
<1>1. /\ txn_results # <<>> /\ returned' = Append(returned, x) /\ txn_results' = Tail(txn_results)
      /\ UNCHANGED <<cpc, txn_requests, completed_txns, ready_txns, queues, task, txn>>
  BY DEF GetTxnResult, client, sched, pool
<1>2. /\ x \in Txns /\ Elements(txn_results) = Elements(txn_results') \cup {x}
      /\ x \notin Elements(txn_results') /\ Distinct(txn_results')
  BY <1>1, Shaped, Popped DEF PlaceInv, OnlyOnce
<1>3. a \in Stations /\ b \in Stations /\ a # b
  BY StationNames DEF Lines
<1>4. x \notin Elements(returned)
  <2>1. x \in At(a)
    BY <1>2, AtStations
  <2>2. x \notin At(b)
    BY <1>2, <1>3, <2>1 DEF PlaceInv, Apart
  <2> QED
    BY <2>2, AtStations
<1>5. Elements(returned') = Elements(returned) \cup {x} /\ Distinct(returned')
  BY <1>1, <1>2, <1>4, Shaped, Pushed DEF PlaceInv, OnlyOnce
<1>6. \A p \in Stations : p # a /\ p # b => At(p)' = At(p)
  <2>1. \A p \in Stations : p # a /\ p # b => p[1] # "txn_results" /\ p[1] # "returned" /\ p[1] \in Lines \cup {"queue", "task"}
    BY OtherStation DEF Lines, Stations
  <2>2. UNCHANGED <<txn_requests, completed_txns, ready_txns, queues, task, txn>>
    BY <1>1
  <2> QED
    BY <2>1, <2>2 DEF At, Lines
<1>7. At(a) = At(a)' \cup {x} /\ x \notin At(a)' /\ At(b)' = At(b) \cup {x}
  BY <1>2, <1>5, AtStations, AtNext
<1> HIDE DEF a, b, x
<1>8. Apart' /\ Covered'
  BY <1>1, <1>2, <1>3, <1>6, <1>7, Moved DEF PlaceInv
<1> QED
  BY <1>1, <1>2, <1>5, <1>8 DEF PlaceInv, OnlyOnce, Distinct

LEMMA PopRequestPlaces ==
  ASSUME ShapeInv, PlaceInv, PopRequest
  PROVE  PlaceInv'
<1>1. UNCHANGED <<cpc, completed_txns, txn_results, returned, queues, task, txn>>
  BY DEF PopRequest, client, pool
<1>2. CASE txn_requests = <<>>
  <2>1. UNCHANGED <<txn_requests, ready_txns>>
    BY <1>2 DEF PopRequest
  <2> QED
    BY <1>1, <2>1, PlacesStay DEF txnqueues
<1>3. CASE txn_requests # <<>>
  <2> DEFINE a == <<"txn_requests", Sched>>
             b == <<"ready_txns", Sched>>
             x == Head(txn_requests)
  <2>1. txn_requests' = Tail(txn_requests) /\ ready_txns' = Append(ready_txns, x)
    BY <1>3, NeverBlocked DEF PopRequest
  <2>2. /\ x \in Txns /\ Elements(txn_requests) = Elements(txn_requests') \cup {x}
        /\ x \notin Elements(txn_requests') /\ Distinct(txn_requests')
    BY <1>3, <2>1, Shaped, Popped DEF PlaceInv, OnlyOnce
  <2>3. a \in Stations /\ b \in Stations /\ a # b
    BY StationNames DEF Lines
  <2>4. x \notin Elements(ready_txns)
    <3>1. x \in At(a)
      BY <2>2, AtStations
    <3>2. x \notin At(b)
      BY <2>2, <2>3, <3>1 DEF PlaceInv, Apart
    <3> QED
      BY <3>2, AtStations
  <2>5. Elements(ready_txns') = Elements(ready_txns) \cup {x} /\ Distinct(ready_txns')
    BY <2>1, <2>2, <2>4, Shaped, Pushed DEF PlaceInv, OnlyOnce
  <2>6. \A p \in Stations : p # a /\ p # b => At(p)' = At(p)
    <3>1. \A p \in Stations : p # a /\ p # b => p[1] # "txn_requests" /\ p[1] # "ready_txns" /\ p[1] \in Lines \cup {"queue", "task"}
      BY OtherStation DEF Lines, Stations
    <3> QED
      BY <1>1, <3>1 DEF At, Lines
  <2>7. At(a) = At(a)' \cup {x} /\ x \notin At(a)' /\ At(b)' = At(b) \cup {x}
    BY <2>2, <2>5, AtStations, AtNext
  <2> HIDE DEF a, b, x
  <2>8. Apart' /\ Covered'
    BY <1>1, <2>2, <2>3, <2>6, <2>7, Moved DEF PlaceInv
  <2> QED
    BY <1>1, <2>2, <2>5, <2>8 DEF PlaceInv, OnlyOnce, Distinct
<1> QED
  BY <1>2, <1>3

LEMMA PopCompletedPlaces ==
  ASSUME ShapeInv, PlaceInv, PopCompleted, completed_txns # <<>>
  PROVE  PlaceInv'
<1> DEFINE a == <<"completed_txns", Sched>>
           b == <<"scheduler", Sched>>
           x == Head(completed_txns)
<1>1. UNCHANGED <<cpc, txn_requests, txn_results, returned, queues, task, ready_txns>>
  BY DEF PopCompleted, client, pool
<1>2. spc = "completed" /\ txn' = x /\ completed_txns' = Tail(completed_txns)
  BY DEF PopCompleted
<1>3. /\ x \in Txns /\ Elements(completed_txns) = Elements(completed_txns') \cup {x}
      /\ x \notin Elements(completed_txns') /\ Distinct(completed_txns')
  BY <1>2, Shaped, Popped DEF PlaceInv, OnlyOnce
<1>4. a \in Stations /\ b \in Stations /\ a # b
  BY StationNames DEF Lines
<1>5. txn = NoTxn /\ x # NoTxn
  BY <1>2, <1>3, Shaped DEF ShapeInv
<1>6. \A p \in Stations : p # a /\ p # b => At(p)' = At(p)
  <2>1. \A p \in Stations : p # a /\ p # b => p[1] # "completed_txns" /\ p[1] # "scheduler" /\ p[1] \in Lines \cup {"queue", "task"}
    BY OtherStation DEF Lines, Stations
  <2> QED
    BY <1>1, <2>1 DEF At, Lines
<1>7. At(a) = At(a)' \cup {x} /\ x \notin At(a)' /\ At(b)' = At(b) \cup {x}
  BY <1>2, <1>3, <1>5, AtStations, AtNext
<1> HIDE DEF a, b, x
<1>8. Apart' /\ Covered'
  BY <1>1, <1>3, <1>4, <1>6, <1>7, Moved DEF PlaceInv
<1> QED
  BY <1>1, <1>3, <1>8 DEF PlaceInv, OnlyOnce, Distinct

LEMMA ResultPlaces ==
  ASSUME ShapeInv, PlaceInv, PushResult("completed"), UNCHANGED <<pool, ready_txns>>
  PROVE  PlaceInv'
<1> DEFINE a == <<"scheduler", Sched>>
           b == <<"txn_results", Sched>>
<1>1. UNCHANGED <<cpc, txn_requests, completed_txns, returned, queues, task, ready_txns>>
  BY DEF PushResult, client, pool
<1>2. spc = "result" /\ txn' = NoTxn /\ txn_results' = Append(txn_results, txn)
  BY DEF PushResult
<1>3. txn \in Txns /\ txn # NoTxn
  BY <1>2, Shaped
<1>4. a \in Stations /\ b \in Stations /\ a # b
  BY StationNames DEF Lines
<1>5. txn \notin Elements(txn_results)
  <2>1. txn \in At(a)
    BY <1>3, AtStations
  <2>2. txn \notin At(b)
    BY <1>3, <1>4, <2>1 DEF PlaceInv, Apart
  <2> QED
    BY <2>2, AtStations
<1>6. Elements(txn_results') = Elements(txn_results) \cup {txn} /\ Distinct(txn_results')
  BY <1>2, <1>3, <1>5, Shaped, Pushed DEF PlaceInv, OnlyOnce
<1>7. \A p \in Stations : p # a /\ p # b => At(p)' = At(p)
  <2>1. \A p \in Stations : p # a /\ p # b => p[1] # "scheduler" /\ p[1] # "txn_results" /\ p[1] \in Lines \cup {"queue", "task"}
    BY OtherStation DEF Lines, Stations
  <2> QED
    BY <1>1, <2>1 DEF At, Lines
<1>8. At(a) = At(a)' \cup {txn} /\ txn \notin At(a)' /\ At(b)' = At(b) \cup {txn}
  BY <1>2, <1>3, <1>6, AtStations, AtNext
<1> HIDE DEF a, b
<1>9. Apart' /\ Covered'
  BY <1>1, <1>3, <1>4, <1>7, <1>8, Moved DEF PlaceInv
<1> QED
  BY <1>1, <1>6, <1>9 DEF PlaceInv, OnlyOnce, Distinct

LEMMA DispatchPlaces ==
  ASSUME ShapeInv, PlaceInv, NEW w \in Threads, Dispatch(w)
  PROVE  PlaceInv'
<1> DEFINE a == <<"ready_txns", Sched>>
           b == <<"queue", w>>
           x == Head(ready_txns)
<1>1. UNCHANGED <<cpc, txn_requests, completed_txns, txn_results, returned, task, txn>>
  BY DEF Dispatch, AddTask, base, client, txnqueues, sched
<1>2. ready_txns # <<>> /\ ready_txns' = Tail(ready_txns)
  BY DEF Dispatch
<1>3. queues'[w] = Append(queues[w], x) /\ \A v \in Threads : v # w => queues'[v] = queues[v]
  BY DEF Dispatch, AddTask, ShapeInv, TypeOK
<1>4. /\ x \in Txns /\ Elements(ready_txns) = Elements(ready_txns') \cup {x}
      /\ x \notin Elements(ready_txns') /\ Distinct(ready_txns')
  BY <1>2, Shaped, Popped DEF PlaceInv, OnlyOnce
<1>5. a \in Stations /\ b \in Stations /\ a # b
  BY StationNames DEF Lines
<1>6. x \notin Elements(queues[w])
  <2>1. x \in At(a)
    BY <1>4, AtStations
  <2>2. x \notin At(b)
    BY <1>4, <1>5, <2>1 DEF PlaceInv, Apart
  <2> QED
    BY <2>2, AtStations
<1>7. Elements(queues'[w]) = Elements(queues[w]) \cup {x} /\ Distinct(queues'[w])
  BY <1>3, <1>4, <1>6, Shaped, Pushed DEF PlaceInv, OnlyOnce
<1>8. \A p \in Stations : p # a /\ p # b => At(p)' = At(p)
  <2>1. \A p \in Stations : p # a /\ p # b => p[1] # "ready_txns" /\ p[1] \in Lines \cup {"queue", "task"}
    BY OtherStation DEF Lines, Stations
  <2>2. \A p \in Stations : p # a /\ p # b /\ p[1] = "queue" => queues'[p[2]] = queues[p[2]]
    BY <1>3, OtherStation
  <2> QED
    BY <1>1, <2>1, <2>2 DEF At, Lines
<1>9. At(a) = At(a)' \cup {x} /\ x \notin At(a)' /\ At(b)' = At(b) \cup {x}
  BY <1>4, <1>7, AtStations, AtNext
<1> HIDE DEF a, b, x
<1>10. Apart' /\ Covered'
  BY <1>1, <1>4, <1>5, <1>8, <1>9, Moved DEF PlaceInv
<1> QED
  BY <1>1, <1>3, <1>4, <1>7, <1>10 DEF PlaceInv, OnlyOnce, Distinct

LEMMA StartTaskPlaces ==
  ASSUME ShapeInv, PlaceInv, NEW w \in Threads, StartTask(w)
  PROVE  PlaceInv'
<1> DEFINE a == <<"queue", w>>
           b == <<"task", w>>
           x == Head(queues[w])
<1>1. UNCHANGED <<cpc, txn_requests, completed_txns, txn_results, returned, ready_txns, txn>> /\ ~Busy(w)
  BY DEF StartTask, PopTask, DrainTask, client, txnqueues, sched, Busy
<1>2. queues[w] # <<>> /\ queues'[w] = Tail(queues[w]) /\ \A v \in Threads : v # w => queues'[v] = queues[v]
  BY DEF StartTask, PopTask, DrainTask, TakeTask, ShapeInv, TypeOK
<1>3. task'[w] = x /\ \A v \in Threads : v # w => task'[v] = task[v]
  BY DEF StartTask, PopTask, DrainTask, TakeTask, ShapeInv, TypeOK
<1>4. /\ x \in Txns /\ Elements(queues[w]) = Elements(queues'[w]) \cup {x}
      /\ x \notin Elements(queues'[w]) /\ Distinct(queues'[w])
  BY <1>2, Shaped, Popped DEF PlaceInv, OnlyOnce
<1>5. a \in Stations /\ b \in Stations /\ a # b
  BY StationNames
<1>6. task[w] = NoTask /\ x # NoTask
  BY <1>1, <1>4, Shaped DEF ShapeInv
<1>7. \A p \in Stations : p # a /\ p # b => At(p)' = At(p)
  <2>1. \A p \in Stations : p # a /\ p # b => p[1] \in Lines \cup {"queue", "task"}
    BY DEF Lines, Stations
  <2>2. \A p \in Stations : p # a /\ p # b /\ p[1] = "queue" => queues'[p[2]] = queues[p[2]]
    BY <1>2, OtherStation
  <2>3. \A p \in Stations : p # a /\ p # b /\ p[1] = "task" => task'[p[2]] = task[p[2]]
    BY <1>3, OtherStation
  <2> QED
    BY <1>1, <2>1, <2>2, <2>3 DEF At, Lines
<1>8. At(a) = At(a)' \cup {x} /\ x \notin At(a)' /\ At(b)' = At(b) \cup {x}
  BY <1>3, <1>4, <1>6, AtStations, AtNext
<1> HIDE DEF a, b, x
<1>9. Apart' /\ Covered'
  BY <1>1, <1>4, <1>5, <1>7, <1>8, Moved DEF PlaceInv
<1> QED
  BY <1>1, <1>2, <1>4, <1>9 DEF PlaceInv, OnlyOnce, Distinct

LEMMA HandsBackPlaces ==
  ASSUME ShapeInv, PlaceInv, NEW w \in Threads, HandsBack(w)
  PROVE  PlaceInv'
<1> DEFINE a == <<"task", w>>
           b == <<"completed_txns", Sched>>
           x == task[w]
<1>1. UNCHANGED <<cpc, txn_requests, txn_results, returned, ready_txns, queues, txn>>
  BY DEF HandsBack, TaskDone, client, sched
<1>2. completed_txns' = Append(completed_txns, x)
  BY DEF HandsBack, PushCompleted
<1>3. task'[w] = NoTask /\ \A v \in Threads : v # w => task'[v] = task[v]
  BY DEF HandsBack, TaskDone, ShapeInv, TypeOK
<1>4. x \in Txns /\ x # NoTask
  BY Shaped DEF HandsBack
<1>5. a \in Stations /\ b \in Stations /\ a # b
  BY StationNames DEF Lines
<1>6. x \notin Elements(completed_txns)
  <2>1. x \in At(a)
    BY <1>4, AtStations
  <2>2. x \notin At(b)
    BY <1>4, <1>5, <2>1 DEF PlaceInv, Apart
  <2> QED
    BY <2>2, AtStations
<1>7. Elements(completed_txns') = Elements(completed_txns) \cup {x} /\ Distinct(completed_txns')
  BY <1>2, <1>4, <1>6, Shaped, Pushed DEF PlaceInv, OnlyOnce
<1>8. \A p \in Stations : p # a /\ p # b => At(p)' = At(p)
  <2>1. \A p \in Stations : p # a /\ p # b => p[1] # "completed_txns" /\ p[1] \in Lines \cup {"queue", "task"}
    BY OtherStation DEF Lines, Stations
  <2>2. \A p \in Stations : p # a /\ p # b /\ p[1] = "task" => task'[p[2]] = task[p[2]]
    BY <1>3, OtherStation
  <2> QED
    BY <1>1, <2>1, <2>2 DEF At, Lines
<1>9. At(a) = At(a)' \cup {x} /\ x \notin At(a)' /\ At(b)' = At(b) \cup {x}
  BY <1>3, <1>4, <1>7, AtStations, AtNext
<1> HIDE DEF a, b, x
<1>10. Apart' /\ Covered'
  BY <1>1, <1>4, <1>5, <1>8, <1>9, Moved DEF PlaceInv
<1> QED
  BY <1>1, <1>7, <1>10 DEF PlaceInv, OnlyOnce, Distinct

LEMMA StepPlaces ==
  ASSUME ShapeInv, PlaceInv, [Next]_vars
  PROVE  PlaceInv'
<1>1. ASSUME Quiet PROVE PlaceInv'
  BY <1>1, PlacesStay DEF Quiet, client, pool
<1>2. ASSUME NEW w \in Threads, Idle(w) PROVE PlaceInv'
  <2>1. UNCHANGED <<cpc, txnqueues, ready_txns, queues, task, txn>>
    BY <1>2 DEF Idle, PopFails, CheckStopped, Exit, base, client, sched
  <2> QED
    BY <2>1, PlacesStay
<1>3. ASSUME NEW t \in Txns, AssignId(t), UNCHANGED <<pool, ready_txns>> PROVE PlaceInv'
  <2>1. UNCHANGED <<txnqueues, ready_txns, queues, task, txn>>
    BY <1>3 DEF AssignId, pool, sched
  <2>2. \A s \in Txns : cpc'[s] = "submitted" <=> cpc[s] = "submitted"
    BY <1>3 DEF AssignId, ShapeInv, TypeOK, BaseTypeOK
  <2> QED
    BY <2>1, <2>2, PlacesStay
<1>4. ASSUME CommitStep, UNCHANGED <<pool, ready_txns>> PROVE PlaceInv'
  <2>1. UNCHANGED <<cpc, txnqueues, ready_txns, queues, task, txn>>
    BY <1>4 DEF CommitStep, Decide, ApplyWrite, Commit, client, pool, sched
  <2> QED
    BY <2>1, PlacesStay
<1>5. ASSUME NEW w \in Threads, Executes(w) PROVE PlaceInv'
  <2>1. UNCHANGED <<cpc, txnqueues, ready_txns, queues, task, txn>>
    BY <1>5 DEF Executes, client, pool, sched
  <2> QED
    BY <2>1, PlacesStay
<1> QED
  BY <1>1, <1>2, <1>3, <1>4, <1>5, StepCases, PushRequestPlaces, GetResultPlaces, PopRequestPlaces,
     PopCompletedPlaces, ResultPlaces, DispatchPlaces, StartTaskPlaces, HandsBackPlaces

LEMMA InitPlaces ==
  ASSUME Init
  PROVE  PlaceInv
<1>1. /\ txn_requests = <<>> /\ ready_txns = <<>> /\ completed_txns = <<>> /\ txn_results = <<>> /\ returned = <<>>
      /\ txn = NoTxn /\ \A w \in Threads : queues[w] = <<>> /\ task[w] = NoTask
      /\ \A t \in Txns : cpc[t] = "new"
  BY DEF Init, BaseInit, PoolInit
<1>2. \A p \in Stations : At(p) = {}
  BY <1>1, OtherStation, NoElements DEF At
<1> QED
  BY <1>1, <1>2, NoElements DEF PlaceInv, Apart, Covered, OnlyOnce

LEMMA PlaceInvariant == Spec => [](ShapeInv /\ PlaceInv)
<1>1. Init => ShapeInv /\ PlaceInv
  BY InitShape, InitPlaces
<1>2. (ShapeInv /\ PlaceInv) /\ [Next]_vars => (ShapeInv /\ PlaceInv)'
  BY StepShape, StepPlaces
<1> QED
  BY <1>1, <1>2, PTL DEF Spec

(* A transaction at a station is at no other.                              *)
LEMMA OnlyAt ==
  ASSUME ShapeInv, PlaceInv, NEW t \in Txns, NEW p \in Stations, t \in At(p)
  PROVE  /\ t \in Elements(txn_requests) <=> p = <<"txn_requests", Sched>>
         /\ t \in Elements(ready_txns) <=> p = <<"ready_txns", Sched>>
         /\ t \in Elements(completed_txns) <=> p = <<"completed_txns", Sched>>
         /\ t = txn <=> p = <<"scheduler", Sched>>
         /\ t \in Elements(txn_results) <=> p = <<"txn_results", Sched>>
         /\ t \in Elements(returned) <=> p = <<"returned", Sched>>
         /\ \A w \in Threads : t \in Elements(queues[w]) <=> p = <<"queue", w>>
         /\ \A w \in Threads : t = task[w] <=> p = <<"task", w>>
<1>1. \A q \in Stations : t \in At(q) <=> q = p
  BY DEF PlaceInv, Apart
<1>2. t # NoTxn /\ t # NoTask
  BY Shaped
<1>3. \A s \in Lines : t \in At(<<s, Sched>>) <=> p = <<s, Sched>>
  BY <1>1, StationNames
<1>4. \A w \in Threads : /\ t \in At(<<"queue", w>>) <=> p = <<"queue", w>>
                         /\ t \in At(<<"task", w>>) <=> p = <<"task", w>>
  BY <1>1, StationNames
<1> QED
  BY <1>2, <1>3, <1>4, AtStations DEF Lines

LEMMA OnePlace ==
  ASSUME ShapeInv, PlaceInv, NEW t \in Txns
  PROVE  Cardinality(Places(t)) = IF cpc[t] = "submitted" THEN 1 ELSE 0
<1>1. CASE cpc[t] = "submitted"
  <2>1. PICK p \in Stations : t \in At(p)
    BY <1>1 DEF PlaceInv, Covered
  <2>2. \E e : Places(t) = {e}
    <3>1. ASSUME NEW s \in Lines, p = <<s, Sched>>
          PROVE  Places(t) = {IF s = "returned" THEN "client" ELSE s}
      <4>1. \A w \in Threads : t \notin Elements(queues[w]) /\ task[w] # t
        BY <2>1, <3>1, OnlyAt DEF Lines
      <4>2. /\ t \in Elements(txn_requests) <=> s = "txn_requests"
            /\ t \in Elements(ready_txns) <=> s = "ready_txns"
            /\ t \in Elements(completed_txns) <=> s = "completed_txns"
            /\ t = txn <=> s = "scheduler"
            /\ t \in Elements(txn_results) <=> s = "txn_results"
            /\ t \in Elements(returned) <=> s = "returned"
        BY <2>1, <3>1, OnlyAt
      <4> QED
        BY <4>1, <4>2 DEF Places, Lines
    <3>2. ASSUME NEW w \in Threads, p = <<"queue", w>> \/ p = <<"task", w>>
          PROVE  Places(t) = {w}
      <4>1. \A v \in Threads : t \in Elements(queues[v]) \/ task[v] = t <=> v = w
        BY <2>1, <3>2, OnlyAt
      <4>2. /\ t \notin Elements(txn_requests) /\ t \notin Elements(ready_txns) /\ t # txn
            /\ t \notin Elements(completed_txns) /\ t \notin Elements(txn_results) /\ t \notin Elements(returned)
        BY <2>1, <3>2, OnlyAt
      <4> QED
        BY <4>1, <4>2 DEF Places
    <3> QED
      BY <3>1, <3>2, StationNames
  <2> QED
    BY <1>1, <2>2, FS_Singleton
<1>2. CASE cpc[t] # "submitted"
  <2>1. \A p \in Stations : t \notin At(p)
    BY <1>2 DEF PlaceInv, Covered
  <2>2. \A s \in Lines : t \notin At(<<s, Sched>>)
    BY <2>1, StationNames
  <2>3. \A w \in Threads : t \notin At(<<"queue", w>>) /\ t \notin At(<<"task", w>>)
    BY <2>1, StationNames
  <2>4. t # NoTxn /\ t # NoTask
    BY Shaped
  <2>5. /\ t \notin Elements(txn_requests) /\ t \notin Elements(ready_txns) /\ t # txn
        /\ t \notin Elements(completed_txns) /\ t \notin Elements(txn_results) /\ t \notin Elements(returned)
    BY <2>2, <2>4, AtStations DEF Lines
  <2>6. \A w \in Threads : t \notin Elements(queues[w]) /\ task[w] # t
    BY <2>3, <2>4, AtStations
  <2>7. Places(t) = {}
    BY <2>5, <2>6 DEF Places
  <2> QED
    BY <1>2, <2>7, FS_EmptySet
<1> QED
  BY <1>1, <1>2

(* RunLockingScheduler and the pool neither lose a transaction nor handle  *)
(* one twice: from NewTxnRequest on it is in exactly one queue, or in the  *)
(* hands of one thread, and there only once.                               *)
THEOREM LockingKeepsTxns == Spec => []LockingInv
<1>1. ASSUME ShapeInv, PlaceInv PROVE LockingInv
  <2>1. ASSUME NEW s \in {txn_requests, ready_txns, completed_txns, txn_results, returned}
                          \cup {queues[w] : w \in Threads}
        PROVE  Cardinality(Elements(s)) = Len(s)
    <3>1. s \in Seq(Txns) /\ Distinct(s)
      BY <1>1, <2>1, Shaped DEF PlaceInv, OnlyOnce
    <3> QED
      BY <3>1, Counted
  <2>2. TxnInOnePlace
    BY <1>1, <2>1, OnePlace DEF TxnInOnePlace
  <2> QED
    BY <1>1, <2>2 DEF LockingInv, ShapeInv
<1> QED
  BY <1>1, PlaceInvariant, PTL

(* The destructor of a processor whose clients have got all their          *)
(* transactions back deletes nothing that a pool thread still uses: a      *)
(* transaction comes back only after its task.                             *)
THEOREM DrainedIsSafe == Spec => []NoUseWhenDrained
<1>1. ASSUME ShapeInv, PlaceInv PROVE NoUseWhenDrained
  <2> SUFFICES ASSUME Drained, NEW w \in Threads, Busy(w) PROVE FALSE
    BY DEF NoUseWhenDrained, NoUseAfterDelete
  <2>1. task[w] \in Txns /\ task[w] # NoTask
    BY <1>1, Shaped
  <2>2. <<"task", w>> \in Stations /\ task[w] \in At(<<"task", w>>)
    BY <2>1, StationNames, AtStations
  <2>3. task[w] \in Elements(returned)
    BY <1>1, <2>1, <2>2 DEF PlaceInv, Covered, Drained
  <2> QED
    BY <1>1, <2>1, <2>2, <2>3, OnlyAt
<1> QED
  BY <1>1, PlaceInvariant, PTL

-----------------------------------------------------------------------------
(* How far the transactions have got.  Nobody else has the transaction of  *)
(* the scheduler, or the task of a thread.                                 *)
LEMMA SchedulersOwn ==
  ASSUME ShapeInv, PlaceInv, spc \in {"commit", "apply", "result"}
  PROVE  /\ txn \in Txns /\ cpc[txn] = "submitted"
         /\ txn \notin Elements(txn_requests) /\ txn \notin Elements(ready_txns)
         /\ txn \notin Elements(completed_txns) /\ txn \notin Elements(txn_results) /\ txn \notin Elements(returned)
         /\ \A w \in Threads : txn \notin Elements(queues[w]) /\ task[w] # txn
<1>1. txn \in Txns /\ txn # NoTxn
  BY Shaped
<1>2. <<"scheduler", Sched>> \in Stations /\ txn \in At(<<"scheduler", Sched>>)
  BY <1>1, StationNames, AtStations DEF Lines
<1>3. cpc[txn] = "submitted"
  BY <1>1, <1>2 DEF PlaceInv, Covered
<1> QED
  BY <1>1, <1>2, <1>3, OnlyAt

LEMMA ThreadsOwn ==
  ASSUME ShapeInv, PlaceInv, NEW w \in Threads, Busy(w)
  PROVE  /\ task[w] \in Txns /\ cpc[task[w]] = "submitted"
         /\ task[w] \notin Elements(txn_requests) /\ task[w] \notin Elements(ready_txns)
         /\ task[w] \notin Elements(completed_txns) /\ task[w] # txn
         /\ task[w] \notin Elements(txn_results) /\ task[w] \notin Elements(returned)
         /\ \A v \in Threads : task[w] \notin Elements(queues[v]) /\ (v # w => task[v] # task[w])
<1>1. task[w] \in Txns /\ task[w] # NoTask
  BY Shaped
<1>2. <<"task", w>> \in Stations /\ task[w] \in At(<<"task", w>>)
  BY <1>1, StationNames, AtStations
<1>3. cpc[task[w]] = "submitted"
  BY <1>1, <1>2 DEF PlaceInv, Covered
<1>4. \A v \in Threads : task[w] = task[v] => v = w
  BY <1>1, <1>2, OnlyAt
<1> QED
  BY <1>1, <1>2, <1>3, <1>4, OnlyAt

LEMMA StagesStay ==
  ASSUME StageInv, UNCHANGED <<status, reads, txnqueues, ready_txns, queues, task, epc, txn>>,
         \A w \in Threads : Busy(w)' <=> Busy(w),
         spc' = spc \/ spc' \notin {"commit", "apply", "result"},
         \A t \in Txns : cpc[t] = "submitted" => cpc'[t] = "submitted"
  PROVE  StageInv'
BY DEF StageInv, Fresh, Executed, Decided, txnqueues

LEMMA ClientStages ==
  ASSUME ShapeInv, PlaceInv, StageInv, UNCHANGED <<pool, ready_txns>>,
         GetTxnResult \/ \E t \in Txns : AssignId(t) \/ PushRequest(t)
  PROVE  StageInv'
<1>1. UNCHANGED <<status, reads, ready_txns, queues, task, epc, txn, spc, completed_txns>> /\ \A w \in Threads : Busy(w)' <=> Busy(w)
  BY DEF GetTxnResult, AssignId, PushRequest, local, exec, sched, pool, Busy, txnqueues
<1>2. ASSUME NEW t \in Txns, AssignId(t) PROVE StageInv'
  <2>1. txnqueues' = txnqueues /\ \A s \in Txns : cpc[s] = "submitted" => cpc'[s] = "submitted"
    BY <1>2 DEF AssignId, ShapeInv, TypeOK, BaseTypeOK
  <2> QED
    BY <1>1, <2>1, StagesStay
<1>3. ASSUME NEW t \in Txns, PushRequest(t) PROVE StageInv'
  <2>1. /\ cpc'[t] = "submitted" /\ cpc[t] # "submitted" /\ \A s \in Txns : s # t => cpc'[s] = cpc[s]
        /\ UNCHANGED <<txn_results, returned>> /\ txn_requests' = Append(txn_requests, t)
    BY <1>3 DEF PushRequest, ShapeInv, TypeOK, BaseTypeOK
  <2>2. Elements(txn_requests') = Elements(txn_requests) \cup {t} /\ Fresh(t)
    BY <2>1, Shaped, Pushed DEF StageInv
  <2> QED
    BY <1>1, <2>1, <2>2 DEF StageInv, Fresh, Executed, Decided
<1>4. CASE GetTxnResult
  <2>1. /\ txn_results # <<>> /\ returned' = Append(returned, Head(txn_results)) /\ txn_results' = Tail(txn_results)
        /\ UNCHANGED <<cpc, txn_requests>>
    BY <1>4 DEF GetTxnResult, client
  <2>2. /\ Head(txn_results) \in Txns /\ Elements(txn_results) = Elements(txn_results') \cup {Head(txn_results)}
    BY <2>1, Shaped, Popped
  <2>3. Elements(returned') = Elements(returned) \cup {Head(txn_results)}
    BY <2>1, <2>2, Shaped, Pushed
  <2>4. Elements(txn_results') \cup Elements(returned') = Elements(txn_results) \cup Elements(returned)
    BY <2>2, <2>3
  <2> QED
    BY <1>1, <2>1, <2>4 DEF StageInv, Fresh, Executed, Decided
<1> QED
  BY <1>2, <1>3, <1>4

LEMMA PopStages ==
  ASSUME ShapeInv, PlaceInv, StageInv, PopRequest \/ (PopCompleted /\ completed_txns # <<>>)
  PROVE  StageInv'
<1>1. UNCHANGED <<cpc, status, reads, queues, task, epc, txn_results, returned>> /\ \A w \in Threads : Busy(w)' <=> Busy(w)
  BY DEF PopRequest, PopCompleted, client, local, exec, pool, Busy
<1>2. CASE PopRequest
  <2>1. spc' = "completed" /\ UNCHANGED <<completed_txns, txn>>
    BY <1>2 DEF PopRequest
  <2>2. Elements(txn_requests') \cup Elements(ready_txns') = Elements(txn_requests) \cup Elements(ready_txns)
    <3>1. CASE txn_requests = <<>>
      BY <1>2, <3>1 DEF PopRequest
    <3>2. CASE txn_requests # <<>>
      <4>1. txn_requests' = Tail(txn_requests) /\ ready_txns' = Append(ready_txns, Head(txn_requests))
        BY <1>2, <3>2, NeverBlocked DEF PopRequest
      <4>2. Elements(txn_requests) = Elements(txn_requests') \cup {Head(txn_requests)} /\ Head(txn_requests) \in Txns
        BY <3>2, <4>1, Shaped, Popped
      <4>3. Elements(ready_txns') = Elements(ready_txns) \cup {Head(txn_requests)}
        BY <4>1, <4>2, Shaped, Pushed
      <4> QED
        BY <4>2, <4>3
    <3> QED
      BY <3>1, <3>2
  <2> QED
    BY <1>1, <2>1, <2>2 DEF StageInv, Fresh, Executed, Decided
<1>3. CASE PopCompleted /\ completed_txns # <<>>
  <2>1. /\ spc' = "commit" /\ txn' = Head(completed_txns) /\ completed_txns' = Tail(completed_txns)
        /\ UNCHANGED <<txn_requests, ready_txns>>
    BY <1>3 DEF PopCompleted
  <2>2. Elements(completed_txns) = Elements(completed_txns') \cup {txn'}
    BY <1>3, <2>1, Shaped, Popped
  <2> QED
    BY <1>1, <2>1, <2>2 DEF StageInv, Fresh, Executed, Decided
<1> QED
  BY <1>2, <1>3

LEMMA CommitStages ==
  ASSUME ShapeInv, PlaceInv, StageInv, CommitStep, UNCHANGED <<pool, ready_txns>>
  PROVE  StageInv'
<1>1. /\ UNCHANGED <<cpc, reads, queues, task, epc, txn>> /\ UNCHANGED <<txnqueues, ready_txns>>
      /\ \A w \in Threads : Busy(w)' <=> Busy(w)
  BY DEF CommitStep, Decide, ApplyWrite, Commit, client, local, exec, pool, Busy, sched
<1>2. spc \in {"commit", "apply"}
  BY DEF CommitStep, Decide, ApplyWrite, Commit
<1>3. \A t \in Txns : t # txn => status'[t] = status[t]
  BY DEF CommitStep, Decide, ApplyWrite, Commit, local, ShapeInv, TypeOK, BaseTypeOK
<1>4. /\ spc' = "apply" => status'[txn] = "COMPLETED_C"
      /\ spc' = "result" => Decided(txn)'
      /\ spc' # "commit"
  <2>1. txn \in Txns /\ status = [t \in Txns |-> status[t]]
    BY <1>2, Shaped DEF ShapeInv, TypeOK, BaseTypeOK
  <2>2. CASE Decide
    BY <1>1, <2>1, <2>2 DEF Decide, Decided
  <2>3. CASE ApplyWrite
    BY <2>3 DEF ApplyWrite, StageInv, local, sched
  <2>4. CASE Commit
    BY <1>1, <2>1, <2>4 DEF Commit, Decided
  <2> QED
    BY <2>2, <2>3, <2>4 DEF CommitStep
<1>5. /\ Elements(txn_requests) \cup Elements(ready_txns) \subseteq Txns \ {txn}
      /\ Elements(completed_txns) \cup Elements(txn_results) \cup Elements(returned) \subseteq Txns \ {txn}
      /\ \A w \in Threads : Elements(queues[w]) \subseteq Txns \ {txn} /\ (Busy(w) => task[w] \in Txns \ {txn})
      /\ cpc[txn] = "submitted"
  BY <1>2, SchedulersOwn, Shaped, TypedElements
<1> QED
  BY <1>1, <1>3, <1>4, <1>5 DEF StageInv, Fresh, Executed, Decided, txnqueues

LEMMA ResultStages ==
  ASSUME ShapeInv, PlaceInv, StageInv, PushResult("completed"), UNCHANGED <<pool, ready_txns>>
  PROVE  StageInv'
<1>1. /\ UNCHANGED <<cpc, status, reads, queues, task, epc, ready_txns, txn_requests, completed_txns, returned>>
      /\ \A w \in Threads : Busy(w)' <=> Busy(w)
  BY DEF PushResult, client, local, exec, pool, Busy
<1>2. spc = "result" /\ spc' = "completed" /\ txn_results' = Append(txn_results, txn)
  BY DEF PushResult
<1>3. Elements(txn_results') = Elements(txn_results) \cup {txn}
  BY <1>2, Shaped, Pushed
<1> QED
  BY <1>1, <1>2, <1>3 DEF StageInv, Fresh, Executed, Decided

LEMMA DispatchStages ==
  ASSUME ShapeInv, PlaceInv, StageInv, NEW w \in Threads, Dispatch(w)
  PROVE  StageInv'
<1>1. /\ UNCHANGED <<cpc, status, reads, task, epc, txn_requests, completed_txns, returned, txn_results, spc, txn>>
      /\ \A v \in Threads : Busy(v)' <=> Busy(v)
  BY DEF Dispatch, AddTask, base, client, txnqueues, local, exec, sched, Busy
<1>2. /\ ready_txns # <<>> /\ ready_txns' = Tail(ready_txns)
      /\ queues'[w] = Append(queues[w], Head(ready_txns)) /\ \A v \in Threads : v # w => queues'[v] = queues[v]
  BY DEF Dispatch, AddTask, ShapeInv, TypeOK
<1>3. Elements(ready_txns) = Elements(ready_txns') \cup {Head(ready_txns)} /\ Head(ready_txns) \in Txns
  BY <1>2, Shaped, Popped
<1>4. Elements(queues'[w]) = Elements(queues[w]) \cup {Head(ready_txns)}
  BY <1>2, <1>3, Shaped, Pushed
<1> QED
  BY <1>1, <1>2, <1>3, <1>4 DEF StageInv, Fresh, Executed, Decided

LEMMA StartTaskStages ==
  ASSUME ShapeInv, PlaceInv, StageInv, NEW w \in Threads, StartTask(w)
  PROVE  StageInv'
<1>1. UNCHANGED <<cpc, status, reads, ready_txns, txn_requests, completed_txns, returned, txn_results, spc, txn>>
  BY DEF StartTask, client, txnqueues, local, sched
<1>2. /\ queues[w] # <<>> /\ queues'[w] = Tail(queues[w]) /\ \A v \in Threads : v # w => queues'[v] = queues[v]
  BY DEF StartTask, PopTask, DrainTask, TakeTask, ShapeInv, TypeOK
<1>3. task'[w] = Head(queues[w]) /\ \A v \in Threads : v # w => task'[v] = task[v] /\ (Busy(v)' <=> Busy(v))
  BY DEF StartTask, PopTask, DrainTask, TakeTask, ShapeInv, TypeOK, Busy
<1>4. epc'[w] = "readset" /\ \A v \in Threads : v # w => epc'[v] = epc[v]
  BY Shaped DEF StartTask, StartExecute, ShapeInv, TypeOK, BaseTypeOK
<1>5. Elements(queues[w]) = Elements(queues'[w]) \cup {Head(queues[w])}
  BY <1>2, Shaped, Popped
<1> QED
  BY <1>1, <1>2, <1>3, <1>4, <1>5 DEF StageInv, Fresh, Executed, Decided

LEMMA ExecutesStages ==
  ASSUME ShapeInv, PlaceInv, StageInv, NEW w \in Threads, Executes(w)
  PROVE  StageInv'
<1>1. /\ UNCHANGED <<cpc, ready_txns, queues, task, txn_requests, completed_txns, returned, txn_results, spc, txn>>
      /\ Busy(w) /\ \A v \in Threads : Busy(v)' <=> Busy(v)
  BY DEF Executes, client, txnqueues, sched, pool, Busy
<1> DEFINE t == task[w]
<1>2. /\ t \in Txns /\ w \in Executors /\ cpc[t] = "submitted" /\ t # txn
      /\ Elements(txn_requests) \cup Elements(ready_txns) \subseteq Txns \ {t}
      /\ Elements(completed_txns) \cup Elements(txn_results) \cup Elements(returned) \subseteq Txns \ {t}
      /\ \A v \in Threads : Elements(queues[v]) \subseteq Txns \ {t}
      /\ \A v \in Threads : v # w => task[v] # t /\ (Busy(v) => task[v] \in Txns)
      /\ spc \in {"commit", "apply", "result"} => txn \in Txns
  BY <1>1, ThreadsOwn, Shaped, TypedElements
<1>3. \A u \in Txns : u # t => status'[u] = status[u] /\ reads'[u] = reads[u]
  BY <1>2 DEF Executes, ExecuteBody, ReadKey, EndReadset, RunTxn, local, ShapeInv, TypeOK, BaseTypeOK, Tables
<1>4. \A v \in Threads : v # w => epc'[v] = epc[v]
  BY <1>2, Shaped DEF Executes, ExecuteBody, ReadKey, EndReadset, RunTxn, ShapeInv, TypeOK, BaseTypeOK
<1>5. IF epc'[w] = "push" THEN Executed(t)' ELSE status'[t] = "INCOMPLETE"
  <2>1. CASE ReadKey(w, t) \/ EndReadset(w, t)
    <3>1. epc[w] # "push" /\ epc'[w] # "push" /\ status' = status
      BY <1>2, <2>1 DEF ReadKey, EndReadset, local, ShapeInv, TypeOK, BaseTypeOK
    <3> QED
      BY <1>1, <3>1 DEF StageInv
  <2>2. CASE RunTxn(w, t)
    <3>1. epc'[w] = "push" /\ status'[t] \in {"COMPLETED_C", "COMPLETED_A"}
      BY <1>2, <2>2 DEF RunTxn, RunStatus, ShapeInv, TypeOK, BaseTypeOK
    <3> QED
      BY <1>1, <3>1 DEF Executed
  <2> QED
    BY <2>1, <2>2 DEF Executes, ExecuteBody
<1> QED
  BY <1>1, <1>2, <1>3, <1>4, <1>5 DEF StageInv, Fresh, Executed, Decided

LEMMA HandsBackStages ==
  ASSUME ShapeInv, PlaceInv, StageInv, NEW w \in Threads, HandsBack(w)
  PROVE  StageInv'
<1>1. UNCHANGED <<cpc, status, reads, ready_txns, queues, txn_requests, returned, txn_results, spc, txn>> /\ Busy(w)
  BY DEF HandsBack, PushCompleted, TaskDone, client, local, sched
<1>2. epc[w] = "push" /\ completed_txns' = Append(completed_txns, task[w])
  BY DEF HandsBack, PushCompleted
<1>3. ~Busy(w)' /\ \A v \in Threads : v # w => task'[v] = task[v] /\ (Busy(v)' <=> Busy(v)) /\ epc'[v] = epc[v]
  BY Shaped DEF HandsBack, PushCompleted, TaskDone, Busy, ShapeInv, TypeOK, BaseTypeOK
<1>4. Elements(completed_txns') = Elements(completed_txns) \cup {task[w]} /\ Executed(task[w])
  BY <1>1, <1>2, Shaped, Pushed DEF StageInv
<1> QED
  BY <1>1, <1>3, <1>4 DEF StageInv, Fresh, Executed, Decided

LEMMA StepStages ==
  ASSUME ShapeInv, PlaceInv, StageInv, [Next]_vars
  PROVE  StageInv'
<1>1. ASSUME Quiet PROVE StageInv'
  <2>1. UNCHANGED <<status, reads, txnqueues, ready_txns, queues, task, epc, txn, cpc>> /\ \A w \in Threads : Busy(w)' <=> Busy(w)
    BY <1>1 DEF Quiet, client, local, exec, pool, Busy
  <2>2. spc' = spc \/ spc' \notin {"commit", "apply", "result"}
    BY <1>1 DEF Quiet
  <2> QED
    BY <2>1, <2>2, StagesStay
<1>2. ASSUME NEW w \in Threads, Idle(w) PROVE StageInv'
  <2>1. UNCHANGED <<status, reads, txnqueues, ready_txns, queues, task, epc, txn, cpc, spc>>
    BY <1>2 DEF Idle, PopFails, CheckStopped, Exit, base, client, local, exec, sched
  <2>2. \A v \in Threads : Busy(v)' <=> Busy(v)
    BY <1>2 DEF Idle, PopFails, CheckStopped, Exit, Busy, ShapeInv, TypeOK
  <2> QED
    BY <2>1, <2>2, StagesStay
<1> QED
  BY <1>1, <1>2, StepCases, ClientStages, PopStages, CommitStages, ResultStages, DispatchStages,
     StartTaskStages, ExecutesStages, HandsBackStages

LEMMA InitStages ==
  ASSUME Init
  PROVE  StageInv
<1>1. /\ txn_requests = <<>> /\ ready_txns = <<>> /\ completed_txns = <<>> /\ txn_results = <<>> /\ returned = <<>>
      /\ spc = "test" /\ \A w \in Threads : queues[w] = <<>> /\ ~Busy(w)
  BY DEF Init, BaseInit, PoolInit, Busy
<1>2. \A t \in Txns : Fresh(t)
  BY DEF Init, BaseInit, Fresh
<1> QED
  BY <1>1, <1>2, NoElements DEF StageInv

-----------------------------------------------------------------------------
(* What the commits make of the store.                                     *)
(* What the store holds, in terms of an order of transactions, of the keys *)
(* of each that have been written, and of its writes.                      *)
StoreOf(order, written, entries, store) ==
  \A k \in Key :
    \/ /\ Lookup(store, k) = Lookup(InitStorage, k)
       /\ \A i \in DOMAIN order : k \notin written[order[i]]
    \/ \E i \in DOMAIN order :
         /\ k \in written[order[i]]
         /\ Lookup(store, k) = Lookup(entries[order[i]], k)
         /\ \A j \in DOMAIN order : i < j => k \notin written[order[j]]

LEMMA StoreKept ==
  ASSUME NEW order, NEW store, NEW written, NEW entries, NEW written2, NEW entries2,
         StoreOf(order, written, entries, store),
         \A t \in Elements(order) : /\ written2[t] = written[t]
                                    /\ written[t] # {} => entries2[t] = entries[t]
  PROVE  StoreOf(order, written2, entries2, store)
<1>1. \A i \in DOMAIN order : /\ written2[order[i]] = written[order[i]]
                              /\ written[order[i]] # {} => entries2[order[i]] = entries[order[i]]
  BY DEF Elements
<1> SUFFICES ASSUME NEW k \in Key
             PROVE  \/ /\ Lookup(store, k) = Lookup(InitStorage, k)
                       /\ \A i \in DOMAIN order : k \notin written2[order[i]]
                    \/ \E i \in DOMAIN order :
                         /\ k \in written2[order[i]]
                         /\ Lookup(store, k) = Lookup(entries2[order[i]], k)
                         /\ \A j \in DOMAIN order : i < j => k \notin written2[order[j]]
  BY DEF StoreOf
<1>2. CASE /\ Lookup(store, k) = Lookup(InitStorage, k)
           /\ \A i \in DOMAIN order : k \notin written[order[i]]
  BY <1>1, <1>2
<1>3. ASSUME NEW i \in DOMAIN order, k \in written[order[i]],
             Lookup(store, k) = Lookup(entries[order[i]], k),
             \A j \in DOMAIN order : i < j => k \notin written[order[j]]
      PROVE  /\ k \in written2[order[i]] /\ Lookup(store, k) = Lookup(entries2[order[i]], k)
             /\ \A j \in DOMAIN order : i < j => k \notin written2[order[j]]
  <2>1. entries2[order[i]] = entries[order[i]]
    BY <1>1, <1>3
  <2> QED
    BY <1>1, <1>3, <2>1
<1> QED
  BY <1>2, <1>3 DEF StoreOf

(* A transaction that has written nothing yet joins the order.             *)
LEMMA StoreJoined ==
  ASSUME NEW S, NEW order \in Seq(S), NEW x \in S, NEW store, NEW written, NEW entries,
         StoreOf(order, written, entries, store), written[x] = {}
  PROVE  StoreOf(Append(order, x), written, entries, store)
<1> DEFINE more == Append(order, x)
<1>1. /\ DOMAIN order = 1..Len(order) /\ Len(order) \in Nat
      /\ DOMAIN more = 1..(Len(order) + 1) /\ more[Len(order) + 1] = x
      /\ \A i \in DOMAIN order : more[i] = order[i]
  OBVIOUS
<1> HIDE DEF more
<1>2. \A k \in Key : \A i \in DOMAIN more : k \in written[more[i]] => i \in DOMAIN order /\ k \in written[order[i]]
  BY <1>1
<1>3. DOMAIN order \subseteq DOMAIN more
  BY <1>1
<1> SUFFICES ASSUME NEW k \in Key
             PROVE  \/ /\ Lookup(store, k) = Lookup(InitStorage, k)
                       /\ \A i \in DOMAIN more : k \notin written[more[i]]
                    \/ \E i \in DOMAIN more :
                         /\ k \in written[more[i]]
                         /\ Lookup(store, k) = Lookup(entries[more[i]], k)
                         /\ \A j \in DOMAIN more : i < j => k \notin written[more[j]]
  BY DEF StoreOf, more
<1>4. CASE /\ Lookup(store, k) = Lookup(InitStorage, k)
           /\ \A i \in DOMAIN order : k \notin written[order[i]]
  BY <1>2, <1>4
<1>5. ASSUME NEW i \in DOMAIN order, k \in written[order[i]],
             Lookup(store, k) = Lookup(entries[order[i]], k),
             \A j \in DOMAIN order : i < j => k \notin written[order[j]]
      PROVE  /\ i \in DOMAIN more /\ k \in written[more[i]] /\ Lookup(store, k) = Lookup(entries[more[i]], k)
             /\ \A j \in DOMAIN more : i < j => k \notin written[more[j]]
  BY <1>1, <1>2, <1>3, <1>5
<1> QED
  BY <1>4, <1>5 DEF StoreOf

(* The last transaction of the order writes a key.                         *)
LEMMA StoreWritten ==
  ASSUME NEW order, NEW last \in DOMAIN order, \A j \in DOMAIN order : ~(last < j),
         NEW store, NEW written, NEW written2, NEW entries, NEW n,
         StoreOf(order, written, entries, store),
         n \in DOMAIN entries[order[last]] => n \in written2[order[last]],
         \A t \in Elements(order) : \A k \in Key :
           k # n \/ n \notin DOMAIN entries[order[last]] => (k \in written2[t] <=> k \in written[t])
  PROVE  StoreOf(order, written2, entries, Overlay(Lookup(entries[order[last]], n), store))
<1> DEFINE e  == entries[order[last]]
           s2 == Overlay(Lookup(e, n), store)
<1> SUFFICES ASSUME NEW k \in Key
             PROVE  \/ /\ Lookup(s2, k) = Lookup(InitStorage, k)
                       /\ \A i \in DOMAIN order : k \notin written2[order[i]]
                    \/ \E i \in DOMAIN order :
                         /\ k \in written2[order[i]]
                         /\ Lookup(s2, k) = Lookup(entries[order[i]], k)
                         /\ \A j \in DOMAIN order : i < j => k \notin written2[order[j]]
  BY DEF StoreOf
<1>1. CASE k = n /\ n \in DOMAIN e
  <2>1. Lookup(s2, k) = Lookup(e, k)
    BY <1>1 DEF Overlay, Lookup
  <2> HIDE DEF s2
  <2> QED
    BY <1>1, <2>1
<1>2. CASE k # n \/ n \notin DOMAIN e
  <2>1. Lookup(s2, k) = Lookup(store, k)
    <3>1. DOMAIN Lookup(e, n) = {n} \cap DOMAIN e
      BY DEF Lookup
    <3>2. k \notin DOMAIN Lookup(e, n)
      BY <1>2, <3>1
    <3>3. k \in DOMAIN s2 <=> k \in DOMAIN store
      BY <3>2 DEF Overlay
    <3>4. k \in DOMAIN store => s2[k] = store[k]
      BY <3>2 DEF Overlay
    <3> HIDE DEF s2
    <3> QED
      BY <3>3, <3>4 DEF Lookup
  <2>2. \A i \in DOMAIN order : k \in written2[order[i]] <=> k \in written[order[i]]
    BY <1>2 DEF Elements
  <2>3. \/ /\ Lookup(store, k) = Lookup(InitStorage, k)
           /\ \A i \in DOMAIN order : k \notin written[order[i]]
        \/ \E i \in DOMAIN order :
             /\ k \in written[order[i]]
             /\ Lookup(store, k) = Lookup(entries[order[i]], k)
             /\ \A j \in DOMAIN order : i < j => k \notin written[order[j]]
    BY DEF StoreOf
  <2> HIDE DEF s2
  <2> QED
    BY <2>1, <2>2, <2>3
<1> QED
  BY <1>1, <1>2

LEMMA JoinedElements ==
  ASSUME NEW S, NEW a \in Seq(S), NEW r \in Seq(S)
  PROVE  Elements(a \o r) = Elements(a) \cup Elements(r)
<1>1. /\ DOMAIN a = 1..Len(a) /\ DOMAIN r = 1..Len(r) /\ Len(a) \in Nat /\ Len(r) \in Nat
      /\ DOMAIN (a \o r) = 1..(Len(a) + Len(r)) /\ \A i \in 1..Len(a) : (a \o r)[i] = a[i]
      /\ \A i \in 1..Len(r) : Len(a) + i \in 1..(Len(a) + Len(r)) /\ (a \o r)[Len(a) + i] = r[i]
  OBVIOUS
<1>2. \A i \in 1..(Len(a) + Len(r)) : i \in 1..Len(a) \/ (i - Len(a) \in 1..Len(r) /\ i = Len(a) + (i - Len(a)))
  BY <1>1
<1>3. \A i \in DOMAIN (a \o r) : (a \o r)[i] \in Elements(a) \cup Elements(r)
  BY <1>1, <1>2 DEF Elements
<1>4. \A i \in DOMAIN a : a[i] \in Elements(a \o r)
  BY <1>1 DEF Elements
<1>5. \A i \in DOMAIN r : r[i] \in Elements(a \o r)
  BY <1>1 DEF Elements
<1> QED
  BY <1>3, <1>4, <1>5 DEF Elements

LEMMA ResultsJoined ==
  ASSUME NEW S, NEW a \in Seq(S), NEW r \in Seq(S), NEW x \in S
  PROVE  /\ (a \o r) \o <<x>> = Append(a \o r, x) /\ (a \o r) \o <<x>> \in Seq(S)
         /\ Elements((a \o r) \o <<x>>) = Elements(a) \cup Elements(r) \cup {x}
<1> DEFINE done == a \o r
<1>1. done \in Seq(S) /\ (a \o r) \o <<x>> = Append(done, x)
  OBVIOUS
<1>2. Elements(done) = Elements(a) \cup Elements(r)
  BY JoinedElements
<1> HIDE DEF done
<1>3. Append(done, x) \in Seq(S) /\ Elements(Append(done, x)) = Elements(done) \cup {x}
  BY <1>1, Pushed
<1> QED
  BY <1>1, <1>2, <1>3 DEF done

(* The order of the transactions stays as their results move on.           *)
LEMMA ResultsMoved ==
  ASSUME NEW S, NEW a \in Seq(S), NEW r \in Seq(S), NEW x \in S
  PROVE  /\ r # <<>> => Append(a, Head(r)) \o Tail(r) = a \o r
         /\ (a \o r) \o <<>> = a \o r
         /\ (a \o Append(r, x)) \o <<>> = (a \o r) \o <<x>>
<1>1. r # <<>> => Append(a, Head(r)) \o Tail(r) = a \o r
  OBVIOUS
<1>2. (a \o r) \o <<>> = a \o r
  OBVIOUS
<1>3. (a \o Append(r, x)) \o <<>> = (a \o r) \o <<x>>
  OBVIOUS
<1> QED
  BY <1>1, <1>2, <1>3, Zenon

(* The order of the decisions in the states of the scheduler.              *)
LEMMA OrderTyped ==
  ASSUME ShapeInv
  PROVE  /\ DecidedOrder \in Seq(Txns)
         /\ txn = NoTxn => /\ DecidedOrder = returned \o txn_results
                           /\ Elements(DecidedOrder) = Elements(returned) \cup Elements(txn_results)
         /\ txn # NoTxn => /\ txn \in Txns
                           /\ DecidedOrder = Append(returned \o txn_results, txn)
                           /\ Elements(DecidedOrder) = Elements(returned) \cup Elements(txn_results) \cup {txn}
<1>1. CASE txn = NoTxn
  <2>1. DecidedOrder = (returned \o txn_results) \o <<>>
    BY <1>1 DEF DecidedOrder
  <2>2. returned \o txn_results \in Seq(Txns) /\ (returned \o txn_results) \o <<>> = returned \o txn_results
    BY Shaped
  <2>3. Elements(returned \o txn_results) = Elements(returned) \cup Elements(txn_results)
    BY Shaped, JoinedElements
  <2> QED
    BY <1>1, <2>1, <2>2, <2>3
<1>2. CASE txn # NoTxn
  <2>1. txn \in Txns
    BY <1>2, Shaped DEF ShapeInv
  <2>2. DecidedOrder = (returned \o txn_results) \o <<txn>>
    BY <1>2 DEF DecidedOrder
  <2>3. returned \in Seq(Txns) /\ txn_results \in Seq(Txns)
    BY Shaped
  <2>4. /\ (returned \o txn_results) \o <<txn>> = Append(returned \o txn_results, txn)
        /\ (returned \o txn_results) \o <<txn>> \in Seq(Txns)
        /\ Elements((returned \o txn_results) \o <<txn>>)
              = Elements(returned) \cup Elements(txn_results) \cup {txn}
    BY <2>1, <2>3, ResultsJoined
  <2> QED
    BY <1>2, <2>1, <2>2, <2>4, Zenon
<1> QED
  BY <1>1, <1>2

WrittenMap == [t \in Txns |-> Written(t)]

StoreIsCommitted == StoreOf(DecidedOrder, WrittenMap, writes, storage)

SameCommits == CommitsInOrder <=> StoreIsCommitted

LEMMA CommitsAre == ShapeInv => SameCommits
<1> SUFFICES ASSUME ShapeInv PROVE SameCommits
  OBVIOUS
<1>1. \A i \in DOMAIN DecidedOrder : WrittenMap[DecidedOrder[i]] = Written(DecidedOrder[i])
  BY OrderTyped DEF WrittenMap
<1> QED
  BY <1>1 DEF SameCommits, StoreIsCommitted, CommitsInOrder, StoreOf

LEMMA CommitsAreNext == ShapeInv' => SameCommits'
BY CommitsAre, PTL

LEMMA WrittenIs ==
  ASSUME NEW t \in Txns
  PROVE  WrittenMap[t] = Written(t) /\ WrittenMap'[t] = Written(t)'
BY DEF WrittenMap

(* Steps that write nothing, and leave the decided transactions as they    *)
(* are and in their order.                                                 *)
LEMMA CommitsStay ==
  ASSUME ShapeInv, ShapeInv', CommitsInOrder, storage' = storage, DecidedOrder' = DecidedOrder,
         \A t \in Elements(DecidedOrder) : /\ Written(t)' = Written(t)
                                           /\ Written(t) # {} => writes'[t] = writes[t]
  PROVE  CommitsInOrder'
<1>1. StoreOf(DecidedOrder, WrittenMap, writes, storage)
  BY CommitsAre DEF SameCommits, StoreIsCommitted
<1>2. Elements(DecidedOrder) \subseteq Txns
  BY OrderTyped, TypedElements
<1>3. \A t \in Elements(DecidedOrder) : /\ WrittenMap'[t] = WrittenMap[t]
                                        /\ WrittenMap[t] # {} => writes'[t] = writes[t]
  BY <1>2, WrittenIs
<1>4. StoreOf(DecidedOrder, WrittenMap', writes', storage)
  BY <1>1, <1>3, StoreKept
<1> QED
  BY <1>4, CommitsAreNext DEF SameCommits, StoreIsCommitted

LEMMA QueuesCommits ==
  ASSUME ShapeInv, ShapeInv', CommitsInOrder,
         UNCHANGED <<storage, txn_results, returned, status, writes, todo, txn>>,
         UNCHANGED spc \/ (spc # "apply" /\ spc' # "apply")
  PROVE  CommitsInOrder'
<1>1. DecidedOrder' = DecidedOrder /\ \A t : Written(t)' = Written(t)
  BY DEF DecidedOrder, Written
<1> QED
  BY <1>1, CommitsStay

(* A result moves from the queue to a client, or from the scheduler to the *)
(* queue; a completed transaction comes to the scheduler.                  *)
LEMMA ResultsCommits ==
  ASSUME ShapeInv, ShapeInv', CommitsInOrder, StageInv,
         \/ (GetTxnResult \/ PushResult("completed")) /\ UNCHANGED <<pool, ready_txns>>
         \/ PopCompleted /\ completed_txns # <<>>
  PROVE  CommitsInOrder'
<1>1. UNCHANGED <<storage, status, reads, writes, epc, todo>>
  BY DEF GetTxnResult, PushResult, PopCompleted, local, exec
<1>2. CASE GetTxnResult
  <2>1. /\ returned' = Append(returned, Head(txn_results)) /\ txn_results' = Tail(txn_results)
        /\ txn_results # <<>> /\ UNCHANGED <<spc, txn>>
    BY <1>2 DEF GetTxnResult, sched
  <2>2. returned' \o txn_results' = returned \o txn_results
    BY <2>1, Shaped
  <2>3. DecidedOrder' = DecidedOrder /\ \A t : Written(t)' = Written(t)
    BY <1>1, <2>1, <2>2 DEF DecidedOrder, Written
  <2> QED
    BY <1>1, <2>3, CommitsStay
<1>3. CASE PushResult("completed")
  <2>1. /\ spc = "result" /\ spc' = "completed" /\ txn_results' = Append(txn_results, txn)
        /\ txn' = NoTxn /\ returned' = returned
    BY <1>3 DEF PushResult
  <2>2. txn \in Txns /\ txn # NoTxn
    BY <2>1, Shaped
  <2>3. DecidedOrder = (returned \o txn_results) \o <<txn>>
    BY <2>2 DEF DecidedOrder
  <2>4. DecidedOrder' = (returned \o Append(txn_results, txn)) \o <<>>
    BY <2>1 DEF DecidedOrder
  <2>5. DecidedOrder' = DecidedOrder
    BY <2>2, <2>3, <2>4, Shaped, ResultsMoved
  <2>6. \A t : Written(t)' = Written(t)
    BY <1>1, <2>1 DEF Written
  <2> QED
    BY <1>1, <2>5, <2>6, CommitsStay
<1>4. CASE PopCompleted /\ completed_txns # <<>>
  <2>1. /\ spc = "completed" /\ spc' = "commit" /\ txn' = Head(completed_txns)
        /\ UNCHANGED <<returned, txn_results>>
    BY <1>4 DEF PopCompleted
  <2>2. txn = NoTxn /\ txn' \in Txns /\ txn' # NoTxn
    BY <1>4, <2>1, Shaped, Popped DEF ShapeInv
  <2>3. Executed(txn')
    BY <1>4, <2>1, Shaped, Popped DEF StageInv
  <2>4. DecidedOrder' = Append(DecidedOrder, txn')
    <3>1. DecidedOrder' = (returned \o txn_results) \o <<txn'>>
      BY <2>1, <2>2 DEF DecidedOrder
    <3>2. (returned \o txn_results) \o <<txn'>> = Append(returned \o txn_results, txn')
      BY <2>2, Shaped, ResultsJoined
    <3> QED
      BY <2>2, <3>1, <3>2, OrderTyped, Zenon
  <2>5. \A t \in Txns : Written(t)' = Written(t)
    BY <1>1, <2>1 DEF Written
  <2>6. Written(txn') = {}
    BY <2>1, <2>3 DEF Written, Executed
  <2>7. WrittenMap' = WrittenMap /\ WrittenMap[txn'] = {}
    BY <2>2, <2>5, <2>6 DEF WrittenMap
  <2>8. StoreOf(DecidedOrder, WrittenMap, writes, storage)
    BY CommitsAre DEF SameCommits, StoreIsCommitted
  <2>9. StoreOf(Append(DecidedOrder, txn'), WrittenMap, writes, storage)
    BY <2>2, <2>7, <2>8, OrderTyped, StoreJoined
  <2> QED
    BY <1>1, <2>4, <2>7, <2>9, CommitsAreNext DEF SameCommits, StoreIsCommitted
<1> QED
  BY <1>2, <1>3, <1>4

(* A pool thread works on a transaction that is not decided.               *)
LEMMA PoolCommits ==
  ASSUME ShapeInv, ShapeInv', PlaceInv, CommitsInOrder, NEW w \in Threads,
         StartTask(w) \/ Executes(w) \/ HandsBack(w)
  PROVE  CommitsInOrder'
<1>1. UNCHANGED <<storage, txn_results, returned, txn, spc>>
  BY DEF StartTask, Executes, HandsBack, ExecuteBody, ReadKey, EndReadset, RunTxn, PushCompleted, txnqueues, sched
<1>2. todo'[Sched] = todo[Sched]
  <2>1. w \in Executors /\ w # Sched /\ Sched \in Executors /\ todo \in [Executors -> SUBSET Key]
    BY Shaped DEF ShapeInv, TypeOK, BaseTypeOK
  <2>2. CASE StartTask(w)
    BY <2>1, <2>2 DEF StartTask, StartExecute
  <2>3. CASE Executes(w)
    BY <2>1, <2>3 DEF Executes, ExecuteBody, ReadKey, EndReadset, RunTxn
  <2>4. CASE HandsBack(w)
    BY <2>4 DEF HandsBack, PushCompleted
  <2> QED
    BY <2>2, <2>3, <2>4
<1>3. \A t \in Elements(DecidedOrder) : status'[t] = status[t] /\ writes'[t] = writes[t]
  <2>1. CASE StartTask(w) \/ HandsBack(w)
    BY <2>1 DEF StartTask, HandsBack, PushCompleted, local
  <2>2. CASE Executes(w)
    <3>1. task[w] \notin Elements(DecidedOrder)
      BY <2>2, ThreadsOwn, OrderTyped DEF Executes
    <3>2. Elements(DecidedOrder) \subseteq Txns
      BY OrderTyped, TypedElements
    <3> QED
      BY <2>2, <3>1, <3>2 DEF Executes, ExecuteBody, ReadKey, EndReadset, RunTxn, local,
                              ShapeInv, TypeOK, BaseTypeOK, Tables
  <2> QED
    BY <2>1, <2>2
<1>4. DecidedOrder' = DecidedOrder
  BY <1>1 DEF DecidedOrder
<1>5. \A t \in Elements(DecidedOrder) : Written(t)' = Written(t)
  BY <1>1, <1>2, <1>3 DEF Written
<1> QED
  BY <1>1, <1>3, <1>4, <1>5, CommitsStay

(* The scheduler commits or aborts its transaction, the last of the order. *)
LEMMA DecisionCommits ==
  ASSUME ShapeInv, ShapeInv', StageInv, CommitsInOrder, CommitStep, UNCHANGED pool
  PROVE  CommitsInOrder'
<1>1. /\ spc \in {"commit", "apply"} /\ UNCHANGED <<writes, txn, txn_results, returned>>
      /\ txn \in Txns /\ txn # NoTxn /\ Sched \in Executors
  BY Shaped DEF CommitStep, Decide, ApplyWrite, Commit, local, sched, txnqueues
<1>2. DecidedOrder' = DecidedOrder
  BY <1>1 DEF DecidedOrder
<1>3. CASE Decide
  <2>1. /\ spc = "commit" /\ storage' = storage /\ Executed(txn)
        /\ \A t \in Txns : t # txn => status'[t] = status[t]
        /\ \/ status' = status /\ spc' = "apply" /\ todo'[Sched] = DOMAIN writes[txn]
           \/ status'[txn] = "ABORTED" /\ spc' = "result"
    BY <1>1, <1>3 DEF Decide, StageInv, ShapeInv, TypeOK, BaseTypeOK
  <2>2. Elements(DecidedOrder) \subseteq Txns
    BY OrderTyped, TypedElements
  <2>3. \A t \in Elements(DecidedOrder) : Written(t)' = Written(t)
    <3> SUFFICES ASSUME NEW t \in Txns PROVE Written(t)' = Written(t)
      BY <2>2
    <3>1. CASE t = txn
      <4>1. Written(t) = {}
        BY <2>1, <3>1 DEF Written, Executed
      <4>2. Written(t)' = {}
        BY <1>1, <2>1, <3>1 DEF Written, Executed
      <4> QED
        BY <4>1, <4>2
    <3>2. CASE t # txn
      BY <1>1, <2>1, <3>2 DEF Written
    <3> QED
      BY <3>1, <3>2
  <2> QED
    BY <1>1, <1>2, <2>1, <2>3, CommitsStay
<1>4. CASE Commit
  <2>1. /\ spc = "apply" /\ spc' = "result" /\ todo[Sched] = {} /\ storage' = storage
        /\ status[txn] = "COMPLETED_C" /\ status'[txn] = "COMMITTED"
        /\ \A t \in Txns : t # txn => status'[t] = status[t]
    BY <1>1, <1>4 DEF Commit, StageInv, ShapeInv, TypeOK, BaseTypeOK
  <2>2. Elements(DecidedOrder) \subseteq Txns
    BY OrderTyped, TypedElements
  <2>3. \A t \in Elements(DecidedOrder) : Written(t)' = Written(t)
    <3> SUFFICES ASSUME NEW t \in Txns PROVE Written(t)' = Written(t)
      BY <2>2
    <3>1. CASE t = txn
      <4>1. Written(t) = DOMAIN writes[t]
        BY <2>1, <3>1 DEF Written
      <4>2. Written(t)' = DOMAIN writes[t]
        BY <1>1, <2>1, <3>1 DEF Written
      <4> QED
        BY <4>1, <4>2
    <3>2. CASE t # txn
      BY <1>1, <2>1, <3>2 DEF Written
    <3> QED
      BY <3>1, <3>2
  <2> QED
    BY <1>1, <1>2, <2>1, <2>3, CommitsStay
<1>5. CASE ApplyWrite
  <2> DEFINE n    == NextKey(Sched)
             last == Len(returned \o txn_results) + 1
  <2>1. /\ spc = "apply" /\ spc' = "apply" /\ status' = status /\ status[txn] = "COMPLETED_C"
        /\ storage' = Overlay(Lookup(writes[txn], n), storage) /\ todo'[Sched] = todo[Sched] \ {n}
    BY <1>1, <1>5 DEF ApplyWrite, StageInv, local, sched, ShapeInv, TypeOK, BaseTypeOK
  <2>2. /\ last \in DOMAIN DecidedOrder /\ DecidedOrder[last] = txn
        /\ \A j \in DOMAIN DecidedOrder : ~(last < j)
    <3>1. returned \o txn_results \in Seq(Txns)
      BY Shaped
    <3>2. DecidedOrder = Append(returned \o txn_results, txn)
      BY <1>1, OrderTyped
    <3> QED
      BY <3>1, <3>2
  <2>3. StoreOf(DecidedOrder, WrittenMap, writes, storage)
    BY CommitsAre DEF SameCommits, StoreIsCommitted
  <2> HIDE DEF n, last
  <2>4. \A t \in Txns : t # txn => Written(t)' = Written(t)
    BY <1>1, <2>1 DEF Written
  <2>5. /\ Written(txn) = DOMAIN writes[txn] \ todo[Sched]
        /\ Written(txn)' = DOMAIN writes[txn] \ (todo[Sched] \ {n})
    BY <1>1, <2>1 DEF Written
  <2>6. n \in DOMAIN writes[txn] => n \in WrittenMap'[txn]
    BY <1>1, <2>5, WrittenIs
  <2>7. ASSUME NEW t \in Elements(DecidedOrder), NEW k \in Key, k # n \/ n \notin DOMAIN writes[txn]
        PROVE  k \in WrittenMap'[t] <=> k \in WrittenMap[t]
    <3>1. t \in Txns
      BY OrderTyped, TypedElements
    <3>2. WrittenMap[t] = Written(t) /\ WrittenMap'[t] = Written(t)'
      BY <3>1, WrittenIs
    <3>3. CASE t = txn
      <4>1. WrittenMap[t] = DOMAIN writes[txn] \ todo[Sched] /\ WrittenMap'[t] = DOMAIN writes[txn] \ (todo[Sched] \ {n})
        BY <1>1, <2>5, <3>3, WrittenIs
      <4> QED
        BY <2>7, <4>1
    <3> QED
      BY <2>4, <3>1, <3>2, <3>3
  <2>8. StoreOf(DecidedOrder, WrittenMap', writes, Overlay(Lookup(writes[DecidedOrder[last]], n), storage))
    BY <2>2, <2>3, <2>6, <2>7, StoreWritten
  <2>9. StoreOf(DecidedOrder', WrittenMap', writes', storage')
    BY <1>1, <1>2, <2>1, <2>2, <2>8
  <2> QED
    BY <2>9, CommitsAreNext DEF SameCommits, StoreIsCommitted
<1> QED
  BY <1>3, <1>4, <1>5 DEF CommitStep

LEMMA StepCommits ==
  ASSUME ShapeInv, PlaceInv, StageInv, CommitsInOrder, [Next]_vars
  PROVE  CommitsInOrder'
<1>1. ShapeInv'
  BY StepShape
<1>2. CASE \/ Quiet
           \/ \E w \in Threads : Idle(w) \/ Dispatch(w)
           \/ \E t \in Txns : (AssignId(t) \/ PushRequest(t)) /\ UNCHANGED <<pool, ready_txns>>
           \/ PopRequest
  <2>1. UNCHANGED <<storage, txn_results, returned, status, writes, todo, txn>>
    BY <1>2 DEF Quiet, Idle, PopFails, CheckStopped, Exit, Dispatch, AddTask, AssignId, PushRequest, PopRequest,
                base, local, exec, sched, txnqueues
  <2>2. UNCHANGED spc \/ (spc # "apply" /\ spc' # "apply")
    BY <1>2 DEF Quiet, Idle, Dispatch, AssignId, PushRequest, PopRequest, base, sched
  <2> QED
    BY <1>1, <2>1, <2>2, QueuesCommits
<1> QED
  BY <1>1, <1>2, StepCases, ResultsCommits, PoolCommits, DecisionCommits

LEMMA InitCommits ==
  ASSUME Init
  PROVE  CommitsInOrder
<1>1. DecidedOrder = <<>> /\ storage = InitStorage
  BY DEF Init, BaseInit, DecidedOrder
<1> QED
  BY <1>1 DEF CommitsInOrder

(* What GetTxnResult hands out under the locking scheduler has been        *)
(* committed or aborted, and the store is what the commits have made of    *)
(* it in the order of the results, however the pool threads interleave.    *)
THEOREM LockingResultsDecided == Spec => []ResultsAreDecided
<1> DEFINE Inv == ShapeInv /\ PlaceInv /\ StageInv /\ CommitsInOrder
<1>1. Init => Inv
  BY InitShape, InitPlaces, InitStages, InitCommits
<1>2. Inv /\ [Next]_vars => Inv'
  BY StepShape, StepPlaces, StepStages, StepCommits
<1>3. Inv => ResultsAreDecided
  BY DEF StageInv, Decided, ResultsAreDecided
<1> QED
  BY <1>1, <1>2, <1>3, PTL DEF Spec

-----------------------------------------------------------------------------
(* A transaction without conflicts.                                        *)
Alone(t) == ReadAlone(t) /\ RanAlone(t) /\ StoreAlone(t)

LEMMA RunsOnPart ==
  ASSUME NEW p, IsProgram(p), NEW store, NEW part, p.readset \cup p.writeset \subseteq DOMAIN store,
         part = [k \in p.readset \cup p.writeset |-> store[k]]
  PROVE  RunStatus(p, part) = RunStatus(p, store) /\ RunWrites(p, part) = RunWrites(p, store)
<1>1. \A k \in p.readset \cup p.writeset : k \in DOMAIN part /\ k \in DOMAIN store /\ part[k] = store[k]
  OBVIOUS
<1>2. p.type = "Expect" => (Expected(p, part) <=> Expected(p, store))
  BY <1>1, ProgramKinds DEF Expected
<1>3. Incremented(p, part) = Incremented(p, store)
  BY <1>1 DEF Incremented
<1> QED
  BY <1>2, <1>3 DEF RunStatus, RunWrites

LEMMA AloneStays ==
  ASSUME NEW t \in Txns, Alone(t), UNCHANGED <<storage, status, reads, writes, epc, todo, task>>,
         \/ UNCHANGED <<spc, txn>>
         \/ spc # "apply" /\ spc' # "apply"
  PROVE  Alone(t)'
<1>1. ReadAlone(t)'
  BY DEF Alone, ReadAlone, HasRead
<1>2. RanAlone(t)'
  BY DEF Alone, RanAlone
<1>3. Written(t)' = Written(t)
  BY DEF Written
<1>4. StoreAlone(t)'
  BY <1>3 DEF Alone, StoreAlone
<1> QED
  BY <1>1, <1>2, <1>4 DEF Alone

LEMMA PassingAlone ==
  ASSUME NEW t \in Txns, Alone(t), ShapeInv,
         \/ Quiet
         \/ \E w \in Threads : Idle(w) \/ Dispatch(w)
         \/ \E s \in Txns : (AssignId(s) \/ PushRequest(s)) /\ UNCHANGED <<pool, ready_txns>>
         \/ (GetTxnResult \/ PushResult("completed")) /\ UNCHANGED <<pool, ready_txns>>
         \/ PopRequest
         \/ PopCompleted /\ completed_txns # <<>>
  PROVE  Alone(t)'
<1>1. CASE Quiet
  BY <1>1, AloneStays DEF Quiet, local, exec, pool
<1>2. ASSUME NEW w \in Threads, Idle(w) \/ Dispatch(w) PROVE Alone(t)'
  <2>1. UNCHANGED <<storage, status, reads, writes, epc, todo, task, spc, txn>>
    BY <1>2 DEF Idle, PopFails, CheckStopped, Exit, Dispatch, AddTask, base, local, exec, sched
  <2> QED
    BY <2>1, AloneStays
<1>3. CASE \/ \E s \in Txns : (AssignId(s) \/ PushRequest(s)) /\ UNCHANGED <<pool, ready_txns>>
           \/ GetTxnResult /\ UNCHANGED <<pool, ready_txns>>
  <2>1. UNCHANGED <<storage, status, reads, writes, epc, todo, task, spc, txn>>
    BY <1>3 DEF AssignId, PushRequest, GetTxnResult, local, exec, sched, pool
  <2> QED
    BY <2>1, AloneStays
<1>4. CASE \/ PushResult("completed") /\ UNCHANGED <<pool, ready_txns>>
           \/ PopRequest
           \/ PopCompleted /\ completed_txns # <<>>
  <2>1. UNCHANGED <<storage, status, reads, writes, epc, todo, task>> /\ spc # "apply" /\ spc' # "apply"
    BY <1>4 DEF PushResult, PopRequest, PopCompleted, local, exec, pool
  <2> QED
    BY <2>1, AloneStays
<1> QED
  BY <1>1, <1>2, <1>3, <1>4

LEMMA StartTaskAlone ==
  ASSUME NEW t \in Txns, Alone(t), ShapeInv, StageInv, NEW w \in Threads, StartTask(w)
  PROVE  Alone(t)'
<1>1. UNCHANGED <<storage, status, reads, writes, spc, txn>>
  BY DEF StartTask, local, sched
<1>2. task'[w] = Head(queues[w]) /\ queues[w] # <<>> /\ \A v \in Threads : v # w => task'[v] = task[v]
  BY DEF StartTask, PopTask, DrainTask, TakeTask, ShapeInv, TypeOK
<1>3. /\ epc'[w] = "readset" /\ \A v \in Executors : v # w => epc'[v] = epc[v]
      /\ todo'[w] = Program[task'[w]].readset /\ \A v \in Executors : v # w => todo'[v] = todo[v]
  BY <1>2, Shaped DEF StartTask, StartExecute, ShapeInv, TypeOK, BaseTypeOK
<1>4. Head(queues[w]) \in Elements(queues[w])
  BY <1>2, Shaped, Popped
<1>5. ReadAlone(t)'
  <2>1. ASSUME task'[w] = t
        PROVE  todo'[w] \subseteq Program[t].readset /\ reads'[t] = [k \in Program[t].readset \ todo'[w] |-> InitStorage[k]]
    <3>1. Program[t].readset \ todo'[w] = {} /\ reads'[t] = NoEntries
      BY <1>1, <1>2, <1>3, <1>4, <2>1 DEF StageInv, Fresh
    <3>2. NoEntries = [k \in {} |-> InitStorage[k]]
      BY DEF NoEntries
    <3> QED
      BY <1>3, <2>1, <3>1, <3>2
  <2>2. \A v \in Threads : v # w => task'[v] = task[v] /\ epc'[v] = epc[v] /\ todo'[v] = todo[v]
    BY <1>2, <1>3, Shaped
  <2> QED
    BY <1>1, <1>3, <2>1, <2>2 DEF Alone, ReadAlone, HasRead
<1>6. RanAlone(t)'
  BY <1>1 DEF Alone, RanAlone
<1>7. todo'[Sched] = todo[Sched]
  BY <1>3, Shaped
<1>8. Written(t)' = Written(t)
  BY <1>1, <1>7 DEF Written
<1>9. StoreAlone(t)'
  BY <1>1, <1>8 DEF Alone, StoreAlone
<1> QED
  BY <1>5, <1>6, <1>9 DEF Alone

LEMMA HandsBackAlone ==
  ASSUME NEW t \in Txns, Alone(t), ShapeInv, NEW w \in Threads, HandsBack(w)
  PROVE  Alone(t)'
<1>1. UNCHANGED <<storage, status, reads, writes, spc, txn, todo>>
  BY DEF HandsBack, PushCompleted, local, sched
<1>2. task'[w] = NoTask /\ \A v \in Threads : v # w => task'[v] = task[v] /\ epc'[v] = epc[v]
  BY Shaped DEF HandsBack, PushCompleted, TaskDone, ShapeInv, TypeOK, BaseTypeOK
<1>3. t # NoTask
  BY Shaped
<1>4. ReadAlone(t)'
  BY <1>1, <1>2, <1>3 DEF Alone, ReadAlone, HasRead
<1>5. RanAlone(t)'
  BY <1>1 DEF Alone, RanAlone
<1>6. Written(t)' = Written(t)
  BY <1>1 DEF Written
<1>7. StoreAlone(t)'
  BY <1>1, <1>6 DEF Alone, StoreAlone
<1> QED
  BY <1>4, <1>5, <1>7 DEF Alone

(* A pool thread that executes another transaction...                      *)
LEMMA OtherExecutes ==
  ASSUME NEW t \in Txns, Alone(t), ShapeInv, PlaceInv, NEW w \in Threads, Executes(w), task[w] # t
  PROVE  Alone(t)'
<1>1. UNCHANGED <<storage, task, spc, txn>> /\ task[w] \in Txns /\ w \in Executors
  BY Shaped DEF Executes, ExecuteBody, ReadKey, EndReadset, RunTxn, pool, sched
<1>2. status'[t] = status[t] /\ reads'[t] = reads[t] /\ writes'[t] = writes[t]
  BY <1>1 DEF Executes, ExecuteBody, ReadKey, EndReadset, RunTxn, local, ShapeInv, TypeOK, BaseTypeOK, Tables
<1>3. \A v \in Executors : v # w => epc'[v] = epc[v] /\ todo'[v] = todo[v]
  BY <1>1 DEF Executes, ExecuteBody, ReadKey, EndReadset, RunTxn, ShapeInv, TypeOK, BaseTypeOK
<1>4. \A v \in Threads : task[v] = t => epc'[v] = epc[v] /\ todo'[v] = todo[v]
  BY <1>3, Shaped
<1>5. ReadAlone(t)'
  BY <1>1, <1>2, <1>4 DEF Alone, ReadAlone, HasRead
<1>6. RanAlone(t)'
  BY <1>2 DEF Alone, RanAlone
<1>7. todo'[Sched] = todo[Sched]
  BY <1>3, Shaped
<1>8. Written(t)' = Written(t)
  BY <1>1, <1>2, <1>7 DEF Written
<1>9. StoreAlone(t)'
  BY <1>1, <1>2, <1>8 DEF Alone, StoreAlone
<1> QED
  BY <1>5, <1>6, <1>9 DEF Alone

(* ... and the one that executes t: it reads the initial values.           *)
LEMMA OwnExecutes ==
  ASSUME NEW t \in Txns, Alone(t), ShapeInv, PlaceInv, StageInv, NEW w \in Threads, Executes(w), task[w] = t
  PROVE  Alone(t)'
<1>1. UNCHANGED <<storage, task, spc, txn>> /\ w \in Executors /\ Busy(w)
  BY Shaped DEF Executes, ExecuteBody, ReadKey, EndReadset, RunTxn, pool, sched
<1>2. t # txn /\ \A v \in Threads : v # w => task[v] # t
  BY <1>1, ThreadsOwn
<1>3. status[t] # "COMMITTED" /\ Written(t) = {}
  <2>1. status[t] # "COMMITTED"
    BY <1>1 DEF StageInv, Executed
  <2> QED
    BY <1>2, <2>1 DEF Written
<1>4. \A k \in KeysOf(t) : storage[k] = InitStorage[k]
  BY <1>3 DEF Alone, StoreAlone
<1>5. /\ Program[t].readset \subseteq KeysOf(t) /\ Program[t].writeset \subseteq KeysOf(t)
      /\ KeysOf(t) \subseteq Key /\ DOMAIN InitStorage = Key /\ DOMAIN storage = Key
  BY Shaped, LockingAssumption DEF KeysOf, InitStorage, ShapeInv, Tables
<1>6. /\ epc[w] = "readset" => todo[w] \subseteq Program[t].readset /\ HasRead(t, Program[t].readset \ todo[w])
      /\ epc[w] = "writeset" =>
           /\ todo[w] \subseteq Program[t].writeset
           /\ HasRead(t, Program[t].readset \cup (Program[t].writeset \ todo[w]))
  BY DEF Alone, ReadAlone
<1>7. CASE ReadKey(w, t)
  <2> DEFINE n == NextKey(w)
  <2>1. /\ epc[w] \in {"readset", "writeset"} /\ todo[w] # {} /\ epc' = epc
        /\ reads'[t] = Overlay(Lookup(storage, n), reads[t]) /\ todo'[w] = todo[w] \ {n}
        /\ UNCHANGED <<status, writes>>
    BY <1>1, <1>7 DEF ReadKey, ShapeInv, TypeOK, BaseTypeOK, Tables
  <2>2. n \in todo[w] /\ n \in KeysOf(t)
    <3>1. n \in todo[w]
      BY <1>1, <2>1, FirstKey DEF ShapeInv, TypeOK, BaseTypeOK
    <3> QED
      BY <1>5, <1>6, <2>1, <3>1
  <2> HIDE DEF n
  <2>3. ASSUME NEW K, HasRead(t, K) PROVE reads'[t] = [k \in K \cup {n} |-> InitStorage[k]]
    <3>1. Lookup(storage, n) = [k \in {n} |-> InitStorage[k]]
      BY <1>4, <1>5, <2>2 DEF Lookup
    <3>2. Overlay(Lookup(storage, n), reads[t]) = [k \in K \cup {n} |-> InitStorage[k]]
      BY <2>3, <3>1 DEF Overlay, HasRead
    <3> QED
      BY <2>1, <3>2
  <2>4. ASSUME epc[w] = "readset"
        PROVE  todo'[w] \subseteq Program[t].readset /\ reads'[t] = [k \in Program[t].readset \ todo'[w] |-> InitStorage[k]]
    <3>1. (Program[t].readset \ todo[w]) \cup {n} = Program[t].readset \ todo'[w]
      BY <1>6, <2>1, <2>2, <2>4
    <3> QED
      BY <1>6, <2>1, <2>3, <2>4, <3>1
  <2>5. ASSUME epc[w] = "writeset"
        PROVE  /\ todo'[w] \subseteq Program[t].writeset
               /\ reads'[t] = [k \in Program[t].readset \cup (Program[t].writeset \ todo'[w]) |-> InitStorage[k]]
    <3>1. (Program[t].readset \cup (Program[t].writeset \ todo[w])) \cup {n}
            = Program[t].readset \cup (Program[t].writeset \ todo'[w])
      BY <1>6, <2>1, <2>2, <2>5
    <3> QED
      BY <1>6, <2>1, <2>3, <2>5, <3>1
  <2>6. ReadAlone(t)'
    BY <1>1, <1>2, <2>1, <2>4, <2>5 DEF ReadAlone, HasRead
  <2>7. RanAlone(t)' /\ Written(t)' = {}
    BY <1>1, <1>2, <1>3, <2>1 DEF Alone, RanAlone, Written
  <2>8. StoreAlone(t)'
    BY <1>1, <1>4, <2>7 DEF StoreAlone
  <2> QED
    BY <2>6, <2>7, <2>8 DEF Alone
<1>8. CASE EndReadset(w, t)
  <2>1. /\ epc[w] = "readset" /\ todo[w] = {} /\ epc'[w] = "writeset" /\ todo'[w] = Program[t].writeset
        /\ UNCHANGED <<status, reads, writes>>
    BY <1>1, <1>8 DEF EndReadset, local, ShapeInv, TypeOK, BaseTypeOK
  <2>2. Program[t].readset \cup (Program[t].writeset \ todo'[w]) = Program[t].readset \ todo[w]
    BY <2>1
  <2>3. reads'[t] = [k \in Program[t].readset \cup (Program[t].writeset \ todo'[w]) |-> InitStorage[k]]
    BY <1>6, <2>1, <2>2 DEF HasRead
  <2>4. ReadAlone(t)'
    BY <1>1, <1>2, <2>1, <2>3 DEF ReadAlone, HasRead
  <2>5. RanAlone(t)' /\ Written(t)' = {}
    BY <1>1, <1>2, <1>3, <2>1 DEF Alone, RanAlone, Written
  <2>6. StoreAlone(t)'
    BY <1>1, <1>4, <2>5 DEF StoreAlone
  <2> QED
    BY <2>4, <2>5, <2>6 DEF Alone
<1>9. CASE RunTxn(w, t)
  <2>1. /\ epc[w] = "writeset" /\ todo[w] = {} /\ epc'[w] = "push"
        /\ status'[t] = RunStatus(Program[t], reads[t]) /\ writes'[t] = RunWrites(Program[t], reads[t])
    BY <1>1, <1>9 DEF RunTxn, ShapeInv, TypeOK, BaseTypeOK, Tables
  <2>2. reads[t] = [k \in Program[t].readset \cup Program[t].writeset |-> InitStorage[k]]
    <3>1. Program[t].readset \cup (Program[t].writeset \ todo[w]) = Program[t].readset \cup Program[t].writeset
      BY <2>1
    <3> QED
      BY <1>6, <2>1, <3>1 DEF HasRead
  <2>3. IsProgram(Program[t]) /\ Program[t].readset \cup Program[t].writeset \subseteq DOMAIN InitStorage
    BY <1>5, ProcessorAssumption
  <2>4. status'[t] = RunStatus(Program[t], InitStorage) /\ writes'[t] = RunWrites(Program[t], InitStorage)
    BY <2>1, <2>2, <2>3, RunsOnPart
  <2>5. RunStatus(Program[t], InitStorage) \in {"COMPLETED_C", "COMPLETED_A"}
    BY DEF RunStatus
  <2>6. ReadAlone(t)'
    BY <1>1, <1>2, <2>1 DEF ReadAlone
  <2>7. RanAlone(t)' /\ Written(t)' = {}
    BY <1>1, <1>2, <2>4, <2>5 DEF RanAlone, Written
  <2>8. StoreAlone(t)'
    BY <1>1, <1>4, <2>7 DEF StoreAlone
  <2> QED
    BY <2>6, <2>7, <2>8 DEF Alone
<1> QED
  BY <1>7, <1>8, <1>9 DEF Executes, ExecuteBody

(* The scheduler commits another transaction, which writes no key of t...  *)
LEMMA OtherCommits ==
  ASSUME NEW t \in Txns, Unconflicted(t), Alone(t), ShapeInv, CommitStep, UNCHANGED pool, txn # t
  PROVE  Alone(t)'
<1>1. spc \in {"commit", "apply"} /\ UNCHANGED <<task, reads, writes, epc, txn>>
  BY DEF CommitStep, Decide, ApplyWrite, Commit, local, exec, sched, pool
<1>2. txn \in Txns /\ Sched \in Executors /\ Threads \subseteq Executors /\ Sched \notin Threads
  BY <1>1, Shaped
<1>3. status'[t] = status[t]
  BY <1>2 DEF CommitStep, Decide, ApplyWrite, Commit, local, ShapeInv, TypeOK, BaseTypeOK
<1>4. \A v \in Threads : todo'[v] = todo[v]
  BY <1>2 DEF CommitStep, Decide, ApplyWrite, Commit, exec, ShapeInv, TypeOK, BaseTypeOK
<1>5. \A k \in KeysOf(t) : storage'[k] = storage[k]
  <2>1. CASE ApplyWrite
    <3>1. storage' = Overlay(Lookup(writes[txn], NextKey(Sched)), storage)
      BY <2>1 DEF ApplyWrite
    <3>2. DOMAIN Lookup(writes[txn], NextKey(Sched)) \subseteq Program[txn].writeset
      BY <1>2 DEF Lookup, ShapeInv, Tables
    <3>3. Program[txn].writeset \cap KeysOf(t) = {}
      BY <1>2 DEF Unconflicted
    <3>4. KeysOf(t) \subseteq DOMAIN storage
      BY Shaped DEF KeysOf, ShapeInv, Tables
    <3> QED
      BY <3>1, <3>2, <3>3, <3>4 DEF Overlay
  <2>2. CASE Decide \/ Commit
    BY <2>2 DEF Decide, Commit
  <2> QED
    BY <2>1, <2>2 DEF CommitStep
<1>6. ReadAlone(t)'
  BY <1>1, <1>4 DEF Alone, ReadAlone, HasRead
<1>7. RanAlone(t)'
  BY <1>1, <1>3 DEF Alone, RanAlone
<1>8. Written(t)' = Written(t)
  BY <1>1, <1>3 DEF Written
<1>9. StoreAlone(t)'
  BY <1>1, <1>5, <1>8 DEF Alone, StoreAlone
<1> QED
  BY <1>6, <1>7, <1>9 DEF Alone

(* ... or t, whose writes go to the store one by one.                      *)
LEMMA OwnCommits ==
  ASSUME NEW t \in Txns, Alone(t), ShapeInv, PlaceInv, StageInv, CommitStep, UNCHANGED pool, txn = t
  PROVE  Alone(t)'
<1>1. spc \in {"commit", "apply"} /\ UNCHANGED <<task, reads, writes, epc, txn>> /\ Sched \in Executors
  BY Shaped DEF CommitStep, Decide, ApplyWrite, Commit, local, exec, sched, pool
<1>2. ReadAlone(t)'
  <2>1. \A w \in Threads : task[w] # t
    BY <1>1, SchedulersOwn
  <2> QED
    BY <1>1, <2>1 DEF ReadAlone
<1>3. CASE Decide
  <2>1. spc = "commit" /\ storage' = storage /\ Executed(t)
    BY <1>3 DEF Decide, StageInv
  <2>2. Written(t) = {}
    BY <2>1 DEF Written, Executed
  <2>3. CASE status[t] = "COMPLETED_C"
    <3>1. status' = status /\ spc' = "apply" /\ todo'[Sched] = DOMAIN writes[t]
      BY <1>1, <1>3, <2>3 DEF Decide, ShapeInv, TypeOK, BaseTypeOK
    <3>2. Written(t)' = {}
      BY <1>1, <2>3, <3>1 DEF Written
    <3>3. StoreAlone(t)'
      BY <2>1, <2>2, <3>2 DEF Alone, StoreAlone
    <3>4. RanAlone(t)'
      BY <1>1, <3>1 DEF Alone, RanAlone
    <3> QED
      BY <1>2, <3>3, <3>4 DEF Alone
  <2>4. CASE status[t] # "COMPLETED_C"
    <3>1. status[t] = "COMPLETED_A" /\ status'[t] = "ABORTED" /\ spc' = "result"
      BY <1>1, <1>3, <2>4 DEF Decide, ShapeInv, TypeOK, BaseTypeOK
    <3>2. Written(t)' = {}
      BY <1>1, <3>1 DEF Written
    <3>3. StoreAlone(t)'
      BY <2>1, <2>2, <3>2 DEF Alone, StoreAlone
    <3>4. RanAlone(t)'
      BY <1>1, <3>1 DEF Alone, RanAlone
    <3> QED
      BY <1>2, <3>3, <3>4 DEF Alone
  <2> QED
    BY <2>3, <2>4
<1>4. CASE ApplyWrite
  <2> DEFINE n == NextKey(Sched)
  <2>1. /\ spc = "apply" /\ spc' = "apply" /\ status' = status /\ status[t] = "COMPLETED_C" /\ todo[Sched] # {}
        /\ storage' = Overlay(Lookup(writes[t], n), storage) /\ todo'[Sched] = todo[Sched] \ {n}
    BY <1>1, <1>4 DEF ApplyWrite, StageInv, local, sched, ShapeInv, TypeOK, BaseTypeOK
  <2>2. n \in todo[Sched]
    BY <1>1, <2>1, FirstKey DEF ShapeInv, TypeOK, BaseTypeOK
  <2> HIDE DEF n
  <2>3. Written(t) = DOMAIN writes[t] \ todo[Sched]
    BY <2>1 DEF Written
  <2>4. Written(t)' = DOMAIN writes[t] \ (todo[Sched] \ {n})
    BY <1>1, <2>1 DEF Written
  <2>5. KeysOf(t) \subseteq DOMAIN storage
    BY Shaped DEF KeysOf, ShapeInv, Tables
  <2>6. \A k \in KeysOf(t) : storage'[k] = IF k = n /\ n \in DOMAIN writes[t] THEN writes[t][n] ELSE storage[k]
    BY <2>1, <2>5 DEF Overlay, Lookup
  <2>7. StoreAlone(t)'
    BY <1>1, <2>2, <2>3, <2>4, <2>6 DEF Alone, StoreAlone
  <2>8. RanAlone(t)'
    BY <1>1, <2>1 DEF Alone, RanAlone
  <2> QED
    BY <1>2, <2>7, <2>8 DEF Alone
<1>5. CASE Commit
  <2>1. /\ spc = "apply" /\ todo[Sched] = {} /\ status[t] = "COMPLETED_C" /\ status'[t] = "COMMITTED"
        /\ storage' = storage
    BY <1>1, <1>5 DEF Commit, StageInv, ShapeInv, TypeOK, BaseTypeOK
  <2>2. Written(t) = DOMAIN writes[t]
    <3>1. Written(t) = DOMAIN writes[t] \ {}
      BY <2>1 DEF Written
    <3> QED
      BY <3>1
  <2>5. Written(t)' = DOMAIN writes[t]
    <3>1. Written(t)' = DOMAIN writes'[t]
      BY <2>1 DEF Written
    <3> QED
      BY <1>1, <3>1
  <2>3. StoreAlone(t)'
    BY <1>1, <2>1, <2>2, <2>5 DEF Alone, StoreAlone
  <2>4. RanAlone(t)'
    BY <1>1, <2>1 DEF Alone, RanAlone
  <2> QED
    BY <1>2, <2>3, <2>4 DEF Alone
<1> QED
  BY <1>3, <1>4, <1>5 DEF CommitStep

LEMMA StepAlone ==
  ASSUME ShapeInv, PlaceInv, StageInv, AloneInv, [Next]_vars
  PROVE  AloneInv'
<1> SUFFICES ASSUME NEW t \in Txns, Unconflicted(t) PROVE Alone(t)'
  BY DEF AloneInv, Alone, Unconflicted, KeysOf
<1>1. Alone(t)
  BY DEF AloneInv, Alone
<1>2. ASSUME NEW w \in Threads, Executes(w) PROVE Alone(t)'
  BY <1>1, <1>2, OtherExecutes, OwnExecutes
<1>3. CASE CommitStep /\ UNCHANGED <<pool, ready_txns>>
  BY <1>1, <1>3, OtherCommits, OwnCommits
<1>4. CASE \/ Quiet
           \/ \E w \in Threads : Idle(w) \/ Dispatch(w)
           \/ \E s \in Txns : (AssignId(s) \/ PushRequest(s)) /\ UNCHANGED <<pool, ready_txns>>
           \/ (GetTxnResult \/ PushResult("completed")) /\ UNCHANGED <<pool, ready_txns>>
           \/ PopRequest
           \/ PopCompleted /\ completed_txns # <<>>
  BY <1>1, <1>4, PassingAlone
<1> QED
  BY <1>1, <1>2, <1>3, <1>4, StepCases, StartTaskAlone, HandsBackAlone

LEMMA InitAlone ==
  ASSUME Init
  PROVE  AloneInv
<1> SUFFICES ASSUME NEW t \in Txns PROVE ReadAlone(t) /\ RanAlone(t) /\ StoreAlone(t)
  BY DEF AloneInv
<1>1. storage = InitStorage /\ status[t] = "INCOMPLETE" /\ spc = "test" /\ t # NoTask
  BY LockingAssumption DEF Init, BaseInit
<1>2. \A w \in Threads : task[w] = NoTask
  BY DEF Init, PoolInit
<1>3. Written(t) = {}
  BY <1>1 DEF Written
<1> QED
  BY <1>1, <1>2, <1>3 DEF ReadAlone, RanAlone, StoreAlone

(* Although no lock excludes anybody, a transaction whose keys no other    *)
(* transaction writes, and whose writes no other uses, is executed by the  *)
(* locking scheduler as if it were alone, however the threads interleave.  *)
THEOREM UnconflictedRunsAlone == Spec => []UnconflictedAsIfAlone
<1> DEFINE Inv == ShapeInv /\ PlaceInv /\ StageInv /\ AloneInv
<1>1. Init => Inv
  BY InitShape, InitPlaces, InitStages, InitAlone
<1>2. Inv /\ [Next]_vars => Inv'
  BY StepShape, StepPlaces, StepStages, StepAlone
<1>3. Inv => UnconflictedAsIfAlone
  <2> SUFFICES ASSUME Inv, NEW t \in Txns, Unconflicted(t)
               PROVE  LET after == Overlay(RunWrites(Program[t], InitStorage), InitStorage)
                      IN  /\ status[t] \in {"COMPLETED_C", "COMMITTED", "COMPLETED_A", "ABORTED"} =>
                               (status[t] \in {"COMPLETED_C", "COMMITTED"}
                                  <=> RunStatus(Program[t], InitStorage) = "COMPLETED_C")
                          /\ status[t] = "COMMITTED" => \A k \in KeysOf(t) : storage[k] = after[k]
                          /\ status[t] # "COMMITTED" /\ t # txn =>
                               \A k \in KeysOf(t) : storage[k] = InitStorage[k]
    BY DEF UnconflictedAsIfAlone
  <2>1. RanAlone(t) /\ StoreAlone(t)
    BY DEF AloneInv
  <2>2. KeysOf(t) \subseteq DOMAIN InitStorage
    BY Shaped, LockingAssumption DEF KeysOf, InitStorage
  <2>3. ASSUME status[t] = "COMMITTED", NEW k \in KeysOf(t)
        PROVE  storage[k] = Overlay(RunWrites(Program[t], InitStorage), InitStorage)[k]
    <3>1. Written(t) = DOMAIN writes[t]
      BY <2>3 DEF Written
    <3>2. writes[t] = RunWrites(Program[t], InitStorage)
      BY <2>1, <2>3 DEF RanAlone
    <3> QED
      BY <2>1, <2>2, <2>3, <3>1, <3>2 DEF StoreAlone, Overlay
  <2>4. ASSUME status[t] # "COMMITTED", t # txn, NEW k \in KeysOf(t)
        PROVE  storage[k] = InitStorage[k]
    <3>1. Written(t) = {}
      BY <2>4 DEF Written
    <3> QED
      BY <2>1, <2>4, <3>1 DEF StoreAlone
  <2>5. status[t] \in {"COMPLETED_C", "COMMITTED", "COMPLETED_A", "ABORTED"} =>
          (status[t] \in {"COMPLETED_C", "COMMITTED"} <=> RunStatus(Program[t], InitStorage) = "COMPLETED_C")
    BY <2>1 DEF RanAlone
  <2> QED
    BY <2>3, <2>4, <2>5
<1> QED
  BY <1>1, <1>2, <1>3, PTL DEF Spec
=============================================================================
