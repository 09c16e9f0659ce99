------------------------- MODULE SerialSchedulerProofs -------------------------
(***************************************************************************)
(* The serial scheduler, for any set of transactions and any programs: the *)
(* transactions come out in the order of their ids, decided, and the store *)
(* is that of a serial execution, although a transaction is read, run and  *)
(* written in many steps while clients go on submitting.                   *)
(***************************************************************************)
EXTENDS SerialScheduler, FiniteSetTheorems, SequenceTheorems, WellFoundedInduction, TLAPS

(* Sequences of transactions, as the queues change.                        *)
LEMMA PushedElements ==
  ASSUME NEW S, NEW s \in Seq(S), NEW x \in S
  PROVE  /\ Append(s, x) \in Seq(S)
         /\ Elements(Append(s, x)) = Elements(s) \cup {x}
<1>1. /\ Append(s, x) \in Seq(S) /\ DOMAIN Append(s, x) = DOMAIN s \cup {Len(s) + 1}
      /\ Append(s, x)[Len(s) + 1] = x /\ \A i \in DOMAIN s : Append(s, x)[i] = s[i]
  OBVIOUS
<1> QED
  BY <1>1 DEF Elements

LEMMA PoppedElements ==
  ASSUME NEW S, NEW s \in Seq(S), s # <<>>
  PROVE  /\ Tail(s) \in Seq(S) /\ Head(s) \in S
         /\ Elements(s) = {Head(s)} \cup Elements(Tail(s))
<1>1. /\ Tail(s) \in Seq(S) /\ Head(s) \in S /\ Head(s) = s[1] /\ 1 \in DOMAIN s
      /\ \A i \in DOMAIN Tail(s) : i + 1 \in DOMAIN s /\ Tail(s)[i] = s[i + 1]
      /\ \A i \in DOMAIN s : i # 1 => i - 1 \in DOMAIN Tail(s) /\ Tail(s)[i - 1] = s[i]
  OBVIOUS
<1>2. Elements(Tail(s)) \subseteq Elements(s)
  BY <1>1 DEF Elements
<1>3. Elements(s) \subseteq {Head(s)} \cup Elements(Tail(s))
  BY <1>1 DEF Elements
<1> QED
  BY <1>1, <1>2, <1>3 DEF Elements

LEMMA NoElements == Elements(<<>>) = {}
BY DEF Elements

LEMMA TypedElements ==
  ASSUME NEW S, NEW s \in Seq(S)
  PROVE  Elements(s) \subseteq S
BY DEF Elements

(* The ids go up along a sequence.                                         *)
Increasing(s) == \A i, j \in DOMAIN s : i < j => unique_id[s[i]] < unique_id[s[j]]

(* The ids of one set lie below those of another.                          *)
Below(A, B) == \A a \in A, b \in B : unique_id[a] < unique_id[b]

LEMMA PushedIncreasing ==
  ASSUME NEW S, NEW s \in Seq(S), NEW x \in S, Increasing(s), Below(Elements(s), {x})
  PROVE  Increasing(Append(s, x))
<1>1. /\ DOMAIN s = 1..Len(s) /\ Len(s) \in Nat /\ DOMAIN Append(s, x) = 1..(Len(s) + 1)
      /\ Append(s, x)[Len(s) + 1] = x /\ \A i \in 1..Len(s) : Append(s, x)[i] = s[i]
  OBVIOUS
<1>2. \A i \in 1..Len(s) : unique_id[s[i]] < unique_id[x]
  BY <1>1 DEF Below, Elements
<1>3. \A i, j \in 1..Len(s) : i < j => unique_id[s[i]] < unique_id[s[j]]
  BY <1>1 DEF Increasing
<1> QED
  BY <1>1, <1>2, <1>3 DEF Increasing

LEMMA PoppedIncreasing ==
  ASSUME NEW S, NEW s \in Seq(S), s # <<>>, Increasing(s)
  PROVE  Increasing(Tail(s)) /\ Below({Head(s)}, Elements(Tail(s)))
<1>1. /\ DOMAIN s = 1..Len(s) /\ Len(s) \in Nat \ {0} /\ DOMAIN Tail(s) = 1..(Len(s) - 1)
      /\ Head(s) = s[1] /\ \A i \in 1..(Len(s) - 1) : Tail(s)[i] = s[i + 1]
  OBVIOUS
<1>2. Increasing(Tail(s))
  BY <1>1 DEF Increasing
<1>3. \A i \in 1..(Len(s) - 1) : unique_id[s[1]] < unique_id[s[i + 1]]
  BY <1>1 DEF Increasing
<1> QED
  BY <1>1, <1>2, <1>3 DEF Below, Elements

LEMMA JoinedIncreasing ==
  ASSUME NEW S, NEW s \in Seq(S), NEW r \in Seq(S), Increasing(s), Increasing(r),
         Below(Elements(s), Elements(r))
  PROVE  /\ s \o r \in Seq(S) /\ Increasing(s \o r)
         /\ Elements(s \o r) = Elements(s) \cup Elements(r)
<1>1. /\ DOMAIN s = 1..Len(s) /\ DOMAIN r = 1..Len(r) /\ Len(s) \in Nat /\ Len(r) \in Nat
      /\ s \o r \in Seq(S) /\ DOMAIN (s \o r) = 1..(Len(s) + Len(r))
      /\ \A i \in 1..Len(s) : (s \o r)[i] = s[i]
      /\ \A i \in 1..Len(r) : (s \o r)[Len(s) + i] = r[i]
  OBVIOUS
<1>2. \A i \in 1..(Len(s) + Len(r)) : i \in 1..Len(s) \/ (i - Len(s) \in 1..Len(r) /\ i = Len(s) + (i - Len(s)))
  BY <1>1
<1>3. Elements(s \o r) = Elements(s) \cup Elements(r)
  <2>1. \A i \in DOMAIN (s \o r) : (s \o r)[i] \in Elements(s) \cup Elements(r)
    BY <1>1, <1>2 DEF Elements
  <2>2. \A i \in DOMAIN s : s[i] \in Elements(s \o r)
    BY <1>1 DEF Elements
  <2>3. \A i \in DOMAIN r : Len(s) + i \in DOMAIN (s \o r) /\ (s \o r)[Len(s) + i] = r[i]
    BY <1>1
  <2>4. \A i \in DOMAIN r : r[i] \in Elements(s \o r)
    BY <2>3 DEF Elements
  <2> QED
    BY <2>1, <2>2, <2>4 DEF Elements
<1>4. ASSUME NEW i \in 1..(Len(s) + Len(r)), NEW j \in 1..(Len(s) + Len(r)), i < j
      PROVE  unique_id[(s \o r)[i]] < unique_id[(s \o r)[j]]
  <2>1. CASE j \in 1..Len(s)
    BY <1>1, <1>4, <2>1 DEF Increasing
  <2>2. CASE i \in 1..Len(s) /\ j \notin 1..Len(s)
    <3>1. s[i] \in Elements(s) /\ r[j - Len(s)] \in Elements(r)
      BY <1>1, <1>2, <2>2 DEF Elements
    <3> QED
      BY <1>1, <1>2, <2>2, <3>1 DEF Below
  <2>3. CASE i \notin 1..Len(s)
    <3>1. i - Len(s) \in 1..Len(r) /\ j - Len(s) \in 1..Len(r) /\ i - Len(s) < j - Len(s)
      BY <1>1, <1>2, <1>4, <2>3
    <3>2. (s \o r)[i] = r[i - Len(s)] /\ (s \o r)[j] = r[j - Len(s)]
      BY <1>1, <1>2, <1>4, <2>3, <3>1
    <3> QED
      BY <1>1, <3>1, <3>2 DEF Increasing
  <2> QED
    BY <1>1, <1>4, <2>1, <2>2, <2>3
<1> QED
  BY <1>1, <1>3, <1>4 DEF Increasing

(* A set<Key> that is not empty has a first key.                           *)
LEMMA FirstKey ==
  ASSUME NEW e \in Executors, todo[e] \subseteq Key, todo[e] # {}
  PROVE  NextKey(e) \in todo[e]
<1>1. todo[e] \subseteq Nat
  BY TxnAssumption
<1>2. PICK k \in todo[e] : \A j \in todo[e] : ~(<<j, k>> \in OpToRel(<, Nat))
  BY <1>1, NatLessThanWellFounded, WFMin
<1>3. \A j \in todo[e] : ~(j < k)
  <2> SUFFICES ASSUME NEW j \in todo[e] PROVE ~(j < k)
    OBVIOUS
  <2>1. j \in Nat /\ k \in Nat
    BY <1>1
  <2> QED
    BY <1>2, <2>1, Zenon DEF OpToRel
<1>4. \A j \in todo[e] : k <= j
  BY <1>1, <1>3
<1> QED
  BY <1>4 DEF NextKey

-----------------------------------------------------------------------------
(* The transaction the scheduler is at, and those it is through with.      *)
Current == IF txn = NoTxn THEN {} ELSE {txn}
Done    == Elements(returned) \cup Elements(txn_results)

(* The variables that are functions, whatever their values.                *)
Tables ==
  /\ storage = [k \in DOMAIN storage |-> storage[k]]
  /\ reads = [t \in Txns |-> reads[t]]
  /\ writes = [t \in Txns |-> writes[t]]

(* Ids are handed out one by one, under the mutex...                       *)
NumberInv ==
  /\ \A t \in Txns : cpc[t] = "numbered" <=> mutex = t
  /\ \A t \in Txns : cpc[t] = "numbered" => unique_id[t] = next_unique_id - 1
  /\ \A t \in Txns : cpc[t] # "new" => unique_id[t] < next_unique_id
  /\ \A s, t \in Txns : cpc[s] # "new" /\ cpc[t] # "new" /\ unique_id[s] = unique_id[t] => s = t
  /\ next_unique_id = Cardinality({t \in Txns : cpc[t] # "new"}) + 1
  /\ \A t \in Done \cup Current \cup Elements(txn_requests) : cpc[t] = "submitted"

(* ... and the pipeline keeps their order.                                 *)
PipeInv ==
  /\ Increasing(returned) /\ Increasing(txn_results) /\ Increasing(txn_requests)
  /\ Below(Elements(returned), Elements(txn_results))
  /\ Below(Done, Current)
  /\ Below(Done \cup Current, Elements(txn_requests))

Decided(t) == status[t] \in {"COMMITTED", "ABORTED"}

(* What has been read for the current transaction is what the store        *)
(* contains for the keys K.                                                *)
HasRead(K) == reads[txn] = [k \in K \cap DOMAIN storage |-> storage[k]]

(* The scheduler is at one transaction, and no other is half-way.          *)
RunInv ==
  /\ txn = NoTxn <=> spc \in {"test", "pop", "exited"}
  /\ epc[Sched] = "idle" <=> spc # "execute"
  /\ \A t \in Done : Decided(t)
  /\ \A t \in Txns \ (Done \cup Current) : status[t] = "INCOMPLETE" /\ reads[t] = NoEntries
  /\ epc[Sched] = "readset" =>
       /\ todo[Sched] \subseteq Program[txn].readset
       /\ HasRead(Program[txn].readset \ todo[Sched])
       /\ status[txn] = "INCOMPLETE"
  /\ epc[Sched] = "writeset" =>
       /\ todo[Sched] \subseteq Program[txn].writeset
       /\ HasRead(Program[txn].readset \cup (Program[txn].writeset \ todo[Sched]))
       /\ status[txn] = "INCOMPLETE"
  /\ epc[Sched] = "push" \/ spc = "commit" =>
       status[txn] \in {"COMPLETED_C", "COMPLETED_A"} /\ DOMAIN writes[txn] \subseteq Key
  /\ spc = "apply" =>
       /\ status[txn] = "COMPLETED_C"
       /\ DOMAIN writes[txn] \subseteq Key
       /\ todo[Sched] \subseteq DOMAIN writes[txn]
       /\ \A k \in DOMAIN writes[txn] \ todo[Sched] : k \in DOMAIN storage /\ storage[k] = writes[txn][k]
  /\ spc = "result" => Decided(txn)

(* The inductive invariant.                                                *)
SchedInv == TypeOK /\ Tables /\ NumberInv /\ PipeInv /\ RunInv

(* What steps that do not concern them leave of the parts.                 *)
LEMMA NumberStays ==
  ASSUME NumberInv, UNCHANGED client,
         (Done \cup Current \cup Elements(txn_requests))' \subseteq Done \cup Current \cup Elements(txn_requests)
  PROVE  NumberInv'
BY DEF NumberInv, client

LEMMA PipeStays ==
  ASSUME PipeInv, UNCHANGED <<unique_id, returned, txn_results, txn_requests, txn>>
  PROVE  PipeInv' /\ Done' = Done /\ Current' = Current /\ Elements(txn_requests)' = Elements(txn_requests)
<1>1. Done' = Done /\ Current' = Current
  BY DEF Done, Current
<1> QED
  BY <1>1 DEF PipeInv, Increasing, Below

LEMMA RunStays ==
  ASSUME RunInv, Tables, UNCHANGED <<storage, local, exec, sched>>, Done' = Done
  PROVE  RunInv' /\ Tables'
<1>1. Current' = Current
  BY DEF Current, sched
<1>2. UNCHANGED <<storage, status, reads, writes, epc, todo, spc, txn>>
  BY DEF local, exec, sched
<1>3. \A t : Decided(t)' <=> Decided(t)
  BY <1>2 DEF Decided
<1>4. \A K : HasRead(K)' <=> HasRead(K)
  BY <1>2 DEF HasRead
<1>5. RunInv'
  BY <1>1, <1>2, <1>3, <1>4 DEF RunInv
<1> QED
  BY <1>2, <1>5 DEF Tables

(* Facts on the types that most steps need.                                *)
LEMMA Typed ==
  ASSUME TypeOK
  PROVE  /\ returned \in Seq(Txns) /\ txn_results \in Seq(Txns) /\ txn_requests \in Seq(Txns)
         /\ completed_txns \in Seq(Txns)
         /\ Done \subseteq Txns /\ Elements(txn_requests) \subseteq Txns
         /\ Current \subseteq Txns
         /\ \A t \in Txns : t # NoTxn /\ unique_id[t] \in Nat
         /\ Sched \in Executors
<1>1. /\ returned \in Seq(Txns) /\ txn_results \in Seq(Txns) /\ txn_requests \in Seq(Txns)
      /\ completed_txns \in Seq(Txns)
  BY DEF TypeOK, BaseTypeOK
<1>2. Done \subseteq Txns /\ Elements(txn_requests) \subseteq Txns
  BY <1>1, TypedElements DEF Done
<1>3. Cardinality(Txns) \in Nat
  BY ProcessorAssumption, FS_CardinalityType
<1>4. \A t \in Txns : unique_id[t] \in Nat
  BY <1>3 DEF TypeOK, BaseTypeOK
<1> QED
  BY <1>1, <1>2, <1>4, ProcessorAssumption DEF TypeOK, BaseTypeOK, Current

(* The constructor and the destructor.                                     *)
LEMMA ObjectKeeps ==
  ASSUME SchedInv, EndConstructor \/ Stop \/ JoinScheduler
  PROVE  SchedInv'
<1>1. TypeOK /\ Tables /\ NumberInv /\ PipeInv /\ RunInv
  BY DEF SchedInv
<1>2. UNCHANGED <<storage, client, txnqueues, local, exec, sched>>
  BY DEF EndConstructor, Stop, JoinScheduler
<1>3. stopped' \in BOOLEAN /\ life' \in {"constructing", "running", "stopping", "deleted", "destroyed"}
  BY <1>1 DEF EndConstructor, Stop, JoinScheduler, TypeOK, BaseTypeOK
<1>4. TypeOK'
  BY <1>1, <1>2, <1>3 DEF TypeOK, BaseTypeOK, client, txnqueues, local, exec, sched
<1>5. PipeInv' /\ Done' = Done /\ Current' = Current /\ Elements(txn_requests)' = Elements(txn_requests)
  BY <1>1, <1>2, PipeStays DEF client, txnqueues, sched
<1>6. NumberInv'
  BY <1>1, <1>2, <1>5, NumberStays
<1>7. RunInv' /\ Tables'
  BY <1>1, <1>2, <1>5, RunStays
<1> QED
  BY <1>4, <1>5, <1>6, <1>7 DEF SchedInv

(* A client numbers its transaction: the id is greater than all others.    *)
LEMMA AssignKeeps ==
  ASSUME SchedInv, NEW t \in Txns, AssignId(t)
  PROVE  SchedInv'
<1>1. TypeOK /\ Tables /\ NumberInv /\ PipeInv /\ RunInv
  BY DEF SchedInv
<1>2. /\ cpc[t] = "new" /\ mutex = NoTxn /\ mutex' = t /\ next_unique_id' = next_unique_id + 1
      /\ UNCHANGED <<storage, txnqueues, local, exec, object, sched>>
  BY DEF AssignId
<1>3. /\ unique_id' = [unique_id EXCEPT ![t] = next_unique_id] /\ unique_id'[t] = next_unique_id
      /\ \A s \in Txns : s # t => unique_id'[s] = unique_id[s]
  BY <1>1 DEF AssignId, TypeOK, BaseTypeOK
<1>4. /\ cpc' = [cpc EXCEPT ![t] = "numbered"] /\ cpc'[t] = "numbered"
      /\ \A s \in Txns : s # t => cpc'[s] = cpc[s]
  BY <1>1 DEF AssignId, TypeOK, BaseTypeOK
<1>5. Done' = Done /\ Current' = Current /\ Elements(txn_requests)' = Elements(txn_requests)
  BY <1>2 DEF txnqueues, sched, Done, Current
<1>6. \A s \in Txns : cpc[s] # "numbered"
  BY <1>1, <1>2, ProcessorAssumption DEF NumberInv
<1> DEFINE N == {s \in Txns : cpc[s] # "new"}
<1>7. /\ {s \in Txns : cpc'[s] # "new"} = N \cup {t} /\ t \notin N
      /\ IsFiniteSet(N) /\ Cardinality(N) \in Nat /\ Cardinality(N \cup {t}) = Cardinality(N) + 1
      /\ Cardinality(N) + 1 <= Cardinality(Txns)
  <2>1. {s \in Txns : cpc'[s] # "new"} = N \cup {t} /\ t \notin N /\ N \cup {t} \subseteq Txns
    BY <1>2, <1>4
  <2>2. IsFiniteSet(N) /\ IsFiniteSet(N \cup {t}) /\ Cardinality(N \cup {t}) <= Cardinality(Txns)
    BY <2>1, ProcessorAssumption, FS_Subset
  <2>3. Cardinality(N \cup {t}) = Cardinality(N) + 1
    BY <2>1, <2>2, FS_AddElement
  <2>4. Cardinality(N) \in Nat
    BY <2>2, FS_CardinalityType
  <2> QED
    BY <2>1, <2>2, <2>3, <2>4
<1>8. next_unique_id = Cardinality(N) + 1 /\ Cardinality(Txns) \in Nat
  BY <1>1, ProcessorAssumption, FS_CardinalityType DEF NumberInv
<1> HIDE DEF N
<1>9. TypeOK'
  <2>1. next_unique_id' \in 1..(Cardinality(Txns) + 1)
    BY <1>2, <1>7, <1>8
  <2>2. unique_id' \in [Txns -> 0..Cardinality(Txns)]
    <3>1. next_unique_id \in 0..Cardinality(Txns)
      BY <1>7, <1>8
    <3> QED
      BY <1>1, <1>3, <3>1 DEF TypeOK, BaseTypeOK
  <2>3. mutex' \in Txns \cup {NoTxn} /\ cpc' \in [Txns -> {"new", "numbered", "submitted"}]
    BY <1>1, <1>2, <1>4 DEF TypeOK, BaseTypeOK
  <2> QED
    BY <1>1, <1>2, <2>1, <2>2, <2>3 DEF TypeOK, BaseTypeOK, txnqueues, local, exec, object, sched
<1>10. \A s \in Done \cup Current \cup Elements(txn_requests) : s \in Txns /\ s # t
  BY <1>1, <1>2, Typed DEF NumberInv
<1>11. NumberInv'
  <2>1. \A s \in Txns : cpc'[s] = "numbered" <=> mutex' = s
    BY <1>2, <1>4, <1>6
  <2>2. \A s \in Txns : cpc'[s] = "numbered" => unique_id'[s] = next_unique_id' - 1
    BY <1>2, <1>3, <1>4, <1>6, <1>7, <1>8
  <2>3. \A s \in Txns : cpc[s] # "new" => unique_id[s] < next_unique_id /\ unique_id[s] \in Nat
    BY <1>1, Typed DEF NumberInv
  <2>4. \A s \in Txns : cpc'[s] # "new" => unique_id'[s] < next_unique_id'
    BY <1>2, <1>3, <1>4, <1>7, <1>8, <2>3
  <2>5. \A s, r \in Txns : cpc'[s] # "new" /\ cpc'[r] # "new" /\ unique_id'[s] = unique_id'[r] => s = r
    <3>1. \A s \in Txns : cpc[s] # "new" => unique_id[s] # next_unique_id
      BY <1>7, <1>8, <2>3
    <3>2. \A s, r \in Txns : cpc[s] # "new" /\ cpc[r] # "new" /\ unique_id[s] = unique_id[r] => s = r
      BY <1>1 DEF NumberInv
    <3> QED
      BY <1>3, <1>4, <3>1, <3>2
  <2>6. next_unique_id' = Cardinality({s \in Txns : cpc'[s] # "new"}) + 1
    BY <1>2, <1>7, <1>8
  <2>7. \A s \in Done \cup Current \cup Elements(txn_requests) : cpc'[s] = "submitted"
    BY <1>1, <1>4, <1>10 DEF NumberInv
  <2> QED
    BY <1>5, <2>1, <2>2, <2>4, <2>5, <2>6, <2>7 DEF NumberInv
<1>12. PipeInv'
  <2>1. \A s \in Done \cup Current \cup Elements(txn_requests) : unique_id'[s] = unique_id[s]
    BY <1>3, <1>10
  <2>2. \A A, B : A \cup B \subseteq Done \cup Current \cup Elements(txn_requests) /\ Below(A, B) =>
          \A a \in A, b \in B : unique_id'[a] < unique_id'[b]
    BY <2>1 DEF Below
  <2>3. \A s : Elements(s) \subseteq Done \cup Current \cup Elements(txn_requests) /\ Increasing(s) =>
          \A i, j \in DOMAIN s : i < j => unique_id'[s[i]] < unique_id'[s[j]]
    BY <2>1 DEF Increasing, Elements
  <2>4. Elements(returned) \subseteq Done /\ Elements(txn_results) \subseteq Done
    BY DEF Done
  <2>5. UNCHANGED <<returned, txn_results, txn_requests>>
    BY <1>2 DEF txnqueues
  <2>6. Increasing(returned)' /\ Increasing(txn_results)' /\ Increasing(txn_requests)'
    BY <1>1, <2>3, <2>4, <2>5 DEF PipeInv, Increasing
  <2>7. Below(Elements(returned), Elements(txn_results))'
    BY <1>1, <2>2, <2>4, <2>5 DEF PipeInv, Below
  <2>8. Below(Done, Current)' /\ Below(Done \cup Current, Elements(txn_requests))'
    BY <1>1, <1>5, <2>2, <2>5 DEF PipeInv, Below
  <2> QED
    BY <2>6, <2>7, <2>8 DEF PipeInv
<1>13. RunInv' /\ Tables'
  BY <1>1, <1>2, <1>5, RunStays
<1> QED
  BY <1>9, <1>11, <1>12, <1>13 DEF SchedInv

(* It pushes it, still under the mutex: nobody with a greater id can be    *)
(* ahead of it in the queue.                                               *)
LEMMA PushRequestKeeps ==
  ASSUME SchedInv, NEW t \in Txns, PushRequest(t)
  PROVE  SchedInv'
<1>1. TypeOK /\ Tables /\ NumberInv /\ PipeInv /\ RunInv
  BY DEF SchedInv
<1>2. /\ cpc[t] = "numbered" /\ mutex' = NoTxn /\ txn_requests' = Append(txn_requests, t)
      /\ UNCHANGED <<storage, next_unique_id, unique_id, completed_txns, txn_results,
                     returned, local, exec, object, sched>>
  BY DEF PushRequest
<1>3. /\ cpc' = [cpc EXCEPT ![t] = "submitted"] /\ cpc'[t] = "submitted"
      /\ \A s \in Txns : s # t => cpc'[s] = cpc[s]
  BY <1>1 DEF PushRequest, TypeOK, BaseTypeOK
<1>4. /\ txn_requests \in Seq(Txns) /\ txn_requests' \in Seq(Txns)
      /\ Elements(txn_requests)' = Elements(txn_requests) \cup {t}
  BY <1>1, <1>2, Typed, PushedElements
<1>5. Done' = Done /\ Current' = Current
  BY <1>2 DEF sched, Done, Current
<1>6. TypeOK'
  BY <1>1, <1>2, <1>3, <1>4 DEF TypeOK, BaseTypeOK, local, exec, object, sched
<1>7. NumberInv'
  <2>1. {s \in Txns : cpc'[s] # "new"} = {s \in Txns : cpc[s] # "new"}
    BY <1>2, <1>3
  <2>2. \A s \in Txns : cpc[s] # "new" <=> cpc'[s] # "new"
    BY <1>2, <1>3
  <2>3. \A s \in Txns : cpc'[s] # "numbered" /\ s # NoTxn
    BY <1>1, <1>2, <1>3, ProcessorAssumption DEF NumberInv
  <2>4. \A s \in Done \cup Current \cup Elements(txn_requests) \cup {t} : cpc'[s] = "submitted"
    BY <1>1, <1>3, Typed DEF NumberInv
  <2> QED
    BY <1>1, <1>2, <1>4, <1>5, <2>1, <2>2, <2>3, <2>4 DEF NumberInv
<1>8. Below(Done \cup Current \cup Elements(txn_requests), {t})
  <2> SUFFICES ASSUME NEW s \in Done \cup Current \cup Elements(txn_requests)
               PROVE  unique_id[s] < unique_id[t]
    BY DEF Below
  <2>1. s \in Txns /\ unique_id[s] \in Nat /\ cpc[s] = "submitted" /\ next_unique_id \in Int
    BY <1>1, Typed DEF NumberInv, TypeOK, BaseTypeOK
  <2>2. unique_id[s] < next_unique_id /\ unique_id[t] = next_unique_id - 1 /\ unique_id[s] # unique_id[t]
    BY <1>1, <1>2, <2>1 DEF NumberInv
  <2> QED
    BY <2>1, <2>2
<1>9. PipeInv'
  <2>1. Increasing(txn_requests')
    BY <1>1, <1>2, <1>4, <1>8, PushedIncreasing DEF PipeInv, Below
  <2>2. Below(Done \cup Current, Elements(txn_requests) \cup {t})
    BY <1>1, <1>8 DEF PipeInv, Below
  <2> QED
    BY <1>1, <1>2, <1>4, <1>5, <2>1, <2>2 DEF PipeInv, Increasing, Below
<1>10. RunInv' /\ Tables'
  BY <1>1, <1>2, <1>5, RunStays
<1> QED
  BY <1>6, <1>7, <1>9, <1>10 DEF SchedInv

(* GetTxnResult takes the oldest result.                                   *)
LEMMA GetResultKeeps ==
  ASSUME SchedInv, GetTxnResult
  PROVE  SchedInv'
<1>1. TypeOK /\ Tables /\ NumberInv /\ PipeInv /\ RunInv
  BY DEF SchedInv
<1> DEFINE h == Head(txn_results)
<1>2. /\ txn_results # <<>> /\ returned' = Append(returned, h) /\ txn_results' = Tail(txn_results)
      /\ UNCHANGED <<storage, client, txn_requests, completed_txns, local, exec, object, sched>>
  BY DEF GetTxnResult
<1>3. /\ returned \in Seq(Txns) /\ txn_results \in Seq(Txns) /\ txn_results' \in Seq(Txns) /\ h \in Txns
      /\ Elements(txn_results) = {h} \cup Elements(txn_results')
  BY <1>1, <1>2, Typed, PoppedElements
<1>4. returned' \in Seq(Txns) /\ Elements(returned') = Elements(returned) \cup {h}
  BY <1>2, <1>3, PushedElements
<1>5. Increasing(txn_results') /\ Below({h}, Elements(txn_results'))
  BY <1>1, <1>2, <1>3, PoppedIncreasing DEF PipeInv
<1>6. Increasing(returned')
  BY <1>1, <1>2, <1>3, PushedIncreasing DEF PipeInv, Below
<1>7. Below(Elements(returned'), Elements(txn_results'))
  BY <1>1, <1>3, <1>4, <1>5 DEF PipeInv, Below
<1> HIDE DEF h
<1>8. Done' = Done /\ Current' = Current /\ Elements(txn_requests)' = Elements(txn_requests)
  BY <1>2, <1>3, <1>4 DEF Done, Current, sched
<1>9. TypeOK'
  BY <1>1, <1>2, <1>3, <1>4 DEF TypeOK, BaseTypeOK, client, local, exec, object, sched
<1>10. PipeInv'
  BY <1>1, <1>2, <1>5, <1>6, <1>7, <1>8 DEF PipeInv, Increasing, Below, client
<1>11. NumberInv'
  BY <1>1, <1>2, <1>8, NumberStays
<1>12. RunInv' /\ Tables'
  BY <1>1, <1>2, <1>8, RunStays
<1> QED
  BY <1>9, <1>10, <1>11, <1>12 DEF SchedInv

-----------------------------------------------------------------------------
(* The store and the programs: a program that is given the part of the     *)
(* store it declares does what it would do with all of it.                 *)
LEMMA ProgramKinds ==
  ASSUME NEW p, IsProgram(p)
  PROVE  /\ p.type = "Put" => p.writeset = DOMAIN p.m
         /\ p.type = "Expect" => p.readset = DOMAIN p.m
         /\ p.readset \subseteq Key /\ p.writeset \subseteq Key
<1>1. p.type = "Put" => p = Put(p.m)
  BY DEF IsProgram, Noop, Expect, Put, RMW
<1>2. p.type = "Expect" => p = Expect(p.m)
  BY DEF IsProgram, Noop, Expect, Put, RMW
<1>3. p.readset \subseteq Key /\ p.writeset \subseteq Key
  BY DEF IsProgram
<1>4. \A m : Put(m).writeset = DOMAIN m /\ Expect(m).readset = DOMAIN m
  BY DEF Put, Expect
<1>5. p.type = "Put" => p.writeset = DOMAIN p.m
  <2> HAVE p.type = "Put"
  <2>1. p.writeset = Put(p.m).writeset
    BY <1>1
  <2> QED
    BY <1>4, <2>1
<1>6. p.type = "Expect" => p.readset = DOMAIN p.m
  <2> HAVE p.type = "Expect"
  <2>1. p.readset = Expect(p.m).readset
    BY <1>2
  <2> QED
    BY <1>4, <2>1
<1> QED
  BY <1>3, <1>5, <1>6

LEMMA WritesInKeys ==
  ASSUME NEW p, IsProgram(p), NEW part
  PROVE  DOMAIN RunWrites(p, part) \subseteq Key
<1>1. CASE p.type = "Put"
  BY <1>1, ProgramKinds DEF RunWrites
<1>2. CASE p.type = "RMW"
  BY <1>2, ProgramKinds DEF RunWrites, Incremented
<1>3. CASE p.type # "Put" /\ p.type # "RMW"
  BY <1>3 DEF RunWrites, NoEntries
<1> QED
  BY <1>1, <1>2, <1>3

LEMMA RunsOnPart ==
  ASSUME NEW p, IsProgram(p), NEW store, NEW part,
         part = [k \in (p.readset \cup p.writeset) \cap DOMAIN store |-> store[k]]
  PROVE  RunStatus(p, part) = RunStatus(p, store) /\ RunWrites(p, part) = RunWrites(p, store)
<1>1. \A k \in p.readset \cup p.writeset :
        (k \in DOMAIN part <=> k \in DOMAIN store) /\ (k \in DOMAIN part => part[k] = store[k])
  OBVIOUS
<1>2. p.type = "Expect" => (Expected(p, part) <=> Expected(p, store))
  BY <1>1, ProgramKinds DEF Expected
<1>3. Incremented(p, part) = Incremented(p, store)
  BY <1>1 DEF Incremented
<1> QED
  BY <1>2, <1>3 DEF RunStatus, RunWrites

(* A store that has all the entries of a map is what writing them gives.   *)
LEMMA AllWritten ==
  ASSUME NEW entries, NEW store, store = [k \in DOMAIN store |-> store[k]],
         \A k \in DOMAIN entries : k \in DOMAIN store /\ store[k] = entries[k]
  PROVE  Overlay(entries, store) = store
<1>1. DOMAIN entries \cup DOMAIN store = DOMAIN store
  OBVIOUS
<1> QED
  BY <1>1 DEF Overlay

-----------------------------------------------------------------------------
(* The scheduler's loop test, and an empty queue.                          *)
LEMMA IdleKeeps ==
  ASSUME SchedInv, TestStopped \/ (PopRequest /\ txn_requests = <<>>)
  PROVE  SchedInv'
<1>1. TypeOK /\ Tables /\ NumberInv /\ PipeInv /\ RunInv
  BY DEF SchedInv
<1>2. /\ spc \in {"test", "pop"} /\ spc' \in {"test", "pop", "exited"}
      /\ UNCHANGED <<storage, client, txnqueues, local, exec, object, txn>>
  BY DEF TestStopped, PopRequest, txnqueues
<1>3. TypeOK'
  BY <1>1, <1>2 DEF TypeOK, BaseTypeOK, client, txnqueues, local, exec, object
<1>4. PipeInv' /\ Done' = Done /\ Current' = Current /\ Elements(txn_requests)' = Elements(txn_requests)
  BY <1>1, <1>2, PipeStays DEF client, txnqueues
<1>5. NumberInv'
  BY <1>1, <1>2, <1>4, NumberStays
<1>6. Tables'
  BY <1>1, <1>2 DEF Tables, local
<1>7. RunInv'
  <2>1. \A t : Decided(t)' <=> Decided(t)
    BY <1>2 DEF Decided, local
  <2>2. epc[Sched] = "idle" /\ epc' = epc
    BY <1>1, <1>2 DEF RunInv, exec
  <2> QED
    BY <1>1, <1>2, <1>4, <2>1, <2>2 DEF RunInv, local
<1> QED
  BY <1>3, <1>4, <1>5, <1>6, <1>7 DEF SchedInv

(* The scheduler takes the oldest request.                                 *)
LEMMA PopKeeps ==
  ASSUME SchedInv, PopRequest, txn_requests # <<>>
  PROVE  SchedInv'
<1>1. TypeOK /\ Tables /\ NumberInv /\ PipeInv /\ RunInv
  BY DEF SchedInv
<1> DEFINE h == Head(txn_requests)
<1>2. /\ spc = "pop" /\ spc' = "execute" /\ txn' = h /\ txn_requests' = Tail(txn_requests)
      /\ StartExecute(Sched, h)
      /\ UNCHANGED <<storage, client, completed_txns, txn_results, returned, local, object>>
  BY DEF PopRequest
<1>3. /\ txn_requests \in Seq(Txns) /\ txn_requests' \in Seq(Txns) /\ h \in Txns
      /\ Elements(txn_requests) = {h} \cup Elements(txn_requests')
  BY <1>1, <1>2, Typed, PoppedElements
<1>4. Increasing(txn_requests') /\ Below({h}, Elements(txn_requests'))
  BY <1>1, <1>2, <1>3, PoppedIncreasing DEF PipeInv
<1> HIDE DEF h
<1>5. /\ epc' = [epc EXCEPT ![Sched] = "readset"] /\ epc'[Sched] = "readset"
      /\ todo' = [todo EXCEPT ![Sched] = Program[h].readset] /\ todo'[Sched] = Program[h].readset
  BY <1>1, <1>2, ProcessorAssumption DEF StartExecute, TypeOK, BaseTypeOK
<1>6. Current = {} /\ Current' = {h} /\ Done' = Done /\ h # NoTxn
  BY <1>1, <1>2, <1>3, ProcessorAssumption DEF RunInv, Current, Done
<1>7. Program[h].readset \subseteq Key
  BY <1>3, ProcessorAssumption, ProgramKinds
<1>8. TypeOK'
  BY <1>1, <1>2, <1>3, <1>5, <1>7 DEF TypeOK, BaseTypeOK, client, local, object
<1>9. PipeInv'
  <2>1. UNCHANGED <<unique_id, returned, txn_results>>
    BY <1>2 DEF client
  <2>2. Below(Done, {h}) /\ Below(Done \cup {h}, Elements(txn_requests'))
    BY <1>1, <1>3, <1>4 DEF PipeInv, Below
  <2> QED
    BY <1>1, <1>4, <1>6, <2>1, <2>2 DEF PipeInv, Increasing, Below
<1>10. NumberInv'
  BY <1>1, <1>2, <1>3, <1>6, NumberStays
<1>11. Tables'
  BY <1>1, <1>2 DEF Tables, local
<1>12. RunInv'
  <2>1. UNCHANGED <<storage, status, reads, writes>>
    BY <1>2 DEF local
  <2>2. \A t : Decided(t)' <=> Decided(t)
    BY <2>1 DEF Decided
  <2>3. h \notin Done
    <3>1. unique_id[h] \in Nat
      BY <1>1, <1>3, Typed
    <3>2. h \in Done => unique_id[h] < unique_id[h]
      BY <1>1, <1>3 DEF PipeInv, Below
    <3> QED
      BY <3>1, <3>2
  <2>4. status'[h] = "INCOMPLETE" /\ reads'[h] = NoEntries
    BY <1>1, <1>3, <1>6, <2>1, <2>3 DEF RunInv
  <2>5. HasRead(Program[txn].readset \ todo[Sched])'
    <3>1. (Program[h].readset \ Program[h].readset) \cap DOMAIN storage = {}
      OBVIOUS
    <3>2. NoEntries = [k \in {} |-> storage[k]]
      BY DEF NoEntries
    <3> QED
      BY <1>2, <1>5, <2>1, <2>4, <3>1, <3>2 DEF HasRead
  <2>6. \A t \in Done : Decided(t)'
    BY <1>1, <2>2 DEF RunInv
  <2>7. \A t \in Txns \ (Done \cup {h}) : status'[t] = "INCOMPLETE" /\ reads'[t] = NoEntries
    BY <1>1, <1>6, <2>1 DEF RunInv
  <2> QED
    BY <1>2, <1>5, <1>6, <2>4, <2>5, <2>6, <2>7 DEF RunInv
<1> QED
  BY <1>8, <1>9, <1>10, <1>11, <1>12 DEF SchedInv

(* One step of the loops of ExecuteTxn.                                    *)
LEMMA ReadKeeps ==
  ASSUME SchedInv, ExecuteTxn, ReadKey(Sched, txn) \/ EndReadset(Sched, txn),
         UNCHANGED <<completed_txns, spc>>
  PROVE  SchedInv'
<1>1. TypeOK /\ Tables /\ NumberInv /\ PipeInv /\ RunInv
  BY DEF SchedInv
<1>2. /\ spc = "execute" /\ UNCHANGED <<client, txn_requests, txn_results, returned, object, txn>>
      /\ UNCHANGED <<storage, status, writes>>
  BY DEF ExecuteTxn, ReadKey, EndReadset, local
<1>3. txn \in Txns /\ Sched \in Executors /\ txn # NoTxn
  BY <1>1, <1>2, ProcessorAssumption DEF RunInv, TypeOK, BaseTypeOK
<1>4. PipeInv' /\ Done' = Done /\ Current' = Current /\ Elements(txn_requests)' = Elements(txn_requests)
  BY <1>1, <1>2, PipeStays DEF client
<1>5. NumberInv'
  BY <1>1, <1>2, <1>4, NumberStays
<1>6. Program[txn].readset \subseteq Key /\ Program[txn].writeset \subseteq Key
  BY <1>3, ProcessorAssumption, ProgramKinds
<1>7. \A t : Decided(t)' <=> Decided(t)
  BY <1>2 DEF Decided
<1>8. Current = {txn}
  BY <1>3 DEF Current
<1>9. CASE ReadKey(Sched, txn)
  <2> DEFINE n == NextKey(Sched)
  <2>1. /\ epc[Sched] \in {"readset", "writeset"} /\ todo[Sched] # {} /\ epc' = epc
        /\ reads' = [reads EXCEPT ![txn] = Overlay(Lookup(storage, n), reads[txn])]
        /\ todo' = [todo EXCEPT ![Sched] = todo[Sched] \ {n}]
    BY <1>9 DEF ReadKey
  <2>2. n \in todo[Sched] /\ todo[Sched] \subseteq Key
    BY <1>1, <1>3, <2>1, FirstKey DEF TypeOK, BaseTypeOK
  <2> HIDE DEF n
  <2>3. /\ reads' = [t \in Txns |-> reads'[t]] /\ reads'[txn] = Overlay(Lookup(storage, n), reads[txn])
        /\ \A t \in Txns : t # txn => reads'[t] = reads[t]
    BY <1>1, <1>3, <2>1 DEF Tables
  <2>4. todo' \in [Executors -> SUBSET Key] /\ todo'[Sched] = todo[Sched] \ {n}
    BY <1>1, <1>3, <2>1, <2>2 DEF TypeOK, BaseTypeOK
  <2>5. TypeOK'
    BY <1>1, <1>2, <2>1, <2>4 DEF TypeOK, BaseTypeOK, client, object
  <2>6. Tables'
    BY <1>1, <1>2, <2>3 DEF Tables
  <2>7. ASSUME NEW K, HasRead(K)
        PROVE  reads'[txn] = [j \in (K \cup {n}) \cap DOMAIN storage |-> storage[j]]
    <3>1. reads[txn] = [j \in K \cap DOMAIN storage |-> storage[j]]
      BY <2>7 DEF HasRead
    <3>2. Overlay(Lookup(storage, n), reads[txn]) = [j \in (K \cup {n}) \cap DOMAIN storage |-> storage[j]]
      BY <3>1 DEF Overlay, Lookup
    <3> QED
      BY <2>3, <3>2
  <2>8. epc[Sched] = "readset" => /\ todo'[Sched] \subseteq Program[txn].readset
                                  /\ HasRead(Program[txn].readset \ todo[Sched])'
    <3> HAVE epc[Sched] = "readset"
    <3>1. todo[Sched] \subseteq Program[txn].readset /\ HasRead(Program[txn].readset \ todo[Sched])
      BY <1>1 DEF RunInv
    <3>2. (Program[txn].readset \ todo[Sched]) \cup {n} = Program[txn].readset \ todo'[Sched]
      BY <2>2, <2>4, <3>1
    <3>3. reads'[txn] = [j \in (Program[txn].readset \ todo'[Sched]) \cap DOMAIN storage |-> storage[j]]
      BY <2>7, <3>1, <3>2
    <3>4. HasRead(Program[txn].readset \ todo[Sched])'
      BY <1>2, <3>3 DEF HasRead
    <3> QED
      BY <2>4, <3>1, <3>4
  <2>9. epc[Sched] = "writeset" =>
          /\ todo'[Sched] \subseteq Program[txn].writeset
          /\ HasRead(Program[txn].readset \cup (Program[txn].writeset \ todo[Sched]))'
    <3> HAVE epc[Sched] = "writeset"
    <3>1. /\ todo[Sched] \subseteq Program[txn].writeset
          /\ HasRead(Program[txn].readset \cup (Program[txn].writeset \ todo[Sched]))
      BY <1>1 DEF RunInv
    <3>2. (Program[txn].readset \cup (Program[txn].writeset \ todo[Sched])) \cup {n} =
            Program[txn].readset \cup (Program[txn].writeset \ todo'[Sched])
      BY <2>2, <2>4, <3>1
    <3>3. reads'[txn] = [j \in (Program[txn].readset \cup (Program[txn].writeset \ todo'[Sched]))
                              \cap DOMAIN storage |-> storage[j]]
      BY <2>7, <3>1, <3>2
    <3>4. HasRead(Program[txn].readset \cup (Program[txn].writeset \ todo[Sched]))'
      BY <1>2, <3>3 DEF HasRead
    <3> QED
      BY <2>4, <3>1, <3>4
  <2>10. \A t \in Txns \ (Done \cup Current) : status'[t] = "INCOMPLETE" /\ reads'[t] = NoEntries
    BY <1>1, <1>2, <1>8, <2>3 DEF RunInv
  <2>11. status'[txn] = "INCOMPLETE"
    BY <1>1, <1>2, <2>1 DEF RunInv
  <2>12. RunInv'
    BY <1>1, <1>2, <1>4, <1>7, <2>1, <2>8, <2>9, <2>10, <2>11 DEF RunInv
  <2> QED
    BY <1>4, <1>5, <2>5, <2>6, <2>12 DEF SchedInv
<1>10. CASE EndReadset(Sched, txn)
  <2>1. /\ epc[Sched] = "readset" /\ todo[Sched] = {} /\ reads' = reads
        /\ todo' = [todo EXCEPT ![Sched] = Program[txn].writeset]
        /\ epc' = [epc EXCEPT ![Sched] = "writeset"]
    BY <1>10 DEF EndReadset, local
  <2>2. /\ todo' \in [Executors -> SUBSET Key] /\ todo'[Sched] = Program[txn].writeset
        /\ epc' \in [Executors -> {"idle", "readset", "writeset", "push"}] /\ epc'[Sched] = "writeset"
    BY <1>1, <1>3, <1>6, <2>1 DEF TypeOK, BaseTypeOK
  <2>3. TypeOK'
    BY <1>1, <1>2, <2>2 DEF TypeOK, BaseTypeOK, client, object
  <2>4. Tables'
    BY <1>1, <1>2, <2>1 DEF Tables
  <2>5. HasRead(Program[txn].readset \cup (Program[txn].writeset \ todo[Sched]))'
    <3>1. HasRead(Program[txn].readset \ todo[Sched])
      BY <1>1, <2>1 DEF RunInv
    <3>2. Program[txn].readset \cup (Program[txn].writeset \ todo'[Sched]) = Program[txn].readset \ todo[Sched]
      BY <2>1, <2>2
    <3> QED
      BY <1>2, <2>1, <3>1, <3>2 DEF HasRead
  <2>6. RunInv'
    BY <1>1, <1>2, <1>4, <1>7, <2>1, <2>2, <2>5 DEF RunInv
  <2> QED
    BY <1>4, <1>5, <2>3, <2>4, <2>6 DEF SchedInv
<1> QED
  BY <1>9, <1>10

(* The program runs on what has been read, and does what it would have     *)
(* done with the whole store.                                              *)
LEMMA RunFacts ==
  ASSUME SchedInv, spc = "execute", RunTxn(Sched, txn)
  PROVE  /\ txn \in Txns /\ status[txn] = "INCOMPLETE"
         /\ status' = [status EXCEPT ![txn] = RunStatus(Program[txn], storage)]
         /\ writes' = [writes EXCEPT ![txn] = RunWrites(Program[txn], storage)]
         /\ DOMAIN RunWrites(Program[txn], storage) \subseteq Key
<1>1. TypeOK /\ RunInv /\ epc[Sched] = "writeset" /\ todo[Sched] = {}
  BY DEF SchedInv, RunTxn
<1>2. txn \in Txns /\ txn # NoTxn
  BY <1>1, ProcessorAssumption DEF RunInv, TypeOK, BaseTypeOK
<1>3. IsProgram(Program[txn])
  BY <1>2, ProcessorAssumption
<1>4. HasRead(Program[txn].readset \cup (Program[txn].writeset \ todo[Sched])) /\ status[txn] = "INCOMPLETE"
  BY <1>1 DEF RunInv
<1>5. reads[txn] = [k \in (Program[txn].readset \cup Program[txn].writeset) \cap DOMAIN storage |-> storage[k]]
  <2>1. Program[txn].writeset \ todo[Sched] = Program[txn].writeset
    BY <1>1
  <2> QED
    BY <1>4, <2>1 DEF HasRead
<1>6. /\ RunStatus(Program[txn], reads[txn]) = RunStatus(Program[txn], storage)
      /\ RunWrites(Program[txn], reads[txn]) = RunWrites(Program[txn], storage)
  BY <1>3, <1>5, RunsOnPart
<1> QED
  BY <1>2, <1>3, <1>4, <1>6, WritesInKeys DEF RunTxn

LEMMA RunKeeps ==
  ASSUME SchedInv, ExecuteTxn, RunTxn(Sched, txn), UNCHANGED <<completed_txns, spc>>
  PROVE  SchedInv'
<1>1. TypeOK /\ Tables /\ NumberInv /\ PipeInv /\ RunInv
  BY DEF SchedInv
<1>2. /\ spc = "execute" /\ UNCHANGED <<client, txn_requests, txn_results, returned, object, txn>>
      /\ UNCHANGED <<storage, todo>> /\ epc' = [epc EXCEPT ![Sched] = "push"]
      /\ epc[Sched] = "writeset"
  BY DEF ExecuteTxn, RunTxn
<1>3. /\ txn \in Txns /\ DOMAIN RunWrites(Program[txn], storage) \subseteq Key
      /\ status' = [status EXCEPT ![txn] = RunStatus(Program[txn], storage)]
      /\ writes' = [writes EXCEPT ![txn] = RunWrites(Program[txn], storage)]
  BY <1>2, RunFacts
<1>4. /\ status' \in [Txns -> {"INCOMPLETE", "COMPLETED_C", "COMPLETED_A", "COMMITTED", "ABORTED"}]
      /\ status'[txn] \in {"COMPLETED_C", "COMPLETED_A"} /\ \A t \in Txns : t # txn => status'[t] = status[t]
  BY <1>1, <1>3 DEF TypeOK, BaseTypeOK, RunStatus
<1>5. /\ writes' = [t \in Txns |-> writes'[t]] /\ DOMAIN writes'[txn] \subseteq Key
      /\ \A t \in Txns : t # txn => writes'[t] = writes[t]
  BY <1>1, <1>3 DEF Tables
<1>6. PICK r : reads' = [reads EXCEPT ![txn] = r]
  BY DEF RunTxn
<1>7. reads' = [t \in Txns |-> reads'[t]] /\ \A t \in Txns : t # txn => reads'[t] = reads[t]
  BY <1>1, <1>3, <1>6 DEF Tables
<1>8. epc' \in [Executors -> {"idle", "readset", "writeset", "push"}] /\ epc'[Sched] = "push"
  BY <1>1, <1>2, ProcessorAssumption DEF TypeOK, BaseTypeOK
<1>9. TypeOK'
  BY <1>1, <1>2, <1>4, <1>8 DEF TypeOK, BaseTypeOK, client, object
<1>10. Tables'
  BY <1>1, <1>2, <1>5, <1>7 DEF Tables
<1>11. PipeInv' /\ Done' = Done /\ Current' = Current /\ Elements(txn_requests)' = Elements(txn_requests)
  BY <1>1, <1>2, PipeStays DEF client
<1>12. NumberInv'
  BY <1>1, <1>2, <1>11, NumberStays
<1>13. Current = {txn} /\ txn \notin Done
  <2>1. Current = {txn}
    BY <1>1, <1>2 DEF RunInv, Current
  <2>2. txn \in Done => unique_id[txn] < unique_id[txn]
    BY <1>1, <2>1 DEF PipeInv, Below
  <2> QED
    BY <1>1, <1>3, <2>1, <2>2, Typed
<1>14. \A t \in Done : Decided(t)'
  <2>1. \A t \in Done : t \in Txns /\ t # txn /\ Decided(t)
    BY <1>1, <1>13, Typed DEF RunInv
  <2> QED
    BY <1>2, <1>4, <1>5, <2>1 DEF Decided
<1>15. \A t \in Txns \ (Done \cup Current) : status'[t] = "INCOMPLETE" /\ reads'[t] = NoEntries
  BY <1>1, <1>4, <1>7, <1>13 DEF RunInv
<1>16. RunInv'
  BY <1>1, <1>2, <1>4, <1>5, <1>8, <1>11, <1>14, <1>15 DEF RunInv
<1> QED
  BY <1>9, <1>10, <1>11, <1>12, <1>16 DEF SchedInv

LEMMA PushCompletedKeeps ==
  ASSUME SchedInv, ExecuteTxn, PushCompleted(Sched, txn), spc' = "commit"
  PROVE  SchedInv'
<1>1. TypeOK /\ Tables /\ NumberInv /\ PipeInv /\ RunInv
  BY DEF SchedInv
<1>2. /\ spc = "execute" /\ UNCHANGED <<client, txn_requests, txn_results, returned, object, txn>>
      /\ UNCHANGED <<storage, status, reads, writes, todo>> /\ epc' = [epc EXCEPT ![Sched] = "idle"]
      /\ epc[Sched] = "push" /\ completed_txns' = Append(completed_txns, txn)
  BY DEF ExecuteTxn, PushCompleted, local
<1>3. epc' \in [Executors -> {"idle", "readset", "writeset", "push"}] /\ epc'[Sched] = "idle"
  BY <1>1, <1>2, ProcessorAssumption DEF TypeOK, BaseTypeOK
<1>4. txn \in Txns
  BY <1>1, <1>2 DEF RunInv, TypeOK, BaseTypeOK
<1>5. completed_txns' \in Seq(Txns)
  BY <1>1, <1>2, <1>4, Typed, PushedElements
<1>6. TypeOK'
  BY <1>1, <1>2, <1>3, <1>5 DEF TypeOK, BaseTypeOK, client, object
<1>7. PipeInv' /\ Done' = Done /\ Current' = Current /\ Elements(txn_requests)' = Elements(txn_requests)
  BY <1>1, <1>2, PipeStays DEF client
<1>8. NumberInv'
  BY <1>1, <1>2, <1>7, NumberStays
<1>9. \A t : Decided(t)' <=> Decided(t)
  BY <1>2 DEF Decided
<1>10. RunInv'
  BY <1>1, <1>2, <1>3, <1>7, <1>9 DEF RunInv
<1>11. Tables'
  BY <1>1, <1>2 DEF Tables
<1> QED
  BY <1>6, <1>7, <1>8, <1>10, <1>11 DEF SchedInv

(* The steps from commit to result concern the current transaction alone.  *)
LEMMA CurrentAlone ==
  ASSUME SchedInv, spc \in {"commit", "apply", "result"}
  PROVE  /\ txn \in Txns /\ Current = {txn} /\ txn \notin Done /\ Done \subseteq Txns
         /\ epc[Sched] = "idle"
<1>1. TypeOK /\ PipeInv /\ RunInv
  BY DEF SchedInv
<1>2. Current = {txn} /\ txn \in Txns /\ epc[Sched] = "idle"
  BY <1>1 DEF RunInv, Current, TypeOK, BaseTypeOK
<1>3. txn \in Done => unique_id[txn] < unique_id[txn]
  BY <1>1, <1>2 DEF PipeInv, Below
<1> QED
  BY <1>1, <1>2, <1>3, Typed

LEMMA DecideKeeps ==
  ASSUME SchedInv, Decide
  PROVE  SchedInv'
<1>1. TypeOK /\ Tables /\ NumberInv /\ PipeInv /\ RunInv
  BY DEF SchedInv
<1>2. spc = "commit" /\ UNCHANGED <<storage, client, txnqueues, reads, writes, epc, object, txn>>
  BY DEF Decide
<1>3. txn \in Txns /\ Current = {txn} /\ txn \notin Done /\ Done \subseteq Txns /\ epc[Sched] = "idle"
  BY <1>2, CurrentAlone
<1>4. PipeInv' /\ Done' = Done /\ Current' = Current /\ Elements(txn_requests)' = Elements(txn_requests)
  BY <1>1, <1>2, PipeStays DEF client, txnqueues
<1>5. NumberInv'
  BY <1>1, <1>2, <1>4, NumberStays
<1>6. Tables'
  BY <1>1, <1>2 DEF Tables
<1>7. DOMAIN writes[txn] \subseteq Key /\ Sched \in Executors
  BY <1>1, <1>2, ProcessorAssumption DEF RunInv
<1>8. CASE status[txn] = "COMPLETED_C"
  <2>1. todo' = [todo EXCEPT ![Sched] = DOMAIN writes[txn]] /\ spc' = "apply" /\ status' = status
    BY <1>8 DEF Decide
  <2>2. todo' \in [Executors -> SUBSET Key] /\ todo'[Sched] = DOMAIN writes[txn]
    BY <1>1, <1>7, <2>1 DEF TypeOK, BaseTypeOK
  <2>3. TypeOK'
    BY <1>1, <1>2, <2>1, <2>2 DEF TypeOK, BaseTypeOK, client, txnqueues, object
  <2>4. \A t : Decided(t)' <=> Decided(t)
    BY <1>2, <2>1 DEF Decided
  <2>5. RunInv'
    BY <1>1, <1>2, <1>3, <1>4, <1>7, <1>8, <2>1, <2>2, <2>4 DEF RunInv
  <2> QED
    BY <1>4, <1>5, <1>6, <2>3, <2>5 DEF SchedInv
<1>9. CASE status[txn] # "COMPLETED_C"
  <2>1. status' = [status EXCEPT ![txn] = "ABORTED"] /\ spc' = "result" /\ todo' = todo
    BY <1>9 DEF Decide
  <2>2. /\ status' \in [Txns -> {"INCOMPLETE", "COMPLETED_C", "COMPLETED_A", "COMMITTED", "ABORTED"}]
        /\ status'[txn] = "ABORTED" /\ \A t \in Txns : t # txn => status'[t] = status[t]
    BY <1>1, <1>3, <2>1 DEF TypeOK, BaseTypeOK
  <2>3. TypeOK'
    BY <1>1, <1>2, <2>1, <2>2 DEF TypeOK, BaseTypeOK, client, txnqueues, object
  <2>4. Decided(txn)' /\ \A t \in Done : Decided(t)'
    BY <1>1, <1>2, <1>3, <2>2 DEF RunInv, Decided
  <2>5. RunInv'
    BY <1>1, <1>2, <1>3, <1>4, <2>1, <2>2, <2>4 DEF RunInv
  <2> QED
    BY <1>4, <1>5, <1>6, <2>3, <2>5 DEF SchedInv
<1> QED
  BY <1>8, <1>9

LEMMA ApplyKeeps ==
  ASSUME SchedInv, ApplyWrite
  PROVE  /\ SchedInv'
         /\ Overlay(writes[txn], storage') = Overlay(writes[txn], storage)
<1>1. TypeOK /\ Tables /\ NumberInv /\ PipeInv /\ RunInv
  BY DEF SchedInv
<1> DEFINE n == NextKey(Sched)
<1>2. /\ spc = "apply" /\ todo[Sched] # {}
      /\ storage' = Overlay(Lookup(writes[txn], n), storage)
      /\ todo' = [todo EXCEPT ![Sched] = todo[Sched] \ {n}]
      /\ UNCHANGED <<client, txnqueues, local, epc, object, sched>>
  BY DEF ApplyWrite
<1>3. txn \in Txns /\ Current = {txn} /\ txn \notin Done /\ Done \subseteq Txns /\ epc[Sched] = "idle"
  BY <1>2, CurrentAlone
<1>4. PipeInv' /\ Done' = Done /\ Current' = Current /\ Elements(txn_requests)' = Elements(txn_requests)
  BY <1>1, <1>2, PipeStays DEF client, txnqueues, sched
<1>5. NumberInv'
  BY <1>1, <1>2, <1>4, NumberStays
<1>6. n \in todo[Sched] /\ todo[Sched] \subseteq Key /\ Sched \in Executors
  BY <1>1, <1>2, ProcessorAssumption, FirstKey DEF TypeOK, BaseTypeOK
<1> HIDE DEF n
<1>7. n \in DOMAIN writes[txn] /\ n \in Key
  BY <1>1, <1>2, <1>6 DEF RunInv
<1>8. /\ DOMAIN storage' = DOMAIN storage \cup {n}
      /\ storage' = [j \in DOMAIN storage' |-> storage'[j]]
      /\ storage'[n] = writes[txn][n] /\ \A j \in DOMAIN storage : j # n => storage'[j] = storage[j]
      /\ Overlay(writes[txn], storage') = Overlay(writes[txn], storage)
  <2>1. Lookup(writes[txn], n) = [j \in {n} |-> writes[txn][j]]
    BY <1>7 DEF Lookup
  <2>2. storage' = [j \in {n} \cup DOMAIN storage |-> IF j = n THEN writes[txn][n] ELSE storage[j]]
    BY <1>2, <2>1 DEF Overlay
  <2>3. Overlay(writes[txn], storage') = Overlay(writes[txn], storage)
    BY <1>7, <2>2 DEF Overlay
  <2> QED
    BY <2>2, <2>3
<1>9. todo' \in [Executors -> SUBSET Key] /\ todo'[Sched] = todo[Sched] \ {n}
  BY <1>1, <1>2, <1>6 DEF TypeOK, BaseTypeOK
<1>10. TypeOK'
  BY <1>1, <1>2, <1>7, <1>8, <1>9 DEF TypeOK, BaseTypeOK, client, txnqueues, local, object, sched
<1>11. Tables'
  BY <1>1, <1>2, <1>8 DEF Tables, local
<1>12. UNCHANGED <<status, reads, writes, spc, txn, epc>>
  BY <1>2 DEF local, sched
<1>13. \A t \in Done : Decided(t)'
  BY <1>1, <1>8, <1>12 DEF RunInv, Decided
<1>14. \A k \in DOMAIN writes[txn] \ todo'[Sched] : k \in DOMAIN storage' /\ storage'[k] = writes[txn][k]
  BY <1>1, <1>2, <1>7, <1>8, <1>9 DEF RunInv
<1>15. RunInv'
  BY <1>1, <1>2, <1>3, <1>4, <1>9, <1>12, <1>13, <1>14 DEF RunInv
<1> QED
  BY <1>4, <1>5, <1>8, <1>10, <1>11, <1>15 DEF SchedInv

LEMMA CommitKeeps ==
  ASSUME SchedInv, Commit
  PROVE  SchedInv'
<1>1. TypeOK /\ Tables /\ NumberInv /\ PipeInv /\ RunInv
  BY DEF SchedInv
<1>2. /\ spc = "apply" /\ todo[Sched] = {} /\ spc' = "result"
      /\ status' = [status EXCEPT ![txn] = "COMMITTED"]
      /\ UNCHANGED <<storage, client, txnqueues, reads, writes, exec, object, txn>>
  BY DEF Commit
<1>3. txn \in Txns /\ Current = {txn} /\ txn \notin Done /\ Done \subseteq Txns /\ epc[Sched] = "idle"
  BY <1>2, CurrentAlone
<1>4. PipeInv' /\ Done' = Done /\ Current' = Current /\ Elements(txn_requests)' = Elements(txn_requests)
  BY <1>1, <1>2, PipeStays DEF client, txnqueues
<1>5. NumberInv'
  BY <1>1, <1>2, <1>4, NumberStays
<1>6. Tables'
  BY <1>1, <1>2 DEF Tables
<1>7. /\ status' \in [Txns -> {"INCOMPLETE", "COMPLETED_C", "COMPLETED_A", "COMMITTED", "ABORTED"}]
      /\ status'[txn] = "COMMITTED" /\ \A t \in Txns : t # txn => status'[t] = status[t]
  BY <1>1, <1>2, <1>3 DEF TypeOK, BaseTypeOK
<1>8. TypeOK'
  BY <1>1, <1>2, <1>7 DEF TypeOK, BaseTypeOK, client, txnqueues, exec, object
<1>9. Decided(txn)' /\ \A t \in Done : Decided(t)'
  BY <1>1, <1>2, <1>3, <1>7 DEF RunInv, Decided
<1>10. RunInv'
  BY <1>1, <1>2, <1>3, <1>4, <1>7, <1>9 DEF RunInv, exec
<1> QED
  BY <1>4, <1>5, <1>6, <1>8, <1>10 DEF SchedInv

(* The result is pushed after every older one.                             *)
LEMMA ResultKeeps ==
  ASSUME SchedInv, PushResult("test")
  PROVE  SchedInv'
<1>1. TypeOK /\ Tables /\ NumberInv /\ PipeInv /\ RunInv
  BY DEF SchedInv
<1>2. /\ spc = "result" /\ spc' = "test" /\ txn' = NoTxn /\ txn_results' = Append(txn_results, txn)
      /\ UNCHANGED <<storage, client, txn_requests, completed_txns, returned, local, exec, object>>
  BY DEF PushResult
<1>3. txn \in Txns /\ Current = {txn} /\ txn \notin Done /\ Done \subseteq Txns /\ epc[Sched] = "idle"
  BY <1>2, CurrentAlone
<1>4. /\ txn_results \in Seq(Txns) /\ txn_results' \in Seq(Txns)
      /\ Elements(txn_results') = Elements(txn_results) \cup {txn}
  BY <1>1, <1>2, <1>3, Typed, PushedElements
<1>5. Done' = Done \cup {txn} /\ Current' = {}
  BY <1>2, <1>4 DEF Done, Current
<1>6. TypeOK'
  BY <1>1, <1>2, <1>4 DEF TypeOK, BaseTypeOK, client, local, exec, object
<1>7. PipeInv'
  <2>1. UNCHANGED <<unique_id, returned, txn_requests>>
    BY <1>2 DEF client
  <2>2. Below(Elements(txn_results), {txn}) /\ Below(Elements(returned), {txn})
    BY <1>1, <1>3 DEF PipeInv, Below, Done
  <2>3. Increasing(txn_results')
    BY <1>1, <1>2, <1>3, <1>4, <2>2, PushedIncreasing DEF PipeInv
  <2>4. Below(Elements(returned), Elements(txn_results'))
    BY <1>1, <1>4, <2>2 DEF PipeInv, Below
  <2>5. Below(Done \cup {txn}, Elements(txn_requests))
    BY <1>1, <1>3 DEF PipeInv, Below
  <2> QED
    BY <1>1, <1>5, <2>1, <2>3, <2>4, <2>5 DEF PipeInv, Increasing, Below
<1>8. NumberInv'
  BY <1>1, <1>2, <1>3, <1>5, NumberStays
<1>9. Tables'
  BY <1>1, <1>2 DEF Tables, local
<1>10. RunInv'
  <2>1. UNCHANGED <<storage, status, reads, writes, epc>>
    BY <1>2 DEF local, exec
  <2>2. \A t : Decided(t)' <=> Decided(t)
    BY <2>1 DEF Decided
  <2>3. \A t \in Done \cup {txn} : Decided(t)'
    BY <1>1, <1>2, <2>2 DEF RunInv
  <2>4. \A t \in Txns \ (Done \cup {txn}) : status'[t] = "INCOMPLETE" /\ reads'[t] = NoEntries
    BY <1>1, <1>3, <2>1 DEF RunInv
  <2> QED
    BY <1>2, <1>3, <1>5, <2>1, <2>3, <2>4 DEF RunInv
<1> QED
  BY <1>6, <1>7, <1>8, <1>9, <1>10 DEF SchedInv

LEMMA StepKeepsSched ==
  ASSUME SchedInv, [Next]_vars
  PROVE  SchedInv'
<1>1. CASE ClientStep
  BY <1>1, ObjectKeeps, GetResultKeeps, AssignKeeps, PushRequestKeeps DEF ClientStep
<1>2. CASE TestStopped \/ PopRequest
  BY <1>2, IdleKeeps, PopKeeps
<1>3. CASE ExecuteTxn
  <2>1. \/ ExecuteBody(Sched, txn) /\ UNCHANGED <<completed_txns, spc>>
        \/ PushCompleted(Sched, txn) /\ spc' = "commit"
    BY <1>3 DEF ExecuteTxn
  <2> QED
    BY <1>3, <2>1, ReadKeeps, RunKeeps, PushCompletedKeeps DEF ExecuteBody
<1>4. CASE CommitStep
  BY <1>4, DecideKeeps, ApplyKeeps, CommitKeeps DEF CommitStep
<1>5. CASE PushResult("test")
  BY <1>5, ResultKeeps
<1>6. CASE UNCHANGED vars
  <2>1. UNCHANGED <<storage, client, txnqueues, local, exec, object, sched>>
    BY <1>6 DEF vars, base
  <2>2. TypeOK /\ Tables /\ NumberInv /\ PipeInv /\ RunInv
    BY DEF SchedInv
  <2>3. TypeOK'
    BY <2>1, <2>2 DEF TypeOK, BaseTypeOK, client, txnqueues, local, exec, object, sched
  <2>4. PipeInv' /\ Done' = Done /\ Current' = Current /\ Elements(txn_requests)' = Elements(txn_requests)
    BY <2>1, <2>2, PipeStays DEF client, txnqueues, sched
  <2>5. NumberInv'
    BY <2>1, <2>2, <2>4, NumberStays
  <2>6. RunInv' /\ Tables'
    BY <2>1, <2>2, <2>4, RunStays
  <2> QED
    BY <2>3, <2>4, <2>5, <2>6 DEF SchedInv
<1> QED
  BY <1>1, <1>2, <1>3, <1>4, <1>5, <1>6 DEF Next, RunSerialScheduler

LEMMA SchedInvariant == Spec => []SchedInv
<1>1. Init => SchedInv
  <2> SUFFICES ASSUME Init PROVE SchedInv
    OBVIOUS
  <2>1. Cardinality(Txns) \in Nat /\ Sched \in Executors /\ NoTxn \notin Txns
    BY ProcessorAssumption, FS_CardinalityType
  <2>2. /\ next_unique_id = 1 /\ mutex = NoTxn /\ txn = NoTxn /\ spc = "test" /\ life = "constructing"
        /\ txn_requests = <<>> /\ completed_txns = <<>> /\ txn_results = <<>> /\ returned = <<>>
        /\ unique_id = [t \in Txns |-> 0] /\ cpc = [t \in Txns |-> "new"]
        /\ status = [t \in Txns |-> "INCOMPLETE"] /\ stopped \in BOOLEAN
        /\ epc = [e \in Executors |-> "idle"] /\ todo = [e \in Executors |-> {}]
    BY ProcessorAssumption DEF Init, BaseInit
  <2>3. storage = [k \in InitKeys |-> 0]
    BY DEF Init, BaseInit, InitStorage
  <2>4. {txn_requests, completed_txns, txn_results, returned} \subseteq Seq(Txns)
    BY <2>2, EmptySeq
  <2>5. TypeOK
    BY <2>1, <2>2, <2>3, <2>4, TxnAssumption DEF TypeOK, BaseTypeOK
  <2>6. Tables
    BY <2>3 DEF Tables, Init, BaseInit
  <2>7. Done = {} /\ Current = {} /\ Elements(txn_requests) = {}
    BY <2>2, NoElements DEF Done, Current
  <2>8. NumberInv
    <3>1. {t \in Txns : cpc[t] # "new"} = {}
      BY <2>2
    <3>2. Cardinality({t \in Txns : cpc[t] # "new"}) = 0
      BY <3>1, FS_EmptySet
    <3> QED
      BY <2>1, <2>2, <2>7, <3>2 DEF NumberInv
  <2>9. PipeInv
    BY <2>2, <2>7, NoElements DEF PipeInv, Increasing, Below
  <2>10. reads = [t \in Txns |-> NoEntries] /\ \A t \in Txns : status[t] = "INCOMPLETE" /\ reads[t] = NoEntries
    BY <2>2 DEF Init, BaseInit
  <2>11. RunInv
    BY <2>1, <2>2, <2>7, <2>10 DEF RunInv
  <2> QED
    BY <2>5, <2>6, <2>8, <2>9, <2>11 DEF SchedInv
<1>2. SchedInv /\ [Next]_vars => SchedInv'
  BY StepKeepsSched
<1> QED
  BY <1>1, <1>2, PTL DEF Spec

(* The order of the whole pipeline from the order of its parts.            *)
LEMMA WholeInOrder ==
  ASSUME SchedInv
  PROVE  InIdOrder
<1>1. TypeOK /\ PipeInv
  BY DEF SchedInv
<1>2. /\ returned \in Seq(Txns) /\ txn_results \in Seq(Txns) /\ txn_requests \in Seq(Txns)
      /\ Current \subseteq Txns
  BY <1>1, Typed
<1> DEFINE running == IF txn = NoTxn THEN <<>> ELSE <<txn>>
<1>3. running \in Seq(Txns) /\ Elements(running) = Current /\ Increasing(running)
  <2>1. CASE txn = NoTxn
    BY <2>1, NoElements, EmptySeq DEF Current, Increasing
  <2>2. CASE txn # NoTxn
    <3>1. txn \in Txns /\ running = <<txn>> /\ DOMAIN <<txn>> = {1} /\ <<txn>>[1] = txn
      BY <1>2, <2>2 DEF Current
    <3> QED
      BY <2>2, <3>1 DEF Current, Elements, Increasing
  <2> QED
    BY <2>1, <2>2
<1> HIDE DEF running
<1>4. /\ returned \o txn_results \in Seq(Txns) /\ Increasing(returned \o txn_results)
      /\ Elements(returned \o txn_results) = Done
  BY <1>1, <1>2, JoinedIncreasing DEF PipeInv, Done
<1> DEFINE done == returned \o txn_results
<1>5. /\ done \o running \in Seq(Txns) /\ Increasing(done \o running)
      /\ Elements(done \o running) = Done \cup Current
  <2>1. done \in Seq(Txns) /\ Increasing(done) /\ Elements(done) = Done
    BY <1>4
  <2>2. Below(Done, Current)
    BY <1>1 DEF PipeInv
  <2> HIDE DEF done
  <2>3. Below(Elements(done), Elements(running))
    BY <1>3, <2>1, <2>2
  <2> QED
    BY <1>3, <2>1, <2>3, JoinedIncreasing
<1>6. Increasing(((returned \o txn_results) \o running) \o txn_requests)
  BY <1>1, <1>2, <1>5, JoinedIncreasing DEF PipeInv
<1> QED
  BY <1>6 DEF InIdOrder, Increasing, running

-----------------------------------------------------------------------------
(* What the commits make of the store.                                     *)
(* What the store holds, in terms of an order of transactions, of the keys *)
(* of each that have been written, and of its writes.                      *)
StoreOf(order, written, entries, store) ==
  \A k \in Key :
    \/ /\ Lookup(store, k) = Lookup(InitStorage, k)
       /\ \A i \in DOMAIN order : k \notin written[order[i]]
    \/ \E i \in DOMAIN order :
         /\ k \in written[order[i]]
         /\ Lookup(store, k) = Lookup(entries[order[i]], k)
         /\ \A j \in DOMAIN order : i < j => k \notin written[order[j]]

LEMMA StoreKept ==
  ASSUME NEW order, NEW store, NEW written, NEW entries, NEW written2, NEW entries2,
         StoreOf(order, written, entries, store),
         \A t \in Elements(order) : /\ written2[t] = written[t]
                                    /\ written[t] # {} => entries2[t] = entries[t]
  PROVE  StoreOf(order, written2, entries2, store)
<1>1. \A i \in DOMAIN order : /\ written2[order[i]] = written[order[i]]
                              /\ written[order[i]] # {} => entries2[order[i]] = entries[order[i]]
  BY DEF Elements
<1> SUFFICES ASSUME NEW k \in Key
             PROVE  \/ /\ Lookup(store, k) = Lookup(InitStorage, k)
                       /\ \A i \in DOMAIN order : k \notin written2[order[i]]
                    \/ \E i \in DOMAIN order :
                         /\ k \in written2[order[i]]
                         /\ Lookup(store, k) = Lookup(entries2[order[i]], k)
                         /\ \A j \in DOMAIN order : i < j => k \notin written2[order[j]]
  BY DEF StoreOf
<1>2. CASE /\ Lookup(store, k) = Lookup(InitStorage, k)
           /\ \A i \in DOMAIN order : k \notin written[order[i]]
  BY <1>1, <1>2
<1>3. ASSUME NEW i \in DOMAIN order, k \in written[order[i]],
             Lookup(store, k) = Lookup(entries[order[i]], k),
             \A j \in DOMAIN order : i < j => k \notin written[order[j]]
      PROVE  /\ k \in written2[order[i]] /\ Lookup(store, k) = Lookup(entries2[order[i]], k)
             /\ \A j \in DOMAIN order : i < j => k \notin written2[order[j]]
  <2>1. entries2[order[i]] = entries[order[i]]
    BY <1>1, <1>3
  <2> QED
    BY <1>1, <1>3, <2>1
<1> QED
  BY <1>2, <1>3 DEF StoreOf

(* A transaction that has written nothing yet joins the order.             *)
LEMMA StoreJoined ==
  ASSUME NEW S, NEW order \in Seq(S), NEW x \in S, NEW store, NEW written, NEW entries,
         StoreOf(order, written, entries, store), written[x] = {}
  PROVE  StoreOf(Append(order, x), written, entries, store)
<1> DEFINE more == Append(order, x)
<1>1. /\ DOMAIN order = 1..Len(order) /\ Len(order) \in Nat
      /\ DOMAIN more = 1..(Len(order) + 1) /\ more[Len(order) + 1] = x
      /\ \A i \in DOMAIN order : more[i] = order[i]
  OBVIOUS
<1> HIDE DEF more
<1>2. \A k \in Key : \A i \in DOMAIN more : k \in written[more[i]] => i \in DOMAIN order /\ k \in written[order[i]]
  BY <1>1
<1>3. DOMAIN order \subseteq DOMAIN more
  BY <1>1
<1> SUFFICES ASSUME NEW k \in Key
             PROVE  \/ /\ Lookup(store, k) = Lookup(InitStorage, k)
                       /\ \A i \in DOMAIN more : k \notin written[more[i]]
                    \/ \E i \in DOMAIN more :
                         /\ k \in written[more[i]]
                         /\ Lookup(store, k) = Lookup(entries[more[i]], k)
                         /\ \A j \in DOMAIN more : i < j => k \notin written[more[j]]
  BY DEF StoreOf, more
<1>4. CASE /\ Lookup(store, k) = Lookup(InitStorage, k)
           /\ \A i \in DOMAIN order : k \notin written[order[i]]
  BY <1>2, <1>4
<1>5. ASSUME NEW i \in DOMAIN order, k \in written[order[i]],
             Lookup(store, k) = Lookup(entries[order[i]], k),
             \A j \in DOMAIN order : i < j => k \notin written[order[j]]
      PROVE  /\ i \in DOMAIN more /\ k \in written[more[i]] /\ Lookup(store, k) = Lookup(entries[more[i]], k)
             /\ \A j \in DOMAIN more : i < j => k \notin written[more[j]]
  BY <1>1, <1>2, <1>3, <1>5
<1> QED
  BY <1>4, <1>5 DEF StoreOf

(* The last transaction of the order writes a key.                         *)
LEMMA StoreWritten ==
  ASSUME NEW order, NEW last \in DOMAIN order, \A j \in DOMAIN order : ~(last < j),
         NEW store, NEW written, NEW written2, NEW entries, NEW n,
         StoreOf(order, written, entries, store),
         n \in DOMAIN entries[order[last]] => n \in written2[order[last]],
         \A t \in Elements(order) : \A k \in Key :
           k # n \/ n \notin DOMAIN entries[order[last]] => (k \in written2[t] <=> k \in written[t])
  PROVE  StoreOf(order, written2, entries, Overlay(Lookup(entries[order[last]], n), store))
<1> DEFINE e  == entries[order[last]]
           s2 == Overlay(Lookup(e, n), store)
<1> SUFFICES ASSUME NEW k \in Key
             PROVE  \/ /\ Lookup(s2, k) = Lookup(InitStorage, k)
                       /\ \A i \in DOMAIN order : k \notin written2[order[i]]
                    \/ \E i \in DOMAIN order :
                         /\ k \in written2[order[i]]
                         /\ Lookup(s2, k) = Lookup(entries[order[i]], k)
                         /\ \A j \in DOMAIN order : i < j => k \notin written2[order[j]]
  BY DEF StoreOf
<1>1. CASE k = n /\ n \in DOMAIN e
  <2>1. Lookup(s2, k) = Lookup(e, k)
    BY <1>1 DEF Overlay, Lookup
  <2> HIDE DEF s2
  <2> QED
    BY <1>1, <2>1
<1>2. CASE k # n \/ n \notin DOMAIN e
  <2>1. Lookup(s2, k) = Lookup(store, k)
    <3>1. DOMAIN Lookup(e, n) = {n} \cap DOMAIN e
      BY DEF Lookup
    <3>2. k \notin DOMAIN Lookup(e, n)
      BY <1>2, <3>1
    <3>3. k \in DOMAIN s2 <=> k \in DOMAIN store
      BY <3>2 DEF Overlay
    <3>4. k \in DOMAIN store => s2[k] = store[k]
      BY <3>2 DEF Overlay
    <3> HIDE DEF s2
    <3> QED
      BY <3>3, <3>4 DEF Lookup
  <2>2. \A i \in DOMAIN order : k \in written2[order[i]] <=> k \in written[order[i]]
    BY <1>2 DEF Elements
  <2>3. \/ /\ Lookup(store, k) = Lookup(InitStorage, k)
           /\ \A i \in DOMAIN order : k \notin written[order[i]]
        \/ \E i \in DOMAIN order :
             /\ k \in written[order[i]]
             /\ Lookup(store, k) = Lookup(entries[order[i]], k)
             /\ \A j \in DOMAIN order : i < j => k \notin written[order[j]]
    BY DEF StoreOf
  <2> HIDE DEF s2
  <2> QED
    BY <2>1, <2>2, <2>3
<1> QED
  BY <1>1, <1>2

LEMMA JoinedElements ==
  ASSUME NEW S, NEW a \in Seq(S), NEW r \in Seq(S)
  PROVE  Elements(a \o r) = Elements(a) \cup Elements(r)
<1>1. /\ DOMAIN a = 1..Len(a) /\ DOMAIN r = 1..Len(r) /\ Len(a) \in Nat /\ Len(r) \in Nat
      /\ DOMAIN (a \o r) = 1..(Len(a) + Len(r)) /\ \A i \in 1..Len(a) : (a \o r)[i] = a[i]
      /\ \A i \in 1..Len(r) : Len(a) + i \in 1..(Len(a) + Len(r)) /\ (a \o r)[Len(a) + i] = r[i]
  OBVIOUS
<1>2. \A i \in 1..(Len(a) + Len(r)) : i \in 1..Len(a) \/ (i - Len(a) \in 1..Len(r) /\ i = Len(a) + (i - Len(a)))
  BY <1>1
<1>3. \A i \in DOMAIN (a \o r) : (a \o r)[i] \in Elements(a) \cup Elements(r)
  BY <1>1, <1>2 DEF Elements
<1>4. \A i \in DOMAIN a : a[i] \in Elements(a \o r)
  BY <1>1 DEF Elements
<1>5. \A i \in DOMAIN r : r[i] \in Elements(a \o r)
  BY <1>1 DEF Elements
<1> QED
  BY <1>3, <1>4, <1>5 DEF Elements

LEMMA ResultsJoined ==
  ASSUME NEW S, NEW a \in Seq(S), NEW r \in Seq(S), NEW x \in S
  PROVE  /\ (a \o r) \o <<x>> = Append(a \o r, x) /\ (a \o r) \o <<x>> \in Seq(S)
         /\ Elements((a \o r) \o <<x>>) = Elements(a) \cup Elements(r) \cup {x}
<1> DEFINE done == a \o r
<1>1. done \in Seq(S) /\ (a \o r) \o <<x>> = Append(done, x)
  OBVIOUS
<1>2. Elements(done) = Elements(a) \cup Elements(r)
  BY JoinedElements
<1> HIDE DEF done
<1>3. Append(done, x) \in Seq(S) /\ Elements(Append(done, x)) = Elements(done) \cup {x}
  BY <1>1, PushedElements
<1> QED
  BY <1>1, <1>2, <1>3 DEF done

(* The order of the transactions stays as their results move on.           *)
LEMMA ResultsMoved ==
  ASSUME NEW S, NEW a \in Seq(S), NEW r \in Seq(S), NEW x \in S
  PROVE  /\ r # <<>> => Append(a, Head(r)) \o Tail(r) = a \o r
         /\ (a \o r) \o <<>> = a \o r
         /\ (a \o Append(r, x)) \o <<>> = (a \o r) \o <<x>>
<1>1. r # <<>> => Append(a, Head(r)) \o Tail(r) = a \o r
  OBVIOUS
<1>2. (a \o r) \o <<>> = a \o r
  OBVIOUS
<1>3. (a \o Append(r, x)) \o <<>> = (a \o r) \o <<x>>
  OBVIOUS
<1> QED
  BY <1>1, <1>2, <1>3, Zenon

LEMMA OrderBasics ==
  ASSUME SchedInv
  PROVE  /\ returned \in Seq(Txns) /\ txn_results \in Seq(Txns) /\ txn_requests \in Seq(Txns)
         /\ NoTxn \notin Txns /\ Sched \in Executors
         /\ txn # NoTxn => txn \in Txns
         /\ spc \in {"execute", "commit", "apply", "result"} => txn \in Txns
         /\ spc \in {"test", "pop", "exited"} => txn = NoTxn
BY Typed, ProcessorAssumption DEF SchedInv, RunInv, TypeOK, BaseTypeOK

(* The order of the decisions in the states of the scheduler.              *)
LEMMA OrderTyped ==
  ASSUME SchedInv
  PROVE  /\ DecidedOrder \in Seq(Txns)
         /\ txn = NoTxn => /\ DecidedOrder = returned \o txn_results
                           /\ Elements(DecidedOrder) = Elements(returned) \cup Elements(txn_results)
         /\ txn # NoTxn => /\ txn \in Txns
                           /\ DecidedOrder = Append(returned \o txn_results, txn)
                           /\ Elements(DecidedOrder) = Elements(returned) \cup Elements(txn_results) \cup {txn}
<1>1. CASE txn = NoTxn
  <2>1. DecidedOrder = (returned \o txn_results) \o <<>>
    BY <1>1 DEF DecidedOrder
  <2>2. returned \o txn_results \in Seq(Txns) /\ (returned \o txn_results) \o <<>> = returned \o txn_results
    BY OrderBasics
  <2>3. Elements(returned \o txn_results) = Elements(returned) \cup Elements(txn_results)
    BY OrderBasics, JoinedElements
  <2> QED
    BY <1>1, <2>1, <2>2, <2>3
<1>2. CASE txn # NoTxn
  <2>1. txn \in Txns
    BY <1>2, OrderBasics
  <2>2. DecidedOrder = (returned \o txn_results) \o <<txn>>
    BY <1>2 DEF DecidedOrder
  <2>3. returned \in Seq(Txns) /\ txn_results \in Seq(Txns)
    BY OrderBasics
  <2>4. /\ (returned \o txn_results) \o <<txn>> = Append(returned \o txn_results, txn)
        /\ (returned \o txn_results) \o <<txn>> \in Seq(Txns)
        /\ Elements((returned \o txn_results) \o <<txn>>)
              = Elements(returned) \cup Elements(txn_results) \cup {txn}
    BY <2>1, <2>3, ResultsJoined
  <2> QED
    BY <1>2, <2>1, <2>2, <2>4, Zenon
<1> QED
  BY <1>1, <1>2

WrittenMap == [t \in Txns |-> Written(t)]

StoreIsCommitted == StoreOf(DecidedOrder, WrittenMap, writes, storage)

SameCommits == CommitsInOrder <=> StoreIsCommitted

LEMMA CommitsAre == SchedInv => SameCommits
<1> SUFFICES ASSUME SchedInv PROVE SameCommits
  OBVIOUS
<1>1. \A i \in DOMAIN DecidedOrder : WrittenMap[DecidedOrder[i]] = Written(DecidedOrder[i])
  BY OrderTyped DEF WrittenMap
<1> QED
  BY <1>1 DEF SameCommits, StoreIsCommitted, CommitsInOrder, StoreOf

LEMMA CommitsAreNext == SchedInv' => SameCommits'
BY CommitsAre, PTL

LEMMA WrittenIs ==
  ASSUME NEW t \in Txns
  PROVE  WrittenMap[t] = Written(t) /\ WrittenMap'[t] = Written(t)'
BY DEF WrittenMap

(* Steps that write nothing, and leave the decided transactions as they    *)
(* are and in their order.                                                 *)
LEMMA CommitsStay ==
  ASSUME SchedInv, SchedInv', CommitsInOrder, storage' = storage, DecidedOrder' = DecidedOrder,
         \A t \in Elements(DecidedOrder) : /\ Written(t)' = Written(t)
                                           /\ Written(t) # {} => writes'[t] = writes[t]
  PROVE  CommitsInOrder'
<1>1. StoreOf(DecidedOrder, WrittenMap, writes, storage)
  BY CommitsAre DEF SameCommits, StoreIsCommitted
<1>2. Elements(DecidedOrder) \subseteq Txns
  BY OrderTyped, TypedElements
<1>3. \A t \in Elements(DecidedOrder) : /\ WrittenMap'[t] = WrittenMap[t]
                                        /\ WrittenMap[t] # {} => writes'[t] = writes[t]
  BY <1>2, WrittenIs
<1>4. StoreOf(DecidedOrder, WrittenMap', writes', storage)
  BY <1>1, <1>3, StoreKept
<1> QED
  BY <1>4, CommitsAreNext DEF SameCommits, StoreIsCommitted

LEMMA QueuesCommits ==
  ASSUME SchedInv, SchedInv', CommitsInOrder,
         UNCHANGED <<storage, txn_results, returned, status, writes, todo, txn>>,
         UNCHANGED spc \/ (spc # "apply" /\ spc' # "apply")
  PROVE  CommitsInOrder'
<1>1. DecidedOrder' = DecidedOrder /\ \A t : Written(t)' = Written(t)
  BY DEF DecidedOrder, Written
<1> QED
  BY <1>1, CommitsStay

Executed(t) == status[t] \in {"COMPLETED_C", "COMPLETED_A"}

(* A transaction comes to the scheduler, and its result moves to a client. *)
LEMMA ResultsCommits ==
  ASSUME SchedInv, SchedInv', CommitsInOrder,
         GetTxnResult \/ PushResult("test") \/ (PopRequest /\ txn_requests # <<>>)
  PROVE  CommitsInOrder'
<1>1. UNCHANGED <<storage, status, reads, writes>>
  BY DEF GetTxnResult, PushResult, PopRequest, local
<1>2. CASE GetTxnResult
  <2>1. /\ returned' = Append(returned, Head(txn_results)) /\ txn_results' = Tail(txn_results)
        /\ txn_results # <<>> /\ UNCHANGED <<spc, txn, todo>>
    BY <1>2 DEF GetTxnResult, sched, exec
  <2>2. returned' \o txn_results' = returned \o txn_results
    BY <2>1, OrderBasics
  <2>3. DecidedOrder' = DecidedOrder /\ \A t : Written(t)' = Written(t)
    BY <1>1, <2>1, <2>2 DEF DecidedOrder, Written
  <2> QED
    BY <1>1, <2>3, CommitsStay
<1>3. CASE PushResult("test")
  <2>1. /\ spc = "result" /\ spc' = "test" /\ txn_results' = Append(txn_results, txn)
        /\ txn' = NoTxn /\ returned' = returned
    BY <1>3 DEF PushResult
  <2>2. txn \in Txns /\ txn # NoTxn
    BY <2>1, OrderBasics
  <2>3. DecidedOrder = (returned \o txn_results) \o <<txn>>
    BY <2>2 DEF DecidedOrder
  <2>4. DecidedOrder' = (returned \o Append(txn_results, txn)) \o <<>>
    BY <2>1 DEF DecidedOrder
  <2>5. DecidedOrder' = DecidedOrder
    BY <2>2, <2>3, <2>4, OrderBasics, ResultsMoved
  <2>6. \A t : Written(t)' = Written(t)
    BY <1>1, <2>1 DEF Written
  <2> QED
    BY <1>1, <2>5, <2>6, CommitsStay
<1>4. CASE PopRequest /\ txn_requests # <<>>
  <2>1. /\ spc = "pop" /\ spc' = "execute" /\ txn' = Head(txn_requests)
        /\ StartExecute(Sched, txn') /\ UNCHANGED <<returned, txn_results>>
    BY <1>4 DEF PopRequest
  <2>2. txn = NoTxn /\ txn' \in Txns /\ txn' # NoTxn
    BY <1>4, <2>1, OrderBasics, PoppedElements
  <2>3. status'[txn'] = "INCOMPLETE"
    <3>1. epc'[Sched] = "readset"
      BY <2>1, OrderBasics DEF StartExecute, SchedInv, TypeOK, BaseTypeOK
    <3> QED
      BY <3>1 DEF SchedInv, RunInv
  <2>4. DecidedOrder' = Append(DecidedOrder, txn')
    <3>1. DecidedOrder' = (returned \o txn_results) \o <<txn'>>
      BY <2>1, <2>2 DEF DecidedOrder
    <3>2. (returned \o txn_results) \o <<txn'>> = Append(returned \o txn_results, txn')
      BY <2>2, OrderBasics, ResultsJoined
    <3> QED
      BY <2>2, <3>1, <3>2, OrderTyped, Zenon
  <2>5. \A t \in Txns : Written(t)' = Written(t)
    BY <1>1, <2>1 DEF Written
  <2>6. Written(txn') = {}
    BY <1>1, <2>1, <2>3 DEF Written
  <2>7. WrittenMap' = WrittenMap /\ WrittenMap[txn'] = {}
    BY <2>2, <2>5, <2>6 DEF WrittenMap
  <2>8. StoreOf(DecidedOrder, WrittenMap, writes, storage)
    BY CommitsAre DEF SameCommits, StoreIsCommitted
  <2>9. StoreOf(Append(DecidedOrder, txn'), WrittenMap, writes, storage)
    BY <2>2, <2>7, <2>8, OrderTyped, StoreJoined
  <2> QED
    BY <1>1, <2>4, <2>7, <2>9, CommitsAreNext DEF SameCommits, StoreIsCommitted
<1> QED
  BY <1>2, <1>3, <1>4

(* While its transaction executes, the scheduler writes nothing.           *)
LEMMA ExecuteCommits ==
  ASSUME SchedInv, SchedInv', CommitsInOrder, ExecuteTxn
  PROVE  CommitsInOrder'
<1>1. /\ spc = "execute" /\ spc' \in {"execute", "commit"}
      /\ UNCHANGED <<storage, txn, txn_results, returned>>
  BY DEF ExecuteTxn, ExecuteBody, ReadKey, EndReadset, RunTxn, PushCompleted
<1>2. txn \in Txns /\ txn # NoTxn /\ epc[Sched] # "idle"
  BY <1>1, OrderBasics DEF SchedInv, RunInv
<1>3. \A t \in Txns : t # txn => status'[t] = status[t] /\ writes'[t] = writes[t]
  BY <1>2 DEF ExecuteTxn, ExecuteBody, ReadKey, EndReadset, RunTxn, PushCompleted, local,
              SchedInv, TypeOK, BaseTypeOK, Tables
<1>4. status[txn] # "COMMITTED" /\ status'[txn] # "COMMITTED"
  <2>1. epc[Sched] \in {"readset", "writeset", "push"}
    BY <1>2, OrderBasics DEF SchedInv, TypeOK, BaseTypeOK
  <2>2. status[txn] # "COMMITTED"
    BY <2>1 DEF SchedInv, RunInv
  <2>3. epc'[Sched] # "idle" \/ spc' = "commit"
    BY <1>1 DEF SchedInv, RunInv
  <2>4. epc'[Sched] \in {"idle", "readset", "writeset", "push"}
    BY OrderBasics DEF SchedInv, TypeOK, BaseTypeOK
  <2>5. status'[txn] # "COMMITTED"
    BY <1>1, <2>3, <2>4 DEF SchedInv, RunInv
  <2> QED
    BY <2>2, <2>5
<1>5. \A t \in Txns : Written(t)' = Written(t) /\ (Written(t) # {} => writes'[t] = writes[t])
  <2> SUFFICES ASSUME NEW t \in Txns
               PROVE  Written(t)' = Written(t) /\ (Written(t) # {} => writes'[t] = writes[t])
    OBVIOUS
  <2>1. CASE t = txn
    BY <1>1, <1>4, <2>1 DEF Written
  <2>2. CASE t # txn
    BY <1>1, <1>3, <2>2 DEF Written
  <2> QED
    BY <2>1, <2>2
<1>6. DecidedOrder' = DecidedOrder /\ Elements(DecidedOrder) \subseteq Txns
  BY <1>1, OrderTyped, TypedElements DEF DecidedOrder
<1> QED
  BY <1>1, <1>5, <1>6, CommitsStay

(* The scheduler commits or aborts its transaction, the last of the order. *)
LEMMA DecisionCommits ==
  ASSUME SchedInv, SchedInv', CommitsInOrder, CommitStep
  PROVE  CommitsInOrder'
<1>1. /\ spc \in {"commit", "apply"} /\ UNCHANGED <<writes, txn, txn_results, returned>>
      /\ txn \in Txns /\ txn # NoTxn /\ Sched \in Executors
  BY OrderBasics DEF CommitStep, Decide, ApplyWrite, Commit, local, sched, txnqueues
<1>2. DecidedOrder' = DecidedOrder
  BY <1>1 DEF DecidedOrder
<1>3. CASE Decide
  <2>1. /\ spc = "commit" /\ storage' = storage /\ Executed(txn)
        /\ \A t \in Txns : t # txn => status'[t] = status[t]
        /\ \/ status' = status /\ spc' = "apply" /\ todo'[Sched] = DOMAIN writes[txn]
           \/ status'[txn] = "ABORTED" /\ spc' = "result"
    BY <1>1, <1>3 DEF Decide, SchedInv, RunInv, Executed, TypeOK, BaseTypeOK
  <2>2. Elements(DecidedOrder) \subseteq Txns
    BY OrderTyped, TypedElements
  <2>3. \A t \in Elements(DecidedOrder) : Written(t)' = Written(t)
    <3> SUFFICES ASSUME NEW t \in Txns PROVE Written(t)' = Written(t)
      BY <2>2
    <3>1. CASE t = txn
      <4>1. Written(t) = {}
        BY <2>1, <3>1 DEF Written, Executed
      <4>2. Written(t)' = {}
        BY <1>1, <2>1, <3>1 DEF Written, Executed
      <4> QED
        BY <4>1, <4>2
    <3>2. CASE t # txn
      BY <1>1, <2>1, <3>2 DEF Written
    <3> QED
      BY <3>1, <3>2
  <2> QED
    BY <1>1, <1>2, <2>1, <2>3, CommitsStay
<1>4. CASE Commit
  <2>1. /\ spc = "apply" /\ spc' = "result" /\ todo[Sched] = {} /\ storage' = storage
        /\ status[txn] = "COMPLETED_C" /\ status'[txn] = "COMMITTED"
        /\ \A t \in Txns : t # txn => status'[t] = status[t]
    BY <1>1, <1>4 DEF Commit, SchedInv, RunInv, TypeOK, BaseTypeOK
  <2>2. Elements(DecidedOrder) \subseteq Txns
    BY OrderTyped, TypedElements
  <2>3. \A t \in Elements(DecidedOrder) : Written(t)' = Written(t)
    <3> SUFFICES ASSUME NEW t \in Txns PROVE Written(t)' = Written(t)
      BY <2>2
    <3>1. CASE t = txn
      <4>1. Written(t) = DOMAIN writes[t]
        BY <2>1, <3>1 DEF Written
      <4>2. Written(t)' = DOMAIN writes[t]
        BY <1>1, <2>1, <3>1 DEF Written
      <4> QED
        BY <4>1, <4>2
    <3>2. CASE t # txn
      BY <1>1, <2>1, <3>2 DEF Written
    <3> QED
      BY <3>1, <3>2
  <2> QED
    BY <1>1, <1>2, <2>1, <2>3, CommitsStay
<1>5. CASE ApplyWrite
  <2> DEFINE n    == NextKey(Sched)
             last == Len(returned \o txn_results) + 1
  <2>1. /\ spc = "apply" /\ spc' = "apply" /\ status' = status /\ status[txn] = "COMPLETED_C"
        /\ storage' = Overlay(Lookup(writes[txn], n), storage) /\ todo'[Sched] = todo[Sched] \ {n}
    BY <1>1, <1>5 DEF ApplyWrite, SchedInv, RunInv, local, sched, TypeOK, BaseTypeOK
  <2>2. /\ last \in DOMAIN DecidedOrder /\ DecidedOrder[last] = txn
        /\ \A j \in DOMAIN DecidedOrder : ~(last < j)
    <3>1. returned \o txn_results \in Seq(Txns)
      BY OrderBasics
    <3>2. DecidedOrder = Append(returned \o txn_results, txn)
      BY <1>1, OrderTyped
    <3> QED
      BY <3>1, <3>2
  <2>3. StoreOf(DecidedOrder, WrittenMap, writes, storage)
    BY CommitsAre DEF SameCommits, StoreIsCommitted
  <2> HIDE DEF n, last
  <2>4. \A t \in Txns : t # txn => Written(t)' = Written(t)
    BY <1>1, <2>1 DEF Written
  <2>5. /\ Written(txn) = DOMAIN writes[txn] \ todo[Sched]
        /\ Written(txn)' = DOMAIN writes[txn] \ (todo[Sched] \ {n})
    BY <1>1, <2>1 DEF Written
  <2>6. n \in DOMAIN writes[txn] => n \in WrittenMap'[txn]
    BY <1>1, <2>5, WrittenIs
  <2>7. ASSUME NEW t \in Elements(DecidedOrder), NEW k \in Key, k # n \/ n \notin DOMAIN writes[txn]
        PROVE  k \in WrittenMap'[t] <=> k \in WrittenMap[t]
    <3>1. t \in Txns
      BY OrderTyped, TypedElements
    <3>2. WrittenMap[t] = Written(t) /\ WrittenMap'[t] = Written(t)'
      BY <3>1, WrittenIs
    <3>3. CASE t = txn
      <4>1. WrittenMap[t] = DOMAIN writes[txn] \ todo[Sched] /\ WrittenMap'[t] = DOMAIN writes[txn] \ (todo[Sched] \ {n})
        BY <1>1, <2>5, <3>3, WrittenIs
      <4> QED
        BY <2>7, <4>1
    <3> QED
      BY <2>4, <3>1, <3>2, <3>3
  <2>8. StoreOf(DecidedOrder, WrittenMap', writes, Overlay(Lookup(writes[DecidedOrder[last]], n), storage))
    BY <2>2, <2>3, <2>6, <2>7, StoreWritten
  <2>9. StoreOf(DecidedOrder', WrittenMap', writes', storage')
    BY <1>1, <1>2, <2>1, <2>2, <2>8
  <2> QED
    BY <2>9, CommitsAreNext DEF SameCommits, StoreIsCommitted
<1> QED
  BY <1>3, <1>4, <1>5 DEF CommitStep

LEMMA StepCommits ==
  ASSUME SchedInv, CommitsInOrder, [Next]_vars
  PROVE  CommitsInOrder'
<1>1. SchedInv'
  BY StepKeepsSched
<1>2. CASE \/ EndConstructor \/ Stop \/ JoinScheduler \/ TestStopped
           \/ \E t \in Txns : AssignId(t) \/ PushRequest(t)
           \/ PopRequest /\ txn_requests = <<>>
           \/ UNCHANGED vars
  <2>1. UNCHANGED <<storage, txn_results, returned, status, writes, todo, txn>>
    BY <1>2 DEF EndConstructor, Stop, JoinScheduler, TestStopped, AssignId, PushRequest, PopRequest,
                vars, base, local, exec, sched, txnqueues
  <2>2. UNCHANGED spc \/ (spc # "apply" /\ spc' # "apply")
    BY <1>2 DEF EndConstructor, Stop, JoinScheduler, TestStopped, AssignId, PushRequest, PopRequest,
                vars, base, sched
  <2> QED
    BY <1>1, <2>1, <2>2, QueuesCommits
<1> QED
  BY <1>1, <1>2, ResultsCommits, ExecuteCommits, DecisionCommits DEF Next, ClientStep, RunSerialScheduler

LEMMA InitCommits ==
  ASSUME Init
  PROVE  CommitsInOrder
<1>1. DecidedOrder = <<>> /\ storage = InitStorage
  BY DEF Init, BaseInit, DecidedOrder
<1> QED
  BY <1>1 DEF CommitsInOrder

(* The serial scheduler never overtakes: its transactions come back to the *)
(* clients in the order in which NewTxnRequest numbered them, none twice,  *)
(* each committed or aborted, and the store is what the commits have made  *)
(* of it in that order.                                                    *)
THEOREM SerialPipeline == Spec => []SerialInv
<1>1. Init => CommitsInOrder
  BY InitCommits
<1>2. SchedInv /\ CommitsInOrder /\ [Next]_vars => CommitsInOrder'
  BY StepCommits
<1>3. SchedInv /\ CommitsInOrder => SerialInv
  BY WholeInOrder DEF SchedInv, RunInv, Done, Decided, ResultsAreDecided, SerialInv
<1> QED
  BY <1>1, <1>2, <1>3, SchedInvariant, PTL DEF Spec

-----------------------------------------------------------------------------
(* The refinement of SerialTxns.  A transaction takes place when its       *)
(* program runs; until its writes are applied they are part of the store.  *)
StoreIs ==
  /\ (\A t \in Txns : status[t] # "COMPLETED_C") => DecidedDb = storage
  /\ \A t \in Txns : status[t] = "COMPLETED_C" =>
       t = txn /\ DecidedDb = Overlay(writes[txn], storage)

LEMMA AbstractStore == SchedInv => StoreIs
<1> SUFFICES ASSUME SchedInv PROVE StoreIs
  OBVIOUS
<1>1. TypeOK /\ RunInv
  BY DEF SchedInv
<1>2. ASSUME NEW t \in Txns, status[t] = "COMPLETED_C" PROVE t = txn
  BY <1>1, <1>2 DEF RunInv, Decided, Current
<1> DEFINE R == {t \in Txns : status[t] = "COMPLETED_C"}
<1>3. ASSUME NEW t \in Txns, status[t] = "COMPLETED_C" PROVE DecidedDb = Overlay(writes[txn], storage)
  <2>1. R = {txn}
    BY <1>2, <1>3
  <2>2. (CHOOSE u \in R : TRUE) = txn
    BY <2>1
  <2> QED
    BY <2>1, <2>2 DEF DecidedDb
<1>4. (\A t \in Txns : status[t] # "COMPLETED_C") => DecidedDb = storage
  BY DEF DecidedDb
<1> QED
  BY <1>2, <1>3, <1>4 DEF StoreIs

LEMMA AbstractStoreNext == SchedInv' => StoreIs'
BY AbstractStore, PTL

(* The instance of the programs in SerialTxns is that of TxnProcessor.     *)
LEMMA SameRun ==
  ASSUME NEW p, NEW store, NEW entries
  PROVE  /\ Serial!RunStatus(p, store) = RunStatus(p, store)
         /\ Serial!RunWrites(p, store) = RunWrites(p, store)
         /\ Serial!Overlay(entries, store) = Overlay(entries, store)
BY DEF Serial!RunStatus, RunStatus, Serial!RunWrites, RunWrites, Serial!Overlay, Overlay,
       Serial!Expected, Expected, Serial!Incremented, Incremented, Serial!NoEntries, NoEntries

(* A step that changes neither the store nor a status changes nothing that *)
(* the abstract specification sees.                                        *)
LEMMA QuietSerial ==
  ASSUME UNCHANGED <<storage, status, writes>>
  PROVE  UNCHANGED Serial!vars
BY DEF Serial!vars, DecidedDb, Outcome

LEMMA ReadingIsQuiet ==
  ASSUME ReadKey(Sched, txn) \/ EndReadset(Sched, txn) \/ PushCompleted(Sched, txn)
  PROVE  UNCHANGED Serial!vars
<1>1. UNCHANGED <<storage, status, writes>>
  BY DEF ReadKey, EndReadset, PushCompleted, local
<1> QED
  BY <1>1, QuietSerial

(* Running the program is the step of SerialTxns.                          *)
LEMMA RunIsSerial ==
  ASSUME SchedInv, SchedInv', spc = "execute", RunTxn(Sched, txn), txn' = txn
  PROVE  txn \in Txns /\ Serial!Run(txn)
<1> DEFINE p == Program[txn]
<1>1. /\ txn \in Txns /\ status[txn] = "INCOMPLETE"
      /\ status' = [status EXCEPT ![txn] = RunStatus(p, storage)]
      /\ writes' = [writes EXCEPT ![txn] = RunWrites(p, storage)]
  BY RunFacts
<1>2. storage' = storage /\ TypeOK /\ Tables
  BY DEF RunTxn, SchedInv
<1>3. /\ status'[txn] = RunStatus(p, storage) /\ \A t \in Txns : t # txn => status'[t] = status[t]
      /\ writes'[txn] = RunWrites(p, storage) /\ RunStatus(p, storage) \in {"COMPLETED_C", "COMPLETED_A"}
  BY <1>1, <1>2 DEF TypeOK, BaseTypeOK, Tables, RunStatus
<1>4. DecidedDb = storage /\ \A t \in Txns : t # txn => status[t] # "COMPLETED_C"
  BY <1>1, AbstractStore DEF StoreIs
<1>5. Outcome[txn] = "pending" /\ \A t \in Txns : t # txn => Outcome'[t] = Outcome[t]
  BY <1>1, <1>3 DEF Outcome
<1>6. Outcome = [t \in Txns |-> Outcome[t]] /\ Outcome' = [t \in Txns |-> Outcome'[t]]
  BY DEF Outcome
<1>7. CASE RunStatus(p, storage) = "COMPLETED_C"
  <2>1. DecidedDb' = Overlay(RunWrites(p, storage), storage)
    <3>1. DecidedDb' = Overlay(writes'[txn'], storage')
      BY <1>1, <1>3, <1>7, AbstractStoreNext DEF StoreIs
    <3> QED
      BY <1>2, <1>3, <3>1
  <2>2. Outcome'[txn] = "COMMITTED"
    BY <1>1, <1>3, <1>7 DEF Outcome
  <2>3. Outcome' = [Outcome EXCEPT ![txn] = "COMMITTED"]
    BY <1>1, <1>5, <1>6, <2>2
  <2> QED
    BY <1>1, <1>4, <1>5, <1>7, <2>1, <2>3, SameRun DEF Serial!Run
<1>8. CASE RunStatus(p, storage) = "COMPLETED_A"
  <2>1. DecidedDb' = storage
    <3>1. \A t \in Txns : status'[t] # "COMPLETED_C"
      BY <1>3, <1>4, <1>8
    <3>2. DecidedDb' = storage'
      BY <3>1, AbstractStoreNext DEF StoreIs
    <3> QED
      BY <1>2, <3>2
  <2>2. Outcome'[txn] = "ABORTED"
    BY <1>1, <1>3, <1>8 DEF Outcome
  <2>3. Outcome' = [Outcome EXCEPT ![txn] = "ABORTED"]
    BY <1>1, <1>5, <1>6, <2>2
  <2> QED
    BY <1>1, <1>4, <1>5, <1>8, <2>1, <2>3, SameRun DEF Serial!Run
<1> QED
  BY <1>1, <1>3, <1>7, <1>8

(* Applying the writes and deciding show nothing new.                      *)
LEMMA CommittingIsQuiet ==
  ASSUME SchedInv, SchedInv', CommitStep
  PROVE  UNCHANGED Serial!vars
<1>1. TypeOK /\ Tables /\ RunInv
  BY DEF SchedInv
<1>2. spc \in {"commit", "apply"} /\ txn' = txn /\ writes' = writes
  BY DEF CommitStep, Decide, ApplyWrite, Commit, local, sched
<1>3. txn \in Txns /\ \A t \in Txns : t # txn => status[t] # "COMPLETED_C"
  BY <1>2, CurrentAlone, AbstractStore DEF StoreIs
<1>4. CASE Decide /\ status[txn] = "COMPLETED_C"
  <2>1. UNCHANGED <<storage, status, writes>>
    BY <1>4 DEF Decide
  <2> QED
    BY <2>1, QuietSerial
<1>5. CASE Decide /\ status[txn] # "COMPLETED_C"
  <2>1. status[txn] = "COMPLETED_A" /\ storage' = storage /\ status' = [status EXCEPT ![txn] = "ABORTED"]
    BY <1>5 DEF Decide
  <2>2. status'[txn] = "ABORTED" /\ \A t \in Txns : t # txn => status'[t] = status[t]
    BY <1>1, <1>3, <2>1 DEF TypeOK, BaseTypeOK
  <2>3. DecidedDb = storage
    BY <1>3, <2>1, AbstractStore DEF StoreIs
  <2>4. DecidedDb' = storage'
    BY <1>3, <2>2, AbstractStoreNext DEF StoreIs
  <2>5. \A t \in Txns : Outcome'[t] = Outcome[t]
    BY <2>1, <2>2 DEF Outcome
  <2>6. Outcome' = Outcome
    BY <2>5 DEF Outcome
  <2> QED
    BY <2>1, <2>3, <2>4, <2>6 DEF Serial!vars
<1>6. CASE ApplyWrite
  <2>1. status' = status /\ status[txn] = "COMPLETED_C"
    BY <1>1, <1>6 DEF ApplyWrite, local, RunInv
  <2>2. Overlay(writes[txn], storage') = Overlay(writes[txn], storage)
    BY <1>6, ApplyKeeps
  <2>3. DecidedDb = Overlay(writes[txn], storage)
    BY <1>3, <2>1, AbstractStore DEF StoreIs
  <2>4. DecidedDb' = Overlay(writes'[txn'], storage')
    BY <1>3, <2>1, AbstractStoreNext DEF StoreIs
  <2>5. Outcome' = Outcome
    BY <2>1 DEF Outcome
  <2> QED
    BY <1>2, <2>2, <2>3, <2>4, <2>5 DEF Serial!vars
<1>7. CASE Commit
  <2>1. /\ status[txn] = "COMPLETED_C" /\ storage' = storage /\ status' = [status EXCEPT ![txn] = "COMMITTED"]
        /\ \A k \in DOMAIN writes[txn] : k \in DOMAIN storage /\ storage[k] = writes[txn][k]
    BY <1>1, <1>7 DEF Commit, RunInv
  <2>2. status'[txn] = "COMMITTED" /\ \A t \in Txns : t # txn => status'[t] = status[t]
    BY <1>1, <1>3, <2>1 DEF TypeOK, BaseTypeOK
  <2>3. DecidedDb = Overlay(writes[txn], storage)
    BY <1>3, <2>1, AbstractStore DEF StoreIs
  <2>4. Overlay(writes[txn], storage) = storage
    BY <1>1, <2>1, AllWritten DEF Tables
  <2>5. DecidedDb' = storage'
    BY <1>3, <2>2, AbstractStoreNext DEF StoreIs
  <2>6. \A t \in Txns : Outcome'[t] = Outcome[t]
    BY <2>1, <2>2 DEF Outcome
  <2>7. Outcome' = Outcome
    BY <2>6 DEF Outcome
  <2> QED
    BY <2>1, <2>3, <2>4, <2>5, <2>7 DEF Serial!vars
<1> QED
  BY <1>4, <1>5, <1>6, <1>7 DEF CommitStep

LEMMA StepIsSerial ==
  ASSUME SchedInv, SchedInv', [Next]_vars
  PROVE  [Serial!Next]_Serial!vars
<1>1. CASE ClientStep \/ TestStopped \/ PopRequest \/ PushResult("test") \/ UNCHANGED vars
  <2>1. UNCHANGED <<storage, status, writes>>
    BY <1>1 DEF ClientStep, EndConstructor, GetTxnResult, Stop, JoinScheduler, AssignId, PushRequest,
                TestStopped, PopRequest, PushResult, vars, base, local
  <2> QED
    BY <2>1, QuietSerial
<1>2. CASE ExecuteTxn
  <2>1. spc = "execute" /\ txn' = txn /\ (ExecuteBody(Sched, txn) \/ PushCompleted(Sched, txn))
    BY <1>2 DEF ExecuteTxn
  <2>2. CASE RunTxn(Sched, txn)
    BY <2>1, <2>2, RunIsSerial DEF Serial!Next
  <2>3. CASE ReadKey(Sched, txn) \/ EndReadset(Sched, txn) \/ PushCompleted(Sched, txn)
    BY <2>3, ReadingIsQuiet
  <2> QED
    BY <2>1, <2>2, <2>3 DEF ExecuteBody
<1>3. CASE CommitStep
  BY <1>3, CommittingIsQuiet
<1> QED
  BY <1>1, <1>2, <1>3 DEF Next, RunSerialScheduler

(* Whatever the clients submit and however the threads are scheduled, the  *)
(* store and the outcomes are those of transactions that ran one at a      *)
(* time, each in a single step.                                            *)
THEOREM SerialSchedulerIsSerial == Spec => SerialExecution
<1>1. Init => Serial!Init
  <2> SUFFICES ASSUME Init PROVE Serial!Init
    OBVIOUS
  <2>1. \A t \in Txns : status[t] = "INCOMPLETE"
    BY DEF Init, BaseInit
  <2>2. DecidedDb = storage
    BY <2>1 DEF DecidedDb
  <2>3. Outcome = [t \in Txns |-> "pending"]
    BY <2>1 DEF Outcome
  <2> QED
    BY <2>2, <2>3 DEF Init, BaseInit, Serial!Init, InitStorage, Serial!InitStorage
<1>2. SchedInv /\ SchedInv' /\ [Next]_vars => [Serial!Next]_Serial!vars
  BY StepIsSerial
<1> QED
  BY <1>1, <1>2, SchedInvariant, PTL DEF Spec, Serial!Spec, SerialExecution
=============================================================================
