---------------------------- MODULE RequestProofs ----------------------------
(***************************************************************************)
(* Proofs about Request::Execute, for any number of requests, records,     *)
(* fields and writes per request.                                          *)
(***************************************************************************)
EXTENDS RunTest, WellFoundedInduction, TLAPS

(* After the sort, the keys of a write set increase with the position.     *)
Sorted ==
  \A r \in Requests : pc[r] # "sort" =>
    \A a, b \in Index : a < b => writeset[r][a] < writeset[r][b]

(* The loop variables are where a loop starts whenever no loop has used    *)
(* them yet.                                                               *)
LoopsReset ==
  \A r \in Requests :
    /\ pc[r] = "sort" => idx[r] = 1
    /\ pc[r] \in {"sort", "lock"} => fld[r] = 0

(* The inductive invariant.                                                *)
IInv == TypeOK /\ Sorted /\ LoopsReset /\ LocksMatchProgress /\ NoLostUpdate

-----------------------------------------------------------------------------
(* The machine addition stays within the word.                             *)
LEMMA PlusType ==
  ASSUME NEW v \in Word, NEW u \in Word
  PROVE  Plus(v, u) \in Word
BY DatabaseAssumption DEF Plus, Word

(* The types hold initially.                                               *)
LEMMA InitType == Init => TypeOK
<1> SUFFICES ASSUME Init PROVE TypeOK
  OBVIOUS
<1>1. records \in [Key -> [Field -> Word]]
  BY DatabaseAssumption DEF Init, Create, Word
<1>2. locks \in [Key -> Requests \cup {NoOwner}]
  BY DEF Init, Create
<1>3. 1 \in Index /\ 0 \in Field /\ 0 \in Word
  BY DatabaseAssumption, RequestAssumption DEF Index, Field, Word
<1> QED
  BY <1>1, <1>2, <1>3 DEF Init, TypeOK

(* Every step keeps the types.                                             *)
LEMMA NextType == TypeOK /\ [Next]_vars => TypeOK'
<1> SUFFICES ASSUME TypeOK, [Next]_vars PROVE TypeOK'
  OBVIOUS
<1> USE DatabaseAssumption, RequestAssumption
<1>0. ASSUME NEW r \in Requests PROVE CurrentKey(r) \in Key
  BY DEF TypeOK, CurrentKey, WriteSets
<1>a. ASSUME NEW r \in Requests, idx[r] < NumWrites PROVE idx[r] + 1 \in Index
  BY <1>a DEF TypeOK, Index
<1>b. 1 \in Index /\ 0 \in Field
  BY DEF Index, Field
<1>c. ASSUME NEW r \in Requests, fld[r] < NumFields - 1 PROVE fld[r] + 1 \in Field
  BY <1>c DEF TypeOK, Field
<1>1. ASSUME NEW r \in Requests, Sort(r) PROVE TypeOK'
  <2>1. PICK p \in Shuffles :
          writeset' = [writeset EXCEPT ![r] = [a \in Index |-> writeset[r][p[a]]]]
    BY <1>1 DEF Sort
  <2>2. [a \in Index |-> writeset[r][p[a]]] \in WriteSets
    <3>1. /\ writeset[r] \in [Index -> Key]
          /\ \A a, b \in Index : writeset[r][a] = writeset[r][b] => a = b
      BY DEF TypeOK, WriteSets
    <3>2. /\ p \in [Index -> Index]
          /\ \A a, b \in Index : p[a] = p[b] => a = b
      BY DEF Shuffles
    <3> DEFINE s == [a \in Index |-> writeset[r][p[a]]]
    <3>3. s \in [Index -> Key]
      BY <3>1, <3>2
    <3>4. \A a, b \in Index : s[a] = s[b] => a = b
      BY <3>1, <3>2
    <3> QED
      BY <3>3, <3>4 DEF WriteSets
  <2>3. writeset' \in [Requests -> WriteSets]
    BY <2>1, <2>2 DEF TypeOK
  <2> QED
    BY <1>1, <2>3 DEF Sort, TypeOK
<1>2. ASSUME NEW r \in Requests, LockNext(r) PROVE TypeOK'
  <2>1. locks' \in [Key -> Requests \cup {NoOwner}]
    BY <1>0, <1>2 DEF LockNext, LockRecord, TypeOK
  <2>2. CASE idx[r] < NumWrites
    <3>1. idx' = [idx EXCEPT ![r] = @ + 1] /\ UNCHANGED pc
      BY <1>2, <2>2 DEF LockNext
    <3> QED
      BY <1>2, <1>a, <2>1, <2>2, <3>1 DEF LockNext, TypeOK
  <2>3. CASE ~(idx[r] < NumWrites)
    <3>1. idx' = [idx EXCEPT ![r] = 1] /\ pc' = [pc EXCEPT ![r] = "load"]
      BY <1>2, <2>3 DEF LockNext
    <3> QED
      BY <1>2, <1>b, <2>1, <3>1 DEF LockNext, TypeOK
  <2> QED
    BY <2>2, <2>3
<1>3. ASSUME NEW r \in Requests, Load(r) PROVE TypeOK'
  BY <1>0, <1>3 DEF Load, TypeOK
<1>4. ASSUME NEW r \in Requests, Store(r) PROVE TypeOK'
  <2>1. Plus(loaded[r], Updates[r][fld[r]]) \in Word
    BY PlusType DEF TypeOK
  <2>2. records' \in [Key -> [Field -> Word]]
    BY <1>0, <1>4, <2>1 DEF Store, PutField, TypeOK
  <2>3. /\ idx' \in [Requests -> Index]
        /\ fld' \in [Requests -> Field]
        /\ pc' \in [Requests -> {"sort", "lock", "load", "store", "unlock", "done"}]
    <3>1. CASE fld[r] < NumFields - 1
      <4>1. /\ fld' = [fld EXCEPT ![r] = @ + 1]
            /\ pc' = [pc EXCEPT ![r] = "load"]
            /\ UNCHANGED idx
        BY <1>4, <3>1 DEF Store, TypeOK, Field
      <4> QED
        BY <1>c, <3>1, <4>1 DEF TypeOK
    <3>2. CASE ~(fld[r] < NumFields - 1)
      <4>1. fld' = [fld EXCEPT ![r] = 0]
        BY <1>4, <3>2 DEF Store
      <4>2. CASE idx[r] < NumWrites
        <5>1. idx' = [idx EXCEPT ![r] = @ + 1] /\ pc' = [pc EXCEPT ![r] = "load"]
          BY <1>4, <3>2, <4>2 DEF Store
        <5> QED
          BY <1>a, <1>b, <4>1, <4>2, <5>1 DEF TypeOK
      <4>3. CASE ~(idx[r] < NumWrites)
        <5>1. idx' = [idx EXCEPT ![r] = 1] /\ pc' = [pc EXCEPT ![r] = "unlock"]
          BY <1>4, <3>2, <4>3 DEF Store
        <5> QED
          BY <1>b, <4>1, <5>1 DEF TypeOK
      <4> QED
        BY <4>2, <4>3
    <3> QED
      BY <3>1, <3>2
  <2> QED
    BY <1>4, <2>2, <2>3 DEF Store, TypeOK
<1>5. ASSUME NEW r \in Requests, UnlockNext(r) PROVE TypeOK'
  <2>1. locks' \in [Key -> Requests \cup {NoOwner}]
    BY <1>0, <1>5 DEF UnlockNext, UnlockRecord, TypeOK
  <2>2. CASE idx[r] < NumWrites
    <3>1. idx' = [idx EXCEPT ![r] = @ + 1] /\ UNCHANGED pc
      BY <1>5, <2>2 DEF UnlockNext
    <3> QED
      BY <1>5, <1>a, <2>1, <2>2, <3>1 DEF UnlockNext, TypeOK
  <2>3. CASE ~(idx[r] < NumWrites)
    <3>1. UNCHANGED idx /\ pc' = [pc EXCEPT ![r] = "done"]
      BY <1>5, <2>3 DEF UnlockNext
    <3> QED
      BY <1>5, <2>1, <3>1 DEF UnlockNext, TypeOK
  <2> QED
    BY <2>2, <2>3
<1>6. CASE UNCHANGED vars
  BY <1>6 DEF vars, locals, TypeOK
<1> QED
  BY <1>1, <1>2, <1>3, <1>4, <1>5, <1>6 DEF Next, Execute

(* The variables of Request keep their types for every instance.           *)
THEOREM TypeCorrect == Spec => []TypeOK
BY InitType, NextType, PTL DEF Spec

-----------------------------------------------------------------------------
(* The inductive invariant holds initially.                                *)
LEMMA InitInv == Init => IInv
<1> SUFFICES ASSUME Init PROVE IInv
  OBVIOUS
<1>1. TypeOK
  BY InitType
<1>2. Sorted /\ LoopsReset /\ NoLostUpdate
  BY DEF Init, Sorted, LoopsReset, NoLostUpdate
<1>3. LocksMatchProgress
  BY DatabaseAssumption, RequestAssumption
     DEF Init, Create, LocksMatchProgress, Held
<1> QED
  BY <1>1, <1>2, <1>3 DEF IInv

(* Sorting leaves the keys in strictly increasing order, since they are    *)
(* distinct.                                                               *)
LEMMA SortStep ==
  ASSUME IInv, NEW r \in Requests, Sort(r)
  PROVE  IInv'
<1> USE RequestAssumption
<1>1. TypeOK /\ TypeOK'
  BY NextType DEF IInv, Next, Execute
<1>2. PICK p \in Shuffles :
        /\ \A a, b \in Index : a < b => writeset[r][p[a]] <= writeset[r][p[b]]
        /\ writeset' = [writeset EXCEPT ![r] = [a \in Index |-> writeset[r][p[a]]]]
  BY DEF Sort
<1>3. Sorted'
  <2> SUFFICES ASSUME NEW q \in Requests, pc'[q] # "sort",
                      NEW a \in Index, NEW b \in Index, a < b
               PROVE  writeset'[q][a] < writeset'[q][b]
    BY DEF Sorted
  <2>1. CASE q = r
    <3>1. writeset'[q][a] <= writeset'[q][b]
      BY <1>1, <1>2, <2>1 DEF TypeOK
    <3>2. writeset'[q][a] # writeset'[q][b] /\ a # b
      BY <1>1 DEF TypeOK, WriteSets, Index
    <3>3. writeset'[q][a] \in Int /\ writeset'[q][b] \in Int
      BY <1>1, DatabaseAssumption DEF TypeOK, WriteSets, Key
    <3> QED
      BY <3>1, <3>2, <3>3
  <2>2. CASE q # r
    BY <1>1, <1>2, <2>2 DEF IInv, Sorted, Sort, TypeOK
  <2> QED
    BY <2>1, <2>2
<1>4. LoopsReset' /\ NoLostUpdate'
  BY <1>1 DEF IInv, LoopsReset, NoLostUpdate, Sort, TypeOK, CurrentKey
<1>5. LocksMatchProgress'
  <2> SUFFICES ASSUME NEW k \in Key, NEW q \in Requests
               PROVE  (locks[k] = q <=> \E a \in Held(q) : writeset[q][a] = k)'
    BY DEF LocksMatchProgress
  <2>1. locks' = locks
    BY DEF Sort
  <2>2. locks[k] = q <=> \E a \in Held(q) : writeset[q][a] = k
    BY DEF IInv, LocksMatchProgress
  <2>3. CASE q = r
    <3>1. Held(r) = {} /\ Held(r)' = {}
      BY <1>1 DEF Held, Sort, TypeOK, Index, IInv, LoopsReset
    <3> QED
      BY <2>1, <2>2, <2>3, <3>1
  <2>4. CASE q # r
    <3>1. Held(q)' = Held(q) /\ writeset'[q] = writeset[q]
      BY <1>1, <2>4 DEF Held, Sort, TypeOK
    <3> QED
      BY <2>1, <2>2, <3>1
  <2> QED
    BY <2>3, <2>4
<1> QED
  BY <1>1, <1>3, <1>4, <1>5 DEF IInv

(* Taking the next lock adds one position to what the executor holds.      *)
LEMMA LockStep ==
  ASSUME IInv, NEW r \in Requests, LockNext(r)
  PROVE  IInv'
<1> USE DatabaseAssumption, RequestAssumption
<1>1. TypeOK /\ TypeOK'
  BY NextType DEF IInv, Next, Execute
<1>2. /\ pc[r] = "lock"
      /\ locks[CurrentKey(r)] = NoOwner
      /\ locks' = [locks EXCEPT ![CurrentKey(r)] = r]
      /\ UNCHANGED <<records, writeset, fld, loaded>>
  BY DEF LockNext, LockRecord
<1>3. CurrentKey(r) \in Key /\ idx[r] \in Index
  BY <1>1 DEF TypeOK, CurrentKey, WriteSets
<1>4. /\ pc' \in {pc, [pc EXCEPT ![r] = "load"]}
      /\ \A q \in Requests \ {r} : pc'[q] = pc[q] /\ idx'[q] = idx[q]
  BY <1>1 DEF LockNext, TypeOK
<1>5. Held(r)' = Held(r) \cup {idx[r]}
  <2>1. CASE idx[r] < NumWrites
    <3>1. pc'[r] = "lock" /\ idx'[r] = idx[r] + 1
      BY <1>1, <1>2, <2>1 DEF LockNext, TypeOK
    <3> QED
      BY <1>2, <1>3, <3>1 DEF Held, Index
  <2>2. CASE ~(idx[r] < NumWrites)
    <3>1. pc'[r] = "load"
      BY <1>1, <2>2 DEF LockNext, TypeOK
    <3>2. idx[r] = NumWrites
      BY <1>3, <2>2 DEF Index
    <3>3. Held(r)' = Index
      BY <3>1 DEF Held
    <3>4. Held(r) = {a \in Index : a < NumWrites}
      BY <1>2, <3>2 DEF Held
    <3> QED
      BY <3>2, <3>3, <3>4 DEF Index
  <2> QED
    BY <2>1, <2>2
<1>6. \A q \in Requests \ {r} : Held(q)' = Held(q)
  BY <1>4 DEF Held
<1>7. LocksMatchProgress'
  <2> SUFFICES ASSUME NEW k \in Key, NEW q \in Requests
               PROVE  locks'[k] = q <=> \E a \in Held(q)' : writeset[q][a] = k
    BY <1>2 DEF LocksMatchProgress
  <2>1. locks[k] = q <=> \E a \in Held(q) : writeset[q][a] = k
    BY DEF IInv, LocksMatchProgress
  <2>2. locks'[k] = IF k = CurrentKey(r) THEN r ELSE locks[k]
    BY <1>1, <1>2 DEF TypeOK
  <2>3. CASE q = r
    BY <1>5, <2>1, <2>2, <2>3 DEF CurrentKey
  <2>4. CASE q # r
    BY <1>2, <1>6, <2>1, <2>2, <2>4
  <2> QED
    BY <2>3, <2>4
<1>8. Sorted' /\ LoopsReset' /\ NoLostUpdate'
  <2>1. pc'[r] \in {"lock", "load"}
    BY <1>1, <1>2, <1>4 DEF TypeOK
  <2>2. Sorted'
    BY <1>2, <1>4, <2>1 DEF IInv, Sorted
  <2>3. LoopsReset'
    BY <1>2, <1>4, <2>1 DEF IInv, LoopsReset
  <2>4. NoLostUpdate'
    BY <1>2, <1>4, <2>1 DEF IInv, NoLostUpdate, CurrentKey
  <2> QED
    BY <2>2, <2>3, <2>4
<1> QED
  BY <1>1, <1>7, <1>8 DEF IInv

(* Reading a word records what the record holds.                           *)
LEMMA LoadStep ==
  ASSUME IInv, NEW r \in Requests, Load(r)
  PROVE  IInv'
<1>1. TypeOK /\ TypeOK'
  BY NextType DEF IInv, Next, Execute
<1>2. /\ pc[r] = "load" /\ pc'[r] = "store"
      /\ loaded'[r] = records[CurrentKey(r)][fld[r]]
      /\ UNCHANGED <<records, locks, writeset, idx, fld>>
      /\ \A q \in Requests \ {r} : pc'[q] = pc[q] /\ loaded'[q] = loaded[q]
  BY <1>1 DEF Load, TypeOK
<1>3. \A q \in Requests : Held(q)' = Held(q)
  BY <1>2 DEF Held
<1>4. LocksMatchProgress'
  BY <1>2, <1>3 DEF IInv, LocksMatchProgress
<1>5. Sorted'
  BY <1>2 DEF IInv, Sorted
<1>6. LoopsReset'
  BY <1>2 DEF IInv, LoopsReset
<1>7. NoLostUpdate'
  BY <1>2 DEF IInv, NoLostUpdate, CurrentKey
<1> QED
  BY <1>1, <1>4, <1>5, <1>6, <1>7 DEF IInv

(* Writing a word back touches no record that another executor is at,      *)
(* because both executors hold the lock of the record they are at.         *)
LEMMA StoreStep ==
  ASSUME IInv, NEW r \in Requests, Store(r)
  PROVE  IInv'
<1> USE DatabaseAssumption, RequestAssumption
<1>1. TypeOK /\ TypeOK'
  BY NextType DEF IInv, Next, Execute
<1>2. /\ pc[r] = "store"
      /\ UNCHANGED <<locks, writeset, loaded>>
      /\ \A q \in Requests \ {r} :
           pc'[q] = pc[q] /\ idx'[q] = idx[q] /\ fld'[q] = fld[q]
  BY <1>1 DEF Store, TypeOK
<1>3. pc'[r] = "load" \/ (pc'[r] = "unlock" /\ idx'[r] = 1)
  BY <1>1 DEF Store, TypeOK
<1>4. \A q \in Requests : Held(q)' = Held(q)
  BY <1>2, <1>3 DEF Held, Index
<1>5. LocksMatchProgress'
  BY <1>2, <1>4 DEF IInv, LocksMatchProgress
<1>6. Sorted'
  BY <1>2, <1>3 DEF IInv, Sorted
<1>7. LoopsReset'
  BY <1>2, <1>3 DEF IInv, LoopsReset
<1>8. NoLostUpdate'
  <2> SUFFICES ASSUME NEW q \in Requests, pc'[q] = "store"
               PROVE  loaded'[q] = (records[CurrentKey(q)][fld[q]])'
    BY DEF NoLostUpdate
  <2>1. q # r /\ pc[q] = "store" /\ CurrentKey(q)' = CurrentKey(q)
    BY <1>2, <1>3 DEF CurrentKey
  <2>2. ASSUME NEW e \in Requests, pc[e] = "store"
        PROVE  CurrentKey(e) \in Key /\ locks[CurrentKey(e)] = e
    <3>1. idx[e] \in Held(e) /\ CurrentKey(e) \in Key
      BY <1>1, <2>2 DEF Held, TypeOK, CurrentKey, WriteSets
    <3> QED
      BY <3>1 DEF IInv, LocksMatchProgress, CurrentKey
  <2>3. CurrentKey(q) \in Key /\ CurrentKey(q) # CurrentKey(r)
    BY <1>2, <2>1, <2>2
  <2>4. records'[CurrentKey(q)] = records[CurrentKey(q)]
    BY <1>1, <2>3 DEF Store, PutField, TypeOK
  <2> QED
    BY <1>2, <2>1, <2>4 DEF IInv, NoLostUpdate
<1> QED
  BY <1>1, <1>5, <1>6, <1>7, <1>8 DEF IInv

(* Releasing a lock removes one position from what the executor holds, and *)
(* no other position names the same record.                                *)
LEMMA UnlockStep ==
  ASSUME IInv, NEW r \in Requests, UnlockNext(r)
  PROVE  IInv'
<1> USE DatabaseAssumption, RequestAssumption
<1>1. TypeOK /\ TypeOK'
  BY NextType DEF IInv, Next, Execute
<1>2. /\ pc[r] = "unlock"
      /\ locks' = [locks EXCEPT ![CurrentKey(r)] = NoOwner]
      /\ UNCHANGED <<records, writeset, fld, loaded>>
  BY DEF UnlockNext, UnlockRecord
<1>3. CurrentKey(r) \in Key /\ idx[r] \in Index
  BY <1>1 DEF TypeOK, CurrentKey, WriteSets
<1>4. /\ pc'[r] \in {"unlock", "done"}
      /\ \A q \in Requests \ {r} : pc'[q] = pc[q] /\ idx'[q] = idx[q]
  BY <1>1, <1>2 DEF UnlockNext, TypeOK
<1>5. Held(r)' = Held(r) \ {idx[r]} /\ idx[r] \in Held(r)
  <2>1. CASE idx[r] < NumWrites
    <3>1. pc'[r] = "unlock" /\ idx'[r] = idx[r] + 1
      BY <1>1, <1>2, <2>1 DEF UnlockNext, TypeOK
    <3> QED
      BY <1>2, <1>3, <3>1 DEF Held, Index
  <2>2. CASE ~(idx[r] < NumWrites)
    <3>1. pc'[r] = "done"
      BY <1>1, <2>2 DEF UnlockNext, TypeOK
    <3>2. idx[r] = NumWrites
      BY <1>3, <2>2 DEF Index
    <3> QED
      BY <1>2, <1>3, <3>1, <3>2 DEF Held, Index
  <2> QED
    BY <2>1, <2>2
<1>6. \A q \in Requests \ {r} : Held(q)' = Held(q)
  BY <1>4 DEF Held
<1>7. LocksMatchProgress'
  <2> SUFFICES ASSUME NEW k \in Key, NEW q \in Requests
               PROVE  locks'[k] = q <=> \E a \in Held(q)' : writeset[q][a] = k
    BY <1>2 DEF LocksMatchProgress
  <2>1. locks[k] = q <=> \E a \in Held(q) : writeset[q][a] = k
    BY DEF IInv, LocksMatchProgress
  <2>2. locks'[k] = IF k = CurrentKey(r) THEN NoOwner ELSE locks[k]
    BY <1>1, <1>2 DEF TypeOK
  <2>3. CASE q = r
    <3>1. \A a \in Held(r)' : writeset[r][a] # CurrentKey(r)
      BY <1>1, <1>3, <1>5 DEF TypeOK, WriteSets, CurrentKey, Held
    <3> QED
      BY <1>5, <2>1, <2>2, <2>3, <3>1 DEF CurrentKey
  <2>4. CASE q # r
    <3>1. locks[CurrentKey(r)] = r
      BY <1>3, <1>5 DEF IInv, LocksMatchProgress, CurrentKey
    <3> QED
      BY <1>6, <2>1, <2>2, <2>4, <3>1
  <2> QED
    BY <2>3, <2>4
<1>8. Sorted'
  BY <1>2, <1>4 DEF IInv, Sorted
<1>9. LoopsReset'
  BY <1>2, <1>4 DEF IInv, LoopsReset
<1>10. NoLostUpdate'
  BY <1>2, <1>4 DEF IInv, NoLostUpdate, CurrentKey
<1> QED
  BY <1>1, <1>7, <1>8, <1>9, <1>10 DEF IInv

(* Every step keeps the inductive invariant.                               *)
LEMMA NextInv == IInv /\ [Next]_vars => IInv'
<1> SUFFICES ASSUME IInv, [Next]_vars PROVE IInv'
  OBVIOUS
<1>1. CASE UNCHANGED vars
  BY <1>1 DEF vars, locals, IInv, TypeOK, Sorted, LoopsReset,
              LocksMatchProgress, Held, NoLostUpdate, CurrentKey
<1>2. CASE \E r \in Requests : Execute(r)
  BY <1>2, SortStep, LockStep, LoadStep, StoreStep, UnlockStep DEF Execute
<1> QED
  BY <1>1, <1>2 DEF Next

LEMMA InvariantHolds == Spec => []IInv
BY InitInv, NextInv, PTL DEF Spec

(* Every record's mutex is owned by exactly the executor whose position in *)
(* Execute says so, whatever the number of requests and records.           *)
THEOREM LockDiscipline == Spec => []ExecuteInv
<1>1. IInv => ExecuteInv
  BY DEF IInv, ExecuteInv
<1> QED
  BY <1>1, InvariantHolds, PTL

(* No "+=" of DoWrite loses the update of another executor.                *)
THEOREM NoUpdateIsLost == Spec => []NoLostUpdate
BY InvariantHolds, PTL DEF IInv

(* The order of the keys orders the waiting.                               *)
LEMMA InvOrdersWaiting == IInv => OrderedWaiting
<1> SUFFICES ASSUME IInv, NEW r \in Requests, pc[r] = "lock",
                    NEW k \in Key, locks[k] = r
             PROVE  k < CurrentKey(r)
  BY DEF OrderedWaiting
<1>1. PICK a \in Held(r) : writeset[r][a] = k
  BY DEF IInv, LocksMatchProgress
<1>2. a \in Index /\ a < idx[r] /\ idx[r] \in Index
  BY <1>1 DEF Held, IInv, TypeOK
<1> QED
  BY <1>1, <1>2 DEF IInv, Sorted, CurrentKey

(* An executor that waits for a record holds only smaller records.         *)
THEOREM WaitingIsOrdered == Spec => []OrderedWaiting
BY InvariantHolds, InvOrdersWaiting, PTL

(* Any nonempty set of keys has a largest one.                             *)
LEMMA LargestKey ==
  ASSUME NEW W \in SUBSET Key, W # {}
  PROVE  \E k \in W : \A j \in W : j <= k
<1> DEFINE S == {NumRecords - k : k \in W}
<1>1. \A k \in W : NumRecords - k \in Nat
  BY DatabaseAssumption DEF Key
<1>2. S # {} /\ S \in SUBSET Nat
  BY <1>1
<1>3. PICK x \in S : \A y \in S : ~(<<y, x>> \in OpToRel(<, Nat))
  BY <1>2, NatLessThanWellFounded, WFMin
<1>4. ASSUME NEW y \in S PROVE x <= y
  <2>1. x \in Nat /\ y \in Nat
    BY <1>2
  <2>2. ~(y < x)
    BY <1>3, <2>1 DEF OpToRel
  <2> QED
    BY <2>1, <2>2
<1>5. PICK k \in W : x = NumRecords - k
  BY <1>3
<1>6. \A j \in W : NumRecords - k <= NumRecords - j
  BY <1>4, <1>5
<1>7. W \subseteq Int /\ NumRecords \in Int
  BY DatabaseAssumption DEF Key
<1> QED
  BY <1>6, <1>7

(* If everybody waited, the one waiting for the largest record would wait  *)
(* for somebody who waits for a larger one.                                *)
LEMMA InvDeadlockFree == IInv => DeadlockFree
<1> SUFFICES ASSUME IInv, ~AllDone, \A r \in Requests : ~CanStep(r)
             PROVE  FALSE
  BY DEF DeadlockFree
<1> USE DatabaseAssumption, RequestAssumption
<1> DEFINE W == {CurrentKey(r) : r \in {e \in Requests : pc[e] = "lock"}}
<1>1. ASSUME NEW r \in Requests PROVE CurrentKey(r) \in Key
  BY DEF IInv, TypeOK, CurrentKey, WriteSets
<1>2. \A r \in Requests :
        pc[r] = "done" \/ (pc[r] = "lock" /\ locks[CurrentKey(r)] # NoOwner)
  BY DEF CanStep
<1>3. W # {} /\ W \in SUBSET Key
  BY <1>1, <1>2 DEF AllDone
<1>4. PICK k \in W : \A j \in W : j <= k
  BY <1>3, LargestKey
<1>5. PICK r \in Requests : pc[r] = "lock" /\ k = CurrentKey(r)
  BY <1>4
<1>6. locks[k] \in Requests
  BY <1>1, <1>2, <1>5 DEF IInv, TypeOK
<1> DEFINE q == locks[k]
<1>7. pc[q] # "done"
  <2>1. \E a \in Held(q) : writeset[q][a] = k
    BY <1>1, <1>5, <1>6 DEF IInv, LocksMatchProgress
  <2> QED
    BY <2>1 DEF Held
<1>8. pc[q] = "lock"
  BY <1>2, <1>6, <1>7
<1>9. k < CurrentKey(q)
  BY <1>1, <1>5, <1>6, <1>8, InvOrdersWaiting DEF OrderedWaiting
<1>10. CurrentKey(q) <= k
  BY <1>4, <1>6, <1>8
<1> QED
  BY <1>1, <1>5, <1>6, <1>9, <1>10 DEF Key

(* Locking in key order never deadlocks, for any number of requests.       *)
THEOREM NoDeadlock == Spec => []DeadlockFree
BY InvariantHolds, InvDeadlockFree, PTL

-----------------------------------------------------------------------------
(* Refinement of AtomicExecution.  The mapping needs two facts about a     *)
(* record's mutex: who owns it decides whose update may be pending.        *)

(* The owner of a record is an executor that holds it.                     *)
LEMMA OwnerHolds ==
  ASSUME IInv, NEW k \in Key, locks[k] # NoOwner
  PROVE  /\ locks[k] \in Requests
         /\ pc[locks[k]] \in {"lock", "load", "store", "unlock"}
<1>1. locks[k] \in Requests
  BY DEF IInv, TypeOK
<1>2. \E a \in Held(locks[k]) : writeset[locks[k]][a] = k
  BY <1>1 DEF IInv, LocksMatchProgress
<1> QED
  BY <1>1, <1>2 DEF Held

(* The mapped database changes only where a mapped word does.              *)
LEMMA SettledSame ==
  ASSUME \A k \in Key, f \in Field : SettledWord(k, f)' = SettledWord(k, f)
  PROVE  SettledDb' = SettledDb
BY DEF SettledDb

(* The initial states map to initial states.                               *)
LEMMA InitRefines == Init => Serial!Init
<1> SUFFICES ASSUME Init PROVE Serial!Init
  OBVIOUS
<1>1. SettledDb \in [Key -> [Field -> RandomWords]]
  BY DEF Init, Create, SettledDb, SettledWord
<1>2. KeySets \in [Requests -> SUBSET Key]
  BY DEF Init, KeySets, WriteSets
<1>3. Settled = {}
  BY DEF Init, Settled
<1> QED
  BY <1>1, <1>2, <1>3 DEF Serial!Init

(* Sorting only reorders the keys: the serial execution stutters.          *)
LEMMA SortRefines ==
  ASSUME IInv, NEW r \in Requests, Sort(r)
  PROVE  UNCHANGED Serial!vars
<1> USE RequestAssumption
<1>1. PICK p \in Shuffles :
        writeset' = [writeset EXCEPT ![r] = [a \in Index |-> writeset[r][p[a]]]]
  BY DEF Sort
<1>2. KeySets' = KeySets
  <2> SUFFICES ASSUME NEW q \in Requests
               PROVE  {writeset'[q][a] : a \in Index} = {writeset[q][a] : a \in Index}
    BY DEF KeySets
  <2>1. CASE q = r
    <3>1. \A a \in Index : writeset'[r][a] = writeset[r][p[a]]
      BY <1>1 DEF IInv, TypeOK
    <3>2. /\ \A a \in Index : p[a] \in Index
          /\ \A b \in Index : \E a \in Index : p[a] = b
      BY DEF Shuffles
    <3> QED
      BY <2>1, <3>1, <3>2
  <2>2. CASE q # r
    BY <1>1, <2>2 DEF IInv, TypeOK
  <2> QED
    BY <2>1, <2>2
<1>3. Settled' = Settled
  BY DEF Settled, Sort, IInv, TypeOK
<1>4. SettledDb' = SettledDb
  <2> SUFFICES ASSUME NEW k \in Key, NEW f \in Field
               PROVE  SettledWord(k, f)' = SettledWord(k, f)
    BY SettledSame
  <2>1. UNCHANGED <<records, locks, idx, fld>>
    BY DEF Sort
  <2>2. CASE locks[k] = NoOwner
    BY <2>1, <2>2 DEF SettledWord
  <2>3. CASE locks[k] # NoOwner
    <3>1. locks[k] \in Requests /\ locks[k] # r
      BY <2>3, OwnerHolds DEF Sort
    <3>2. pc'[locks[k]] = pc[locks[k]] /\ writeset'[locks[k]] = writeset[locks[k]]
      BY <1>1, <3>1 DEF Sort, IInv, TypeOK
    <3> QED
      BY <2>1, <3>2 DEF SettledWord, Pending
  <2> QED
    BY <2>2, <2>3
<1> QED
  BY <1>2, <1>3, <1>4 DEF Serial!vars

(* A lock that is not the last one maps to a stutter, the last one to the  *)
(* serial execution of the whole request.                                  *)
LEMMA LockRefines ==
  ASSUME IInv, NEW r \in Requests, LockNext(r)
  PROVE  Serial!Execute(r) \/ UNCHANGED Serial!vars
<1> USE DatabaseAssumption, RequestAssumption
<1>1. /\ pc[r] = "lock"
      /\ locks[CurrentKey(r)] = NoOwner
      /\ locks' = [locks EXCEPT ![CurrentKey(r)] = r]
      /\ UNCHANGED <<records, writeset, fld, loaded>>
  BY DEF LockNext, LockRecord
<1>2. CurrentKey(r) \in Key /\ idx[r] \in Index
  BY DEF IInv, TypeOK, CurrentKey, WriteSets
<1>3. \A q \in Requests \ {r} : pc'[q] = pc[q] /\ idx'[q] = idx[q]
  BY DEF LockNext, IInv, TypeOK
<1>4. KeySets' = KeySets
  BY <1>1 DEF KeySets
<1>5. \A k \in Key : locks'[k] = IF k = CurrentKey(r) THEN r ELSE locks[k]
  BY <1>1 DEF IInv, TypeOK
<1>6. ASSUME NEW k \in Key, NEW f \in Field, locks[k] \in {r, NoOwner}
      PROVE  SettledWord(k, f) = records[k][f]
  BY <1>1, <1>6 DEF SettledWord, Pending
<1>7. ASSUME NEW k \in Key, NEW f \in Field, locks[k] \notin {r, NoOwner}
      PROVE  SettledWord(k, f)' = SettledWord(k, f)
  <2>1. locks'[k] = locks[k] /\ locks[k] \in Requests \ {r}
    BY <1>1, <1>5, <1>7, OwnerHolds
  <2> QED
    BY <1>1, <1>3, <2>1 DEF SettledWord, Pending
<1>8. CASE idx[r] < NumWrites
  <2>1. pc' = pc
    BY <1>8 DEF LockNext
  <2>2. Settled' = Settled
    BY <2>1 DEF Settled
  <2>3. SettledDb' = SettledDb
    <3> SUFFICES ASSUME NEW k \in Key, NEW f \in Field, locks[k] \in {r, NoOwner}
                 PROVE  SettledWord(k, f)' = SettledWord(k, f)
      BY <1>7, SettledSame
    <3>1. locks'[k] \in {r, NoOwner} /\ pc'[r] = "lock"
      BY <1>1, <1>5, <2>1
    <3>2. SettledWord(k, f)' = records[k][f]
      BY <1>1, <3>1 DEF SettledWord, Pending
    <3> QED
      BY <1>6, <3>2
  <2> QED
    BY <1>4, <2>2, <2>3 DEF Serial!vars
<1>9. CASE ~(idx[r] < NumWrites)
  <2>1. /\ pc' = [pc EXCEPT ![r] = "load"] /\ idx' = [idx EXCEPT ![r] = 1]
        /\ idx[r] = NumWrites /\ fld[r] = 0
    <3>1. pc' = [pc EXCEPT ![r] = "load"] /\ idx' = [idx EXCEPT ![r] = 1]
      BY <1>9 DEF LockNext
    <3>2. idx[r] = NumWrites
      BY <1>2, <1>9 DEF Index
    <3>3. fld[r] = 0
      BY <1>1 DEF IInv, LoopsReset
    <3> QED
      BY <3>1, <3>2, <3>3
  <2>2. pc'[r] = "load" /\ idx'[r] = 1 /\ fld'[r] = 0
    BY <1>1, <2>1 DEF IInv, TypeOK
  <2>3. r \notin Settled /\ Settled' = Settled \cup {r}
    BY <1>1, <1>3, <2>2 DEF Settled
  <2>4. ASSUME NEW k \in Key, NEW f \in Field, k \in KeySets[r]
        PROVE  SettledWord(k, f)' = Plus(SettledWord(k, f), Updates[r][f])
    <3>1. PICK a \in Index : writeset[r][a] = k
      BY <2>4 DEF KeySets
    <3>2. locks[k] \in {r, NoOwner} /\ locks'[k] = r
      <4>1. CASE a < NumWrites
        <5>1. a \in Held(r)
          BY <1>1, <2>1, <4>1 DEF Held
        <5>2. locks[k] = r
          BY <3>1, <5>1 DEF IInv, LocksMatchProgress
        <5> QED
          BY <1>5, <5>2
      <4>2. CASE a = NumWrites
        <5>1. k = CurrentKey(r)
          BY <2>1, <3>1, <4>2 DEF CurrentKey
        <5> QED
          BY <1>1, <1>5, <5>1
      <4> QED
        BY <4>1, <4>2 DEF Index
    <3>3. Pending(r, k, f)'
      <4>1. a \in 1..NumWrites /\ f >= 0
        BY DEF Index, Field
      <4> QED
        BY <1>1, <2>2, <3>1, <4>1 DEF Pending
    <3>4. SettledWord(k, f)' = Plus(records[k][f], Updates[r][f])
      BY <1>1, <3>2, <3>3 DEF SettledWord, Plus
    <3> QED
      BY <1>6, <3>2, <3>4
  <2>5. ASSUME NEW k \in Key, NEW f \in Field, k \notin KeySets[r]
        PROVE  SettledWord(k, f)' = SettledWord(k, f)
    <3>1. \A a \in Index : writeset[r][a] # k
      BY <2>5 DEF KeySets
    <3>2. locks[k] # r
      BY <3>1 DEF IInv, LocksMatchProgress, Held
    <3>3. k # CurrentKey(r)
      BY <1>2, <3>1 DEF CurrentKey
    <3>4. CASE locks[k] = NoOwner
      BY <1>1, <1>5, <3>3, <3>4 DEF SettledWord
    <3> QED
      BY <1>7, <3>2, <3>4
  <2>6. SettledDb' = [k \in Key |-> [f \in Field |->
                        IF k \in KeySets[r]
                          THEN (SettledDb[k][f] + Updates[r][f]) % WordSize
                          ELSE SettledDb[k][f]]]
    BY <2>4, <2>5 DEF SettledDb, Plus
  <2> QED
    BY <1>4, <2>3, <2>6 DEF Serial!Execute
<1> QED
  BY <1>8, <1>9

(* Reading a word changes nothing the serial execution sees.               *)
LEMMA LoadRefines ==
  ASSUME IInv, NEW r \in Requests, Load(r)
  PROVE  UNCHANGED Serial!vars
<1>1. /\ pc[r] = "load" /\ pc'[r] = "store"
      /\ \A q \in Requests \ {r} : pc'[q] = pc[q]
      /\ UNCHANGED <<records, locks, writeset, idx, fld>>
  BY DEF Load, IInv, TypeOK
<1>2. Settled' = Settled /\ KeySets' = KeySets
  BY <1>1 DEF Settled, KeySets
<1>3. ASSUME NEW k \in Key, NEW f \in Field
      PROVE  SettledWord(k, f)' = SettledWord(k, f)
  <2>1. CASE locks[k] = NoOwner
    BY <1>1, <2>1 DEF SettledWord
  <2>2. CASE locks[k] # NoOwner
    <3>1. locks[k] \in Requests
      BY <2>2, OwnerHolds
    <3>2. Pending(locks[k], k, f)' = Pending(locks[k], k, f)
      BY <1>1, <3>1 DEF Pending
    <3> QED
      BY <1>1, <3>2 DEF SettledWord, Plus
  <2> QED
    BY <2>1, <2>2
<1> QED
  BY <1>2, <1>3, SettledSame DEF Serial!vars

(* Releasing a record: its owner had nothing pending on it any more.       *)
LEMMA UnlockRefines ==
  ASSUME IInv, NEW r \in Requests, UnlockNext(r)
  PROVE  UNCHANGED Serial!vars
<1> USE DatabaseAssumption, RequestAssumption
<1>1. /\ pc[r] = "unlock" /\ pc'[r] \in {"unlock", "done"}
      /\ locks' = [locks EXCEPT ![CurrentKey(r)] = NoOwner]
      /\ \A q \in Requests \ {r} : pc'[q] = pc[q] /\ idx'[q] = idx[q]
      /\ UNCHANGED <<records, writeset, fld>>
  BY DEF UnlockNext, UnlockRecord, IInv, TypeOK
<1>2. Settled' = Settled /\ KeySets' = KeySets
  BY <1>1 DEF Settled, KeySets
<1>3. locks[CurrentKey(r)] = r /\ CurrentKey(r) \in Key
  <2>1. idx[r] \in Held(r) /\ CurrentKey(r) \in Key
    BY <1>1 DEF IInv, TypeOK, Held, CurrentKey, WriteSets, Index
  <2> QED
    BY <2>1 DEF IInv, LocksMatchProgress, CurrentKey
<1>4. ASSUME NEW k \in Key, NEW f \in Field
      PROVE  SettledWord(k, f)' = SettledWord(k, f)
  <2>1. locks'[k] = IF k = CurrentKey(r) THEN NoOwner ELSE locks[k]
    BY <1>1 DEF IInv, TypeOK
  <2>2. CASE locks[k] \in {r, NoOwner}
    <3>1. locks'[k] \in {r, NoOwner}
      BY <2>1, <2>2
    <3>2. SettledWord(k, f) = records[k][f]
      BY <1>1, <2>2 DEF SettledWord, Pending
    <3>3. SettledWord(k, f)' = records[k][f]
      BY <1>1, <3>1 DEF SettledWord, Pending
    <3> QED
      BY <3>2, <3>3
  <2>3. CASE locks[k] \notin {r, NoOwner}
    <3>1. locks'[k] = locks[k] /\ locks[k] \in Requests \ {r}
      BY <1>3, <2>1, <2>3, OwnerHolds
    <3> QED
      BY <1>1, <3>1 DEF SettledWord, Pending
  <2> QED
    BY <2>2, <2>3
<1> QED
  BY <1>2, <1>4, SettledSame DEF Serial!vars

(* Writing a word back takes exactly that word off what is pending.        *)
LEMMA StorePending ==
  ASSUME IInv, NEW r \in Requests, Store(r), NEW k \in Key, NEW f \in Field
  PROVE  Pending(r, k, f)' <=>
           Pending(r, k, f) /\ ~(k = CurrentKey(r) /\ f = fld[r])
<1> USE DatabaseAssumption, RequestAssumption
<1>1. pc[r] = "store" /\ writeset' = writeset
  BY DEF Store
<1>2. /\ idx[r] \in Index /\ fld[r] \in Field
      /\ \A a, b \in Index : writeset[r][a] = writeset[r][b] => a = b
  BY DEF IInv, TypeOK, WriteSets
<1>3. Pending(r, k, f) <=>
        \E a \in Index : /\ a >= idx[r] /\ writeset[r][a] = k
                         /\ a = idx[r] => f >= fld[r]
  BY <1>1, <1>2 DEF Pending, Index
<1>4. CASE fld[r] < NumFields - 1
  <2>1. pc'[r] = "load" /\ idx'[r] = idx[r] /\ fld'[r] = fld[r] + 1
    BY <1>4 DEF Store, IInv, TypeOK, Field
  <2>2. Pending(r, k, f)' <=>
          \E a \in Index : /\ a >= idx[r] /\ writeset[r][a] = k
                           /\ a = idx[r] => f >= fld[r] + 1
    BY <1>1, <1>2, <2>1 DEF Pending, Index
  <2>3. f >= fld[r] + 1 <=> f >= fld[r] /\ f # fld[r]
    BY <1>2 DEF Field
  <2> QED
    BY <1>2, <1>3, <2>2, <2>3 DEF CurrentKey, Index
<1>5. CASE ~(fld[r] < NumFields - 1)
  <2>1. fld[r] = NumFields - 1 /\ (f >= fld[r] <=> f = fld[r]) /\ f >= 0
    BY <1>2, <1>5 DEF Field
  <2>2. fld'[r] = 0
    BY <1>5 DEF Store, IInv, TypeOK
  <2>3. CASE idx[r] < NumWrites
    <3>1. pc'[r] = "load" /\ idx'[r] = idx[r] + 1
      BY <1>5, <2>3 DEF Store, IInv, TypeOK
    <3>2. Pending(r, k, f)' <=>
            \E a \in Index : a >= idx[r] + 1 /\ writeset[r][a] = k
      BY <1>1, <1>2, <2>1, <2>2, <3>1 DEF Pending, Index
    <3> QED
      BY <1>2, <1>3, <2>1, <3>2 DEF CurrentKey, Index
  <2>4. CASE ~(idx[r] < NumWrites)
    <3>1. pc'[r] = "unlock"
      BY <1>5, <2>4 DEF Store, IInv, TypeOK
    <3>2. idx[r] = NumWrites
      BY <1>2, <2>4 DEF Index
    <3> QED
      BY <1>3, <2>1, <3>1, <3>2 DEF Pending, CurrentKey, Index
  <2> QED
    BY <2>3, <2>4
<1> QED
  BY <1>4, <1>5

(* The word written back is the one the serial execution already shows.    *)
LEMMA StoreRefines ==
  ASSUME IInv, NEW r \in Requests, Store(r)
  PROVE  UNCHANGED Serial!vars
<1> USE DatabaseAssumption, RequestAssumption
<1>1. /\ pc[r] = "store" /\ pc'[r] \in {"load", "unlock"}
      /\ \A q \in Requests \ {r} :
           pc'[q] = pc[q] /\ idx'[q] = idx[q] /\ fld'[q] = fld[q]
      /\ UNCHANGED <<locks, writeset>>
  BY DEF Store, IInv, TypeOK
<1>2. Settled' = Settled /\ KeySets' = KeySets
  BY <1>1 DEF Settled, KeySets
<1>3. locks[CurrentKey(r)] = r /\ CurrentKey(r) \in Key
  <2>1. idx[r] \in Held(r) /\ CurrentKey(r) \in Key
    BY <1>1 DEF IInv, TypeOK, Held, CurrentKey, WriteSets, Index
  <2> QED
    BY <2>1 DEF IInv, LocksMatchProgress, CurrentKey
<1>4. \A k \in Key, f \in Field :
        records'[k][f] = IF k = CurrentKey(r) /\ f = fld[r]
                           THEN Plus(records[k][f], Updates[r][f])
                           ELSE records[k][f]
  <2>1. loaded[r] = records[CurrentKey(r)][fld[r]]
    BY <1>1 DEF IInv, NoLostUpdate
  <2>2. records' = [records EXCEPT ![CurrentKey(r)] =
                      [@ EXCEPT ![fld[r]] = Plus(loaded[r], Updates[r][fld[r]])]]
    BY DEF Store, PutField
  <2> QED
    BY <1>3, <2>1, <2>2 DEF IInv, TypeOK
<1>5. ASSUME NEW k \in Key, NEW f \in Field
      PROVE  SettledWord(k, f)' = SettledWord(k, f)
  <2>1. CASE locks[k] = r
    <3>1. CASE k = CurrentKey(r) /\ f = fld[r]
      <4>1. Pending(r, k, f)
        <5>1. idx[r] \in idx[r]..NumWrites /\ fld[r] >= fld[r]
          BY DEF IInv, TypeOK, Index, Field
        <5> QED
          BY <1>1, <3>1, <5>1 DEF Pending, CurrentKey
      <4>2. ~Pending(r, k, f)'
        BY <3>1, StorePending
      <4> QED
        BY <1>1, <1>4, <2>1, <3>1, <4>1, <4>2 DEF SettledWord
    <3>2. CASE ~(k = CurrentKey(r) /\ f = fld[r])
      <4>1. Pending(r, k, f)' <=> Pending(r, k, f)
        BY <3>2, StorePending
      <4> QED
        BY <1>1, <1>4, <2>1, <3>2, <4>1 DEF SettledWord, Plus
    <3> QED
      BY <3>1, <3>2
  <2>2. CASE locks[k] = NoOwner
    BY <1>1, <1>3, <1>4, <2>2 DEF SettledWord
  <2>3. CASE locks[k] \notin {r, NoOwner}
    <3>1. locks[k] \in Requests \ {r} /\ k # CurrentKey(r)
      BY <1>3, <2>3, OwnerHolds
    <3>2. records'[k][f] = records[k][f]
      BY <1>4, <3>1
    <3> QED
      BY <1>1, <3>1, <3>2 DEF SettledWord, Pending, Plus
  <2> QED
    BY <2>1, <2>2, <2>3
<1> QED
  BY <1>2, <1>5, SettledSame DEF Serial!vars

(* Every step maps to a serial execution of one request or to a stutter.   *)
LEMMA NextRefines == IInv /\ [Next]_vars => [Serial!Next]_(Serial!vars)
<1> SUFFICES ASSUME IInv, [Next]_vars
             PROVE  Serial!Next \/ UNCHANGED Serial!vars
  OBVIOUS
<1>1. CASE UNCHANGED vars
  BY <1>1 DEF vars, locals, Serial!vars, SettledDb, SettledWord, Pending,
              Plus, KeySets, Settled
<1>2. CASE \E r \in Requests : Execute(r)
  BY <1>2, SortRefines, LockRefines, LoadRefines, StoreRefines, UnlockRefines
     DEF Execute, Serial!Next
<1> QED
  BY <1>1, <1>2 DEF Next

(* Request::Execute is serializable for any number of requests, records,   *)
(* fields and writes per request: the interleaved executions implement the *)
(* specification in which each request runs alone in one step.             *)
THEOREM ExecuteIsSerializable == Spec => Serializable
<1>1. Init => Serial!Init
  BY InitRefines
<1>2. IInv /\ [Next]_vars => [Serial!Next]_(Serial!vars)
  BY NextRefines
<1> QED
  BY <1>1, <1>2, InvariantHolds, PTL DEF Spec, Serializable, Serial!Spec

-----------------------------------------------------------------------------
(* Sums.  A set of numbers has a least one, from which partial sums exist  *)
(* and are what one expects.                                               *)
LEMMA LeastNumber ==
  ASSUME NEW T \in SUBSET Nat, T # {}
  PROVE  \E n \in T : \A m \in T : n <= m
<1>1. PICK n \in T : \A m \in T : ~(<<m, n>> \in OpToRel(<, Nat))
  BY NatLessThanWellFounded, WFMin
<1>2. ASSUME NEW m \in T PROVE n <= m
  <2>1. n \in Nat /\ m \in Nat
    OBVIOUS
  <2>2. ~(m < n)
    BY <1>1, <2>1, Zenon DEF OpToRel
  <2> QED
    BY <2>1, <2>2
<1> QED
  BY <1>2

(* s is the sequence of partial sums of d up to n.                         *)
Sums(d, n, s) ==
  /\ s \in [0..n -> Nat]
  /\ s[0] = 0
  /\ \A m \in 0..(n - 1) : s[m + 1] = s[m] + d[m + 1]

LEMMA SumsExist ==
  ASSUME NEW d \in [Nat -> Nat]
  PROVE  \A n \in Nat : \E s : Sums(d, n, s)
<1> DEFINE T == {n \in Nat : ~ \E s : Sums(d, n, s)}
<1> SUFFICES ASSUME T # {} PROVE FALSE
  OBVIOUS
<1>1. PICK n \in T : \A m \in T : n <= m
  BY LeastNumber
<1>2. n # 0
  <2>1. Sums(d, 0, [m \in 0..0 |-> 0])
    BY DEF Sums
  <2> QED
    BY <1>1, <2>1
<1>3. n \in Nat /\ n - 1 \in Nat /\ n - 1 \notin T
  BY <1>1, <1>2
<1>4. PICK s : Sums(d, n - 1, s)
  BY <1>3
<1> DEFINE t == [m \in 0..n |-> IF m = n THEN s[n - 1] + d[n] ELSE s[m]]
<1>5. t \in [0..n -> Nat] /\ t[0] = 0
  <2>1. n - 1 \in 0..(n - 1) /\ 0 \in 0..(n - 1) /\ \A m \in 0..n : m # n => m \in 0..(n - 1)
    BY <1>2, <1>3
  <2>2. s[0] = 0 /\ \A m \in 0..(n - 1) : s[m] \in Nat
    BY <1>4 DEF Sums
  <2>3. s[n - 1] + d[n] \in Nat
    BY <1>3, <2>1, <2>2
  <2> QED
    BY <1>2, <1>3, <2>1, <2>2, <2>3
<1>6. ASSUME NEW m \in 0..(n - 1) PROVE t[m + 1] = t[m] + d[m + 1]
  <2>1. CASE m = n - 1
    BY <1>3, <2>1
  <2>2. CASE m # n - 1
    <3>1. m \in 0..(n - 2) /\ m + 1 \in 0..(n - 1)
      BY <1>3, <2>2
    <3> QED
      BY <1>3, <1>4, <3>1 DEF Sums
  <2> QED
    BY <2>1, <2>2
<1>7. Sums(d, n, t)
  BY <1>5, <1>6 DEF Sums
<1> QED
  BY <1>1, <1>7

(* Partial sums of two sequences that differ by x at p.                    *)
LEMMA SumsDiffer ==
  ASSUME NEW n \in Nat, NEW d, NEW e, NEW s, NEW t, Sums(d, n, s), Sums(e, n, t),
         NEW p \in 1..n, NEW x \in Nat, e[p] = d[p] + x,
         \A m \in 1..n : d[m] \in Nat /\ (m # p => e[m] = d[m])
  PROVE  t[n] = s[n] + x
<1> DEFINE Off(m) == IF m < p THEN 0 ELSE x
           T == {m \in 0..n : t[m] # s[m] + Off(m)}
<1>1. T = {}
  <2> SUFFICES ASSUME T # {} PROVE FALSE
    OBVIOUS
  <2>1. PICK m \in T : \A k \in T : m <= k
    <3>1. T \in SUBSET Nat
      OBVIOUS
    <3> HIDE DEF T
    <3> QED
      BY <3>1, LeastNumber
  <2>2. m # 0
    BY DEF Sums
  <2>3. m \in 1..n /\ m - 1 \in 0..(n - 1) /\ m - 1 \notin T
    BY <2>1, <2>2
  <2>4. t[m - 1] = s[m - 1] + Off(m - 1)
    BY <2>3
  <2>5. /\ t[m] = t[m - 1] + e[m] /\ s[m] = s[m - 1] + d[m]
        /\ s[m - 1] \in Nat /\ d[m] \in Nat
    BY <2>3 DEF Sums
  <2>6. t[m] = s[m] + Off(m)
    BY <2>3, <2>4, <2>5
  <2> QED
    BY <2>6
<1> QED
  BY <1>1

-----------------------------------------------------------------------------
(* run_test.  What r adds to field f of record k, and what the requests of *)
(* a set R add together: the sum along Order.                              *)
Adds(r, k, f) == IF k \in KeySets[r] THEN Updates[r][f] ELSE 0

Terms(R, k, f) ==
  [n \in Nat |-> IF n \in 1..Len(Order) /\ Order[n] \in R THEN Adds(Order[n], k, f) ELSE 0]

Total(R, k, f) == (CHOOSE s : Sums(Terms(R, k, f), Len(Order), s))[Len(Order)]

LEMMA AddsType ==
  ASSUME NEW r \in Requests, NEW k \in Key, NEW f \in Field
  PROVE  Adds(r, k, f) \in Nat
BY DatabaseAssumption, RequestAssumption DEF Adds, Word

LEMMA TotalIs ==
  ASSUME NEW R, NEW k \in Key, NEW f \in Field
  PROVE  /\ Len(Order) \in Nat
         /\ Terms(R, k, f) \in [Nat -> Nat]
         /\ \E s : Sums(Terms(R, k, f), Len(Order), s) /\ Total(R, k, f) = s[Len(Order)]
         /\ Total(R, k, f) \in Nat
<1>1. Len(Order) \in Nat /\ \A n \in 1..Len(Order) : Order[n] \in Requests
  BY RunTestAssumption
<1>2. Terms(R, k, f) \in [Nat -> Nat]
  BY <1>1, AddsType DEF Terms
<1>3. \E s : Sums(Terms(R, k, f), Len(Order), s)
  BY <1>1, <1>2, SumsExist
<1> DEFINE s == CHOOSE s : Sums(Terms(R, k, f), Len(Order), s)
<1>4. Sums(Terms(R, k, f), Len(Order), s) /\ Total(R, k, f) = s[Len(Order)]
  BY <1>3 DEF Total
<1> HIDE DEF s
<1>5. s[Len(Order)] \in Nat
  BY <1>1, <1>4 DEF Sums
<1> QED
  BY <1>1, <1>2, <1>4, <1>5

(* No request adds nothing.                                                *)
LEMMA TotalOfNone ==
  ASSUME NEW k \in Key, NEW f \in Field
  PROVE  Total({}, k, f) = 0
<1> DEFINE L == Len(Order)
<1>1. L \in Nat
  BY TotalIs
<1>2. PICK s : Sums(Terms({}, k, f), L, s) /\ Total({}, k, f) = s[L]
  BY TotalIs
<1> DEFINE T == {m \in 0..L : s[m] # 0}
<1>3. T = {}
  <2> SUFFICES ASSUME T # {} PROVE FALSE
    OBVIOUS
  <2>1. PICK m \in T : \A j \in T : m <= j
    <3>1. T \in SUBSET Nat
      BY <1>1
    <3> HIDE DEF T
    <3> QED
      BY <3>1, LeastNumber
  <2>2. m # 0
    BY <1>2 DEF Sums
  <2>3. m \in 1..L /\ m - 1 \in 0..(L - 1) /\ m - 1 \notin T
    BY <1>1, <2>1, <2>2
  <2>4. s[m] = s[m - 1] + Terms({}, k, f)[m] /\ s[m - 1] = 0
    BY <1>1, <1>2, <2>3 DEF Sums
  <2>5. Terms({}, k, f)[m] = 0
    BY <1>1, <2>3 DEF Terms
  <2> QED
    BY <2>4, <2>5
<1> QED
  BY <1>1, <1>2, <1>3

(* One more request adds its updates, wherever it is in Order.             *)
LEMMA TotalOfOneMore ==
  ASSUME NEW R, NEW r \in Requests, r \notin R, NEW k \in Key, NEW f \in Field
  PROVE  Total(R \cup {r}, k, f) = Total(R, k, f) + Adds(r, k, f)
<1> DEFINE L == Len(Order)
           Q == R \cup {r}
           d == Terms(R, k, f)
           e == Terms(Q, k, f)
<1>1. L \in Nat /\ d \in [Nat -> Nat]
  BY TotalIs
<1>2. PICK s : Sums(d, L, s) /\ Total(R, k, f) = s[L]
  BY TotalIs
<1>3. PICK t : Sums(e, L, t) /\ Total(Q, k, f) = t[L]
  <2> HIDE DEF Q
  <2> QED
    BY TotalIs
<1>4. PICK p \in 1..L : Order[p] = r
  BY RunTestAssumption
<1>5. e[p] = d[p] + Adds(r, k, f)
  BY <1>1, <1>4, AddsType DEF Terms
<1>6. \A m \in 1..L : m # p => Order[m] # r
  BY <1>4, RunTestAssumption
<1>7. \A m \in 1..L : d[m] \in Nat /\ (m # p => e[m] = d[m])
  BY <1>1, <1>6 DEF Terms
<1>8. Adds(r, k, f) \in Nat
  BY AddsType
<1> HIDE DEF L, Q, d, e
<1> QED
  BY <1>1, <1>2, <1>3, <1>4, <1>5, <1>7, <1>8, SumsDiffer DEF Q

(* Adding to a word before or after it has wrapped around is the same.     *)
LEMMA PlusWraps ==
  ASSUME NEW v \in Nat, NEW u \in Nat
  PROVE  ((v % WordSize) + u) % WordSize = (v + u) % WordSize
<1>1. ASSUME NEW a \in Nat
      PROVE  /\ a \div WordSize \in Int /\ a % WordSize \in 0..(WordSize - 1)
             /\ a = WordSize * (a \div WordSize) + (a % WordSize)
  BY DatabaseAssumption
<1>2. ASSUME NEW q \in Int, NEW w \in 0..(WordSize - 1)
      PROVE  (WordSize * q + w) % WordSize = w
  BY DatabaseAssumption
<1> DEFINE q == v \div WordSize
           w == v % WordSize
<1>3. q \in Int /\ w \in 0..(WordSize - 1) /\ v = WordSize * q + w
  BY <1>1
<1> HIDE DEF q, w
<1> DEFINE p == (w + u) \div WordSize
           x == (w + u) % WordSize
<1>4. w + u \in Nat
  BY <1>3, DatabaseAssumption
<1>5. p \in Int /\ x \in 0..(WordSize - 1) /\ w + u = WordSize * p + x
  BY <1>1, <1>4
<1> HIDE DEF p, x
<1>6. v + u = WordSize * (q + p) + x /\ q + p \in Int
  BY <1>3, <1>5, DatabaseAssumption
<1>7. (v + u) % WordSize = x
  BY <1>2, <1>5, <1>6
<1> QED
  BY <1>7 DEF w, x

(* The requests the sequential part has run.                               *)
Rerun == {Order[i] : i \in 1..done}

(* The inductive invariant: the sequential part starts when the concurrent *)
(* one is over, and its database lacks what the requests add that have     *)
(* settled in the one and not run in the other.                            *)
MatchInv ==
  /\ db_simple \in [Key -> [Field -> Word]]
  /\ done \in 0..Len(Order)
  /\ done > 0 => AllDone
  /\ DatabasesMatch
  /\ \A k \in Key, f \in Field :
       SettledWord(k, f) = (db_simple[k][f] + Total(Settled \ Rerun, k, f)) % WordSize

LEMMA WordWraps ==
  ASSUME NEW v \in Word
  PROVE  v \in Nat /\ v % WordSize = v
BY DatabaseAssumption DEF Word

(* When all are done nothing is pending.                                   *)
LEMMA SettledWhenDone ==
  ASSUME AllDone, IInv
  PROVE  Settled = Requests /\ \A k \in Key, f \in Field : SettledWord(k, f) = records[k][f]
<1>1. \A k \in Key, f \in Field : locks[k] # NoOwner => ~Pending(locks[k], k, f)
  BY DEF AllDone, Pending, IInv, TypeOK
<1> QED
  BY <1>1 DEF AllDone, Settled, SettledWord

LEMMA InitMatch ==
  ASSUME TestInit
  PROVE  MatchInv
<1>1. Init /\ done = 0 /\ verdict = "none" /\ \A k \in Key : db_simple[k] = records[k]
  BY DEF TestInit, Copy
<1>2. records \in [Key -> [Field -> Word]] /\ db_simple \in [Key -> [Field -> Word]]
  BY <1>1, InitType DEF TypeOK, TestInit, Copy
<1>3. Settled \ Rerun = {}
  BY <1>1 DEF Init, Settled
<1>4. ASSUME NEW k \in Key, NEW f \in Field
      PROVE  SettledWord(k, f) = (db_simple[k][f] + Total(Settled \ Rerun, k, f)) % WordSize
  <2>1. SettledWord(k, f) = records[k][f]
    BY <1>1 DEF Init, Create, SettledWord
  <2>2. Total(Settled \ Rerun, k, f) = 0
    BY <1>3, TotalOfNone
  <2>3. records[k][f] \in Word /\ db_simple[k][f] = records[k][f]
    BY <1>1, <1>2
  <2> QED
    BY <2>1, <2>2, <2>3, WordWraps
<1>5. done \in 0..Len(Order) /\ ~(done > 0)
  BY <1>1, RunTestAssumption
<1>6. DatabasesMatch
  BY <1>1 DEF DatabasesMatch
<1> QED
  BY <1>2, <1>4, <1>5, <1>6 DEF MatchInv

(* A step of the concurrent part: the request that settles, if any, adds   *)
(* to both sides.                                                          *)
LEMMA ConcurrentMatch ==
  ASSUME IInv, MatchInv, [Next]_vars, UNCHANGED testvars
  PROVE  MatchInv'
<1>1. UNCHANGED <<db_simple, done, verdict>> /\ Rerun' = Rerun
  BY DEF testvars, Rerun
<1>2. CASE UNCHANGED Serial!vars
  <2>1. SettledDb' = SettledDb /\ Settled' = Settled /\ KeySets' = KeySets
    BY <1>2 DEF Serial!vars
  <2>2. \A k \in Key, f \in Field : SettledWord(k, f)' = SettledWord(k, f)
    BY <2>1 DEF SettledDb
  <2>3. \A R : \A k \in Key, f \in Field : Total(R, k, f)' = Total(R, k, f)
    BY <2>1 DEF Total, Terms, Adds
  <2>4. AllDone => AllDone'
    BY DEF AllDone, Next, Execute, Sort, LockNext, Load, Store, UnlockNext, vars, locals
  <2> QED
    BY <1>1, <2>1, <2>2, <2>3, <2>4 DEF MatchInv, DatabasesMatch
<1>3. ASSUME NEW r \in Requests, Serial!Execute(r)
      PROVE  MatchInv'
  <2>1. /\ r \notin Settled /\ Settled' = Settled \cup {r} /\ KeySets' = KeySets
        /\ SettledDb' = [k \in Key |-> [f \in Field |->
              IF k \in KeySets[r] THEN (SettledDb[k][f] + Updates[r][f]) % WordSize
                                  ELSE SettledDb[k][f]]]
    BY <1>3 DEF Serial!Execute
  <2>2. done = 0
    BY <2>1, SettledWhenDone DEF MatchInv
  <2>3. Rerun = {}
    BY <2>2 DEF Rerun
  <2>4. ASSUME NEW k \in Key, NEW f \in Field
        PROVE  SettledWord(k, f)' = (db_simple[k][f] + Total(Settled \cup {r}, k, f)) % WordSize
    <3> DEFINE old == db_simple[k][f] + Total(Settled, k, f)
    <3>1. old \in Nat /\ SettledWord(k, f) = old % WordSize
      <4>1. db_simple[k][f] \in Nat
        BY WordWraps DEF MatchInv
      <4>2. Total(Settled, k, f) \in Nat
        BY TotalIs
      <4> QED
        BY <2>3, <4>1, <4>2 DEF MatchInv
    <3>2. Adds(r, k, f) \in Nat
      BY AddsType
    <3>3. db_simple[k][f] + Total(Settled \cup {r}, k, f) = old + Adds(r, k, f)
      <4>1. db_simple[k][f] \in Nat /\ Total(Settled, k, f) \in Nat
        BY WordWraps, TotalIs DEF MatchInv
      <4>2. Total(Settled \cup {r}, k, f) = Total(Settled, k, f) + Adds(r, k, f)
        BY <2>1, TotalOfOneMore
      <4> QED
        BY <3>2, <4>1, <4>2
    <3>4. SettledWord(k, f)' = (SettledWord(k, f) + Adds(r, k, f)) % WordSize
      <4>1. SettledWord(k, f)' = SettledDb'[k][f] /\ SettledWord(k, f) = SettledDb[k][f]
        BY DEF SettledDb
      <4>2. CASE k \in KeySets[r]
        BY <2>1, <4>1, <4>2 DEF Adds
      <4>3. CASE k \notin KeySets[r]
        <5>1. SettledWord(k, f)' = SettledWord(k, f) /\ Adds(r, k, f) = 0
          BY <2>1, <4>1, <4>3 DEF Adds
        <5>2. SettledWord(k, f) \in Word
          BY <3>1, DatabaseAssumption DEF Word
        <5> QED
          BY <5>1, <5>2, WordWraps
      <4> QED
        BY <4>2, <4>3
    <3> HIDE DEF old
    <3> QED
      BY <3>1, <3>2, <3>3, <3>4, PlusWraps
  <2>5. \A R : \A k \in Key, f \in Field : Total(R, k, f)' = Total(R, k, f)
    BY <2>1 DEF Total, Terms, Adds
  <2>6. (Settled \ Rerun)' = Settled \cup {r}
    BY <1>1, <2>1, <2>3
  <2>7. ASSUME NEW k \in Key, NEW f \in Field
        PROVE  SettledWord(k, f)' = (db_simple'[k][f] + Total(Settled \ Rerun, k, f)') % WordSize
    BY <1>1, <2>4, <2>5, <2>6
  <2>8. done' \in 0..Len(Order) /\ ~(done' > 0)
    BY <1>1, <2>2 DEF MatchInv
  <2>9. DatabasesMatch' /\ db_simple' \in [Key -> [Field -> Word]]
    BY <1>1 DEF MatchInv, DatabasesMatch
  <2> QED
    BY <2>7, <2>8, <2>9 DEF MatchInv
<1> QED
  BY <1>2, <1>3, NextRefines DEF Serial!Next

(* A request of the sequential part: what it adds to db_simple is no       *)
(* longer missing there.                                                   *)
LEMMA SimpleMatch ==
  ASSUME IInv, MatchInv, ExecuteSimple
  PROVE  MatchInv'
<1> DEFINE r == Order[done + 1]
           R == Settled \ Rerun
           Q == (Settled \ Rerun)'
<1>1. /\ AllDone /\ done < Len(Order) /\ done' = done + 1 /\ UNCHANGED <<vars, verdict>>
      /\ db_simple' = [k \in Key |-> [f \in Field |->
            IF \E a \in Index : writeset[r][a] = k
              THEN Plus(db_simple[k][f], Updates[r][f])
              ELSE db_simple[k][f]]]
  BY DEF ExecuteSimple
<1>2. done \in Nat /\ Len(Order) \in Nat /\ done + 1 \in 1..Len(Order) /\ r \in Requests
  BY <1>1, RunTestAssumption DEF MatchInv
<1>3. Rerun' = Rerun \cup {r} /\ r \notin Rerun
  <2>1. 1..(done + 1) = (1..done) \cup {done + 1} /\ done + 1 \notin 1..done
        /\ 1..done \subseteq DOMAIN Order /\ done + 1 \in DOMAIN Order
    BY <1>2, RunTestAssumption
  <2> QED
    BY <1>1, <2>1, RunTestAssumption DEF Rerun
<1>4. Settled = Requests /\ UNCHANGED <<Settled, KeySets>>
  BY <1>1, SettledWhenDone DEF vars, locals, Settled, KeySets
<1>5. R = Q \cup {r} /\ r \notin Q
  BY <1>2, <1>3, <1>4
<1>6. \A S : \A k \in Key, f \in Field : Total(S, k, f)' = Total(S, k, f)
  BY <1>4 DEF Total, Terms, Adds
<1>7. ASSUME NEW k \in Key, NEW f \in Field
      PROVE  SettledWord(k, f)' = (db_simple'[k][f] + Total(Q, k, f)) % WordSize
  <2>1. SettledWord(k, f)' = SettledWord(k, f)
    BY <1>1 DEF vars, locals, SettledWord, Pending, Plus
  <2>2. SettledWord(k, f) = (db_simple[k][f] + Total(R, k, f)) % WordSize
    BY DEF MatchInv
  <2> HIDE DEF r, R, Q
  <2>3. Total(R, k, f) = Total(Q, k, f) + Adds(r, k, f)
    BY <1>2, <1>5, TotalOfOneMore
  <2>4. Total(Q, k, f) \in Nat /\ Adds(r, k, f) \in Nat /\ db_simple[k][f] \in Word
    BY <1>2, AddsType, TotalIs DEF MatchInv
  <2>5. db_simple'[k][f] = (db_simple[k][f] + Adds(r, k, f)) % WordSize
    <3>1. KeySets[r] = {writeset[r][a] : a \in Index}
      BY <1>2 DEF KeySets
    <3>2. CASE k \in KeySets[r]
      BY <1>1, <3>1, <3>2 DEF Adds, Plus
    <3>3. CASE k \notin KeySets[r]
      <4>1. db_simple'[k][f] = db_simple[k][f] /\ Adds(r, k, f) = 0
        BY <1>1, <3>1, <3>3 DEF Adds
      <4> QED
        BY <2>4, <4>1, WordWraps
    <3> QED
      BY <3>2, <3>3
  <2>6. db_simple[k][f] \in Nat /\ db_simple[k][f] + Adds(r, k, f) \in Nat
    BY <2>4, WordWraps
  <2>7. db_simple[k][f] + Total(R, k, f) = (db_simple[k][f] + Adds(r, k, f)) + Total(Q, k, f)
    BY <2>3, <2>4, <2>6
  <2> QED
    BY <2>1, <2>2, <2>4, <2>5, <2>6, <2>7, PlusWraps
<1>8. db_simple' \in [Key -> [Field -> Word]]
  <2>1. ASSUME NEW k \in Key, NEW f \in Field
        PROVE  db_simple[k][f] \in Word /\ Plus(db_simple[k][f], Updates[r][f]) \in Word
    BY <1>2, <2>1, RequestAssumption, PlusType DEF MatchInv
  <2> QED
    BY <1>1, <2>1
<1>9. AllDone'
  BY <1>1 DEF AllDone, vars, locals
<1>10. DatabasesMatch'
  BY <1>1 DEF MatchInv, DatabasesMatch
<1>11. done' \in 0..Len(Order)
  BY <1>1, <1>2
<1> QED
  BY <1>6, <1>7, <1>8, <1>9, <1>10, <1>11 DEF MatchInv

(* When all requests have run again nothing is missing, and Compare finds  *)
(* no difference.                                                          *)
LEMMA CompareMatch ==
  ASSUME IInv, MatchInv, CompareDatabases
  PROVE  MatchInv'
<1>1. /\ AllDone /\ done = Len(Order) /\ UNCHANGED <<vars, db_simple, done>>
      /\ verdict' = IF Compare(records, db_simple) THEN "passed" ELSE "do not match"
  BY DEF CompareDatabases
<1>2. Settled \ Rerun = {}
  <2>1. DOMAIN Order = 1..Len(Order)
    BY RunTestAssumption
  <2>2. Requests \subseteq Rerun
    BY <1>1, <2>1, RunTestAssumption DEF Rerun
  <2> QED
    BY <1>1, <2>2, SettledWhenDone
<1>3. ASSUME NEW k \in Key, NEW f \in Field PROVE records[k][f] = db_simple[k][f]
  <2>1. SettledWord(k, f) = records[k][f]
    BY <1>1, SettledWhenDone
  <2>2. Total(Settled \ Rerun, k, f) = 0
    BY <1>2, TotalOfNone
  <2>3. db_simple[k][f] \in Word
    BY DEF MatchInv
  <2>4. SettledWord(k, f) = (db_simple[k][f] + 0) % WordSize
    BY <2>2 DEF MatchInv
  <2> QED
    BY <2>1, <2>3, <2>4, WordWraps
<1>4. records \in [Key -> [Field -> Word]] /\ db_simple \in [Key -> [Field -> Word]]
  BY DEF IInv, TypeOK, MatchInv
<1>5. DatabasesMatch'
  <2>1. ASSUME NEW k \in Key PROVE records[k] = db_simple[k]
    BY <1>3, <1>4
  <2>2. Compare(records, db_simple)
    BY <2>1 DEF Compare
  <2> QED
    BY <1>1, <2>2 DEF DatabasesMatch
<1>6. UNCHANGED <<Settled, Rerun, KeySets>> /\ (AllDone => AllDone')
  BY <1>1 DEF vars, locals, Settled, Rerun, KeySets, AllDone
<1>7. \A S : \A k \in Key, f \in Field : Total(S, k, f)' = Total(S, k, f)
  BY <1>6 DEF Total, Terms, Adds
<1>8. \A k \in Key, f \in Field : SettledWord(k, f)' = SettledWord(k, f)
  BY <1>1 DEF vars, locals, SettledWord, Pending, Plus
<1> QED
  BY <1>1, <1>5, <1>6, <1>7, <1>8 DEF MatchInv

(* run_test is an execution of its requests, to which it adds a second     *)
(* database: every theorem above holds of it.                              *)
THEOREM TestExecutes == TestSpec => Spec
<1>1. TestInit => Init
  BY DEF TestInit
<1>2. [TestNext]_<<vars, testvars>> => [Next]_vars
  BY DEF TestNext, Concurrent, ExecuteSimple, CompareDatabases, Next
<1> QED
  BY <1>1, <1>2, PTL DEF TestSpec, Spec

(* run_test never finds a difference: any interleaving of the concurrent   *)
(* part and the loop that runs the requests in the order of the array      *)
(* leave the same words, although additions wrap around and each part      *)
(* adds in an order of its own.                                            *)
THEOREM TestPasses == TestSpec => []DatabasesMatch
<1>1. TestInit => MatchInv
  BY InitMatch
<1>2. IInv /\ MatchInv /\ [TestNext]_<<vars, testvars>> => MatchInv'
  <2> SUFFICES ASSUME IInv, MatchInv, [TestNext]_<<vars, testvars>> PROVE MatchInv'
    OBVIOUS
  <2>1. CASE (\E r \in Requests : Concurrent(r)) \/ UNCHANGED <<vars, testvars>>
    <3>1. [Next]_vars /\ UNCHANGED testvars
      BY <2>1 DEF Concurrent, Next
    <3> QED
      BY <3>1, ConcurrentMatch
  <2> QED
    BY <2>1, SimpleMatch, CompareMatch DEF TestNext
<1>3. MatchInv => DatabasesMatch
  BY DEF MatchInv
<1> QED
  BY <1>1, <1>2, <1>3, TestExecutes, InvariantHolds, PTL DEF TestSpec
=============================================================================
