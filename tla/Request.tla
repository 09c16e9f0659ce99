------------------------------- MODULE Request -------------------------------
(***************************************************************************)
(* Request::Execute (a1/src/request.cc), run by many executors at once     *)
(* over one database: sort the write set, lock its records in that order,  *)
(* add the updates word by word, unlock in the same order.  Every request  *)
(* has an executor of its own, a thread or a forked process, and all       *)
(* interleavings of their steps are behaviours.                            *)
(***************************************************************************)
EXTENDS Database

CONSTANTS
  Requests,     \* the requests, each run by one executor
  NumWrites,    \* num_writes_ (TXN_SZ)
  Updates       \* updates_: the word each request adds to each field

ASSUME RequestAssumption ==
  /\ Requests = Executors
  /\ NumWrites \in Nat \ {0}
  /\ Updates \in [Requests -> [Field -> Word]]

VARIABLES
  writeset,     \* writeset_: the array of keys of each request
  pc,           \* where each executor is in Execute
  idx,          \* the loop variable over the write set
  fld,          \* the loop variable of DoWrite over the fields
  loaded        \* the word "+=" has read and not yet written back

locals == <<pc, idx, fld, loaded>>
vars   == <<records, locks, writeset, locals>>

Index == 1..NumWrites

(* The shuffles of the positions of a write set.                           *)
Shuffles ==
  {p \in [Index -> Index] : /\ \A a, b \in Index : p[a] = p[b] => a = b
                            /\ \A b \in Index : \E a \in Index : p[a] = b}

(* The record the executor of r is at.                                     *)
CurrentKey(r) == writeset[r][idx[r]]

(* generate_single_request: distinct keys in the order gen_unique drew     *)
(* them.                                                                   *)
WriteSets ==
  {s \in [Index -> Key] : \A a, b \in Index : s[a] = s[b] => a = b}

Init ==
  /\ Create
  /\ writeset \in [Requests -> WriteSets]
  /\ pc = [r \in Requests |-> "sort"]
  /\ idx = [r \in Requests |-> 1]
  /\ fld = [r \in Requests |-> 0]
  /\ loaded = [r \in Requests |-> 0]

-----------------------------------------------------------------------------
(* Mutant: the write set is locked in the order it was drawn.              *)
SortForgotten(r) ==
  /\ pc[r] = "sort"
  /\ pc' = [pc EXCEPT ![r] = "lock"]
  /\ UNCHANGED <<records, locks, writeset, idx, fld, loaded>>

(* std::sort(writeset_, &writeset_[num_writes_])                           *)
Sort(r) ==
  /\ pc[r] = "sort"
  /\ \E p \in Shuffles :
       /\ \A a, b \in Index : a < b => writeset[r][p[a]] <= writeset[r][p[b]]
       /\ writeset' = [writeset EXCEPT ![r] = [a \in Index |-> writeset[r][p[a]]]]
  /\ pc' = [pc EXCEPT ![r] = "lock"]
  /\ UNCHANGED <<records, locks, idx, fld, loaded>>

(* One iteration of the loop of LockRecords.                               *)
LockNext(r) ==
  /\ pc[r] = "lock"
  /\ LockRecord(r, CurrentKey(r))
  /\ IF idx[r] < NumWrites
       THEN /\ idx' = [idx EXCEPT ![r] = @ + 1]
            /\ UNCHANGED pc
       ELSE /\ idx' = [idx EXCEPT ![r] = 1]
            /\ pc' = [pc EXCEPT ![r] = "load"]
  /\ UNCHANGED <<records, writeset, fld, loaded>>

(* The read half of "*rec_ptr += updates[i]".                              *)
Load(r) ==
  /\ pc[r] = "load"
  /\ loaded' = [loaded EXCEPT ![r] = records[CurrentKey(r)][fld[r]]]
  /\ pc' = [pc EXCEPT ![r] = "store"]
  /\ UNCHANGED <<records, locks, writeset, idx, fld>>

(* Mutant: "=" instead of "+=".                                            *)
StoreOverwrites(r) ==
  /\ pc[r] = "store"
  /\ PutField(CurrentKey(r), fld[r], Updates[r][fld[r]])
  /\ fld' = [fld EXCEPT ![r] = (@ + 1) % NumFields]
  /\ LET last == fld[r] = NumFields - 1 /\ idx[r] = NumWrites
     IN  /\ pc' = [pc EXCEPT ![r] = IF last THEN "unlock" ELSE "load"]
         /\ idx' = [idx EXCEPT ![r] = IF last THEN 1
                                      ELSE IF fld[r] = NumFields - 1 THEN @ + 1 ELSE @]
  /\ UNCHANGED <<locks, writeset, loaded>>

(* The write half, and the advance of the loops of DoWrite and Txn.        *)
Store(r) ==
  /\ pc[r] = "store"
  /\ PutField(CurrentKey(r), fld[r], Plus(loaded[r], Updates[r][fld[r]]))
  /\ \/ /\ fld[r] < NumFields - 1
        /\ fld' = [fld EXCEPT ![r] = @ + 1]
        /\ pc' = [pc EXCEPT ![r] = "load"]
        /\ UNCHANGED idx
     \/ /\ fld[r] = NumFields - 1
        /\ fld' = [fld EXCEPT ![r] = 0]
        /\ IF idx[r] < NumWrites
             THEN /\ idx' = [idx EXCEPT ![r] = @ + 1]
                  /\ pc' = [pc EXCEPT ![r] = "load"]
             ELSE /\ idx' = [idx EXCEPT ![r] = 1]
                  /\ pc' = [pc EXCEPT ![r] = "unlock"]
  /\ UNCHANGED <<locks, writeset, loaded>>

(* Mutant: the loop stops one record early and leaves its lock behind.     *)
UnlockNextOffByOne(r) ==
  /\ pc[r] = "unlock"
  /\ IF idx[r] < NumWrites
       THEN /\ UnlockRecord(CurrentKey(r))
            /\ idx' = [idx EXCEPT ![r] = @ + 1]
            /\ UNCHANGED pc
       ELSE /\ pc' = [pc EXCEPT ![r] = "done"]
            /\ UNCHANGED <<idx, locks>>
  /\ UNCHANGED <<records, writeset, fld, loaded>>

(* One iteration of the loop of UnlockRecords.                             *)
UnlockNext(r) ==
  /\ pc[r] = "unlock"
  /\ UnlockRecord(CurrentKey(r))
  /\ IF idx[r] < NumWrites
       THEN /\ idx' = [idx EXCEPT ![r] = @ + 1]
            /\ UNCHANGED pc
       ELSE /\ pc' = [pc EXCEPT ![r] = "done"]
            /\ UNCHANGED idx
  /\ UNCHANGED <<records, writeset, fld, loaded>>

Execute(r) ==
  Sort(r) \/ LockNext(r) \/ Load(r) \/ Store(r) \/ UnlockNext(r)

(* Every request has run; nothing is left to do.                           *)
AllDone == \A r \in Requests : pc[r] = "done"

Next == \E r \in Requests : Execute(r)

Spec == Init /\ [][Next]_vars

-----------------------------------------------------------------------------
(* Every variable has the type the code gives it.                          *)
TypeOK ==
  /\ records \in [Key -> [Field -> Word]]
  /\ locks \in [Key -> Requests \cup {NoOwner}]
  /\ writeset \in [Requests -> WriteSets]
  /\ pc \in [Requests -> {"sort", "lock", "load", "store", "unlock", "done"}]
  /\ idx \in [Requests -> Index]
  /\ fld \in [Requests -> Field]
  /\ loaded \in [Requests -> Word]

(* The positions of its write set whose locks an executor holds: a prefix  *)
(* while it locks, all while it writes, a suffix while it unlocks.         *)
Held(r) ==
  {a \in Index : \/ pc[r] = "lock" /\ a < idx[r]
                 \/ pc[r] \in {"load", "store"}
                 \/ pc[r] = "unlock" /\ a >= idx[r]}

(* A record's mutex is owned by r exactly when r's position in Execute     *)
(* says that r holds it: no lock is leaked, taken twice or dropped early   *)
(* by the loops of LockRecords and UnlockRecords.                          *)
LocksMatchProgress ==
  \A k \in Key, r \in Requests :
    locks[k] = r <=> \E a \in Held(r) : writeset[r][a] = k

(* The state of the executors is well-formed and accounts for every lock.  *)
ExecuteInv == TypeOK /\ LocksMatchProgress

(* The word that "+=" is about to write back was computed from the word    *)
(* the record still holds: no update of another executor has come between  *)
(* the read and the write, so none is lost.                                *)
NoLostUpdate ==
  \A r \in Requests :
    pc[r] = "store" => loaded[r] = records[CurrentKey(r)][fld[r]]

(* An executor that waits for a record holds only records with smaller     *)
(* keys: the point of sorting the write set before locking it.             *)
OrderedWaiting ==
  \A r \in Requests : pc[r] = "lock" =>
    \A k \in Key : locks[k] = r => k < CurrentKey(r)

(* Whether the executor of r can take a step.                              *)
CanStep(r) ==
  /\ pc[r] # "done"
  /\ pc[r] = "lock" => locks[CurrentKey(r)] = NoOwner

(* LockRecords never deadlocks: as long as some request is unfinished,     *)
(* some executor can take a step.                                          *)
DeadlockFree ==
  AllDone \/ \E r \in Requests : CanStep(r)

-----------------------------------------------------------------------------
(* The requests that hold all their locks, or have held them: the ones     *)
(* whose place in the serial order is settled.                             *)
Settled == {r \in Requests : pc[r] \in {"load", "store", "unlock", "done"}}

(* r has settled but has not yet added its update to field f of record k.  *)
Pending(r, k, f) ==
  /\ pc[r] \in {"load", "store"}
  /\ \E a \in idx[r]..NumWrites :
       writeset[r][a] = k /\ (a = idx[r] => f >= fld[r])

(* Field f of record k as if every settled request had finished writing.   *)
SettledWord(k, f) ==
  IF locks[k] # NoOwner /\ Pending(locks[k], k, f)
    THEN Plus(records[k][f], Updates[locks[k]][f])
    ELSE records[k][f]

SettledDb == [k \in Key |-> [f \in Field |-> SettledWord(k, f)]]

(* The records a request names, in whatever order.                         *)
KeySets == [r \in Requests |-> {writeset[r][a] : a \in Index}]

Serial == INSTANCE AtomicExecution WITH
            db       <- SettledDb,
            keys     <- KeySets,
            executed <- Settled

(* Serializability: the interleaved executions of the requests are one     *)
(* serial execution, each request taking effect when it gets its last lock.*)
Serializable == Serial!Spec
=============================================================================
