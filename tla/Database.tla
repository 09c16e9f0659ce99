------------------------------ MODULE Database ------------------------------
(***************************************************************************)
(* The in-memory database of assignment 1 (a1/src/database.cc): an array   *)
(* of fixed-size records, each made of a few machine words (its fields),   *)
(* and one mutex per record.  Both arrays live in MAP_SHARED memory, so    *)
(* the same two variables serve threads and forked processes.              *)
(***************************************************************************)
EXTENDS Integers

CONSTANTS
  Executors,    \* the threads or processes that lock records
  NoOwner,      \* the owner of a mutex nobody holds
  NumRecords,   \* num_records_
  NumFields,    \* RECORD_SIZE / FIELD_SIZE
  WordSize,     \* the number of values of a field (2^64 in the code)
  RandomWords   \* the values rand() may give a fresh field

ASSUME DatabaseAssumption ==
  /\ NumRecords \in Nat \ {0}
  /\ NumFields \in Nat \ {0}
  /\ WordSize \in Nat \ {0}
  /\ RandomWords \subseteq 0..(WordSize - 1)
  /\ NoOwner \notin Executors

VARIABLES
  records,      \* records_: the words of every record
  locks         \* locks_: the executor that holds each record's mutex

Key   == 0..(NumRecords - 1)
Field == 0..(NumFields - 1)
Word  == 0..(WordSize - 1)

(* Database::Create and InitRecord: every word random, every mutex free.   *)
Create ==
  /\ records \in [Key -> [Field -> RandomWords]]
  /\ locks = [k \in Key |-> NoOwner]

(* Mutant: the lock does not wait for its owner.                           *)
LockRecordAlways(e, k) ==
  locks' = [locks EXCEPT ![k] = e]

(* pthread_mutex_lock: enabled only once the mutex is free.                *)
LockRecord(e, k) ==
  /\ locks[k] = NoOwner
  /\ locks' = [locks EXCEPT ![k] = e]

UnlockRecord(k) ==
  locks' = [locks EXCEPT ![k] = NoOwner]

(* *rec_ptr = v, through the reference that GetRecord returned.            *)
PutField(k, f, v) ==
  records' = [records EXCEPT ![k] = [@ EXCEPT ![f] = v]]

(* Unsigned addition of the machine word.                                  *)
Plus(v, u) == (v + u) % WordSize

(* Database::Copy: the records dst has afterwards.                         *)
Copy(src, dst) == [k \in Key |-> src[k]]

(* Database::Compare: no record of the two databases differs.              *)
Compare(db1, db2) ==
  \A k \in Key : db1[k] = db2[k]
=============================================================================
