----------------------------- MODULE TxnProcessor -----------------------------
(***************************************************************************)
(* The parts of TxnProcessor (a2/txn/txn_processor.cc) that all its        *)
(* schedulers share: the client interface NewTxnRequest and GetTxnResult,  *)
(* ExecuteTxn, ApplyWrites, the constructor and the destructor.  Every     *)
(* transaction is submitted by a client thread of its own.  The queues are *)
(* AtomicQueues (a2/utils/atomic.h): a push or a pop is one step.          *)
(***************************************************************************)
EXTENDS Txn, Sequences, FiniteSets

CONSTANTS
  Txns,         \* the transactions the clients submit
  Program,      \* the program of each transaction
  NoTxn,        \* no transaction
  Sched,        \* the scheduler thread
  Executors,    \* the threads that run ExecuteTxn or ApplyWrites
  StaleStopped  \* what stopped_ may hold before the constructor sets it

ASSUME ProcessorAssumption ==
  /\ IsFiniteSet(Txns)
  /\ NoTxn \notin Txns
  /\ \A t \in Txns : IsProgram(Program[t])
  /\ Sched \in Executors
  /\ StaleStopped \subseteq BOOLEAN

VARIABLES
  storage,        \* storage_: the data of the store
  next_unique_id, \* next_unique_id_
  unique_id,      \* unique_id_ of each transaction, 0 before it has one
  mutex,          \* mutex_: the client thread in NewTxnRequest
  cpc,            \* where the client thread of each transaction is
  txn_requests,   \* the three queues of the processor
  completed_txns,
  txn_results,
  returned,       \* the results GetTxnResult has handed out, in order
  status,         \* status_, reads_ and writes_ of each transaction
  reads,
  writes,
  epc,            \* where each executor is in ExecuteTxn
  todo,           \* the keys its current loop has not visited yet
  stopped,        \* stopped_
  life,           \* the life of the TxnProcessor object
  spc,            \* where the scheduler thread is
  txn             \* the scheduler's local variable

client    == <<next_unique_id, unique_id, mutex, cpc>>
txnqueues == <<txn_requests, completed_txns, txn_results, returned>>
local     == <<status, reads, writes>>
exec      == <<epc, todo>>
object    == <<stopped, life>>
sched     == <<spc, txn>>
base      == <<storage, client, txnqueues, local, exec, object, sched>>

(* The state in which the constructor has just created the scheduler.      *)
BaseInit ==
  /\ storage = InitStorage
  /\ next_unique_id = 1
  /\ unique_id = [t \in Txns |-> 0]
  /\ mutex = NoTxn
  /\ cpc = [t \in Txns |-> "new"]
  /\ txn_requests = <<>>
  /\ completed_txns = <<>>
  /\ txn_results = <<>>
  /\ returned = <<>>
  /\ status = [t \in Txns |-> "INCOMPLETE"]
  /\ reads = [t \in Txns |-> NoEntries]
  /\ writes = [t \in Txns |-> NoEntries]
  /\ epc = [e \in Executors |-> "idle"]
  /\ todo = [e \in Executors |-> {}]
  /\ stopped \in StaleStopped
  /\ life = "constructing"
  /\ spc = "test"
  /\ txn = NoTxn

-----------------------------------------------------------------------------
(* The end of the constructor: stopped_ = false, after pthread_create.     *)
EndConstructor ==
  /\ life = "constructing"
  /\ stopped' = FALSE
  /\ life' = "running"
  /\ UNCHANGED <<storage, client, txnqueues, local, exec, sched>>

(* Mutant: the ids are handed out without the mutex.                       *)
AssignIdUnlocked(t) ==
  /\ life = "running"
  /\ cpc[t] = "new"
  /\ mutex' = t
  /\ unique_id' = [unique_id EXCEPT ![t] = next_unique_id]
  /\ next_unique_id' = next_unique_id + 1
  /\ cpc' = [cpc EXCEPT ![t] = "numbered"]
  /\ UNCHANGED <<storage, txnqueues, local, exec, object, sched>>

(* NewTxnRequest: lock, number the transaction.                            *)
AssignId(t) ==
  /\ life = "running"
  /\ cpc[t] = "new"
  /\ mutex = NoTxn
  /\ mutex' = t
  /\ unique_id' = [unique_id EXCEPT ![t] = next_unique_id]
  /\ next_unique_id' = next_unique_id + 1
  /\ cpc' = [cpc EXCEPT ![t] = "numbered"]
  /\ UNCHANGED <<storage, txnqueues, local, exec, object, sched>>

(* NewTxnRequest: push it, unlock.                                         *)
PushRequest(t) ==
  /\ cpc[t] = "numbered"
  /\ txn_requests' = Append(txn_requests, t)
  /\ mutex' = NoTxn
  /\ cpc' = [cpc EXCEPT ![t] = "submitted"]
  /\ UNCHANGED <<storage, next_unique_id, unique_id, completed_txns, txn_results,
                 returned, local, exec, object, sched>>

(* The successful Pop that ends the loop of GetTxnResult.                  *)
GetTxnResult ==
  /\ life = "running"
  /\ txn_results # <<>>
  /\ returned' = Append(returned, Head(txn_results))
  /\ txn_results' = Tail(txn_results)
  /\ UNCHANGED <<storage, client, txn_requests, completed_txns, local, exec, object, sched>>

(* The destructor: stopped_ = true.  No client is inside a call, but there *)
(* may be transactions that no client has got back yet.                    *)
Stop ==
  /\ life = "running"
  /\ \A t \in Txns : cpc[t] # "numbered"
  /\ stopped' = TRUE
  /\ life' = "stopping"
  /\ UNCHANGED <<storage, client, txnqueues, local, exec, sched>>

(* pthread_join, then delete lm_ and storage_ and the queues' destructors. *)
JoinScheduler ==
  /\ life = "stopping"
  /\ spc = "exited"
  /\ life' = "deleted"
  /\ UNCHANGED <<storage, client, txnqueues, local, exec, stopped, sched>>

-----------------------------------------------------------------------------
(* The smallest of the keys left: a set<Key> is visited in order.          *)
NextKey(e) == CHOOSE k \in todo[e] : \A j \in todo[e] : k <= j

(* ExecuteTxn of transaction t by executor e; epc goes through its loops.  *)
StartExecute(e, t) ==
  /\ epc' = [epc EXCEPT ![e] = "readset"]
  /\ todo' = [todo EXCEPT ![e] = Program[t].readset]

(* One iteration of either loop.                                           *)
ReadKey(e, t) ==
  /\ epc[e] \in {"readset", "writeset"}
  /\ todo[e] # {}
  /\ reads' = [reads EXCEPT ![t] = Overlay(Lookup(storage, NextKey(e)), @)]
  /\ todo' = [todo EXCEPT ![e] = @ \ {NextKey(e)}]
  /\ UNCHANGED <<storage, status, writes, epc>>

(* Mutant: the keys of the write set are not read.                         *)
EndReadsetSkipsWriteset(e, t) ==
  /\ epc[e] = "readset"
  /\ todo[e] = {}
  /\ epc' = [epc EXCEPT ![e] = "writeset"]
  /\ UNCHANGED <<storage, local, todo>>

(* From the first loop to the second.                                      *)
EndReadset(e, t) ==
  /\ epc[e] = "readset"
  /\ todo[e] = {}
  /\ todo' = [todo EXCEPT ![e] = Program[t].writeset]
  /\ epc' = [epc EXCEPT ![e] = "writeset"]
  /\ UNCHANGED <<storage, local>>

(* txn->Run()                                                              *)
RunTxn(e, t) ==
  /\ epc[e] = "writeset"
  /\ todo[e] = {}
  /\ status' = [status EXCEPT ![t] = RunStatus(Program[t], reads[t])]
  /\ writes' = [writes EXCEPT ![t] = RunWrites(Program[t], reads[t])]
  /\ reads' = [reads EXCEPT ![t] = Overlay(RunWrites(Program[t], @), @)]
  /\ epc' = [epc EXCEPT ![e] = "push"]
  /\ UNCHANGED <<storage, todo>>

(* Everything ExecuteTxn does before it hands the transaction back.        *)
ExecuteBody(e, t) == ReadKey(e, t) \/ EndReadset(e, t) \/ RunTxn(e, t)

(* completed_txns_.Push(txn)                                               *)
PushCompleted(e, t) ==
  /\ epc[e] = "push"
  /\ completed_txns' = Append(completed_txns, t)
  /\ epc' = [epc EXCEPT ![e] = "idle"]
  /\ UNCHANGED <<storage, local, todo>>

-----------------------------------------------------------------------------
(* The scheduler's commit or abort of txn; spc goes from "commit" through  *)
(* the loop of ApplyWrites to "result".                                    *)
Decide ==
  /\ spc = "commit"
  /\ \/ /\ status[txn] = "COMPLETED_C"
        /\ todo' = [todo EXCEPT ![Sched] = DOMAIN writes[txn]]
        /\ spc' = "apply"
        /\ UNCHANGED status
     \/ /\ status[txn] = "COMPLETED_A"
        /\ status' = [status EXCEPT ![txn] = "ABORTED"]
        /\ spc' = "result"
        /\ UNCHANGED todo
  /\ UNCHANGED <<storage, client, txnqueues, reads, writes, epc, object, txn>>

(* Mutant: insert() for the hash table's operator[]: it keeps an old value.*)
ApplyWriteInserts ==
  /\ spc = "apply"
  /\ todo[Sched] # {}
  /\ storage' = Overlay(storage, Lookup(writes[txn], NextKey(Sched)))
  /\ todo' = [todo EXCEPT ![Sched] = @ \ {NextKey(Sched)}]
  /\ UNCHANGED <<client, txnqueues, local, epc, object, sched>>

(* One iteration of ApplyWrites.                                           *)
ApplyWrite ==
  /\ spc = "apply"
  /\ todo[Sched] # {}
  /\ storage' = Overlay(Lookup(writes[txn], NextKey(Sched)), storage)
  /\ todo' = [todo EXCEPT ![Sched] = @ \ {NextKey(Sched)}]
  /\ UNCHANGED <<client, txnqueues, local, epc, object, sched>>

(* Mutant: the transaction is committed before its writes are applied.     *)
CommitAtOnce ==
  /\ spc = "apply"
  /\ status' = [status EXCEPT ![txn] = "COMMITTED"]
  /\ spc' = "result"
  /\ UNCHANGED <<storage, client, txnqueues, reads, writes, exec, object, txn>>

(* txn->status_ = COMMITTED                                                *)
Commit ==
  /\ spc = "apply"
  /\ todo[Sched] = {}
  /\ status' = [status EXCEPT ![txn] = "COMMITTED"]
  /\ spc' = "result"
  /\ UNCHANGED <<storage, client, txnqueues, reads, writes, exec, object, txn>>

(* txn_results_.Push(txn); the scheduler goes on at next.                  *)
PushResult(next) ==
  /\ spc = "result"
  /\ txn_results' = Append(txn_results, txn)
  /\ spc' = next
  /\ txn' = NoTxn
  /\ UNCHANGED <<storage, client, txn_requests, completed_txns, returned,
                 local, exec, object>>

(* Mutant: the scheduler stops when there is nothing to do.                *)
TestStoppedOrIdle ==
  /\ spc = "test"
  /\ spc' = IF stopped \/ txn_requests = <<>> THEN "exited" ELSE "pop"
  /\ UNCHANGED <<storage, client, txnqueues, local, exec, object, txn>>

(* while (!stopped_)                                                       *)
TestStopped ==
  /\ spc = "test"
  /\ spc' = IF stopped THEN "exited" ELSE "pop"
  /\ UNCHANGED <<storage, client, txnqueues, local, exec, object, txn>>

ClientStep ==
  \/ EndConstructor \/ GetTxnResult \/ Stop \/ JoinScheduler
  \/ \E t \in Txns : AssignId(t) \/ PushRequest(t)

CommitStep == Decide \/ ApplyWrite \/ Commit
-----------------------------------------------------------------------------
Elements(s) == {s[i] : i \in DOMAIN s}

(* The types of the variables every scheduler has.                         *)
BaseTypeOK ==
  /\ DOMAIN storage \subseteq Key
  /\ next_unique_id \in 1..(Cardinality(Txns) + 1)
  /\ unique_id \in [Txns -> 0..Cardinality(Txns)]
  /\ mutex \in Txns \cup {NoTxn}
  /\ cpc \in [Txns -> {"new", "numbered", "submitted"}]
  /\ {txn_requests, completed_txns, txn_results, returned} \subseteq Seq(Txns)
  /\ status \in [Txns -> {"INCOMPLETE", "COMPLETED_C", "COMPLETED_A",
                          "COMMITTED", "ABORTED"}]
  /\ epc \in [Executors -> {"idle", "readset", "writeset", "push"}]
  /\ todo \in [Executors -> SUBSET Key]
  /\ stopped \in BOOLEAN
  /\ life \in {"constructing", "running", "stopping", "deleted", "destroyed"}
  /\ txn \in Txns \cup {NoTxn}

(* The keys of t that have been written to the store: all, some or none.   *)
Written(t) ==
  IF status[t] = "COMMITTED" THEN DOMAIN writes[t]
  ELSE IF spc = "apply" /\ t = txn THEN DOMAIN writes[t] \ todo[Sched]
  ELSE {}

(* The transactions in the order in which the scheduler decides them: the  *)
(* ones whose results are out, then the one it has.                        *)
DecidedOrder == returned \o txn_results \o (IF txn = NoTxn THEN <<>> ELSE <<txn>>)

(* The store holds for every key what the last committed transaction that  *)
(* writes it has written, else its initial value: commits take effect in   *)
(* the order of the results, completely, and nothing else takes effect.    *)
CommitsInOrder ==
  \A k \in Key :
    \/ /\ Lookup(storage, k) = Lookup(InitStorage, k)
       /\ \A i \in DOMAIN DecidedOrder : k \notin Written(DecidedOrder[i])
    \/ \E i \in DOMAIN DecidedOrder :
         /\ k \in Written(DecidedOrder[i])
         /\ Lookup(storage, k) = Lookup(writes[DecidedOrder[i]], k)
         /\ \A j \in DOMAIN DecidedOrder : i < j => k \notin Written(DecidedOrder[j])

(* Whatever a client can get, or has got, from the processor has been      *)
(* committed or aborted, and the store is what the committed transactions  *)
(* have made of it, in the order in which their results come out.          *)
ResultsAreDecided ==
  /\ \A t \in Elements(txn_results) \cup Elements(returned) :
       status[t] \in {"COMMITTED", "ABORTED"}
  /\ CommitsInOrder

(* Every submitted transaction is handed back to a client, unless the      *)
(* processor is destroyed first: GetTxnResult does not spin for ever.      *)
AllAnswered ==
  \A t \in Txns :
    (cpc[t] = "submitted") ~> (t \in Elements(returned) \/ life # "running")

(* What the comment on completed_txns_ says: its transactions are not yet  *)
(* committed or aborted.                                                   *)
CompletedNotDecided ==
  \A t \in Elements(completed_txns) : status[t] \in {"COMPLETED_C", "COMPLETED_A"}

(* What the comment on the constructor says: the processor runs in the     *)
(* background from then on, until it is stopped.                           *)
RunsOnceConstructed == life = "running" => spc # "exited"

(* The effect of every transaction is that of a serial execution, in which *)
(* it takes place when its program has run.                                *)
DecidedDb ==
  LET Running == {t \in Txns : status[t] = "COMPLETED_C"}
  IN  IF Running = {} THEN storage
      ELSE Overlay(writes[CHOOSE t \in Running : TRUE], storage)

Outcome ==
  [t \in Txns |->
     CASE status[t] = "INCOMPLETE" -> "pending"
       [] status[t] \in {"COMPLETED_C", "COMMITTED"} -> "COMMITTED"
       [] OTHER -> "ABORTED"]

Serial == INSTANCE SerialTxns WITH db <- DecidedDb, outcome <- Outcome

(* The store and the outcomes are those of some serial execution.          *)
SerialExecution == Serial!Spec
=============================================================================
