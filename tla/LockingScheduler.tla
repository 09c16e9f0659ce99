--------------------------- MODULE LockingScheduler ---------------------------
(***************************************************************************)
(* TxnProcessor in the LOCKING and LOCKING_EXCLUSIVE_ONLY modes: the       *)
(* scheduler thread asks the lock manager for the locks of each request,   *)
(* hands the transactions that have them to the thread pool, commits or    *)
(* aborts the ones the pool has executed, and releases their locks.        *)
(* The lock managers of the repository are stubs that grant every lock at  *)
(* once (a2/txn/lock_manager.cc).  The pool threads read the store while   *)
(* the scheduler writes it, without a lock: reading and writing one value  *)
(* of an existing key are single instructions, but inserting a key would   *)
(* move the hash table under the readers, so the transactions here use     *)
(* only the keys that InitStorage creates.                                 *)
(***************************************************************************)
EXTENDS TxnProcessor, StaticThreadPool

ASSUME LockingAssumption ==
  /\ Executors = Threads \cup {Sched}
  /\ Sched \notin Threads
  /\ Tasks = Txns
  /\ NoTask \notin Tasks
  /\ Key = InitKeys

VARIABLE ready_txns   \* ready_txns_, also the lock manager's ready_txns_

vars == <<base, pool, ready_txns>>

Init ==
  /\ BaseInit
  /\ PoolInit
  /\ ready_txns = <<>>

-----------------------------------------------------------------------------
(* LockManagerA and LockManagerB: the answers of ReadLock and WriteLock.   *)
(* Release does nothing.                                                   *)
ReadLock(t, k)  == TRUE
WriteLock(t, k) == TRUE

(* blocked: some lock was not granted at once.                             *)
Blocked(t) ==
  \/ \E k \in Program[t].readset : ~ReadLock(t, k)
  \/ \E k \in Program[t].writeset : ~WriteLock(t, k)

(* The first part of the loop: the next request and its locks.             *)
PopRequest ==
  /\ spc = "pop"
  /\ \/ /\ txn_requests = <<>>
        /\ UNCHANGED <<txn_requests, ready_txns>>
     \/ /\ txn_requests # <<>>
        /\ txn_requests' = Tail(txn_requests)
        /\ ready_txns' = IF Blocked(Head(txn_requests)) THEN ready_txns
                         ELSE Append(ready_txns, Head(txn_requests))
  /\ spc' = "completed"
  /\ UNCHANGED <<storage, client, completed_txns, txn_results, returned,
                 local, exec, object, txn, pool>>

(* The condition of the second loop: a completed transaction, or none.     *)
PopCompleted ==
  /\ spc = "completed"
  /\ \/ /\ completed_txns = <<>>
        /\ spc' = "dispatch"
        /\ UNCHANGED <<completed_txns, txn>>
     \/ /\ completed_txns # <<>>
        /\ txn' = Head(completed_txns)
        /\ completed_txns' = Tail(completed_txns)
        /\ spc' = "commit"
  /\ UNCHANGED <<storage, client, txn_requests, txn_results, returned,
                 local, exec, object, pool, ready_txns>>

(* The rest of the second loop; the locks are released before the result   *)
(* is pushed.                                                              *)
Finish ==
  /\ CommitStep \/ PushResult("completed")
  /\ UNCHANGED <<pool, ready_txns>>

(* Mutant: front() without pop_front().                                    *)
DispatchKeeps(w) ==
  /\ spc = "dispatch"
  /\ ready_txns # <<>>
  /\ AddTask(Head(ready_txns), w)
  /\ UNCHANGED <<base, ready_txns>>

(* One iteration of the third loop, on the queue that AddTask picks.       *)
Dispatch(w) ==
  /\ spc = "dispatch"
  /\ ready_txns # <<>>
  /\ AddTask(Head(ready_txns), w)
  /\ ready_txns' = Tail(ready_txns)
  /\ UNCHANGED base

EndDispatch ==
  /\ spc = "dispatch"
  /\ ready_txns = <<>>
  /\ spc' = "test"
  /\ UNCHANGED <<storage, client, txnqueues, local, exec, object, txn, pool, ready_txns>>

RunLockingScheduler ==
  \/ TestStopped /\ UNCHANGED <<pool, ready_txns>>
  \/ PopRequest \/ PopCompleted \/ Finish \/ EndDispatch
  \/ \E w \in Threads : Dispatch(w)

-----------------------------------------------------------------------------
(* A pool thread takes a transaction: the task is ExecuteTxn.              *)
StartTask(w) ==
  /\ PopTask(w) \/ DrainTask(w)
  /\ StartExecute(w, Head(queues[w]))
  /\ UNCHANGED <<storage, client, txnqueues, local, object, sched, ready_txns>>

(* Mutant: the transaction is handed back before the task has finished     *)
(* with the processor.                                                     *)
ExecuteTxnHandsBackEarly(w) ==
  /\ Busy(w)
  /\ \/ /\ ExecuteBody(w, task[w])
        /\ completed_txns' = IF epc'[w] = "push" THEN Append(completed_txns, task[w])
                             ELSE completed_txns
        /\ UNCHANGED pool
     \/ /\ epc[w] = "push"
        /\ epc' = [epc EXCEPT ![w] = "idle"]
        /\ TaskDone(w)
        /\ UNCHANGED <<storage, local, todo, completed_txns>>
  /\ UNCHANGED <<client, txn_requests, txn_results, returned, object, sched, ready_txns>>

ExecuteTxn(w) ==
  /\ Busy(w)
  /\ \/ /\ ExecuteBody(w, task[w])
        /\ UNCHANGED <<completed_txns, pool>>
     \/ /\ PushCompleted(w, task[w])
        /\ TaskDone(w)
  /\ UNCHANGED <<client, txn_requests, txn_results, returned, object, sched, ready_txns>>

(* The scheduler may be adding a task to the queue the thread looks at.    *)
Contended == spc = "dispatch" /\ ready_txns # <<>>

Idle(w) ==
  /\ PopFails(w, Contended) \/ CheckStopped(w) \/ Exit(w)
  /\ UNCHANGED <<base, ready_txns>>

Thread(w) == StartTask(w) \/ ExecuteTxn(w) \/ Idle(w)

(* The pool is destroyed after the body of the destructor, and after the   *)
(* queues that its tasks use.                                              *)
DestroyPool ==
  /\ life = "deleted"
  /\ ~pstopped
  /\ StopPool
  /\ UNCHANGED <<base, ready_txns>>

JoinPool ==
  /\ life = "deleted"
  /\ pstopped
  /\ AllJoined
  /\ life' = "destroyed"
  /\ UNCHANGED <<storage, client, txnqueues, local, exec, stopped, sched, pool, ready_txns>>

Client == ClientStep /\ UNCHANGED <<pool, ready_txns>>

Next ==
  \/ Client \/ RunLockingScheduler \/ DestroyPool \/ JoinPool
  \/ \E w \in Threads : Thread(w)

Spec == Init /\ [][Next]_vars

(* Every thread runs on; the clients take the results that are there.  The *)
(* processor need not be destroyed, nor every transaction submitted.       *)
FairSpec ==
  /\ Spec
  /\ WF_vars(RunLockingScheduler)
  /\ \A w \in Threads : WF_vars(Thread(w))
  /\ WF_vars(EndConstructor /\ UNCHANGED <<pool, ready_txns>>)
  /\ WF_vars(GetTxnResult /\ UNCHANGED <<pool, ready_txns>>)
  /\ WF_vars(JoinScheduler /\ UNCHANGED <<pool, ready_txns>>)
  /\ WF_vars(DestroyPool \/ JoinPool)
  /\ \A t \in Txns : WF_vars(PushRequest(t) /\ UNCHANGED <<pool, ready_txns>>)

-----------------------------------------------------------------------------
(* Every variable has the type the code gives it.                          *)
TypeOK ==
  /\ BaseTypeOK
  /\ spc \in {"test", "pop", "completed", "commit", "apply", "result",
              "dispatch", "exited"}
  /\ queues \in [Threads -> Seq(Txns)]
  /\ task \in [Threads -> Txns \cup {NoTask}]
  /\ wpc \in [Threads -> {"poll", "run", "check", "drain", "drain_run", "exited"}]
  /\ pstopped \in BOOLEAN
  /\ ready_txns \in Seq(Txns)

(* The places a transaction can be in after it has been submitted.         *)
Places(t) ==
  (IF t \in Elements(txn_requests) THEN {"txn_requests"} ELSE {})
  \cup (IF t \in Elements(ready_txns) THEN {"ready_txns"} ELSE {})
  \cup {w \in Threads : t \in Elements(queues[w]) \/ task[w] = t}
  \cup (IF t \in Elements(completed_txns) THEN {"completed_txns"} ELSE {})
  \cup (IF t = txn THEN {"scheduler"} ELSE {})
  \cup (IF t \in Elements(txn_results) THEN {"txn_results"} ELSE {})
  \cup (IF t \in Elements(returned) THEN {"client"} ELSE {})

(* As long as the processor exists, a submitted transaction is in exactly  *)
(* one place, and appears there only once: it is executed once, committed  *)
(* once and returned once.                                                 *)
TxnInOnePlace ==
  life \in {"constructing", "running", "stopping"} =>
    /\ \A t \in Txns : Cardinality(Places(t)) = IF cpc[t] = "submitted" THEN 1 ELSE 0
    /\ \A s \in {txn_requests, ready_txns, completed_txns, txn_results, returned}
                \cup {queues[w] : w \in Threads} :
         Cardinality(Elements(s)) = Len(s)

(* The queues and threads of the processor in every state.                 *)
LockingInv == TypeOK /\ TxnInOnePlace

(* Once the destructor has deleted the store and the queues, no pool       *)
(* thread is inside ExecuteTxn, which uses them.                           *)
NoUseAfterDelete == life = "deleted" => \A w \in Threads : ~Busy(w)

(* Every transaction submitted has come back to a client.                  *)
Drained == \A t \in Txns : cpc[t] = "submitted" => t \in Elements(returned)

(* The destructor is safe for a processor that has been drained: a         *)
(* transaction comes back only when its task is over.                      *)
NoUseWhenDrained == Drained => NoUseAfterDelete

(* The destructor returns, drained or not, unless a pool thread gets to    *)
(* use what has been deleted; from there on nothing is certain.            *)
DestructorReturns ==
  (life = "stopping") ~> (life = "destroyed" \/ ~NoUseAfterDelete)

(* The keys of a transaction.                                              *)
KeysOf(t) == Program[t].readset \cup Program[t].writeset

(* No other transaction writes a key of t or uses a key that t writes.     *)
Unconflicted(t) ==
  \A u \in Txns \ {t} : /\ Program[u].writeset \cap KeysOf(t) = {}
                        /\ KeysOf(u) \cap Program[t].writeset = {}

(* Without locks that exclude anybody, a transaction that conflicts with   *)
(* no other still runs as if it were alone: when it is decided, its status *)
(* and the values of its keys are those of its program run on the initial  *)
(* store, and until it commits its keys are as they were.                  *)
UnconflictedAsIfAlone ==
  \A t \in Txns : Unconflicted(t) =>
    LET after == Overlay(RunWrites(Program[t], InitStorage), InitStorage)
    IN  /\ status[t] \in {"COMPLETED_C", "COMMITTED", "COMPLETED_A", "ABORTED"} =>
             (status[t] \in {"COMPLETED_C", "COMMITTED"}
                <=> RunStatus(Program[t], InitStorage) = "COMPLETED_C")
        /\ status[t] = "COMMITTED" => \A k \in KeysOf(t) : storage[k] = after[k]
        /\ status[t] # "COMMITTED" /\ t # txn =>
             \A k \in KeysOf(t) : storage[k] = InitStorage[k]
=============================================================================
