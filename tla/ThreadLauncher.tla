---------------------------- MODULE ThreadLauncher ----------------------------
(***************************************************************************)
(* ThreadLauncher (a1/src/thread_launcher.cc): one new thread per request. *)
(* A thread that has run its request links its thread_arg into targ_list_, *)
(* gives its permit back, counts the request and exits; the main thread    *)
(* joins the threads it finds in the list and frees their thread_args.     *)
(***************************************************************************)
EXTENDS OutstandingGate, Sequences

VARIABLES
  targ_list,    \* targ_list_: the linked list, last linked first
  list_mutex,   \* the owner of targ_list_mutex_
  link,         \* what each thread has read as the head of the list
  reaping,      \* arg: the part of the list the main thread still has to free
  freed         \* the thread_args freed

list == <<targ_list, list_mutex, link, reaping, freed>>
base == <<num_requests, txns_executed, lpc, rpc, waited>>
vars == <<base, gate, list>>

Init ==
  /\ LauncherInit
  /\ GateInit
  /\ targ_list = <<>>
  /\ list_mutex = NoOwner
  /\ link = [r \in Reqs |-> <<>>]
  /\ reaping = <<>>
  /\ freed = {}

-----------------------------------------------------------------------------
(* ExecuteRequest, by the main thread: count, GenThreadArg, pthread_create.*)
Create ==
  /\ CountRequest
  /\ rpc' = [rpc EXCEPT ![num_requests + 1] = "execute"]
  /\ lpc' = "gate_lock"
  /\ UNCHANGED <<txns_executed, waited, gate, list>>

Take ==
  /\ TakePermit("list_lock")
  /\ UNCHANGED list

LockList ==
  /\ lpc = "list_lock"
  /\ list_mutex = NoOwner
  /\ list_mutex' = Main
  /\ lpc' = "list_read"
  /\ UNCHANGED <<num_requests, txns_executed, rpc, waited, gate,
                 targ_list, link, reaping, freed>>

(* arg = targ_list_                                                        *)
ReadList ==
  /\ lpc = "list_read"
  /\ reaping' = targ_list
  /\ lpc' = "list_clear"
  /\ UNCHANGED <<num_requests, txns_executed, rpc, waited, gate,
                 targ_list, list_mutex, link, freed>>

(* targ_list_ = NULL and the unlock.                                       *)
ClearList ==
  /\ lpc = "list_clear"
  /\ targ_list' = <<>>
  /\ list_mutex' = NoOwner
  /\ lpc' = "reap"
  /\ UNCHANGED <<num_requests, txns_executed, rpc, waited, gate,
                 link, reaping, freed>>

(* Mutant: the thread_arg is freed without joining the thread.             *)
FreeWithoutJoin ==
  /\ lpc = "reap"
  /\ reaping # <<>>
  /\ freed' = freed \cup {Head(reaping)}
  /\ reaping' = Tail(reaping)
  /\ UNCHANGED <<base, gate, targ_list, list_mutex, link>>

(* One iteration of the last loop: pthread_join waits for the thread to    *)
(* return, then its thread_arg is freed.                                   *)
JoinAndFree ==
  /\ lpc = "reap"
  /\ reaping # <<>>
  /\ rpc[Head(reaping)] = "exited"
  /\ freed' = freed \cup {Head(reaping)}
  /\ reaping' = Tail(reaping)
  /\ UNCHANGED <<base, gate, targ_list, list_mutex, link>>

(* Mutant: the list of threads to reap is left where it is.                *)
ReturnEarly ==
  /\ lpc = "reap"
  /\ lpc' = AfterReturn
  /\ UNCHANGED <<num_requests, txns_executed, rpc, waited, gate, list>>

(* The list is done: ExecuteRequest returns to the driver.                 *)
Return ==
  /\ lpc = "reap"
  /\ reaping = <<>>
  /\ lpc' = AfterReturn
  /\ UNCHANGED <<num_requests, txns_executed, rpc, waited, gate, list>>

MainGate == (LockGate \/ TestGate) /\ UNCHANGED list

Wait == WaitOutstanding /\ UNCHANGED <<gate, list>>

MainStep ==
  \/ Create \/ MainGate \/ Take \/ LockList \/ ReadList \/ ClearList
  \/ JoinAndFree \/ Return \/ Wait

-----------------------------------------------------------------------------
(* ExecutorFunc, by the thread of request r.                               *)
Execute(r) ==
  /\ rpc[r] = "execute"
  /\ rpc' = [rpc EXCEPT ![r] = "link_lock"]
  /\ UNCHANGED <<num_requests, txns_executed, lpc, waited, gate, list>>

(* Mutant: the list is linked into without its mutex.                      *)
LinkWithoutLock(r) ==
  /\ rpc[r] = "link_lock"
  /\ list_mutex' = r
  /\ rpc' = [rpc EXCEPT ![r] = "link_read"]
  /\ UNCHANGED <<num_requests, txns_executed, lpc, waited, gate,
                 targ_list, link, reaping, freed>>

LockLink(r) ==
  /\ rpc[r] = "link_lock"
  /\ list_mutex = NoOwner
  /\ list_mutex' = r
  /\ rpc' = [rpc EXCEPT ![r] = "link_read"]
  /\ UNCHANGED <<num_requests, txns_executed, lpc, waited, gate,
                 targ_list, link, reaping, freed>>

(* targ->link_ = *targ->targ_list_                                         *)
ReadLink(r) ==
  /\ rpc[r] = "link_read"
  /\ link' = [link EXCEPT ![r] = targ_list]
  /\ rpc' = [rpc EXCEPT ![r] = "link_write"]
  /\ UNCHANGED <<num_requests, txns_executed, lpc, waited, gate,
                 targ_list, list_mutex, reaping, freed>>

(* *targ->targ_list_ = targ and the unlock.                                *)
WriteLink(r) ==
  /\ rpc[r] = "link_write"
  /\ targ_list' = <<r>> \o link[r]
  /\ list_mutex' = NoOwner
  /\ rpc' = [rpc EXCEPT ![r] = "give_lock"]
  /\ UNCHANGED <<num_requests, txns_executed, lpc, waited, gate,
                 link, reaping, freed>>

GiveBack(r) ==
  /\ LockGive(r) \/ LoadGive(r) \/ StoreGive(r, "count")
  /\ UNCHANGED list

(* fetch_and_increment and the return of the thread.                       *)
CountAndExit(r) ==
  /\ rpc[r] = "count"
  /\ IncrDoneTxns
  /\ rpc' = [rpc EXCEPT ![r] = "exited"]
  /\ UNCHANGED <<num_requests, lpc, waited, gate, list>>

ThreadStep(r) ==
  \/ Execute(r) \/ LockLink(r) \/ ReadLink(r) \/ WriteLink(r)
  \/ GiveBack(r) \/ CountAndExit(r)

Wakeup == SpuriousWakeup /\ UNCHANGED list

Next == MainStep \/ Wakeup \/ \E r \in Reqs : ThreadStep(r)

Spec == Init /\ [][Next]_vars

(* Every thread that is not blocked runs on; nobody owes a spurious wakeup.*)
FairSpec ==
  Spec /\ WF_vars(MainStep) /\ \A r \in Reqs : WF_vars(ThreadStep(r))

-----------------------------------------------------------------------------
Elements(s) == {s[i] : i \in DOMAIN s}

(* Every variable has the type the code gives it; the counter exceeds its  *)
(* initial value by at most one, so the constructor's bound on it excludes *)
(* an overflow.                                                            *)
TypeOK ==
  /\ num_requests \in 0..NumReqs
  /\ txns_executed \in 0..NumReqs
  /\ waited \in 0..NumReqs
  /\ lpc \in {"idle", "gate_lock", "gate_test", "gate_wait", "gate_take",
              "list_lock", "list_read", "list_clear", "reap", "wait"}
  /\ rpc \in [Reqs -> {"none", "execute", "link_lock", "link_read", "link_write",
                       "give_lock", "give_load", "give_store", "count", "exited"}]
  /\ max_outstanding \in 0..(MaxOutstanding + 1)
  /\ mutex \in {NoOwner, Main} \cup Reqs
  /\ cur \in 0..(MaxOutstanding + 1)
  /\ tmp \in [Reqs -> 0..(MaxOutstanding + 1)]
  /\ targ_list \in Seq(Reqs)
  /\ list_mutex \in {NoOwner, Main} \cup Reqs
  /\ link \in [Reqs -> Seq(Reqs)]
  /\ reaping \in Seq(Reqs)
  /\ freed \subseteq Reqs

(* The threads that have linked their thread_arg into targ_list_.          *)
Linked ==
  {r \in Reqs : rpc[r] \in {"give_lock", "give_load", "give_store", "count", "exited"}}

(* A thread_arg that has been linked is in the list, or in the part of it  *)
(* the main thread has taken, or freed, and in one of them only: none is   *)
(* dropped by two threads linking at once, none is freed twice.            *)
ArgInOnePlace ==
  lpc # "list_clear" =>
    /\ Linked = Elements(targ_list) \cup Elements(reaping) \cup freed
    /\ Len(targ_list) + Len(reaping) + Cardinality(freed) = Cardinality(Linked)

(* The launcher and its list of finished threads in every state.           *)
ListInv == TypeOK /\ ArgInOnePlace

(* A thread_arg is freed only after its thread, which reads it to the very *)
(* end, has returned.                                                      *)
NoUseAfterFree == \A r \in freed : rpc[r] = "exited"

(* The thread_args not yet freed never outnumber the limit plus one:       *)
(* reclaiming the finished threads once per call is enough.                *)
LiveArgsBounded == num_requests - Cardinality(freed) <=
  IF AtGate \/ lpc \in {"list_lock", "list_read", "list_clear", "reap"}
    THEN MaxOutstanding + 1 ELSE MaxOutstanding

(* When WaitOutstanding has returned, every request issued before the call *)
(* has been executed and its thread will not touch the launcher again.     *)
WaitedAreDone == \A r \in 1..waited : rpc[r] = "exited"

(* Unless pthread_cond_wait returns for no reason again and again, every   *)
(* request issued is executed, and the driver gets past all its calls of   *)
(* ExecuteRequest and WaitOutstanding.                                     *)
DriverFinishes ==
  <>[][~Wakeup]_vars => <>(Finished /\ \A r \in Reqs : rpc[r] = "exited")
=============================================================================
