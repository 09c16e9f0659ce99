--------------------------- MODULE StaticThreadPool ---------------------------
(***************************************************************************)
(* StaticThreadPool (a2/utils/static_thread_pool.h): one queue per thread; *)
(* AddTask puts a task on the queue of a random thread, and a thread looks *)
(* only at its own queue.  What a task does is left to the module that     *)
(* uses the pool: between taking a task and TaskDone its thread runs it.   *)
(***************************************************************************)
EXTENDS Sequences

CONSTANTS
  Threads,    \* the threads of the pool, each with its queue
  Tasks,      \* the tasks
  NoTask      \* no task

VARIABLES
  queues,     \* queues_
  task,       \* the local variable of RunThread
  wpc,        \* where each thread is in RunThread
  pstopped    \* stopped_ of the pool

pool == <<queues, task, wpc, pstopped>>

(* The constructor: the queues exist and stopped_ is false before Start    *)
(* creates the first thread.                                               *)
PoolInit ==
  /\ queues = [w \in Threads |-> <<>>]
  /\ task = [w \in Threads |-> NoTask]
  /\ wpc = [w \in Threads |-> "poll"]
  /\ pstopped = FALSE

(* AddTask: the attempt of PushNonBlocking that succeeds, on queue w.      *)
AddTask(t, w) ==
  /\ ~pstopped
  /\ queues' = [queues EXCEPT ![w] = Append(@, t)]
  /\ UNCHANGED <<task, wpc, pstopped>>

(* Mutant: the task is not popped from the queue.                          *)
TakeTaskKeeps(w, next) ==
  /\ queues[w] # <<>>
  /\ task' = [task EXCEPT ![w] = Head(queues[w])]
  /\ wpc' = [wpc EXCEPT ![w] = next]
  /\ UNCHANGED <<queues, pstopped>>

TakeTask(w, next) ==
  /\ queues[w] # <<>>
  /\ task' = [task EXCEPT ![w] = Head(queues[w])]
  /\ queues' = [queues EXCEPT ![w] = Tail(@)]
  /\ wpc' = [wpc EXCEPT ![w] = next]
  /\ UNCHANGED pstopped

(* PopNonBlocking in the main loop succeeds.                               *)
PopTask(w) == wpc[w] = "poll" /\ TakeTask(w, "run")

(* It fails: the queue is empty, or somebody who adds a task holds its     *)
(* mutex.  The thread sleeps a little.                                     *)
PopFails(w, contended) ==
  /\ wpc[w] = "poll"
  /\ queues[w] = <<>> \/ contended
  /\ wpc' = [wpc EXCEPT ![w] = "check"]
  /\ UNCHANGED <<queues, task, pstopped>>

(* task() has returned.                                                    *)
TaskDone(w) ==
  /\ wpc[w] \in {"run", "drain_run"}
  /\ wpc' = [wpc EXCEPT ![w] = IF wpc[w] = "run" THEN "check" ELSE "drain"]
  /\ task' = [task EXCEPT ![w] = NoTask]
  /\ UNCHANGED <<queues, pstopped>>

(* Mutant: the thread never looks at stopped_.                             *)
CheckNothing(w) ==
  /\ wpc[w] = "check"
  /\ wpc' = [wpc EXCEPT ![w] = "poll"]
  /\ UNCHANGED <<queues, task, pstopped>>

(* if (tp->stopped_)                                                       *)
CheckStopped(w) ==
  /\ wpc[w] = "check"
  /\ wpc' = [wpc EXCEPT ![w] = IF pstopped THEN "drain" ELSE "poll"]
  /\ UNCHANGED <<queues, task, pstopped>>

(* The last loop of RunThread, over the thread's own queue.                *)
DrainTask(w) == wpc[w] = "drain" /\ TakeTask(w, "drain_run")

(* Mutant: the thread returns without draining its queue.                  *)
ExitAtOnce(w) ==
  /\ wpc[w] = "drain"
  /\ wpc' = [wpc EXCEPT ![w] = "exited"]
  /\ UNCHANGED <<queues, task, pstopped>>

Exit(w) ==
  /\ wpc[w] = "drain"
  /\ queues[w] = <<>>
  /\ wpc' = [wpc EXCEPT ![w] = "exited"]
  /\ UNCHANGED <<queues, task, pstopped>>

(* The steps of RunThread outside task().                                  *)
RunThread(w, contended) ==
  \/ PopTask(w) \/ PopFails(w, contended) \/ CheckStopped(w)
  \/ DrainTask(w) \/ Exit(w)

(* The destructor sets stopped_ and then joins every thread.               *)
StopPool ==
  /\ pstopped' = TRUE
  /\ UNCHANGED <<queues, task, wpc>>

AllJoined == \A w \in Threads : wpc[w] = "exited"

(* A thread is inside task().                                              *)
Busy(w) == wpc[w] \in {"run", "drain_run"}
=============================================================================
