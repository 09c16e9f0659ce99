--------------------------- MODULE ThreadPoolClient ---------------------------
(***************************************************************************)
(* The thread pool on its own: a client thread that adds tasks and then    *)
(* destroys the pool, whether or not its tasks have run by then.  A task   *)
(* is one step here.                                                       *)
(***************************************************************************)
EXTENDS StaticThreadPool, Integers, FiniteSets

ASSUME PoolAssumption == NoTask \notin Tasks

VARIABLES
  added,      \* the tasks added so far
  ran,        \* how often each task has run
  upc         \* where the client is: "adding", "joining" or "destroyed"

vars == <<pool, added, ran, upc>>

Init ==
  /\ PoolInit
  /\ added = {}
  /\ ran = [t \in Tasks |-> 0]
  /\ upc = "adding"

Add(t, w) ==
  /\ upc = "adding"
  /\ t \notin added
  /\ AddTask(t, w)
  /\ added' = added \cup {t}
  /\ UNCHANGED <<ran, upc>>

BeginDestructor ==
  /\ upc = "adding"
  /\ StopPool
  /\ upc' = "joining"
  /\ UNCHANGED <<added, ran>>

EndDestructor ==
  /\ upc = "joining"
  /\ AllJoined
  /\ upc' = "destroyed"
  /\ UNCHANGED <<pool, added, ran>>

RunTask(w) ==
  /\ TaskDone(w)
  /\ ran' = [ran EXCEPT ![task[w]] = @ + 1]
  /\ UNCHANGED <<added, upc>>

Thread(w) ==
  \/ /\ RunThread(w, upc = "adding" /\ added # Tasks)
     /\ UNCHANGED <<added, ran, upc>>
  \/ RunTask(w)

Next ==
  \/ BeginDestructor \/ EndDestructor
  \/ \E t \in Tasks, w \in Threads : Add(t, w)
  \/ \E w \in Threads : Thread(w)

Spec == Init /\ [][Next]_vars

(* The threads run on, and the client goes through with its destructor.    *)
FairSpec ==
  /\ Spec
  /\ \A w \in Threads : WF_vars(Thread(w))
  /\ WF_vars(BeginDestructor) /\ WF_vars(EndDestructor)

-----------------------------------------------------------------------------
(* Every variable has the type the code gives it.                          *)
TypeOK ==
  /\ queues \in [Threads -> Seq(Tasks)]
  /\ task \in [Threads -> Tasks \cup {NoTask}]
  /\ wpc \in [Threads -> {"poll", "run", "check", "drain", "drain_run", "exited"}]
  /\ pstopped \in BOOLEAN
  /\ added \subseteq Tasks
  /\ ran \in [Tasks -> 0..1]
  /\ upc \in {"adding", "joining", "destroyed"}

(* The places where a task waits, and the threads that run it.             *)
Waiting(t) ==
  UNION {{w} \X {i \in DOMAIN queues[w] : queues[w][i] = t} : w \in Threads}

Running(t) == {w \in Threads : task[w] = t}

(* A task that has been added is waiting, running or has run, once.        *)
EachTaskOnce ==
  \A t \in Tasks :
    Cardinality(Waiting(t)) + Cardinality(Running(t)) + ran[t] = IF t \in added THEN 1 ELSE 0

(* The pool and its tasks in every state.                                  *)
PoolInv == TypeOK /\ EachTaskOnce

(* The destructor returns only when every task added has run, although no  *)
(* thread looks at another thread's queue.                                 *)
NothingLeftBehind ==
  upc = "destroyed" => \A t \in added : ran[t] = 1

(* The destructor returns.                                                 *)
DestructorReturns == <>(upc = "destroyed")
=============================================================================
