--------------------------- MODULE ThreadPoolProofs ---------------------------
(***************************************************************************)
(* StaticThreadPool loses no task and runs none twice, for any number of   *)
(* threads and tasks: each added task is in one place until it has run,    *)
(* and a thread does not leave before its queue is empty for good.         *)
(***************************************************************************)
EXTENDS ThreadPoolClient, FiniteSetTheorems, SequenceTheorems, TLAPS

(* The queue of a thread after AddTask, and after a task has been taken.   *)
LEMMA Appended ==
  ASSUME NEW S, NEW s \in Seq(S), NEW x \in S
  PROVE  /\ Append(s, x) \in Seq(S) /\ DOMAIN Append(s, x) = DOMAIN s \cup {Len(s) + 1}
         /\ Len(s) + 1 \notin DOMAIN s
         /\ Append(s, x)[Len(s) + 1] = x /\ \A i \in DOMAIN s : Append(s, x)[i] = s[i]
OBVIOUS

LEMMA Taken ==
  ASSUME NEW S, NEW s \in Seq(S), s # <<>>
  PROVE  /\ Tail(s) \in Seq(S) /\ Head(s) \in S /\ Head(s) = s[1] /\ 1 \in DOMAIN s
         /\ \A i \in DOMAIN Tail(s) : i + 1 \in DOMAIN s /\ i + 1 # 1 /\ Tail(s)[i] = s[i + 1]
         /\ \A i \in DOMAIN s : i # 1 => i - 1 \in DOMAIN Tail(s) /\ Tail(s)[i - 1] = s[i]
OBVIOUS

(* A task that has been added and has not yet run.                         *)
Pending(t) == t \in added /\ ran[t] = 0

(* The inductive invariant: an added task that has not run is on one       *)
(* queue, in one place, or in the hands of one thread...                   *)
TaskInv ==
  /\ \A w \in Threads : IF Busy(w) THEN task[w] \in Tasks /\ Pending(task[w]) ELSE task[w] = NoTask
  /\ \A w \in Threads : \A i \in DOMAIN queues[w] : Pending(queues[w][i])
  /\ \A w, v \in Threads : \A i \in DOMAIN queues[w] : \A j \in DOMAIN queues[v] :
       queues[w][i] = queues[v][j] => w = v /\ i = j
  /\ \A w, v \in Threads : \A i \in DOMAIN queues[w] : queues[w][i] # task[v]
  /\ \A w, v \in Threads : Busy(w) /\ task[w] = task[v] => w = v
  /\ \A t \in Tasks : ran[t] = 1 => t \in added
  /\ \A t \in Tasks : Pending(t) =>
       \/ \E w \in Threads : task[w] = t
       \/ \E w \in Threads : \E i \in DOMAIN queues[w] : queues[w][i] = t

(* ... and a thread that has returned left an empty queue, to which nobody *)
(* adds, since threads leave only when stopped_ is set.                    *)
StopInv ==
  /\ pstopped <=> upc # "adding"
  /\ \A w \in Threads : wpc[w] \in {"drain", "drain_run", "exited"} => pstopped
  /\ \A w \in Threads : wpc[w] = "exited" => queues[w] = <<>>
  /\ upc = "destroyed" => AllJoined

ClientInv == TypeOK /\ TaskInv /\ StopInv

LEMMA AddKeeps ==
  ASSUME ClientInv, NEW t \in Tasks, NEW w \in Threads, Add(t, w)
  PROVE  ClientInv'
<1>1. TypeOK /\ TaskInv /\ StopInv
  BY DEF ClientInv
<1>2. /\ queues' = [queues EXCEPT ![w] = Append(queues[w], t)] /\ UNCHANGED <<task, wpc, pstopped, ran, upc>>
      /\ added' = added \cup {t} /\ t \notin added /\ ~pstopped
  BY DEF Add, AddTask
<1>3. queues[w] \in Seq(Tasks)
  BY <1>1 DEF TypeOK
<1> DEFINE q == Append(queues[w], t)
           n == Len(queues[w]) + 1
<1>4. /\ q \in Seq(Tasks) /\ DOMAIN q = DOMAIN queues[w] \cup {n} /\ q[n] = t
      /\ n \notin DOMAIN queues[w] /\ \A i \in DOMAIN queues[w] : q[i] = queues[w][i]
  BY <1>3, Appended
<1>5. queues'[w] = q /\ \A v \in Threads \ {w} : queues'[v] = queues[v]
  BY <1>1, <1>2 DEF TypeOK
<1> HIDE DEF q, n
<1>6. TypeOK'
  BY <1>1, <1>2, <1>4, <1>5 DEF TypeOK, q
<1>7. ran[t] = 0
  BY <1>1, <1>2 DEF TypeOK, TaskInv
<1>8. TaskInv'
  <2>1. \A x \in Tasks : x \in added' /\ ran'[x] = 0 <=> Pending(x) \/ x = t
    BY <1>2, <1>7 DEF Pending
  <2>2. \A v \in Threads : \A i \in DOMAIN queues[v] : queues[v][i] \in Tasks
    BY <1>1, <1>3 DEF TypeOK
  <2>3. \A v \in Threads : \A i \in DOMAIN queues'[v] :
          \/ i \in DOMAIN queues[v] /\ queues'[v][i] = queues[v][i]
          \/ v = w /\ i = n /\ queues'[v][i] = t
    BY <1>4, <1>5
  <2>4. \A v \in Threads : \A i \in DOMAIN queues[v] : i \in DOMAIN queues'[v] /\ queues'[v][i] = queues[v][i]
    BY <1>4, <1>5
  <2>5. \A v \in Threads : (Busy(v)' <=> Busy(v)) /\ task'[v] = task[v]
    BY <1>2 DEF Busy
  <2>6. \A v \in Threads : \A i \in DOMAIN queues[v] : queues[v][i] # t
    BY <1>1, <1>2 DEF TaskInv, Pending
  <2>7. \A v \in Threads : task[v] # t
    BY <1>1, <1>2, PoolAssumption DEF TaskInv, Pending
  <2>8. n \in DOMAIN queues'[w] /\ queues'[w][n] = t
    BY <1>4, <1>5
  <2>9. \A v \in Threads : \A i \in DOMAIN queues'[v] : queues'[v][i] \in added' /\ ran'[queues'[v][i]] = 0
    BY <1>1, <2>1, <2>2, <2>3 DEF TaskInv
  <2>10. \A v, u \in Threads : \A i \in DOMAIN queues'[v] : \A j \in DOMAIN queues'[u] :
           queues'[v][i] = queues'[u][j] => v = u /\ i = j
    BY <1>1, <2>3, <2>6 DEF TaskInv
  <2>11. \A v, u \in Threads : \A i \in DOMAIN queues'[v] : queues'[v][i] # task'[u]
    BY <1>1, <2>3, <2>5, <2>7 DEF TaskInv
  <2>12. \A x \in Tasks : x \in added' /\ ran'[x] = 0 =>
           \/ \E v \in Threads : task'[v] = x
           \/ \E v \in Threads : \E i \in DOMAIN queues'[v] : queues'[v][i] = x
    BY <1>1, <2>1, <2>4, <2>5, <2>8 DEF TaskInv
  <2>13. \A v \in Threads : IF Busy(v)' THEN task'[v] \in Tasks /\ task'[v] \in added' /\ ran'[task'[v]] = 0 ELSE task'[v] = NoTask
    BY <1>1, <2>1, <2>5 DEF TaskInv
  <2>14. \A v, u \in Threads : Busy(v)' /\ task'[v] = task'[u] => v = u
    BY <1>1, <2>5 DEF TaskInv
  <2>15. \A x \in Tasks : ran'[x] = 1 => x \in added'
    BY <1>1, <1>2 DEF TaskInv
  <2> QED
    BY <2>9, <2>10, <2>11, <2>12, <2>13, <2>14, <2>15 DEF TaskInv, Pending
<1>9. StopInv'
  BY <1>1, <1>2, <1>5 DEF StopInv, AllJoined
<1> QED
  BY <1>6, <1>8, <1>9 DEF ClientInv

(* A thread takes the first task of its queue.                             *)
LEMMA TakeKeeps ==
  ASSUME ClientInv, NEW w \in Threads, PopTask(w) \/ DrainTask(w), UNCHANGED <<added, ran, upc>>
  PROVE  ClientInv'
<1>1. TypeOK /\ TaskInv /\ StopInv
  BY DEF ClientInv
<1>2. PICK next \in {"run", "drain_run"} :
        /\ wpc[w] = IF next = "run" THEN "poll" ELSE "drain"
        /\ TakeTask(w, next)
  BY DEF PopTask, DrainTask
<1> DEFINE t == Head(queues[w])
           q == Tail(queues[w])
<1>3. queues[w] \in Seq(Tasks) /\ queues[w] # <<>>
  BY <1>1, <1>2 DEF TypeOK, TakeTask
<1>4. /\ q \in Seq(Tasks) /\ t \in Tasks /\ t = queues[w][1] /\ 1 \in DOMAIN queues[w]
      /\ \A i \in DOMAIN q : i + 1 \in DOMAIN queues[w] /\ i + 1 # 1 /\ q[i] = queues[w][i + 1]
      /\ \A i \in DOMAIN queues[w] : i # 1 => i - 1 \in DOMAIN q /\ q[i - 1] = queues[w][i]
  BY <1>3, Taken
<1>5. /\ queues' = [queues EXCEPT ![w] = q] /\ queues'[w] = q
      /\ \A v \in Threads \ {w} : queues'[v] = queues[v]
  BY <1>1, <1>2 DEF TypeOK, TakeTask
<1>6. /\ task' = [task EXCEPT ![w] = t] /\ task'[w] = t
      /\ \A v \in Threads \ {w} : task'[v] = task[v]
  BY <1>1, <1>2 DEF TypeOK, TakeTask
<1>7. /\ wpc' = [wpc EXCEPT ![w] = next] /\ wpc'[w] = next
      /\ \A v \in Threads \ {w} : wpc'[v] = wpc[v]
  BY <1>1, <1>2 DEF TypeOK, TakeTask
<1>8. pstopped' = pstopped
  BY <1>2 DEF TakeTask
<1> HIDE DEF t, q
<1>9. TypeOK'
  BY <1>1, <1>4, <1>5, <1>6, <1>7, <1>8 DEF TypeOK
<1>10. TaskInv'
  <2>1. \A x : x \in added' /\ ran'[x] = 0 <=> Pending(x)
    BY DEF Pending
  <2>2. ~Busy(w) /\ Busy(w)' /\ \A v \in Threads \ {w} : Busy(v)' <=> Busy(v)
    BY <1>2, <1>7 DEF Busy
  <2>3. Pending(t) /\ \A v \in Threads : task[v] # t
    BY <1>1, <1>4 DEF TaskInv
  <2>4. \A v \in Threads : \A i \in DOMAIN queues'[v] :
          \E j \in DOMAIN queues[v] : /\ queues'[v][i] = queues[v][j] /\ (v = w => j = i + 1 /\ j # 1)
                                      /\ (v # w => j = i)
    BY <1>4, <1>5
  <2>5. \A v \in Threads : \A i \in DOMAIN queues'[v] : queues'[v][i] # t /\ Pending(queues'[v][i])
    BY <1>1, <1>4, <2>4 DEF TaskInv
  <2>6. \A v, u \in Threads : \A i \in DOMAIN queues'[v] : \A j \in DOMAIN queues'[u] :
          queues'[v][i] = queues'[u][j] => v = u /\ i = j
    <3> SUFFICES ASSUME NEW v \in Threads, NEW u \in Threads, NEW i \in DOMAIN queues'[v],
                        NEW j \in DOMAIN queues'[u], queues'[v][i] = queues'[u][j]
                 PROVE  v = u /\ i = j
      OBVIOUS
    <3>1. PICK k \in DOMAIN queues[v] : queues'[v][i] = queues[v][k] /\ (v = w => k = i + 1) /\ (v # w => k = i)
      BY <2>4
    <3>2. PICK l \in DOMAIN queues[u] : queues'[u][j] = queues[u][l] /\ (u = w => l = j + 1) /\ (u # w => l = j)
      BY <2>4
    <3>3. v = u /\ k = l
      <4>1. queues[v][k] = queues[u][l]
        BY <3>1, <3>2
      <4>2. \A a, b \in Threads : \A m \in DOMAIN queues[a] : \A o \in DOMAIN queues[b] :
              queues[a][m] = queues[b][o] => a = b /\ m = o
        BY <1>1 DEF TaskInv
      <4> QED
        BY <4>1, <4>2
    <3>4. i \in Int /\ j \in Int
      BY <1>9 DEF TypeOK
    <3> QED
      BY <3>1, <3>2, <3>3, <3>4
  <2>7. \A v, u \in Threads : \A i \in DOMAIN queues'[v] : queues'[v][i] # task'[u]
    BY <1>1, <1>6, <2>4, <2>5 DEF TaskInv
  <2>8. \A v \in Threads : IF Busy(v)' THEN task'[v] \in Tasks /\ task'[v] \in added' /\ ran'[task'[v]] = 0 ELSE task'[v] = NoTask
    BY <1>1, <1>4, <1>6, <2>1, <2>2, <2>3 DEF TaskInv
  <2>9. \A v, u \in Threads : Busy(v)' /\ task'[v] = task'[u] => v = u
    BY <1>1, <1>6, <2>2, <2>3 DEF TaskInv
  <2>10. \A x \in Tasks : ran'[x] = 1 => x \in added'
    BY <1>1 DEF TaskInv
  <2>11. ASSUME NEW x \in Tasks, x \in added', ran'[x] = 0
         PROVE  \/ \E v \in Threads : task'[v] = x
                \/ \E v \in Threads : \E i \in DOMAIN queues'[v] : queues'[v][i] = x
    <3>1. CASE \E v \in Threads : task[v] = x
      <4>1. PICK v \in Threads : task[v] = x
        BY <3>1
      <4>2. v # w
        BY <1>1, <2>2, <4>1, PoolAssumption DEF TaskInv
      <4> QED
        BY <1>6, <4>1, <4>2
    <3>2. CASE \E v \in Threads : \E i \in DOMAIN queues[v] : queues[v][i] = x
      <4>0. PICK v \in Threads : \E i \in DOMAIN queues[v] : queues[v][i] = x
        BY <3>2
      <4>1. PICK i \in DOMAIN queues[v] : queues[v][i] = x
        BY <4>0
      <4>2. CASE v = w /\ i = 1
        BY <1>4, <1>6, <4>1, <4>2
      <4>3. CASE v # w \/ i # 1
        BY <1>4, <1>5, <4>1, <4>3
      <4> QED
        BY <4>2, <4>3
    <3> QED
      BY <1>1, <2>1, <2>11, <3>1, <3>2 DEF TaskInv
  <2> QED
    BY <2>1, <2>5, <2>6, <2>7, <2>8, <2>9, <2>10, <2>11 DEF TaskInv, Pending
<1>11. StopInv'
  BY <1>1, <1>2, <1>5, <1>7, <1>8 DEF StopInv, AllJoined
<1> QED
  BY <1>9, <1>10, <1>11 DEF ClientInv

(* A task has returned: it has run, and is in no place any more.           *)
LEMMA RunTaskKeeps ==
  ASSUME ClientInv, NEW w \in Threads, RunTask(w)
  PROVE  ClientInv'
<1>1. TypeOK /\ TaskInv /\ StopInv
  BY DEF ClientInv
<1>2. Busy(w) /\ task[w] \in Tasks /\ Pending(task[w])
  BY <1>1 DEF RunTask, TaskDone, Busy, TaskInv
<1>3. ran' = [ran EXCEPT ![task[w]] = 1] /\ UNCHANGED <<queues, pstopped, added, upc>>
  BY <1>1, <1>2 DEF RunTask, TaskDone, Pending, TypeOK
<1>4. ran'[task[w]] = 1 /\ \A x \in Tasks : x # task[w] => ran'[x] = ran[x]
  BY <1>1, <1>2, <1>3 DEF TypeOK
<1>5. /\ task' = [task EXCEPT ![w] = NoTask] /\ task'[w] = NoTask
      /\ \A v \in Threads \ {w} : task'[v] = task[v]
  BY <1>1 DEF RunTask, TaskDone, TypeOK
<1>6. PICK p \in {"check", "drain"} :
        /\ wpc' = [wpc EXCEPT ![w] = p] /\ wpc'[w] = p /\ \A v \in Threads \ {w} : wpc'[v] = wpc[v]
        /\ p = "drain" => wpc[w] = "drain_run"
  BY <1>1 DEF RunTask, TaskDone, TypeOK
<1>7. TypeOK'
  BY <1>1, <1>2, <1>3, <1>5, <1>6 DEF TypeOK
<1>8. TaskInv'
  <2>1. ~Busy(w)' /\ \A v \in Threads \ {w} : Busy(v)' <=> Busy(v)
    BY <1>6 DEF Busy
  <2>2. \A x \in Tasks : x \in added' /\ ran'[x] = 0 <=> Pending(x) /\ x # task[w]
    BY <1>3, <1>4 DEF Pending
  <2>3. \A v \in Threads : \A i \in DOMAIN queues[v] : queues[v][i] \in Tasks
    BY <1>1 DEF TypeOK
  <2>4. \A v \in Threads \ {w} : task[v] # task[w]
    BY <1>1, <1>2 DEF TaskInv
  <2>5. \A v \in Threads : IF Busy(v)' THEN task'[v] \in Tasks /\ task'[v] \in added' /\ ran'[task'[v]] = 0
                                       ELSE task'[v] = NoTask
    BY <1>1, <1>5, <2>1, <2>2, <2>4 DEF TaskInv
  <2>6. \A v \in Threads : \A i \in DOMAIN queues'[v] : queues'[v][i] \in added' /\ ran'[queues'[v][i]] = 0
    BY <1>1, <1>3, <2>2, <2>3 DEF TaskInv
  <2>7. \A v, u \in Threads : \A i \in DOMAIN queues'[v] : queues'[v][i] # task'[u]
    BY <1>1, <1>3, <1>5, <2>3, PoolAssumption DEF TaskInv
  <2>8. \A v, u \in Threads : Busy(v)' /\ task'[v] = task'[u] => v = u
    BY <1>1, <1>5, <2>1, <2>5, PoolAssumption DEF TaskInv
  <2>9. \A x \in Tasks : ran'[x] = 1 => x \in added'
    BY <1>1, <1>2, <1>3, <1>4 DEF TaskInv, Pending
  <2>10. \A x \in Tasks : x \in added' /\ ran'[x] = 0 =>
           \/ \E v \in Threads : task'[v] = x
           \/ \E v \in Threads : \E i \in DOMAIN queues'[v] : queues'[v][i] = x
    BY <1>1, <1>3, <1>5, <2>2 DEF TaskInv
  <2>11. \A v, u \in Threads : \A i \in DOMAIN queues'[v] : \A j \in DOMAIN queues'[u] :
           queues'[v][i] = queues'[u][j] => v = u /\ i = j
    BY <1>1, <1>3 DEF TaskInv
  <2> QED
    BY <2>5, <2>6, <2>7, <2>8, <2>9, <2>10, <2>11 DEF TaskInv, Pending
<1>9. StopInv'
  <2>1. wpc[w] # "exited"
    BY <1>2 DEF Busy
  <2> QED
    BY <1>1, <1>3, <1>6, <2>1 DEF StopInv, AllJoined
<1> QED
  BY <1>7, <1>8, <1>9 DEF ClientInv

(* The steps of a thread that move no task, and those of the destructor.   *)
LEMMA MoveKeeps ==
  ASSUME ClientInv, NEW w \in Threads, UNCHANGED <<added, ran, upc>>,
         (\E contended \in BOOLEAN : PopFails(w, contended)) \/ CheckStopped(w) \/ Exit(w)
  PROVE  ClientInv'
<1>1. TypeOK /\ TaskInv /\ StopInv
  BY DEF ClientInv
<1>2. UNCHANGED <<queues, task, pstopped>>
  BY DEF PopFails, CheckStopped, Exit
<1>3. PICK p \in {"poll", "check", "drain", "exited"} :
        /\ wpc' = [wpc EXCEPT ![w] = p] /\ wpc'[w] = p /\ \A v \in Threads \ {w} : wpc'[v] = wpc[v]
        /\ p = "drain" => pstopped
        /\ p = "exited" => wpc[w] = "drain" /\ queues[w] = <<>>
  BY <1>1 DEF PopFails, CheckStopped, Exit, TypeOK
<1>4. wpc[w] \in {"poll", "check", "drain"}
  BY DEF PopFails, CheckStopped, Exit
<1>5. TypeOK'
  BY <1>1, <1>2, <1>3 DEF TypeOK
<1>6. \A v \in Threads : Busy(v)' <=> Busy(v)
  BY <1>3, <1>4 DEF Busy
<1>7. TaskInv'
  BY <1>1, <1>2, <1>6 DEF TaskInv, Pending
<1>8. StopInv'
  BY <1>1, <1>2, <1>3, <1>4 DEF StopInv, AllJoined
<1> QED
  BY <1>5, <1>7, <1>8 DEF ClientInv

LEMMA DestructorKeeps ==
  ASSUME ClientInv, BeginDestructor \/ EndDestructor
  PROVE  ClientInv'
<1>1. TypeOK /\ TaskInv /\ StopInv
  BY DEF ClientInv
<1>2. UNCHANGED <<queues, task, wpc, added, ran>>
  BY DEF BeginDestructor, EndDestructor, StopPool, pool
<1>3. /\ pstopped' = TRUE /\ upc' \in {"joining", "destroyed"}
      /\ upc' = "destroyed" => AllJoined
  BY <1>1 DEF BeginDestructor, EndDestructor, StopPool, pool, StopInv, TypeOK
<1>4. TypeOK'
  BY <1>1, <1>2, <1>3 DEF TypeOK
<1>5. TaskInv'
  BY <1>1, <1>2 DEF TaskInv, Pending, Busy
<1>6. StopInv'
  BY <1>1, <1>2, <1>3 DEF StopInv, AllJoined
<1> QED
  BY <1>4, <1>5, <1>6 DEF ClientInv

LEMMA StepKeepsClient ==
  ASSUME ClientInv, [Next]_vars
  PROVE  ClientInv'
<1>1. ASSUME NEW w \in Threads, RunThread(w, upc = "adding" /\ added # Tasks), UNCHANGED <<added, ran, upc>>
      PROVE  ClientInv'
  <2>1. CASE PopTask(w) \/ DrainTask(w)
    BY <1>1, <2>1, TakeKeeps
  <2>2. CASE PopFails(w, upc = "adding" /\ added # Tasks) \/ CheckStopped(w) \/ Exit(w)
    <3>1. \E contended \in BOOLEAN : contended = (upc = "adding" /\ added # Tasks)
      OBVIOUS
    <3>2. (\E contended \in BOOLEAN : PopFails(w, contended)) \/ CheckStopped(w) \/ Exit(w)
      BY <2>2, <3>1
    <3> QED
      BY <1>1, <3>2, MoveKeeps
  <2> QED
    BY <1>1, <2>1, <2>2 DEF RunThread
<1>2. ASSUME NEW w \in Threads, Thread(w)
      PROVE  ClientInv'
  BY <1>1, <1>2, RunTaskKeeps DEF Thread
<1>3. ASSUME NEW t \in Tasks, NEW w \in Threads, Add(t, w)
      PROVE  ClientInv'
  BY <1>3, AddKeeps
<1>4. CASE BeginDestructor \/ EndDestructor
  BY <1>4, DestructorKeeps
<1>5. CASE UNCHANGED vars
  BY <1>5 DEF vars, pool, ClientInv, TypeOK, TaskInv, Pending, Busy, StopInv, AllJoined
<1> QED
  BY <1>2, <1>3, <1>4, <1>5 DEF Next

LEMMA ClientInvariant == Spec => []ClientInv
<1>1. Init => ClientInv
  <2> SUFFICES ASSUME Init PROVE ClientInv
    OBVIOUS
  <2>1. TypeOK
    <3>1. queues \in [Threads -> Seq(Tasks)]
      BY EmptySeq DEF Init, PoolInit
    <3>2. task \in [Threads -> Tasks \cup {NoTask}] /\ pstopped \in BOOLEAN
      BY DEF Init, PoolInit
    <3>3. wpc \in [Threads -> {"poll", "run", "check", "drain", "drain_run", "exited"}]
      BY DEF Init, PoolInit
    <3>4. ran \in [Tasks -> 0..1] /\ added \subseteq Tasks /\ upc = "adding"
      BY DEF Init
    <3> QED
      BY <3>1, <3>2, <3>3, <3>4 DEF TypeOK
  <2>2. TaskInv
    <3>1. \A w \in Threads : task[w] = NoTask /\ ~Busy(w) /\ queues[w] = <<>>
      BY DEF Init, PoolInit, Busy
    <3>2. added = {} /\ \A t \in Tasks : ran[t] = 0
      BY DEF Init
    <3> QED
      BY <3>1, <3>2 DEF TaskInv, Pending
  <2>3. StopInv
    BY DEF Init, PoolInit, StopInv, AllJoined
  <2> QED
    BY <2>1, <2>2, <2>3 DEF ClientInv
<1>2. ClientInv /\ [Next]_vars => ClientInv'
  BY StepKeepsClient
<1> QED
  BY <1>1, <1>2, PTL DEF Spec

-----------------------------------------------------------------------------
(* The places of a task, counted.                                          *)
LEMMA PlacesCounted ==
  ASSUME ClientInv, NEW t \in Tasks
  PROVE  Cardinality(Waiting(t)) + Cardinality(Running(t)) + ran[t] = IF t \in added THEN 1 ELSE 0
<1>1. TypeOK /\ TaskInv
  BY DEF ClientInv
<1>2. \A e : Cardinality({e}) = 1
  BY FS_Singleton
<1>3. Cardinality({}) = 0
  BY FS_EmptySet
<1>4. \A w \in Threads : task[w] = t => Busy(w) /\ Pending(t)
  BY <1>1, PoolAssumption DEF TaskInv
<1>5. CASE ~Pending(t)
  <2>1. Waiting(t) = {}
    BY <1>1, <1>5 DEF TaskInv, Waiting
  <2>2. Running(t) = {}
    BY <1>4, <1>5 DEF Running
  <2>3. ran[t] = IF t \in added THEN 1 ELSE 0
    BY <1>1, <1>5 DEF TypeOK, TaskInv, Pending
  <2> QED
    BY <1>3, <2>1, <2>2, <2>3
<1>6. ASSUME Pending(t), NEW w \in Threads, task[w] = t
      PROVE  Cardinality(Waiting(t)) = 0 /\ Cardinality(Running(t)) = 1
  <2>1. Waiting(t) = {}
    BY <1>1, <1>6 DEF TaskInv, Waiting
  <2>2. Running(t) = {w}
    BY <1>1, <1>4, <1>6 DEF TaskInv, Running
  <2> QED
    BY <1>2, <1>3, <2>1, <2>2
<1>7. ASSUME Pending(t), NEW w \in Threads, NEW i \in DOMAIN queues[w], queues[w][i] = t
      PROVE  Cardinality(Waiting(t)) = 1 /\ Cardinality(Running(t)) = 0
  <2>1. Running(t) = {}
    BY <1>1, <1>7 DEF TaskInv, Running
  <2>2. ASSUME NEW e \in Waiting(t) PROVE e = <<w, i>>
    <3>1. PICK v \in Threads : e \in {v} \X {j \in DOMAIN queues[v] : queues[v][j] = t}
      BY <2>2 DEF Waiting
    <3>2. PICK j \in DOMAIN queues[v] : e = <<v, j>> /\ queues[v][j] = t
      BY <3>1
    <3>3. queues[v][j] = queues[w][i]
      BY <1>7, <3>2
    <3>4. v = w /\ j = i
      BY <1>1, <3>3 DEF TaskInv
    <3> QED
      BY <3>2, <3>4
  <2>3. <<w, i>> \in Waiting(t)
    BY <1>7 DEF Waiting
  <2>4. Waiting(t) = {<<w, i>>}
    BY <2>2, <2>3
  <2> QED
    BY <1>2, <1>3, <2>1, <2>4
<1>8. CASE Pending(t)
  <2>1. t \in added /\ ran[t] = 0
    BY <1>8 DEF Pending
  <2>2. \/ \E w \in Threads : task[w] = t
        \/ \E w \in Threads : \E i \in DOMAIN queues[w] : queues[w][i] = t
    BY <1>1, <1>8 DEF TaskInv
  <2>3. \/ Cardinality(Waiting(t)) = 0 /\ Cardinality(Running(t)) = 1
        \/ Cardinality(Waiting(t)) = 1 /\ Cardinality(Running(t)) = 0
    BY <1>6, <1>7, <1>8, <2>2
  <2> QED
    BY <2>1, <2>3
<1> QED
  BY <1>5, <1>8

(* Each task the pool is given is on one queue, in the hands of one thread *)
(* or has run, and never two of these: AddTask and RunThread neither lose  *)
(* a task nor run one twice.                                               *)
THEOREM PoolKeepsTasks == Spec => []PoolInv
<1>1. ClientInv => PoolInv
  BY PlacesCounted DEF ClientInv, PoolInv, EachTaskOnce
<1> QED
  BY <1>1, ClientInvariant, PTL

(* When ~StaticThreadPool has joined every thread, every task that AddTask *)
(* accepted has run.                                                       *)
THEOREM PoolLeavesNothing == Spec => []NothingLeftBehind
<1>1. ClientInv => NothingLeftBehind
  <2> SUFFICES ASSUME ClientInv, upc = "destroyed", NEW t \in added
               PROVE  ran[t] = 1
    BY DEF NothingLeftBehind
  <2>1. t \in Tasks /\ ran[t] \in 0..1
    BY DEF ClientInv, TypeOK
  <2>2. \A w \in Threads : queues[w] = <<>> /\ ~Busy(w)
    BY DEF ClientInv, StopInv, AllJoined, Busy
  <2>3. ~Pending(t)
    BY <2>1, <2>2, PoolAssumption DEF ClientInv, TaskInv
  <2> QED
    BY <2>1, <2>3 DEF Pending
<1> QED
  BY <1>1, ClientInvariant, PTL
=============================================================================
