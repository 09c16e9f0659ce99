# TLA+ models of the CMSC624 transaction assignments

The repository holds two programs. **Assignment 1** (`src/a1`) measures ways of
running requests against a shared in-memory database: a process per request, a
thread per request, and two pools left to be written. **Assignment 2** (`src/a2`)
is a small transaction processor with several schedulers, some of them stubs.
This directory models the concurrent core of both, checks it with TLC on small
instances, and proves the safety properties checked there for every instance.

## 1. Inventory

### Assignment 1

| Part | State | Operations | Concurrency |
|---|---|---|---|
| `Database` (`database.cc`) | `records_`, one mutex per record, all in shared memory | `Create`, `LockRecord`, `UnlockRecord`, `GetRecord`, `Copy`, `Compare` | shared by all executors |
| `Request` (`request.cc`) | `writeset_`, `updates_` | `Execute` = sort + lock all, add word by word, unlock all; `CopySize`, `CopyRequest` | one executor per request, any number at once |
| `Launcher` (`launcher.cc`) | `_num_requests`, `*txns_executed_` | `ExecuteRequest`, `IncrDoneTxns`, `WaitOutstanding` | the second counter is incremented by executors |
| `ThreadLauncher` | counter `max_outstanding_` with mutex and condition variable; `targ_list_` with mutex | `ExecuteRequest` (main thread), `ExecutorFunc` (each thread) | two critical sections, joins, frees |
| `ProcessLauncher` | the counter, mutex and condition variable in shared memory | `ExecuteRequest` in parent and child | as above, between processes |
| `ThreadPoolLauncher`, `ProcessPoolLauncher` | request buffers of the processes | `assert(false)` skeletons; only the buffers and the copying are written | not written |
| `expt_config` (`config.h`), `main` (`start.cc`) | options, configuration, generated requests | read options, check them, generate requests, create the launcher, write the results line | none |
| `run_test` (`start.cc`) | two databases | run concurrently, run sequentially, compare | drives a launcher |
| `run_experiment`, `PerfMonitor` | done flag, samples | dry run, measure for 60 seconds, report | one more thread, which shares the counter, the samples and the flag without a lock |

What makes it correct: executions of requests are serializable and never
deadlock; the gate loses no permit and no wakeup and keeps its limit; finished
threads are joined and freed once, and not while they still use what is freed;
`WaitOutstanding` returns, and only when the requests have been executed; the
samples of an experiment account for every request and for all of the time; the
options given are those used; a copied request is the request.

### Assignment 2

| Part | State | Operations | Concurrency |
|---|---|---|---|
| `Txn` and its classes, `Storage` | `reads_`, `writes_`, `status_`; the hash table | `Run`, `Read`, `Write`, `InitStorage` | the store has no lock |
| `TxnProcessor` | `next_unique_id_`, `mutex_`, queues `txn_requests_`, `completed_txns_`, `txn_results_`, `stopped_` | `NewTxnRequest`, `GetTxnResult`, `ExecuteTxn`, `ApplyWrites`, constructor, destructor | clients, one scheduler thread, pool threads |
| serial scheduler (also OCC, P_OCC) | - | pop, execute, commit or abort, push the result | the scheduler thread only |
| locking scheduler | `ready_txns_` | request locks, hand to the pool, commit, release | scheduler and pool threads |
| lock managers A, B | lock table (unused) | stubs: every lock is granted | called by the scheduler only |
| `MVCCStorage` | version lists (unused) | stubs | - |
| `StaticThreadPool` | one queue per thread, `stopped_` | `AddTask`, `RunThread`, destructor | adders, threads, destroyer |
| `AtomicQueue`, `AtomicMap`, `AtomicSet`, `Atomic`, `Mutex`, `MutexRW` | a container and a mutex | one critical section per operation | any threads |

What makes it correct: ids and queue order agree; every transaction is executed,
decided and returned once, and with the effects of a serial execution in the
serial modes; clients are answered; construction and destruction are safe; the
pool runs every task it was given; every operation of `atomic.h` is indivisible
and leaves its mutex unlocked.

`PROJECT.json` lists the hazards one by one ("hazards"), at their lines.

## 2. The modules

### Requests

* `Database` - records as functions from fields to words, one owner per mutex.
  `Plus` keeps the wrap-around of the machine word (`WordSize`, 2^64 in the
  code).
* `Request` - `Execute` step by step. `pc[r]` is the place of the executor of
  `r`: `sort`, `lock` (one step per mutex), `load` and `store` (the two halves
  of `*rec_ptr += updates[i]`), `unlock` (one step per mutex), `done`. `idx` and
  `fld` are the loop variables. `std::sort` is external: some shuffle that
  orders the write set. `ExecuteInv` conjoins the types and `LocksMatchProgress`:
  the locks held are exactly those the position in `Execute` accounts for.
* `AtomicExecution` - what callers rely on: a request adds all its updates in one
  step. `Request` implements it (`Serializable`): a request takes effect when it
  gets its last lock, and the abstract database is the real one with the
  pending updates of the lock holders added (`SettledDb`).
* `RunTest` - `run_test`: the concurrent run, the sequential one on the copy of
  the initial database, `Compare`. A mismatch ends the program in the code; here
  it is the verdict "do not match".
* `MCRunTest` - the instance. `RequestProofs` - proofs about `Request` and
  `RunTest`.

### Launchers

* `Launcher` - the two counters, `WaitOutstanding`, and the driver: `NumReqs`
  calls of `ExecuteRequest`, with `WaitOutstanding` after the calls in
  `WaitPoints`. `lpc` is the place of the main thread, `rpc[r]` that of the
  executor of request `r`.
* `OutstandingGate` - counter, mutex and condition variable, which the two
  launchers implement with the same code. An increment or decrement is a read
  and a write, in separate steps: only the mutex makes it one. `pthread_cond_wait`
  may return without a signal (`SpuriousWakeup`); a signal wakes the main thread
  if it waits, and is lost otherwise.
* `OutstandingLimit` - the limit as callers see it: `ExecuteRequest` returns only
  when at most `MaxOutstanding` of the requests started are unfinished.
* `ThreadLauncher` - adds `targ_list_` (reading and writing its head are separate
  steps, too), `pthread_join` and `free`.
* `ProcessLauncher` - the forked children count their request before they give
  their permit back, in the opposite order from `ThreadLauncher`.
* `Experiment` - `run_experiment` on a `ProcessLauncher`, with the monitor thread
  and with children that are killed (`Kill`). Main thread: dry run, creation of
  the monitor, the loop on the done flag, the report. Monitor: read the counter,
  read the clock, append a quotient (kept as dividend and divisor), in the end
  set the flag. `DiffTime` borrows a second as the code does. A killed child
  keeps what it holds and takes no more steps; the launcher ignores `SIGCHLD`,
  so nobody notices.
* `GateProofs`, `ThreadLauncherProofs`, `ExperimentProofs` - proofs; the last is
  about `ProcessLauncher`, `Experiment` and the program around them.

### The program around the launchers

* `RequestCopy` - `CopySize`, `ROUNDUP` and `CopyRequest` on a memory of words with
  byte addresses: the object, its write set, its updates, and the pointers that
  are turned to the copied arrays.
* `Start` - `main` from the command line to the launcher. Options are read one by
  one in any order; `init_config` accepts or exits; the database, the generator of
  requests and the launcher follow from the configuration. A member of
  `expt_config` that was not set has any value. `rand()` is any number up to
  `RandMax`, and `gen_unique` takes it modulo the number of keys.
  The pool launchers are skeletons: creating one either ends at an `assert(false)`
  or, so that the code around the gap can be examined, goes on as if the gap were
  filled; `Assign` then copies any request into the buffer of any process.
* `MCStart` - the instance. The proofs are in `ExperimentProofs`; the state,
  `StartInit`, `StartNext` and `StartSpec` have names of their own so that one
  module can extend `Start` and `Experiment`.

### Transaction processor

* `Txn` - the transaction classes as data (`IsProgram`), what `Run` computes from
  the values read, the store as a partial function.
* `TxnProcessor` - client calls, `ExecuteTxn` (one step per key read, in key
  order), `ApplyWrites` (one step per key written), commit and abort,
  construction and destruction. `life` is the life of the object; `stopped_`
  starts with any value in `StaleStopped`, since the constructor sets it only
  after it has created the scheduler thread. Clients may destroy the processor
  at any time, drained or not.
* `SerialTxns` - the promise: one transaction at a time. `SerialScheduler`
  implements it (`SerialExecution`).
* `SerialScheduler` - `RunSerialScheduler`, which the OCC and P_OCC modes call.
* `StaticThreadPool` - the pool, used by `ThreadPoolClient` (alone, with a client
  that may destroy it at any time) and by `LockingScheduler` (whose tasks are
  `ExecuteTxn`). A non-blocking pop may fail because somebody who adds a task
  holds the queue's mutex.
* `LockingScheduler` - `RunLockingScheduler`, with the lock managers as they are.
* `SerialSchedulerProofs`, `ThreadPoolProofs`, `LockingSchedulerProofs` - proofs.

### Shared containers

* `AtomicObject` - an object whose operations take effect in one step between call
  and answer; a non-blocking one may fail while another call is in progress.
* `AtomicTypes` - the operations of the four classes: how each locks and what it
  does to a queue, a map, a set or a number.
* `GuardedObject` - how `atomic.h` is written: lock (or try, or read-lock), look at
  the contents, change them, unlock, return. It implements `AtomicObject`
  (`Linearizable`), which is why `TxnProcessor` and `StaticThreadPool` may use the
  queues in single steps, and why a failing non-blocking pop needs a contending
  caller there.
* `GuardedObjectProofs` - proofs.

A definition whose comment begins with "Mutant" is a faulty variant of the
definition after it; no specification uses it. `PROJECT.json` says which property
each one breaks: it shows that the property depends on that code.

## 3. The runs

| Run | Instance | States | Shows |
|---|---|---|---|
| `run_test` | 3 requests, 2 of 3 records each, 2 fields, words modulo 4 | 22 000 | exact locking, no lost update, ordered waiting, no deadlock, serializability; the test passes and ends with all locks free |
| `thread_launcher` | 5 requests, limit 2, waits after 2 and 5 | 408 000 | the gate, the list of finished threads, `WaitOutstanding`, the limit, the driver ends |
| `experiment` | dry run of 2, then 2 requests, limit 2, 2 samples, 1 child killed at any point | 613 000 | permits conserved, the limit and `WaitOutstanding` also with a killed child; the samples add up; only a kill can leave everybody waiting; without one the experiment ends and reports |
| `serial` | one transaction of each class, 4 clients, a key that does not exist at first, destruction at any time | 13 600 | id order, results decided, commits complete and in that order, serial effects, clients answered and the destructor not stuck |
| `locking` | 3 transactions (an increment and an overwriting of one key, one that conflicts with nobody), 2 pool threads, destruction at any time | 324 000 | every transaction in one place, results decided, the store as the commits make it in the order of the results, safe destruction when drained, the transaction without conflicts runs as if alone, all answered, the destructor not stuck |
| `thread_pool` | 3 tasks, 2 threads, destruction at any time | 2 500 | every task runs once, none is left behind |
| `atomic` | 2 threads, 4 calls of any operations, each of the four classes | 155 000 | every operation is one step and returns |
| `start` | every set of options, types -1 to 4, sizes negative, zero and positive; 2 requests of 2 keys | 198 000 | options reach the launcher and the results, distinct keys, faithful copies, generation ends |
| `thread_launcher_limit`, `serial_completed`, `serial_constructor`, `locking_destructor` | as above, some smaller | - | violations, see section 6 |

**Bounds.** Three requests with two of three keys are the smallest instance in
which a cycle of three waiting requests could form and in which disjoint,
overlapping and equal write sets all occur; two fields make the inner loop take
both branches; the initial word 3 is the largest, so that additions wrap around.
Five requests through a limit of two let the counter reach both
ends (0 and `MaxOutstanding + 1`), let three executors be at the gate at once,
and leave requests to issue after a `WaitOutstanding`. In the experiment a delay
of one and a half seconds makes `DiffTime` borrow from some starting times and not
from others, and two samples let the second start from the first; when the
requests are used up the loop only tests the flag. Three tasks on two queues
give one queue two tasks. Three transactions on two pool threads let two run
while the third waits or is committed, and two of them write one key, so that a commit
overwrites another; none of them aborts there (aborts occur in `serial`, and the
theorem `LockingResultsDecided` covers all programs). Two calls of two threads each let a call
be overtaken by a whole other call. A database of as many records as a request has
keys (`run_test` and high contention) is the smallest margin for `gen_unique`.
`MaxCalls` bounds the calls made of a container, so `EveryCallReturns` is about locks
that are not given back, not about starvation; the unlocks of the branches of an
operation are one action (`Unlock`), so it says that a call which ends in any branch
has unlocked, and does not tell the branches apart.

`CHECK_DEADLOCK FALSE` is set because the drivers end; that nobody is stuck
before that is shown by `DeadlockFree`, by the liveness properties and, for every
instance, by the theorems named at the end of section 4.

**Fairness.** Every thread or process that can go on eventually does (weak
fairness per thread), which the operating system's scheduler gives; weak fairness
is enough for the record mutexes because no executor takes a record twice, and
for the launchers because each executor locks the gate once. Nothing forces a
spurious wakeup, and the liveness of the launchers is stated for behaviours
without endlessly many of them (`<>[][~Wakeup]_vars => ...`), as endless wakeups
would keep any loop around `pthread_cond_wait` busy. `ExperimentEnds` is further
restricted to behaviours without a kill: a child killed with a permit or a mutex
does hang the experiment, and no code recovers from it. Clients of the
transaction processor take results that are there and finish a call they have
begun; they need not submit anything nor destroy the processor. In the same way
the threads of `GuardedObject` need not call anything. `Start` has weak fairness
of the whole main thread: for `gen_unique` this says that `rand()` does not repeat
keys already drawn for ever, as long as there is another one.

## 4. The proofs

All theorems hold for every value of the constants that the named assumptions
allow. For requests and `run_test` these are `DatabaseAssumption`,
`RequestAssumption` and `RunTestAssumption`; for the launchers and the experiment
`LauncherAssumption`, `GateAssumption`, `ProcessAssumption` and
`ExperimentAssumption` (a reading comes at least a second after the one before, as
the monitor sleeps in between); for the program around them `StartAssumption` and
`CopyAssumption`; for the containers `TypesAssumption` and
`GuardedAssumption`; for the pool `PoolAssumption`; for the schedulers
`TxnAssumption` (keys are numbers), `ProcessorAssumption` (finitely many
transactions, each with a program of one of the four classes) and
`LockingAssumption` (the pool's threads are the executors besides the scheduler,
its tasks are the transactions, and every key exists). TLC evaluates all of them
on the instances it checks. The inductive invariants named below were checked
with TLC on the instances of the runs before they were proved.

**`RequestProofs`.** The inductive invariant `IInv` conjoins `TypeOK`, `Sorted`
(after the sort a write set is strictly increasing), `LoopsReset` (the loop
variables are at their start wherever a loop begins), `LocksMatchProgress` and
`NoLostUpdate`. `NoLostUpdate` alone is not inductive: that nobody else writes
the record between load and store follows from the locks, and that the locks are
those the program counter accounts for needs the loops to start at the beginning
and the keys of a write set to differ. Theorems: `TypeCorrect`, `LockDiscipline`,
`NoUpdateIsLost`, `WaitingIsOrdered`, `NoDeadlock` (take the waiting request that
waits for the largest key: the owner of that record waits for a larger one or can
step) and `ExecuteIsSerializable` (the refinement of `AtomicExecution`: the
last lock of a request maps to its abstract step, every other step to a stutter).

`run_test` is proved in the same module. Its steps are steps of `Request` or leave
the first database alone (`TestExecutes`), so everything above holds of the test.
`TestPasses` (the two databases match) rests on `MatchInv`: in every record, the
settled words of the first database are those of the second plus what the
requests add that have settled there and have not run here, modulo the word
size. A request that settles is added on one side of this equation, a request
that is run again moves across it, and at the end nothing is left between the
two. The order of the additions does not matter since `Total` sums over a set;
that such a sum exists, is unique, and grows by one term at a time is proved from
the least counterexample (`LeastNumber`, by `WFMin`), as the induction theorems
of the library take an operator as a parameter.

**`GateProofs`.** The gate's invariant `GateInv` conjoins the types, `IssuedRun`
(the requests with an executor are those issued), `GateOrder` (the main thread is
at the gate with a request, and takes a permit only when it has seen one),
`GateExclusion`, `PermitsConserved` and `NoLostWakeup`. Conservation is not
inductive without the exclusion: a decrement writes a value that was read
earlier. One lemma per step of the gate, and one (`OutsideStep`) for all steps
that leave it alone, each with the step of `OutstandingLimit` it maps to.

**`ThreadLauncherProofs`, `ExperimentProofs`** put these together:
`PermitsConserved`, `OutstandingBounded`, `GateExclusion`, `NoLostWakeup`, the
refinement `ImplementsLimit`, and `WaitedAreDone`, by the invariant `WaitInv`
(the count of executed requests is the size of the set of those counted, so when
it equals the number issued every one of them has been counted).

The list of finished threads of `ThreadLauncher` has an invariant of its own,
`ArgsInv`: who holds the list's mutex and that the head it has read is still the
head (`ListExclusion`), and that the argument blocks linked so far are split,
without repetition, into the list, what the main thread is reaping, and what has
been freed (`ListSplit`). Between reading the head and clearing it the main thread
has a block that is also still on the list, so the split counts the list as empty
there (`Rest`). `ThreadNoUseAfterFree` and `ThreadListInv` follow;
`ThreadLiveArgsBounded` needs `ReclaimInv` and `GateInv` too: the bound holds
because what is linked and not taken is limited by the gate at the moment the
list is taken.

Neither launcher can leave everybody waiting: `ThreadNobodyStuck` and
`ProcessNobodyStuck` say that until the driver has made all its calls and every
executor has ended, the main thread or an executor has a step to take, a spurious
wakeup not counted. `MutexOwned` and `ListOwned` are the converse of the
exclusions (whoever owns a mutex is inside its critical section), and
`SomebodyGives` says that the main thread sleeps at the gate only while some
executor still has a permit to give back. That holds even for a limit of 0,
because the request being issued runs before it has a permit: the deviation of
finding 1 is what keeps `ThreadLauncher` from hanging there. `ENABLED` is outside
the reach of the proof system, so these theorems write out when each thread has a
step (`MainCanStep`, `ThreadCanStep`, ...; those of the experiment stand in
`ProcessLauncher` and `Experiment`, for the `experiment` run checks `OnlyKillsHang`); that this is when its action is
enabled was checked with TLC on the instances of the runs.

**`ExperimentProofs`** is about `ProcessLauncher`, `Experiment`, `Start` and
`RequestCopy`.

*The experiment as a launcher.* Each step of `Experiment`, the killing of a child
among them, is a step of `ProcessLauncher` or leaves it alone
(`ExperimentLaunches`), so its theorems hold of the experiment
(`ExperimentPermitsConserved`, `ExperimentOutstandingBounded`,
`ExperimentWaitedAreDone`, `ExperimentImplementsLimit`), with killed children. The experiment can hang, since
a killed child keeps a permit or the mutex for ever; `ExperimentHangsOnlyByKill`
says that nothing else stops it.

*The measurements.* `ExperimentMeasures` states `ExperimentInv`. `LauncherInv`
adds to `GateInv` and `WaitInv` that the wait that was due has been made
(`WaitKept`): the monitor is created after all of the dry run has been executed,
and so counts none of it. `MonitorInv` says in which order the monitor, the flag
and the report come (`MonitorOrder`), and that the samples so far add up to what
lies between the first reading and the last (`Readings`). Under it are the sum of
a sequence, one term at a time (`SumOfOneMore`), and the arithmetic of a timespec:
a later time is later (`LaterIsLater`), and `DiffTime`, borrowing a second where it
must, is the time between two readings, with at least one whole second when they
are a second apart (`DiffIsDelay`), so that the division is by no zero.

*The program.* `StartInv` is an invariant in six parts, one for each stage: the keys
drawn are distinct (`KeysDrawn`), so are those of the requests made (`Generated`);
the options read are options (`ArgsRead`); after `init_config` the members of the
configuration are exactly the options accepted (`Configured`); the launcher and
the results get those members (`Passed`); and each buffer of the pool holds the
request copied into it last (`Pooled`). `OptionsReachLauncher`, `WriteSetsDistinct`
and `CopyIsFaithful` follow (`CommandLineArrives`, `GeneratedKeysDistinct`,
`CopiesStayFaithful`). The last needs what `CopyRequest` writes, word by word
(`CopyWrites`), that a request of `TXN_SZ` keys fits into a buffer, so that the
footprints of two buffers share no word (`BuffersApart`), and that reading the
words through the two pointers gives the request back (`HeldIsFaithful`).

**`GuardedObjectProofs`.** `ObjectInv` is the types and `LockProtects`: exactly the
threads inside a critical section hold the mutex, a writer is alone, and what
a thread has seen is what the container still contains. From it follows
`LockIsProtective`, and with it `OperationsAreAtomic`: a call takes effect at its
change under the lock (a reader or a failed attempt when it looks), every other
step is a stutter of `AtomicObject`. `CallersNeverStuck`: as long as a thread is
inside a call some thread in a call can go on, for any number of threads.

**`ThreadPoolProofs`.** `ClientInv` says that an added task which has not run is on
one queue in one place or in the hands of one thread (`TaskInv`), and that a thread
which has returned left an empty queue to which nobody adds (`StopInv`): threads
leave only when `stopped_` is set, and the client adds nothing from then on.
`PoolKeepsTasks` and `PoolLeavesNothing` follow; the second is what makes it enough
that each thread drains its own queue only.

**`SerialSchedulerProofs`.** `SchedInv` conjoins the types, `NumberInv` (ids are handed
out one by one under the mutex), `PipeInv` (results, the current transaction and
requests are in the order of their ids) and `RunInv` (the current transaction has
read what the store contains, has written what is not left to write, and no other
transaction is half-way). `SerialPipeline` states `SerialInv`; its part about the store
(`CommitsInOrder`) is inductive over `SchedInv`: for every key the store holds what the
last committed writer in the order of the results has written (for the transaction
whose writes are being applied, as far as they have been), or the initial value.
`SerialSchedulerIsSerial` is the refinement of `SerialTxns`: the abstract store is
the store with the writes of the completed transaction that are not yet applied,
so a transaction takes effect in one step, when its program runs.

**`LockingSchedulerProofs`.** Four layers, each proved with the ones before it.
`ShapeInv`: the types, and the scheduler and the pool threads have a transaction
exactly at the places of their loops where they use one. `PlaceInv`: a
submitted transaction is in one of the queues, in the scheduler or in a pool thread,
in only one, and once (`LockingKeepsTxns`, `DrainedIsSafe`: a transaction that
was returned is nowhere else, so no thread is executing it). `StageInv`: what its
status may be in each place; it needs the places, since a step of one thread must
not change a transaction another one has. With it `CommitsInOrder` is inductive, and
`LockingResultsDecided` follows: no writer changes the writes of a decided transaction.
`AloneInv`: for a transaction without conflicts, what has been read, the
writes computed and the part of them applied are those of an execution on the
initial store, which no other transaction disturbs (`UnconflictedRunsAlone`).

**Only model-checked.** Every safety property that a passing run checks has a
theorem. Liveness (`TestEnds`, `DriverFinishes`, `ExperimentEnds`, `AllAnswered`,
`ServesAndStops`, `DestructorReturns`, `EveryCallReturns`, `GenerationEnds`) is
outside the reach of the proof system; `NoDeadlock`, `ThreadNobodyStuck`,
`ProcessNobodyStuck`, `ExperimentHangsOnlyByKill` and `CallersNeverStuck` prove the
part of it that is safety.

## 5. What is not modelled

* What the repository leaves to be written: the queues and state machines of the
  pool launchers, the lock tables, `MVCCStorage` and the real OCC, P_OCC and MVCC
  schedulers. In MVCC mode the serial scheduler runs over a store that reads
  nothing, so nothing is claimed of that mode.
* Because the lock managers grant everything, the LOCKING modes as they are do
  not serialize conflicting transactions. What the locking run claims of them is that
  commits take effect completely and in the order of the results (`ResultsAreDecided`);
  what a transaction reads, and so the values it writes, is claimed only of
  transactions without conflicts (`UnconflictedAsIfAlone`).
* Insertions into the hash table of `Storage` while pool threads read it: a data
  race with no bounded set of outcomes. `LockingAssumption` restricts
  transactions to keys that exist.
* Inside the pool launchers the model goes past each `assert(false)` in the constructor
  and in `ExecuteRequest`, as if the gaps were filled, to examine the copying into the
  buffers; the executor behind another `assert(false)`, whose `Execute` would sort the
  buffered write set, and the count at the head of `ExecuteRequest`
  (`process_pool_launcher.cc:182`) are left out.
* `Atomic<T>`, which nothing here uses, holds a number; `operator*` takes no lock and is
  one read. A `T` that is a struct, which the comment at `atomic.h:245` allows, could be
  read torn.
* A negative `--max_outstanding`, which `ThreadLauncher` turns into a very large
  limit: the launchers' models take a natural number.
* The reuse of a `Request` after `NUM_REQS` calls in `run_experiment`, while its
  first execution still runs: it takes a thread overtaken by two million others.
* `CLOCK_REALTIME` set back during an experiment: `Delays` are at least the second
  that `sleep(1)` takes.
* Failing system calls, which end the program by an assertion. The launchers'
  destructors and `Database::Destroy`, which no program calls; `Status`,
  `clone`, `CheckReadWriteSets` and timestamps, which no scheduler uses; output.
* The processor is destroyed only when no client is inside `NewTxnRequest`.

## 6. Disagreements between code and comments

1. `thread_launcher_limit`: the launchers start a request's executor before they
   wait for a permit, so `max_outstanding + 1` requests execute at once where the
   comments promise at most `max_outstanding`. `OutstandingBounded` states the
   true bound, which is proved (`ThreadOutstandingBounded`, `ProcessOutstandingBounded`)
   and which `ImplementsLimit`, about what holds when a call returns, implies.
2. `serial_completed`: in the serial modes nobody empties `completed_txns_`, which
   collects decided transactions for ever.
3. `serial_constructor`: the scheduler thread may read `stopped_` before the
   constructor writes it, and end at once.
4. `locking_destructor`: the store and the queues are destroyed before the pool's
   threads are joined. Draining all results first, as the tests do, avoids it
   (`NoUseWhenDrained` in `locking`).
5. Without a run: `static_thread_pool.h:102` says a stopping thread goes through
   all queues; it drains only its own, and `NothingLeftBehind` shows that this is
   enough.

## 7. Plan

Done, in this order: requests, run_test, launchers, serial scheduler, thread
pool, locking scheduler; proofs for requests and launchers; the shared containers,
experiment and monitor with killed children, options and request generation,
copying of requests, transactions without conflicts under the locking scheduler;
proofs for the list of finished threads, the shared containers, the pool and both
schedulers.

Then `run_test`, the experiment with its monitor, and the program around the
launchers (`Start`, `RequestCopy`); nobody is stuck in the launchers and the
containers.

What could be added lies outside what exists: once the queues of the pool
launchers, the lock tables or the MVCC store are written, their models replace
the skeletons in `Start` and `LockingScheduler`, and the claims about
transactions without conflicts become claims about all transactions.
