------------------------------ MODULE Experiment ------------------------------
(***************************************************************************)
(* run_experiment (a1/src/start.cc) on a ProcessLauncher, with the thread  *)
(* that measures it (a1/src/perf_monitor.cc).  The main thread issues a    *)
(* dry run and waits for it, creates the monitor, then issues requests     *)
(* until the done flag is set and writes the results.  The monitor samples *)
(* the counter of executed requests ExptLen times and sets the flag.  The  *)
(* two share the counter, the results and the flag, without a lock.        *)
(*                                                                         *)
(* A child may be killed at any point: it keeps what it holds and never    *)
(* takes another step.                                                     *)
(***************************************************************************)
EXTENDS ProcessLauncher, Sequences

CONSTANTS
  DryRun,       \* DRY_RUN_SZ
  ExptLen,      \* EXPT_LEN
  NsecPerSec,   \* the units of tv_nsec in a second (10^9 in the code)
  Delays,       \* the time from one sample to the next, in units of tv_nsec
  MaxKills      \* bound: the children that are killed

(* sleep(1) sleeps a second at least.                                      *)
ASSUME ExperimentAssumption ==
  /\ WaitPoints = {DryRun}
  /\ ExptLen \in Nat \ {0}
  /\ NsecPerSec \in Nat \ {0}
  /\ Delays \subseteq Nat /\ \A d \in Delays : d >= NsecPerSec
  /\ MaxKills \in Nat

VARIABLES
  xpc,          \* where the main thread is in run_experiment
  mpc,          \* where the monitor is in Run
  prev_txns,    \* prev_txns_elapsed_
  prev_time,    \* prev_time_elapsed_, a timespec
  total,        \* total_executed
  results,      \* results_: of each quotient the dividend and the divisor
  done,         \* *done_
  begin,        \* history: the readings of the monitor before its loop
  killed        \* the children that have been killed

monitor == <<mpc, prev_txns, prev_time, total, results, begin>>
xvars   == <<xpc, monitor, done, killed>>

(* The values a timespec takes in a program that starts at the second 0.   *)
Timespec == [tv_sec : 0..0, tv_nsec : 0..(NsecPerSec - 1)]

Nsec(t) == t.tv_sec * NsecPerSec + t.tv_nsec

(* clock_gettime some time later.                                          *)
Later(t, d) == [tv_sec  |-> (Nsec(t) + d) \div NsecPerSec,
                tv_nsec |-> (Nsec(t) + d) % NsecPerSec]

(* Mutant: no second is borrowed.                                          *)
DiffTimeNoBorrow(end, start) ==
  IF end.tv_nsec - start.tv_nsec < 0
    THEN [tv_sec  |-> end.tv_sec - start.tv_sec,
          tv_nsec |-> NsecPerSec + end.tv_nsec - start.tv_nsec]
    ELSE [tv_sec  |-> end.tv_sec - start.tv_sec,
          tv_nsec |-> end.tv_nsec - start.tv_nsec]

DiffTime(end, start) ==
  IF end.tv_nsec - start.tv_nsec < 0
    THEN [tv_sec  |-> end.tv_sec - start.tv_sec - 1,
          tv_nsec |-> NsecPerSec + end.tv_nsec - start.tv_nsec]
    ELSE [tv_sec  |-> end.tv_sec - start.tv_sec,
          tv_nsec |-> end.tv_nsec - start.tv_nsec]

ExperimentInit ==
  /\ Init
  /\ xpc = "dry_run"
  /\ mpc = "none"
  /\ prev_txns = 0
  /\ prev_time \in Timespec
  /\ total = 0
  /\ results = <<>>
  /\ done = 0
  /\ begin = [txns |-> 0, time |-> prev_time]
  /\ killed = {}

-----------------------------------------------------------------------------
(* The main thread is inside no call of the launcher.                      *)
Between == lpc = "idle"

(* The first loop, up to its last ExecuteRequest.                          *)
IssueDry ==
  /\ xpc = "dry_run"
  /\ num_requests < DryRun
  /\ Fork
  /\ UNCHANGED xvars

(* WaitOutstanding has returned: pthread_create of the monitor.            *)
CreateMonitor ==
  /\ xpc = "dry_run"
  /\ Between /\ num_requests = DryRun
  /\ xpc' = "test_done"
  /\ mpc' = "begin"
  /\ UNCHANGED <<vars, prev_txns, prev_time, total, results, begin, done, killed>>

(* The test of the done flag at the head of the second loop.               *)
TestDone ==
  /\ xpc = "test_done"
  /\ Between
  /\ xpc' = IF done # 0 THEN "report" ELSE "issue"
  /\ UNCHANGED <<vars, monitor, done, killed>>

(* ExecuteRequest of the second loop.  NumReqs bounds how many requests    *)
(* there are; when they are used up the loop only tests the flag.          *)
Issue ==
  /\ xpc = "issue"
  /\ IF num_requests < NumReqs THEN Fork ELSE UNCHANGED vars
  /\ xpc' = "test_done"
  /\ UNCHANGED <<monitor, done, killed>>

(* write_results; then main returns, without waiting for anything.         *)
Report ==
  /\ xpc = "report"
  /\ xpc' = "exit"
  /\ UNCHANGED <<vars, monitor, done, killed>>

(* The rest of ExecuteRequest and WaitOutstanding.                         *)
InLauncher == (Parent \/ Wait) /\ UNCHANGED xvars

MainThread == IssueDry \/ CreateMonitor \/ TestDone \/ Issue \/ Report \/ InLauncher

-----------------------------------------------------------------------------
(* PerfMonitor::Run up to its loop.                                        *)
Begin ==
  /\ mpc = "begin"
  /\ prev_txns' = txns_executed
  /\ begin' = [txns |-> txns_executed, time |-> prev_time]
  /\ mpc' = "sample"
  /\ UNCHANGED <<vars, xpc, prev_time, total, results, done, killed>>

(* sleep(1) and ReadTxnsExecuted.                                          *)
ReadTxns ==
  /\ mpc = "sample"
  /\ total' = txns_executed
  /\ mpc' = "divide"
  /\ UNCHANGED <<vars, xpc, prev_txns, prev_time, results, begin, done, killed>>

(* clock_gettime and the rest of the body of the loop.                     *)
Divide ==
  /\ mpc = "divide"
  /\ \E d \in Delays :
       LET now == Later(prev_time, d)
       IN  /\ results' = Append(results, [executed |-> total - prev_txns,
                                          elapsed  |-> DiffTime(now, prev_time)])
           /\ prev_time' = now
  /\ prev_txns' = total
  /\ mpc' = IF Len(results') = ExptLen THEN "finish" ELSE "sample"
  /\ UNCHANGED <<vars, xpc, total, begin, done, killed>>

(* fetch_and_increment(done_), the last thing Run does.                    *)
Finish ==
  /\ mpc = "finish"
  /\ done' = done + 1
  /\ mpc' = "returned"
  /\ UNCHANGED <<vars, xpc, prev_txns, prev_time, total, results, begin, killed>>

Monitor == xpc # "exit" /\ (Begin \/ ReadTxns \/ Divide \/ Finish)

-----------------------------------------------------------------------------
(* The forked children outlive the parent.                                 *)
Child(r) == r \notin killed /\ ChildStep(r) /\ UNCHANGED xvars

Kill(r) ==
  /\ rpc[r] \notin {"none", "exited"}
  /\ r \notin killed
  /\ Cardinality(killed) < MaxKills
  /\ killed' = killed \cup {r}
  /\ UNCHANGED <<vars, xpc, monitor, done>>

Wakeup == SpuriousWakeup /\ UNCHANGED xvars

ExperimentNext ==
  \/ MainThread \/ Monitor \/ Wakeup
  \/ \E r \in Reqs : Child(r) \/ Kill(r)

(* The operating system runs both threads and every living child.          *)
ExperimentSpec ==
  /\ ExperimentInit /\ [][ExperimentNext]_<<vars, xvars>>
  /\ WF_<<vars, xvars>>(MainThread)
  /\ WF_<<vars, xvars>>(Monitor)
  /\ \A r \in Reqs : WF_<<vars, xvars>>(Child(r))

-----------------------------------------------------------------------------
(* The sum of a sequence of numbers.                                       *)
SumOf(s) ==
  LET upto[n \in 0..Len(s)] == IF n = 0 THEN 0 ELSE upto[n - 1] + s[n]
  IN  upto[Len(s)]

(* The samples that write_results averages.                                *)
Counts  == [i \in DOMAIN results |-> results[i].executed]
Elapsed == [i \in DOMAIN results |-> Nsec(results[i].elapsed)]

(* The samples account for every request and every nanosecond since the    *)
(* monitor began, and for no request of the dry run; each lasts a second   *)
(* at least, so the division is by no zero; and write_results finds all of *)
(* them written.                                                           *)
SamplesAddUp ==
  /\ mpc \notin {"none", "begin"} =>
       /\ begin.txns >= DryRun
       /\ begin.txns + SumOf(Counts) = prev_txns
       /\ prev_txns <= txns_executed
       /\ Nsec(begin.time) + SumOf(Elapsed) = Nsec(prev_time)
  /\ \A i \in DOMAIN results :
       /\ results[i].executed >= 0
       /\ results[i].elapsed.tv_sec >= 1
       /\ results[i].elapsed.tv_nsec \in 0..(NsecPerSec - 1)
  /\ xpc \in {"report", "exit"} => Len(results) = ExptLen

(* Every variable has the type the code gives it; the done flag is set     *)
(* once, by the monitor.                                                   *)
ExperimentTypeOK ==
  /\ TypeOK
  /\ xpc \in {"dry_run", "test_done", "issue", "report", "exit"}
  /\ mpc \in {"none", "begin", "sample", "divide", "finish", "returned"}
  /\ {prev_txns, total, begin.txns} \subseteq 0..NumReqs
  /\ Len(results) <= ExptLen
  /\ done \in 0..1
  /\ killed \subseteq Reqs

(* The experiment and its measurements in every state.                     *)
ExperimentInv == ExperimentTypeOK /\ SamplesAddUp

(* When the main thread has a step to take, spinning on the flag included. *)
MainThreadCanStep ==
  \/ xpc = "dry_run" /\ lpc = "idle" /\ num_requests <= DryRun
  \/ xpc \in {"test_done", "issue"} /\ lpc = "idle"
  \/ xpc = "report"
  \/ ParentCanStep

(* If everybody is stuck before the experiment has reported, a child has   *)
(* been killed: the gate and the loop of WaitOutstanding, with the         *)
(* children that count before they give their permits back, never leave    *)
(* the main thread and the children waiting for each other, and neither    *)
(* needs the monitor to go on.                                             *)
OnlyKillsHang ==
  \/ xpc = "exit"
  \/ MainThreadCanStep
  \/ \E r \in Reqs \ killed : ChildCanStep(r)
  \/ killed # {}

(* The experiment ends and reports, if no child is killed and              *)
(* pthread_cond_wait does not return for no reason again and again: the    *)
(* dry run drains, and the main thread does not stay at the gate when the  *)
(* flag is set.                                                            *)
ExperimentEnds ==
  ([](killed = {}) /\ <>[][~Wakeup]_<<vars, xvars>>) => <>(xpc = "exit")
=============================================================================
