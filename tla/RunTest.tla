------------------------------- MODULE RunTest -------------------------------
(***************************************************************************)
(* run_test (a1/src/start.cc), the program's check of its launchers: run   *)
(* the requests concurrently on one database, wait for all of them, run    *)
(* them one after the other on a copy of the database as it was before,    *)
(* and compare.  The launcher is any that gives each request an executor   *)
(* of its own; ThreadLauncher and ProcessLauncher show that WaitOutstanding*)
(* returns only when all executors are done with their requests.           *)
(***************************************************************************)
EXTENDS Request, Sequences

CONSTANT Order    \* reqs: the requests in the order of the array

ASSUME RunTestAssumption ==
  /\ Order \in Seq(Requests)
  /\ \A r \in Requests : \E i \in DOMAIN Order : Order[i] = r
  /\ \A i, j \in DOMAIN Order : Order[i] = Order[j] => i = j

VARIABLES
  db_simple,    \* the records of the second database
  done,         \* how many requests have run on it
  verdict       \* what Compare has found

testvars == <<db_simple, done, verdict>>

TestInit ==
  /\ Init
  /\ \E fresh \in [Key -> [Field -> RandomWords]] : db_simple = Copy(records, fresh)
  /\ done = 0
  /\ verdict = "none"

(* The concurrent part, until WaitOutstanding returns.                     *)
Concurrent(r) == Execute(r) /\ UNCHANGED testvars

(* SetDatabase(db_simple) and Execute, alone; no lock has to wait.         *)
ExecuteSimple ==
  /\ AllDone
  /\ done < Len(Order)
  /\ LET r == Order[done + 1]
     IN  db_simple' = [k \in Key |-> [f \in Field |->
                         IF \E a \in Index : writeset[r][a] = k
                           THEN Plus(db_simple[k][f], Updates[r][f])
                           ELSE db_simple[k][f]]]
  /\ done' = done + 1
  /\ UNCHANGED <<vars, verdict>>

(* Compare, and the message that follows it.                               *)
CompareDatabases ==
  /\ AllDone
  /\ done = Len(Order)
  /\ verdict = "none"
  /\ verdict' = IF Compare(records, db_simple) THEN "passed" ELSE "do not match"
  /\ UNCHANGED <<vars, db_simple, done>>

TestNext ==
  \/ \E r \in Requests : Concurrent(r)
  \/ ExecuteSimple \/ CompareDatabases

TestSpec ==
  /\ TestInit /\ [][TestNext]_<<vars, testvars>>
  /\ \A r \in Requests : WF_<<vars, testvars>>(Concurrent(r))
  /\ WF_<<vars, testvars>>(ExecuteSimple \/ CompareDatabases)

-----------------------------------------------------------------------------
(* The two databases agree whatever the interleaving of the concurrent     *)
(* part and the order of the sequential one.                               *)
DatabasesMatch == verdict # "do not match"

(* The test reaches its end: every request runs, gives its records back    *)
(* and is run again alone, and the test passes.                            *)
TestEnds == <>(verdict = "passed" /\ \A k \in Key : locks[k] = NoOwner)
=============================================================================
