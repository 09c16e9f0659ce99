--------------------------- MODULE AtomicExecution ---------------------------
(***************************************************************************)
(* What Request::Execute promises its callers: the requests run one at a   *)
(* time, in some order, each adding its updates to every record it names   *)
(* in a single indivisible step.  run_test (a1/src/start.cc) relies on     *)
(* exactly this when it compares the outcome of a launcher with that of a  *)
(* loop that runs the same requests one after the other.                   *)
(***************************************************************************)
EXTENDS Integers

CONSTANTS Requests, Key, Field, WordSize, RandomWords, Updates

VARIABLES
  db,         \* the words of every record
  keys,       \* the records each request names
  executed    \* the requests that have run

vars == <<db, keys, executed>>

Init ==
  /\ db \in [Key -> [Field -> RandomWords]]
  /\ keys \in [Requests -> SUBSET Key]
  /\ executed = {}

Execute(r) ==
  /\ r \notin executed
  /\ executed' = executed \cup {r}
  /\ db' = [k \in Key |-> [f \in Field |->
              IF k \in keys[r] THEN (db[k][f] + Updates[r][f]) % WordSize
                               ELSE db[k][f]]]
  /\ UNCHANGED keys

Next == \E r \in Requests : Execute(r)

Spec == Init /\ [][Next]_vars
=============================================================================
