--------------------------- MODULE OutstandingLimit ---------------------------
(***************************************************************************)
(* What a caller of ThreadLauncher::ExecuteRequest or                      *)
(* ProcessLauncher::ExecuteRequest is promised: requests start in order,   *)
(* finish in any order, and a call returns only when at most               *)
(* MaxOutstanding of the requests started are unfinished.                  *)
(***************************************************************************)
EXTENDS Integers, FiniteSets

CONSTANTS NumReqs, MaxOutstanding

VARIABLES
  launched,   \* the requests started: 1..launched
  returned,   \* the calls of ExecuteRequest that have got past the limit
  finished    \* the requests that have finished

vars == <<launched, returned, finished>>

Init ==
  /\ launched = 0
  /\ returned = 0
  /\ finished = {}

Launch ==
  /\ launched = returned
  /\ launched < NumReqs
  /\ launched' = launched + 1
  /\ UNCHANGED <<returned, finished>>

Finish(r) ==
  /\ r \in (1..launched) \ finished
  /\ finished' = finished \cup {r}
  /\ UNCHANGED <<launched, returned>>

Return ==
  /\ returned < launched
  /\ Cardinality((1..launched) \ finished) <= MaxOutstanding
  /\ returned' = launched
  /\ UNCHANGED <<launched, finished>>

Next == Launch \/ Return \/ \E r \in 1..NumReqs : Finish(r)

Spec == Init /\ [][Next]_vars
=============================================================================
