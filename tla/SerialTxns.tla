------------------------------ MODULE SerialTxns ------------------------------
(***************************************************************************)
(* What a client of TxnProcessor is promised: the transactions run one at  *)
(* a time, each reading the whole store, deciding, and writing in a single *)
(* indivisible step.                                                       *)
(***************************************************************************)
EXTENDS Txn

CONSTANTS Txns, Program

VARIABLES
  db,         \* the store
  outcome     \* what became of each transaction

vars == <<db, outcome>>

Init ==
  /\ db = InitStorage
  /\ outcome = [t \in Txns |-> "pending"]

Run(t) ==
  /\ outcome[t] = "pending"
  /\ IF RunStatus(Program[t], db) = "COMPLETED_C"
       THEN /\ db' = Overlay(RunWrites(Program[t], db), db)
            /\ outcome' = [outcome EXCEPT ![t] = "COMMITTED"]
       ELSE /\ outcome' = [outcome EXCEPT ![t] = "ABORTED"]
            /\ UNCHANGED db

Next == \E t \in Txns : Run(t)

Spec == Init /\ [][Next]_vars
=============================================================================
