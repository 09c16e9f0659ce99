--------------------------------- MODULE Txn ---------------------------------
(***************************************************************************)
(* The transactions of assignment 2 (a2/txn/txn.cc, a2/txn/txn_types.h)    *)
(* and the store they run against (a2/txn/storage.cc).  A transaction is a *)
(* program: given what the processor has read for it, Run decides whether  *)
(* to commit and which writes to buffer.  A store, like the buffers, is a  *)
(* partial function from keys to values.                                   *)
(***************************************************************************)
EXTENDS Integers

CONSTANTS
  Key,        \* the keys the transactions use
  InitKeys    \* the keys InitStorage creates

ASSUME TxnAssumption ==
  /\ Key \subseteq Nat
  /\ InitKeys \subseteq Key

NoEntries == [k \in {} |-> 0]

(* InitStorage: every key it creates has the value 0.                      *)
InitStorage == [k \in InitKeys |-> 0]

(* Storage::Write and Txn::Write on all the entries of one map.            *)
Overlay(entries, map) ==
  [k \in DOMAIN entries \cup DOMAIN map |->
     IF k \in DOMAIN entries THEN entries[k] ELSE map[k]]

(* The entry that Storage::Read finds for a key, if there is one.          *)
Lookup(store, k) == [j \in {k} \cap DOMAIN store |-> store[j]]

(* The classes of txn_types.h, as data.                                    *)
Noop == [type |-> "Noop", readset |-> {}, writeset |-> {}, m |-> NoEntries]

Expect(m) == [type |-> "Expect", readset |-> DOMAIN m, writeset |-> {}, m |-> m]

Put(m) == [type |-> "Put", readset |-> {}, writeset |-> DOMAIN m, m |-> m]

RMW(rs, ws) == [type |-> "RMW", readset |-> rs, writeset |-> ws, m |-> NoEntries]

(* The programs of those classes on the keys.                              *)
IsProgram(p) ==
  /\ p \in {Noop, Expect(p.m), Put(p.m), RMW(p.readset, p.writeset)}
  /\ p.readset \cup p.writeset \subseteq Key

(* Expect::Run commits iff every key has the expected value.               *)
Expected(p, reads) ==
  \A k \in DOMAIN p.m : k \in DOMAIN reads /\ reads[k] = p.m[k]

(* RMW::Run: one more than the value read, or than 0 if there was none.    *)
Incremented(p, reads) ==
  [k \in p.writeset |-> (IF k \in DOMAIN reads THEN reads[k] ELSE 0) + 1]

(* What Run leaves in status_ and writes_.                                 *)
RunStatus(p, reads) ==
  IF p.type = "Expect" /\ ~Expected(p, reads) THEN "COMPLETED_A" ELSE "COMPLETED_C"

RunWrites(p, reads) ==
  CASE p.type = "Put" -> p.m
    [] p.type = "RMW" -> Incremented(p, reads)
    [] OTHER          -> NoEntries
=============================================================================
