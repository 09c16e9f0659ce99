-------------------------- MODULE MCLockingScheduler --------------------------
(***************************************************************************)
(* Instances of LockingScheduler for TLC.                                  *)
(***************************************************************************)
EXTENDS LockingScheduler, TLC

CONSTANTS t1, t2, t3, w1, w2

TwoTxns   == {t1, t2}
ThreeTxns == {t1, t2, t3}
MCThreads == {w1, w2}

(* A transaction that increments a key, one that overwrites it, and one    *)
(* that has nothing to do with either.                                     *)
MCProgram ==
     t1 :> RMW({}, {0})
  @@ t2 :> Put(0 :> 2)
  @@ t3 :> RMW({2}, {1})
=============================================================================
