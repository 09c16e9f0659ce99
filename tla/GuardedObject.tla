---------------------------- MODULE GuardedObject ----------------------------
(***************************************************************************)
(* How the classes of a2/utils/atomic.h are written: every operation locks *)
(* the mutex of its object, looks at the contents, changes them, unlocks   *)
(* and returns.  AtomicQueue and Atomic have a Mutex, AtomicMap and        *)
(* AtomicSet a MutexRW (a2/utils/mutex.h).  Looking and changing are two   *)
(* steps: only the lock makes them one.  The object is of any of the four  *)
(* classes; the name of its class is the first component of its contents.  *)
(***************************************************************************)
EXTENDS AtomicTypes

CONSTANTS
  Clients,          \* the threads that share the object
  None,             \* nobody, nothing
  MaxCalls          \* bound: how many calls are made

ASSUME GuardedAssumption ==
  /\ None \notin Clients \cup Ops
  /\ MaxCalls \in Nat

VARIABLES
  contents,   \* queue_, map_, set_ or value_, after the name of the class
  owner,      \* the thread that has locked the mutex, or write-locked it
  readers,    \* the threads that have read-locked it
  pc,         \* where each thread is in its call
  op,         \* the operation it has called
  seen,       \* the contents it has looked at
  result,     \* what it is going to return
  calls       \* the number of calls made

local == <<op, seen, result>>
vars  == <<contents, owner, readers, pc, local, calls>>

Init ==
  /\ \E k \in Kinds : contents = InitialValue(k)
  /\ owner = None
  /\ readers = {}
  /\ pc = [c \in Clients |-> "idle"]
  /\ op = [c \in Clients |-> None]
  /\ seen = [c \in Clients |-> None]
  /\ result = [c \in Clients |-> None]
  /\ calls = 0

-----------------------------------------------------------------------------
Goto(c, from, to) ==
  /\ pc[c] = from
  /\ pc' = [pc EXCEPT ![c] = to]

Call(c, o) ==
  /\ Goto(c, "idle", "lock")
  /\ o.kind = contents[1]
  /\ calls < MaxCalls
  /\ calls' = calls + 1
  /\ op' = [op EXCEPT ![c] = o]
  /\ UNCHANGED <<contents, owner, readers, seen, result>>

Free == owner = None /\ readers = {}

(* Mutant: a writer does not wait for the readers.                         *)
LockPastReaders(c) ==
  /\ op[c].lock \in {"Lock", "WriteLock", "TryLock"}
  /\ owner = None
  /\ Goto(c, "lock", "look")
  /\ owner' = c
  /\ UNCHANGED <<contents, readers, local, calls>>

(* Mutex::Lock, MutexRW::WriteLock, and Mutex::TryLock when it succeeds.   *)
Lock(c) ==
  /\ op[c].lock \in {"Lock", "WriteLock", "TryLock"}
  /\ Free
  /\ Goto(c, "lock", "look")
  /\ owner' = c
  /\ UNCHANGED <<contents, readers, local, calls>>

(* Mutant: the operation goes on without the lock.                         *)
TryLockIgnored(c) ==
  /\ op[c].lock = "TryLock"
  /\ ~Free
  /\ Goto(c, "lock", "look")
  /\ UNCHANGED <<contents, owner, readers, local, calls>>

(* Mutex::TryLock fails: return false.                                     *)
TryLockFails(c) ==
  /\ op[c].lock = "TryLock"
  /\ ~Free
  /\ Goto(c, "lock", "return")
  /\ result' = [result EXCEPT ![c] = <<"false">>]
  /\ UNCHANGED <<contents, owner, readers, op, seen, calls>>

(* MutexRW::ReadLock                                                       *)
ReadLock(c) ==
  /\ op[c].lock = "ReadLock"
  /\ owner = None
  /\ Goto(c, "lock", "look")
  /\ readers' = readers \cup {c}
  /\ UNCHANGED <<contents, owner, local, calls>>

(* The first access to the contents.                                       *)
Look(c) ==
  /\ Goto(c, "look", "change")
  /\ seen' = [seen EXCEPT ![c] = contents]
  /\ UNCHANGED <<contents, owner, readers, op, result, calls>>

(* The rest of the critical section, computed from what was seen.          *)
Change(c) ==
  /\ Goto(c, "change", "unlock")
  /\ \E e \in Effects(op[c], seen[c]) :
       /\ contents' = IF op[c].lock = "ReadLock" THEN contents ELSE e[1]
       /\ result' = [result EXCEPT ![c] = e[2]]
  /\ UNCHANGED <<owner, readers, op, seen, calls>>

(* Mutant: one of the branches forgets to unlock.                          *)
UnlockForgotten(c) ==
  /\ Goto(c, "unlock", "return")
  /\ IF result[c] = <<"false">>
       THEN UNCHANGED <<owner, readers>>
       ELSE /\ owner' = IF owner = c THEN None ELSE owner
            /\ readers' = readers \ {c}
  /\ UNCHANGED <<contents, local, calls>>

(* Mutex::Unlock, MutexRW::Unlock                                          *)
Unlock(c) ==
  /\ Goto(c, "unlock", "return")
  /\ owner' = IF owner = c THEN None ELSE owner
  /\ readers' = readers \ {c}
  /\ UNCHANGED <<contents, local, calls>>

(* Atomic::operator* reads the value without locking.                      *)
Peek(c) ==
  /\ op[c].lock = "none"
  /\ Goto(c, "lock", "return")
  /\ \E e \in Effects(op[c], contents) : result' = [result EXCEPT ![c] = e[2]]
  /\ UNCHANGED <<contents, owner, readers, op, seen, calls>>

Return(c) ==
  /\ Goto(c, "return", "idle")
  /\ op' = [op EXCEPT ![c] = None]
  /\ seen' = [seen EXCEPT ![c] = None]
  /\ result' = [result EXCEPT ![c] = None]
  /\ UNCHANGED <<contents, owner, readers, calls>>

Run(c) ==
  \/ pc[c] = "lock" /\ (Lock(c) \/ TryLockFails(c) \/ ReadLock(c) \/ Peek(c))
  \/ Look(c) \/ Change(c) \/ Unlock(c) \/ Return(c)

Next == \E c \in Clients : Run(c) \/ \E o \in Ops : Call(c, o)

Spec == Init /\ [][Next]_vars

(* Every thread inside a call runs on, unless a lock makes it wait; the    *)
(* threads need not make calls.                                            *)
FairSpec == Spec /\ \A c \in Clients : WF_vars(Run(c))

-----------------------------------------------------------------------------
Inside(c) == pc[c] \in {"look", "change", "unlock"}

(* The lock is held by exactly the threads inside a critical section, a    *)
(* writer alone or readers together, and what a thread has seen there is   *)
(* what the object still contains.                                         *)
LockProtects ==
  /\ owner # None => readers = {}
  /\ \A c \in Clients :
       /\ (owner = c \/ c \in readers) <=> Inside(c)
       /\ c \in readers => op[c].lock = "ReadLock"
       /\ pc[c] = "change" => seen[c] = contents

(* The state of a call as its caller sees it.                              *)
CallOf(c) ==
  CASE pc[c] = "idle" -> [at |-> "idle"]
    [] pc[c] \in {"lock", "look", "change"} -> [at |-> "called", op |-> op[c]]
    [] OTHER -> [at |-> "answered", op |-> op[c], result |-> result[c]]

Object == INSTANCE AtomicObject WITH
            NonBlocking   <- {o \in Ops : o.lock = "TryLock"},
            InitialValues <- {InitialValue(k) : k \in Kinds},
            value         <- contents,
            call          <- [c \in Clients |-> CallOf(c)]

(* Every operation of the four classes is atomic, as their comments say,   *)
(* and a non-blocking one fails for no other reason than a call of another *)
(* thread that is in progress.                                             *)
Linearizable == Object!Spec

(* Every call returns: no path through an operation leaves the mutex       *)
(* locked.                                                                 *)
EveryCallReturns == \A c \in Clients : (pc[c] # "idle") ~> (pc[c] = "idle")
=============================================================================
