------------------------- MODULE GuardedObjectProofs -------------------------
(***************************************************************************)
(* The operations of atomic.h are linearizable, for any number of threads  *)
(* and any elements: the lock makes looking and changing one step, and     *)
(* the operations that only read-lock change nothing.                      *)
(***************************************************************************)
EXTENDS GuardedObject, TLAPS

(* An operation keeps the class of the object, and one that only reads     *)
(* changes nothing.                                                        *)
LEMMA MapReads ==
  ASSUME NEW o \in MapOps, o.lock = "ReadLock", NEW d, NEW x \in MapEffects(o, d)
  PROVE  x[1] = d
<1>1. o.name \in {"Size", "Contains", "Lookup"}
  BY DEF MapOps, Oper
<1>2. PICK reply : x = <<d, reply>>
  <2>1. CASE o.name = "Size"
    BY <2>1 DEF MapEffects
  <2>2. CASE o.name = "Contains"
    BY <2>2 DEF MapEffects
  <2>3. CASE o.name = "Lookup"
    BY <2>3 DEF MapEffects
  <2> QED
    BY <1>1, <2>1, <2>2, <2>3
<1> QED
  BY <1>2

LEMMA SetReads ==
  ASSUME NEW o \in SetOps, o.lock = "ReadLock", NEW d, NEW x \in SetEffects(o, d)
  PROVE  x[1] = d
<1>1. o.name \in {"Size", "GetSet", "Contains"}
  BY DEF SetOps, Oper
<1> QED
  BY <1>1 DEF SetEffects

LEMMA NumberReads ==
  ASSUME NEW o \in NumberOps, o.lock = "none", NEW d, NEW x \in NumberEffects(o, d)
  PROVE  x[1] = d
<1>1. o.name = "*"
  BY DEF NumberOps, Oper
<1> QED
  BY <1>1 DEF NumberEffects

LEMMA OpFields ==
  ASSUME NEW o \in Ops
  PROVE  /\ o.lock \in {"Lock", "TryLock", "WriteLock", "ReadLock", "none"}
         /\ o.kind = "AtomicQueue" <=> o \in QueueOps
         /\ o.kind = "AtomicMap" <=> o \in MapOps
         /\ o.kind = "AtomicSet" <=> o \in SetOps
         /\ o.kind = "Atomic" <=> o \in NumberOps
         /\ o \in QueueOps => o.lock \in {"Lock", "TryLock"}
         /\ o \in MapOps \cup SetOps => o.lock \in {"ReadLock", "WriteLock"}
         /\ o \in NumberOps => o.lock \in {"Lock", "none"}
<1>1. \A p \in QueueOps : p.kind = "AtomicQueue" /\ p.lock \in {"Lock", "TryLock"}
  BY DEF QueueOps, Oper
<1>2. \A p \in MapOps : p.kind = "AtomicMap" /\ p.lock \in {"ReadLock", "WriteLock"}
  BY DEF MapOps, Oper
<1>3. \A p \in SetOps : p.kind = "AtomicSet" /\ p.lock \in {"ReadLock", "WriteLock"}
  BY DEF SetOps, Oper
<1>4. \A p \in NumberOps : p.kind = "Atomic" /\ p.lock \in {"Lock", "none"}
  BY DEF NumberOps, Oper
<1> QED
  BY <1>1, <1>2, <1>3, <1>4 DEF Ops

LEMMA EffectsFacts ==
  ASSUME NEW o \in Ops, NEW d, NEW e \in Effects(o, <<o.kind, d>>)
  PROVE  /\ e[1] = <<o.kind, e[1][2]>>
         /\ o.lock \in {"ReadLock", "none"} => e[1] = <<o.kind, d>>
<1>1. PICK x \in DataEffects(o, d) : e = << <<o.kind, x[1]>>, x[2]>>
  BY DEF Effects
<1>2. ASSUME o.lock \in {"ReadLock", "none"}
      PROVE  x[1] = d
  <2>1. CASE o \in MapOps
    BY <1>2, <2>1, OpFields, MapReads DEF DataEffects
  <2>2. CASE o \in SetOps
    BY <1>2, <2>2, OpFields, SetReads DEF DataEffects
  <2>3. CASE o \in NumberOps
    BY <1>2, <2>3, OpFields, NumberReads DEF DataEffects
  <2>4. o \notin QueueOps
    BY <1>2, OpFields
  <2> QED
    BY <2>1, <2>2, <2>3, <2>4 DEF Ops
<1> QED
  BY <1>1, <1>2

-----------------------------------------------------------------------------
(* The types the argument needs.  An operation in progress belongs to the  *)
(* class of the object.                                                    *)
ObjectType ==
  /\ contents = <<contents[1], contents[2]>>
  /\ owner \in Clients \cup {None}
  /\ readers \subseteq Clients
  /\ pc \in [Clients -> {"idle", "lock", "look", "change", "unlock", "return"}]
  /\ op \in [Clients -> Ops \cup {None}]
  /\ seen = [c \in Clients |-> seen[c]]
  /\ result = [c \in Clients |-> result[c]]
  /\ \A c \in Clients : pc[c] # "idle" => op[c] \in Ops /\ op[c].kind = contents[1]

(* The inductive invariant.                                                *)
ObjectInv == ObjectType /\ LockProtects

(* The lock excludes: whoever is inside with the lock is alone, and        *)
(* readers are inside only with readers.                                   *)
LEMMA Alone ==
  ASSUME ObjectInv, NEW c \in Clients, NEW d \in Clients, Inside(c), Inside(d), c # d
  PROVE  op[c].lock = "ReadLock"
<1>1. owner # c
  BY GuardedAssumption DEF ObjectInv, LockProtects
<1> QED
  BY <1>1 DEF ObjectInv, LockProtects

(* The place of a thread after one of its steps.                           *)
LEMMA Moves ==
  ASSUME ObjectType, NEW c \in Clients, NEW p, NEW q, Goto(c, p, q),
         q \in {"idle", "lock", "look", "change", "unlock", "return"}
  PROVE  /\ pc[c] = p /\ pc'[c] = q /\ \A d \in Clients \ {c} : pc'[d] = pc[d]
         /\ pc' \in [Clients -> {"idle", "lock", "look", "change", "unlock", "return"}]
BY DEF ObjectType, Goto

LEMMA CallKeeps ==
  ASSUME ObjectInv, NEW c \in Clients, NEW o \in Ops, Call(c, o)
  PROVE  ObjectInv'
<1>1. ObjectType /\ LockProtects
  BY DEF ObjectInv
<1>2. /\ pc[c] = "idle" /\ pc'[c] = "lock" /\ \A d \in Clients \ {c} : pc'[d] = pc[d]
      /\ pc' \in [Clients -> {"idle", "lock", "look", "change", "unlock", "return"}]
  BY <1>1, Moves DEF Call
<1>3. /\ op' \in [Clients -> Ops \cup {None}] /\ op'[c] = o /\ o.kind = contents[1]
      /\ \A d \in Clients \ {c} : op'[d] = op[d]
      /\ UNCHANGED <<contents, owner, readers, seen, result>>
  BY <1>1 DEF Call, ObjectType
<1>4. ObjectType'
  BY <1>1, <1>2, <1>3 DEF ObjectType
<1>5. LockProtects'
  BY <1>1, <1>2, <1>3 DEF LockProtects, Inside
<1> QED
  BY <1>4, <1>5 DEF ObjectInv

(* Getting the lock.                                                       *)
LEMMA LockKeeps ==
  ASSUME ObjectInv, NEW c \in Clients, pc[c] = "lock", Lock(c) \/ ReadLock(c)
  PROVE  ObjectInv'
<1>1. ObjectType /\ LockProtects
  BY DEF ObjectInv
<1>2. /\ pc[c] = "lock" /\ pc'[c] = "look" /\ \A d \in Clients \ {c} : pc'[d] = pc[d]
      /\ pc' \in [Clients -> {"idle", "lock", "look", "change", "unlock", "return"}]
  BY <1>1, Moves DEF Lock, ReadLock
<1>3. UNCHANGED <<contents, op, seen, result>>
  BY DEF Lock, ReadLock, local
<1>4. owner = None
  BY DEF Lock, ReadLock, Free
<1>5. None \notin Clients
  BY GuardedAssumption
<1>6. CASE Lock(c)
  <2>1. readers = {} /\ owner' = c /\ readers' = readers
    BY <1>6 DEF Lock, Free
  <2>2. ObjectType'
    BY <1>1, <1>2, <1>3, <2>1 DEF ObjectType
  <2>3. LockProtects'
    BY <1>1, <1>2, <1>3, <1>4, <1>5, <2>1 DEF LockProtects, Inside
  <2> QED
    BY <2>2, <2>3 DEF ObjectInv
<1>7. CASE ReadLock(c)
  <2>1. op[c].lock = "ReadLock" /\ readers' = readers \cup {c} /\ owner' = owner
    BY <1>7 DEF ReadLock
  <2>2. ObjectType'
    BY <1>1, <1>2, <1>3, <2>1 DEF ObjectType
  <2>3. LockProtects'
    BY <1>1, <1>2, <1>3, <1>4, <1>5, <2>1 DEF LockProtects, Inside
  <2> QED
    BY <2>2, <2>3 DEF ObjectInv
<1> QED
  BY <1>6, <1>7

(* Steps outside the critical section, and the end of a call.              *)
LEMMA OutsideKeeps ==
  ASSUME ObjectInv, NEW c \in Clients,
         (pc[c] = "lock" /\ (TryLockFails(c) \/ Peek(c))) \/ Return(c)
  PROVE  ObjectInv'
<1>1. ObjectType /\ LockProtects
  BY DEF ObjectInv
<1>2. /\ ~Inside(c) /\ pc'[c] \in {"idle", "return"} /\ \A d \in Clients \ {c} : pc'[d] = pc[d]
      /\ pc[c] # "idle"
      /\ pc' \in [Clients -> {"idle", "lock", "look", "change", "unlock", "return"}]
  BY <1>1, Moves DEF TryLockFails, Peek, Return, Inside
<1>3. UNCHANGED <<contents, owner, readers>>
  BY DEF TryLockFails, Peek, Return
<1>4. /\ op' \in [Clients -> Ops \cup {None}] /\ \A d \in Clients \ {c} : op'[d] = op[d] /\ seen'[d] = seen[d]
      /\ pc'[c] = "return" => op'[c] = op[c]
      /\ seen' = [d \in Clients |-> seen'[d]] /\ result' = [d \in Clients |-> result'[d]]
  <2>1. CASE TryLockFails(c) \/ Peek(c)
    <3>1. op' = op /\ seen' = seen
      BY <2>1 DEF TryLockFails, Peek
    <3>2. PICK x : result' = [result EXCEPT ![c] = x]
      BY <2>1 DEF TryLockFails, Peek
    <3> QED
      BY <1>1, <3>1, <3>2 DEF ObjectType
  <2>2. CASE Return(c)
    <3>1. /\ op' = [op EXCEPT ![c] = None] /\ seen' = [seen EXCEPT ![c] = None]
          /\ result' = [result EXCEPT ![c] = None] /\ pc'[c] = "idle"
      BY <1>1, <2>2, Moves DEF Return
    <3> QED
      BY <1>1, <3>1 DEF ObjectType
  <2> QED
    BY <2>1, <2>2
<1>5. ObjectType'
  BY <1>1, <1>2, <1>3, <1>4 DEF ObjectType
<1>6. LockProtects'
  BY <1>1, <1>2, <1>3, <1>4 DEF LockProtects, Inside
<1> QED
  BY <1>5, <1>6 DEF ObjectInv

(* Looking at the contents, and leaving the critical section.              *)
LEMMA LookKeeps ==
  ASSUME ObjectInv, NEW c \in Clients, Look(c)
  PROVE  ObjectInv'
<1>1. ObjectType /\ LockProtects
  BY DEF ObjectInv
<1>2. /\ pc[c] = "look" /\ pc'[c] = "change" /\ \A d \in Clients \ {c} : pc'[d] = pc[d]
      /\ pc' \in [Clients -> {"idle", "lock", "look", "change", "unlock", "return"}]
  BY <1>1, Moves DEF Look
<1>3. UNCHANGED <<contents, owner, readers, op, result>> /\ seen' = [seen EXCEPT ![c] = contents]
  BY DEF Look
<1>4. /\ seen' = [d \in Clients |-> seen'[d]] /\ seen'[c] = contents
      /\ \A d \in Clients \ {c} : seen'[d] = seen[d]
  BY <1>1, <1>3 DEF ObjectType
<1>5. ObjectType'
  BY <1>1, <1>2, <1>3, <1>4 DEF ObjectType
<1>6. LockProtects'
  BY <1>1, <1>2, <1>3, <1>4 DEF LockProtects, Inside
<1> QED
  BY <1>5, <1>6 DEF ObjectInv

LEMMA UnlockKeeps ==
  ASSUME ObjectInv, NEW c \in Clients, Unlock(c)
  PROVE  ObjectInv'
<1>1. ObjectType /\ LockProtects
  BY DEF ObjectInv
<1>2. /\ pc[c] = "unlock" /\ pc'[c] = "return" /\ \A d \in Clients \ {c} : pc'[d] = pc[d]
      /\ pc' \in [Clients -> {"idle", "lock", "look", "change", "unlock", "return"}]
  BY <1>1, Moves DEF Unlock
<1>3. /\ UNCHANGED <<contents, op, seen, result>> /\ readers' = readers \ {c}
      /\ owner' = IF owner = c THEN None ELSE owner
  BY DEF Unlock, local
<1>4. None \notin Clients
  BY GuardedAssumption
<1>5. ObjectType'
  BY <1>1, <1>2, <1>3 DEF ObjectType
<1>6. LockProtects'
  BY <1>1, <1>2, <1>3, <1>4 DEF LockProtects, Inside
<1> QED
  BY <1>5, <1>6 DEF ObjectInv

(* What an operation computes from what it has seen is what it does to the *)
(* object.                                                                 *)
LEMMA ChangeApplies ==
  ASSUME ObjectInv, NEW c \in Clients, Change(c)
  PROVE  \E e \in Effects(op[c], contents) :
           /\ contents' = e[1] /\ contents' = <<contents[1], contents'[2]>>
           /\ op[c].lock = "ReadLock" => contents' = contents
           /\ result' = [result EXCEPT ![c] = e[2]]
<1>1. pc[c] = "change"
  BY DEF Change, Goto
<1>2. /\ op[c] \in Ops /\ op[c].kind = contents[1] /\ seen[c] = contents
      /\ contents = <<op[c].kind, contents[2]>>
  BY <1>1 DEF ObjectInv, ObjectType, LockProtects
<1>3. PICK e \in Effects(op[c], contents) :
             /\ contents' = IF op[c].lock = "ReadLock" THEN contents ELSE e[1]
             /\ result' = [result EXCEPT ![c] = e[2]]
  BY <1>2 DEF Change
<1>4. /\ e[1] = <<op[c].kind, e[1][2]>>
      /\ op[c].lock \in {"ReadLock", "none"} => e[1] = <<op[c].kind, contents[2]>>
  <2>1. e \in Effects(op[c], <<op[c].kind, contents[2]>>)
    BY <1>2
  <2> QED
    BY <1>2, <2>1, EffectsFacts
<1>5. contents' = e[1]
  BY <1>2, <1>3, <1>4
<1>6. contents' = <<contents[1], contents'[2]>>
  BY <1>2, <1>4, <1>5
<1> QED
  BY <1>3, <1>5, <1>6

LEMMA ChangeKeeps ==
  ASSUME ObjectInv, NEW c \in Clients, Change(c)
  PROVE  ObjectInv'
<1>1. ObjectType /\ LockProtects
  BY DEF ObjectInv
<1>2. /\ pc[c] = "change" /\ pc'[c] = "unlock" /\ \A d \in Clients \ {c} : pc'[d] = pc[d]
      /\ pc' \in [Clients -> {"idle", "lock", "look", "change", "unlock", "return"}]
  BY <1>1, Moves DEF Change
<1>3. UNCHANGED <<owner, readers, op, seen>>
  BY DEF Change
<1>4. /\ contents' = <<contents[1], contents'[2]>>
      /\ op[c].lock = "ReadLock" => contents' = contents
      /\ \E x : result' = [result EXCEPT ![c] = x]
  BY ChangeApplies
<1>5. contents'[1] = contents[1] /\ result' = [d \in Clients |-> result'[d]]
  <2>1. contents'[1] = contents[1]
    BY <1>4
  <2>2. PICK x : result' = [result EXCEPT ![c] = x]
    BY <1>4
  <2>3. result = [d \in Clients |-> result[d]]
    BY <1>1 DEF ObjectType
  <2> QED
    BY <2>1, <2>2, <2>3
<1>6. ObjectType'
  BY <1>1, <1>2, <1>3, <1>4, <1>5 DEF ObjectType
<1>7. ASSUME NEW d \in Clients, pc'[d] = "change"
      PROVE  seen'[d] = contents'
  <2>1. d # c /\ pc[d] = "change" /\ Inside(c) /\ Inside(d)
    BY <1>2, <1>7 DEF Inside
  <2>2. contents' = contents
    BY <1>4, <2>1, Alone
  <2> QED
    BY <1>1, <1>3, <2>1, <2>2 DEF LockProtects
<1>8. \A d \in Clients : Inside(d)' <=> Inside(d)
  BY <1>2 DEF Inside
<1>9. LockProtects'
  BY <1>1, <1>3, <1>7, <1>8 DEF LockProtects
<1> QED
  BY <1>6, <1>9 DEF ObjectInv

LEMMA StepKeepsObject ==
  ASSUME ObjectInv, [Next]_vars
  PROVE  ObjectInv'
<1>1. ASSUME NEW c \in Clients, Run(c)
      PROVE  ObjectInv'
  BY <1>1, LockKeeps, OutsideKeeps, LookKeeps, ChangeKeeps, UnlockKeeps DEF Run
<1>2. ASSUME NEW c \in Clients, NEW o \in Ops, Call(c, o)
      PROVE  ObjectInv'
  BY <1>2, CallKeeps
<1>3. CASE UNCHANGED vars
  BY <1>3 DEF vars, local, ObjectInv, ObjectType, LockProtects, Inside
<1> QED
  BY <1>1, <1>2, <1>3 DEF Next

LEMMA InitialForm ==
  ASSUME NEW k \in Kinds
  PROVE  InitialValue(k) = <<InitialValue(k)[1], InitialValue(k)[2]>>
<1>1. CASE k = "AtomicQueue"
  BY <1>1 DEF InitialValue
<1>2. CASE k = "AtomicMap"
  BY <1>2 DEF InitialValue
<1>3. CASE k = "AtomicSet"
  BY <1>3 DEF InitialValue
<1>4. CASE k = "Atomic"
  BY <1>4 DEF InitialValue
<1> QED
  BY <1>1, <1>2, <1>3, <1>4 DEF Kinds

LEMMA ObjectInvariant == Spec => []ObjectInv
<1>1. Init => ObjectInv
  <2> SUFFICES ASSUME Init PROVE ObjectInv
    OBVIOUS
  <2>1. contents = <<contents[1], contents[2]>>
    BY InitialForm DEF Init
  <2>2. ObjectType
    BY <2>1 DEF Init, ObjectType
  <2>3. LockProtects
    BY GuardedAssumption DEF Init, LockProtects, Inside
  <2> QED
    BY <2>2, <2>3 DEF ObjectInv
<1>2. ObjectInv /\ [Next]_vars => ObjectInv'
  BY StepKeepsObject
<1> QED
  BY <1>1, <1>2, PTL DEF Spec

(* In every class of atomic.h the mutex protects the contents: exactly the *)
(* threads inside a critical section hold it, and what one of them has     *)
(* seen is still there when it changes it.                                 *)
THEOREM LockIsProtective == Spec => []LockProtects
<1>1. ObjectInv => LockProtects
  BY DEF ObjectInv
<1> QED
  BY <1>1, ObjectInvariant, PTL

-----------------------------------------------------------------------------
(* The refinement: the call a thread is in, in terms of the abstract       *)
(* object.                                                                 *)
LEMMA CallStates ==
  ASSUME ObjectInv, NEW c \in Clients
  PROVE  /\ pc[c] = "idle" => CallOf(c) = Object!Idle
         /\ pc[c] \in {"lock", "look", "change"} => CallOf(c) = Object!Called(op[c])
         /\ pc[c] \in {"unlock", "return"} => CallOf(c) = Object!Answered(op[c], result[c])
         /\ pc[c] # "idle" => CallOf(c) # Object!Idle
BY DEF ObjectInv, ObjectType, CallOf, Object!Idle, Object!Called, Object!Answered

LEMMA CallStatesNext ==
  ASSUME ObjectInv', NEW c \in Clients
  PROVE  /\ pc'[c] = "idle" => CallOf(c)' = Object!Idle
         /\ pc'[c] \in {"lock", "look", "change"} => CallOf(c)' = Object!Called(op'[c])
         /\ pc'[c] \in {"unlock", "return"} => CallOf(c)' = Object!Answered(op'[c], result'[c])
BY DEF ObjectInv, ObjectType, CallOf, Object!Idle, Object!Called, Object!Answered

(* A thread's step concerns its own call alone.                            *)
LEMMA OthersCalls ==
  ASSUME ObjectInv, ObjectInv', NEW c \in Clients, Run(c) \/ \E o \in Ops : Call(c, o)
  PROVE  [d \in Clients |-> CallOf(d)]' = [[d \in Clients |-> CallOf(d)] EXCEPT ![c] = CallOf(c)']
<1>1. \A d \in Clients \ {c} : pc'[d] = pc[d] /\ op'[d] = op[d] /\ result'[d] = result[d]
  BY DEF ObjectInv, ObjectType, Run, Call, Lock, TryLockFails, ReadLock, Peek, Look, Change,
         Unlock, Return, Goto, local
<1>2. \A d \in Clients \ {c} : CallOf(d)' = CallOf(d)
  BY <1>1 DEF CallOf
<1> QED
  BY <1>2

(* Calling and returning are the abstract steps of those names; locking,   *)
(* looking and unlocking change nothing the callers see.                   *)
LEMMA CallRefines ==
  ASSUME ObjectInv, ObjectInv', NEW c \in Clients, NEW o \in Ops, Call(c, o)
  PROVE  Object!Call(c)
<1>1. pc[c] = "idle" /\ pc'[c] = "lock" /\ op'[c] = o /\ contents' = contents
  BY DEF Call, Goto, ObjectInv, ObjectType
<1>2. CallOf(c) = Object!Idle /\ CallOf(c)' = Object!Called(o)
  BY <1>1, CallStates, CallStatesNext
<1> QED
  BY <1>1, <1>2, OthersCalls DEF Object!Call

LEMMA ReturnRefines ==
  ASSUME ObjectInv, ObjectInv', NEW c \in Clients, Return(c)
  PROVE  Object!Return(c)
<1>1. pc[c] = "return" /\ pc'[c] = "idle" /\ contents' = contents
  BY DEF Return, Goto, ObjectInv, ObjectType
<1>2. CallOf(c) = Object!Answered(op[c], result[c]) /\ CallOf(c)' = Object!Idle
  BY <1>1, CallStates, CallStatesNext
<1>3. Run(c)
  BY DEF Run
<1> QED
  BY <1>1, <1>2, <1>3, OthersCalls DEF Object!Return, Object!Answered

LEMMA QuietRefines ==
  ASSUME ObjectInv, ObjectInv', NEW c \in Clients,
         (pc[c] = "lock" /\ (Lock(c) \/ ReadLock(c))) \/ Look(c) \/ Unlock(c)
  PROVE  UNCHANGED Object!vars
<1>1. /\ \/ pc[c] \in {"lock", "look"} /\ pc'[c] \in {"look", "change"}
         \/ pc[c] = "unlock" /\ pc'[c] = "return"
      /\ op'[c] = op[c] /\ result'[c] = result[c] /\ contents' = contents
  BY DEF Lock, ReadLock, Look, Unlock, Goto, local, ObjectInv, ObjectType
<1>2. CallOf(c)' = CallOf(c)
  BY <1>1, CallStates, CallStatesNext
<1>3. Run(c)
  BY DEF Run
<1>4. [d \in Clients |-> CallOf(d)]' = [d \in Clients |-> CallOf(d)]
  BY <1>2, <1>3, OthersCalls
<1> QED
  BY <1>1, <1>4 DEF Object!vars

(* The step after looking is where the operation takes effect; operator*   *)
(* takes effect when it reads.                                             *)
LEMMA EffectRefines ==
  ASSUME ObjectInv, ObjectInv', NEW c \in Clients,
         (pc[c] = "lock" /\ Peek(c)) \/ Change(c)
  PROVE  Object!Apply(c)
<1>1. Run(c) /\ ObjectType
  BY DEF Run, ObjectInv
<1>2. pc[c] \in {"lock", "change"} /\ pc'[c] \in {"unlock", "return"} /\ op'[c] = op[c]
  BY <1>1 DEF Peek, Change, Goto, ObjectType
<1>3. PICK e \in Effects(op[c], contents) : contents' = e[1] /\ result' = [result EXCEPT ![c] = e[2]]
  <2>1. CASE Change(c)
    BY <2>1, ChangeApplies
  <2>2. CASE Peek(c)
    <3>1. PICK e \in Effects(op[c], contents) : result' = [result EXCEPT ![c] = e[2]]
      BY <2>2 DEF Peek
    <3>2. op[c] \in Ops /\ op[c].lock = "none" /\ contents = <<op[c].kind, contents[2]>>
      BY <1>1, <1>2, <2>2 DEF Peek, ObjectType
    <3>3. e \in Effects(op[c], <<op[c].kind, contents[2]>>)
      BY <3>2
    <3>4. e[1] = <<op[c].kind, contents[2]>>
      BY <3>2, <3>3, EffectsFacts
    <3>5. contents' = contents
      BY <2>2 DEF Peek
    <3> QED
      BY <3>1, <3>2, <3>4, <3>5
  <2> QED
    BY <2>1, <2>2
<1>4. result'[c] = e[2]
  <2>1. result = [d \in Clients |-> result[d]]
    BY <1>1 DEF ObjectType
  <2> QED
    BY <1>3, <2>1
<1>5. CallOf(c) = Object!Called(op[c]) /\ CallOf(c)' = Object!Answered(op[c], e[2])
  BY <1>2, <1>4, CallStates, CallStatesNext
<1>6. [d \in Clients |-> CallOf(d)]' =
        [[d \in Clients |-> CallOf(d)] EXCEPT ![c] = Object!Answered(op[c], e[2])]
  BY <1>1, <1>5, OthersCalls
<1>7. CallOf(c).at = "called" /\ CallOf(c).op = op[c]
  BY <1>5 DEF Object!Called
<1> QED
  BY <1>3, <1>6, <1>7 DEF Object!Apply

(* A non-blocking operation that does not get the lock is refused: the     *)
(* thread that holds it is inside a call.                                  *)
LEMMA RefusalRefines ==
  ASSUME ObjectInv, ObjectInv', NEW c \in Clients, pc[c] = "lock", TryLockFails(c)
  PROVE  Object!Refuse(c)
<1>1. Run(c) /\ ObjectType /\ LockProtects
  BY DEF Run, ObjectInv
<1>2. /\ pc'[c] = "return" /\ op'[c] = op[c] /\ op[c] \in Ops /\ op[c].lock = "TryLock"
      /\ contents' = contents /\ result'[c] = <<"false">> /\ ~Free
  BY <1>1 DEF TryLockFails, Goto, ObjectType
<1>3. CallOf(c) = Object!Called(op[c]) /\ CallOf(c)' = Object!Answered(op[c], <<"false">>)
  BY <1>2, CallStates, CallStatesNext
<1>4. PICK d \in Clients : Inside(d)
  BY <1>1, <1>2 DEF Free, ObjectType, LockProtects
<1>5. d \in Clients \ {c} /\ CallOf(d) # Object!Idle
  BY <1>4, CallStates DEF Inside
<1> QED
  BY <1>1, <1>2, <1>3, <1>5, OthersCalls DEF Object!Refuse, Object!Called

LEMMA StepRefines ==
  ASSUME ObjectInv, ObjectInv', [Next]_vars
  PROVE  [Object!Next]_Object!vars
<1>1. ASSUME NEW c \in Clients, Run(c) PROVE [Object!Next]_Object!vars
  <2>1. CASE (pc[c] = "lock" /\ (Lock(c) \/ ReadLock(c))) \/ Look(c) \/ Unlock(c)
    BY <2>1, QuietRefines
  <2>2. CASE (pc[c] = "lock" /\ Peek(c)) \/ Change(c)
    BY <2>2, EffectRefines DEF Object!Next
  <2>3. CASE pc[c] = "lock" /\ TryLockFails(c)
    BY <2>3, RefusalRefines DEF Object!Next
  <2>4. CASE Return(c)
    BY <2>4, ReturnRefines DEF Object!Next
  <2> QED
    BY <1>1, <2>1, <2>2, <2>3, <2>4 DEF Run
<1>2. ASSUME NEW c \in Clients, NEW o \in Ops, Call(c, o) PROVE Object!Next
  BY <1>2, CallRefines DEF Object!Next
<1>3. CASE UNCHANGED vars
  BY <1>3 DEF vars, local, CallOf, Object!vars
<1> QED
  BY <1>1, <1>2, <1>3 DEF Next

(* Every operation of AtomicQueue, AtomicMap, AtomicSet and Atomic takes   *)
(* effect in one indivisible step between its call and its return, also    *)
(* operator*, which does not lock; a non-blocking operation is refused     *)
(* only while another call is in progress.                                 *)
THEOREM OperationsAreAtomic == Spec => Linearizable
<1>1. Init => Object!Init
  <2> SUFFICES ASSUME Init PROVE Object!Init
    OBVIOUS
  <2>1. contents \in {InitialValue(k) : k \in Kinds}
    BY DEF Init
  <2>2. \A c \in Clients : CallOf(c) = Object!Idle
    BY DEF Init, CallOf, Object!Idle
  <2> QED
    BY <2>1, <2>2 DEF Object!Init
<1>2. ObjectInv /\ ObjectInv' /\ [Next]_vars => [Object!Next]_Object!vars
  BY StepRefines
<1> QED
  BY <1>1, <1>2, ObjectInvariant, PTL DEF Spec, Object!Spec, Linearizable

-----------------------------------------------------------------------------
(* Nobody is stuck.                                                        *)

(* Every operation has an outcome on any contents, also GetFirst on an     *)
(* empty set.                                                              *)
LEMMA EffectsExist ==
  ASSUME NEW o \in Ops, NEW object
  PROVE  Effects(o, object) # {}
<1> DEFINE v == object[2]
<1>1. CASE o.kind = "AtomicQueue"
  <2>1. QueueEffects(o, v) # {}
    BY DEF QueueEffects
  <2> QED
    BY <1>1, <2>1 DEF Effects, DataEffects
<1>2. CASE o.kind = "AtomicMap"
  <2>1. MapEffects(o, v) # {}
    BY DEF MapEffects
  <2> QED
    BY <1>2, <2>1 DEF Effects, DataEffects
<1>3. CASE o.kind = "AtomicSet"
  <2>1. SetEffects(o, v) # {}
    BY TypesAssumption DEF SetEffects
  <2> QED
    BY <1>3, <2>1 DEF Effects, DataEffects
<1>4. CASE o.kind = "Atomic"
  <2>1. NumberEffects(o, v) # {}
    BY DEF NumberEffects
  <2> QED
    BY <1>4, <2>1 DEF Effects, DataEffects
<1> QED
  BY <1>1, <1>2, <1>3, <1>4, OpFields DEF Ops

(* When a thread inside a call has a step to take.                         *)
CallCanStep(c) ==
  /\ pc[c] # "idle"
  /\ pc[c] = "lock" =>
       \/ op[c].lock \in {"Lock", "WriteLock", "TryLock"} /\ Free
       \/ op[c].lock = "TryLock"
       \/ op[c].lock = "ReadLock" /\ owner = None
       \/ op[c].lock = "none" /\ Effects(op[c], contents) # {}
  /\ pc[c] = "change" => Effects(op[c], seen[c]) # {}

(* As long as a thread is inside a call, some thread can go on.            *)
NobodyStuck ==
  (\E c \in Clients : pc[c] # "idle") => \E c \in Clients : CallCanStep(c)

(* No sequence of calls, of any number of threads, leaves the lock to      *)
(* somebody who never gives it back: whoever waits for it waits for a      *)
(* thread between its lock and its unlock, which needs nothing else.       *)
THEOREM CallersNeverStuck == Spec => []NobodyStuck
<1>1. ASSUME ObjectInv
      PROVE  NobodyStuck
  <2>1. ObjectType /\ LockProtects
    BY <1>1 DEF ObjectInv
  <2>2. ASSUME NEW d \in Clients, Inside(d)
        PROVE  CallCanStep(d)
    <3>1. pc[d] \in {"look", "change", "unlock"}
      BY <2>2 DEF Inside
    <3>2. op[d] \in Ops
      BY <2>1, <3>1 DEF ObjectType
    <3>3. Effects(op[d], seen[d]) # {}
      BY <3>2, EffectsExist
    <3> QED
      BY <3>1, <3>3 DEF CallCanStep
  <2>3. ASSUME NEW c \in Clients, pc[c] = "lock"
        PROVE  \E d \in Clients : CallCanStep(d)
    <3>1. CASE Free
      <4>1. op[c] \in Ops
        BY <2>1, <2>3 DEF ObjectType
      <4>2. Effects(op[c], contents) # {}
        BY <4>1, EffectsExist
      <4>3. op[c].lock \in {"Lock", "TryLock", "WriteLock", "ReadLock", "none"}
        BY <4>1, OpFields
      <4> QED
        BY <2>3, <3>1, <4>2, <4>3 DEF CallCanStep, Free
    <3>2. CASE ~Free
      <4>1. PICK d \in Clients : Inside(d)
        BY <2>1, <3>2 DEF Free, ObjectType, LockProtects
      <4> QED
        BY <2>2, <4>1
    <3> QED
      BY <3>1, <3>2
  <2>4. ASSUME NEW c \in Clients, pc[c] = "return"
        PROVE  CallCanStep(c)
    BY <2>4 DEF CallCanStep
  <2>5. \A c \in Clients : pc[c] \in {"idle", "lock", "look", "change", "unlock", "return"}
    BY <2>1 DEF ObjectType
  <2> QED
    BY <2>2, <2>3, <2>4, <2>5 DEF NobodyStuck, Inside
<1> QED
  BY <1>1, ObjectInvariant, PTL
=============================================================================
