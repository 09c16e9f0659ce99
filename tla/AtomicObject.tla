----------------------------- MODULE AtomicObject -----------------------------
(***************************************************************************)
(* What the classes of a2/utils/atomic.h promise their callers: an object  *)
(* whose operations may be called by any thread at any time, and each of   *)
(* which takes effect in one indivisible step between call and return.  A  *)
(* non-blocking operation may instead be refused, but only while another   *)
(* call is in progress.                                                    *)
(***************************************************************************)
CONSTANTS
  Clients,          \* the threads
  Ops,              \* the operations, with their arguments
  NonBlocking,      \* the ones among them that may be refused
  Effects(_, _),    \* the outcomes <<value, result>> of an operation on a value
  InitialValues

VARIABLES
  value,    \* the object
  call      \* the call each thread is in

vars == <<value, call>>

Idle               == [at |-> "idle"]
Called(o)          == [at |-> "called", op |-> o]
Answered(o, reply) == [at |-> "answered", op |-> o, result |-> reply]

Init ==
  /\ value \in InitialValues
  /\ call = [c \in Clients |-> Idle]

Call(c) ==
  /\ call[c] = Idle
  /\ \E o \in Ops : call' = [call EXCEPT ![c] = Called(o)]
  /\ UNCHANGED value

Apply(c) ==
  /\ call[c].at = "called"
  /\ \E e \in Effects(call[c].op, value) :
       /\ value' = e[1]
       /\ call' = [call EXCEPT ![c] = Answered(call[c].op, e[2])]

Refuse(c) ==
  /\ call[c].at = "called"
  /\ call[c].op \in NonBlocking
  /\ \E d \in Clients \ {c} : call[d] # Idle
  /\ call' = [call EXCEPT ![c] = Answered(call[c].op, <<"false">>)]
  /\ UNCHANGED value

Return(c) ==
  /\ call[c].at = "answered"
  /\ call' = [call EXCEPT ![c] = Idle]
  /\ UNCHANGED value

Next == \E c \in Clients : Call(c) \/ Apply(c) \/ Refuse(c) \/ Return(c)

Spec == Init /\ [][Next]_vars
=============================================================================
