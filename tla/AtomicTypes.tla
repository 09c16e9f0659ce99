----------------------------- MODULE AtomicTypes -----------------------------
(***************************************************************************)
(* The four classes of a2/utils/atomic.h as data: their operations, each   *)
(* with the call that locks the object, and what the operation does to the *)
(* contents.  A queue is a sequence, a map a partial function, a set a set *)
(* and Atomic<T> a number of an unsigned type with NumberSize values.      *)
(***************************************************************************)
EXTENDS Integers, Sequences, FiniteSets, FiniteSetsExt

CONSTANTS
  Item,         \* the elements of queues and sets, the keys and values of maps;
                \* a type has values
  NumberSize,   \* the numbers of T
  Operand       \* the second operands of the arithmetic operations

ASSUME TypesAssumption ==
  /\ Item \subseteq Nat /\ Item # {}
  /\ NumberSize \in Nat \ {0}
  /\ Operand \subseteq 1..(NumberSize - 1)

(* What the operations return: nothing, a number, true or false, or true   *)
(* with a value in the output parameter.                                   *)
Void     == <<"void">>
Value(n) == <<"value", n>>
Bool(b)  == IF b THEN <<"true">> ELSE <<"false">>
Found(v) == <<"true", v>>

(* An operation, its lock call and its arguments.                          *)
Oper(k, n, l, x, y) == [kind |-> k, name |-> n, lock |-> l, x |-> x, y |-> y]

QueueOps ==
  {Oper("AtomicQueue", n, "Lock", 0, 0) : n \in {"Size", "Pop"}}
  \cup {Oper("AtomicQueue", "PopNonBlocking", "TryLock", 0, 0)}
  \cup {Oper("AtomicQueue", "Push", "Lock", i, 0) : i \in Item}
  \cup {Oper("AtomicQueue", "PushNonBlocking", "TryLock", i, 0) : i \in Item}

(* Pop and PopNonBlocking return false on an empty queue.                  *)
QueueEffects(o, q) ==
  CASE o.name = "Size" -> {<<q, Value(Len(q))>>}
    [] o.name = "Push" -> {<<Append(q, o.x), Void>>}
    [] o.name = "PushNonBlocking" -> {<<Append(q, o.x), Bool(TRUE)>>}
    [] q = <<>> -> {<<q, Bool(FALSE)>>}
    [] OTHER -> {<<Tail(q), Found(Head(q))>>}

MapOps ==
  {Oper("AtomicMap", "Size", "ReadLock", 0, 0)}
  \cup {Oper("AtomicMap", n, "ReadLock", i, 0) : n \in {"Contains", "Lookup"}, i \in Item}
  \cup {Oper("AtomicMap", "Erase", "WriteLock", i, 0) : i \in Item}
  \cup {Oper("AtomicMap", "Insert", "WriteLock", i, j) : i, j \in Item}

(* Insert clobbers; Set is a synonym for it.                               *)
MapEffects(o, m) ==
  CASE o.name = "Size" -> {<<m, Value(Cardinality(DOMAIN m))>>}
    [] o.name = "Contains" -> {<<m, Bool(o.x \in DOMAIN m)>>}
    [] o.name = "Lookup" ->
         {<<m, IF o.x \in DOMAIN m THEN Found(m[o.x]) ELSE Bool(FALSE)>>}
    [] o.name = "Insert" ->
         {<<[k \in DOMAIN m \cup {o.x} |-> IF k = o.x THEN o.y ELSE m[k]], Void>>}
    [] OTHER -> {<<[k \in DOMAIN m \ {o.x} |-> m[k]], Void>>}

SetOps ==
  {Oper("AtomicSet", n, "ReadLock", 0, 0) : n \in {"Size", "GetSet"}}
  \cup {Oper("AtomicSet", "GetFirst", "WriteLock", 0, 0)}
  \cup {Oper("AtomicSet", "Contains", "ReadLock", i, 0) : i \in Item}
  \cup {Oper("AtomicSet", n, "WriteLock", i, 0) : n \in {"Insert", "Erase"}, i \in Item}

(* GetFirst of an empty set dereferences end(): any value may come out.    *)
SetEffects(o, s) ==
  CASE o.name = "Size" -> {<<s, Value(Cardinality(s))>>}
    [] o.name = "GetSet" -> {<<s, <<"set", s>> >>}
    [] o.name = "Contains" -> {<<s, Bool(o.x \in s)>>}
    [] o.name = "Insert" -> {<<s \cup {o.x}, Void>>}
    [] o.name = "Erase" -> {<<s \ {o.x}, Void>>}
    [] s = {} -> {<<s, Value(i)>> : i \in Item}
    [] OTHER -> {<<s, Value(Min(s))>>}

NumberOps ==
  {Oper("Atomic", "*", "none", 0, 0)}
  \cup {Oper("Atomic", n, "Lock", 0, 0) : n \in {"++", "--"}}
  \cup {Oper("Atomic", n, "Lock", i, 0) :
          n \in {"+=", "-=", "*=", "/=", "%=", "="}, i \in Operand}
  \cup {Oper("Atomic", "CAS", "Lock", i, j) : i, j \in {0} \cup Operand}

(* The arithmetic operators, on an unsigned type.                          *)
Arithmetic(n, v, x) ==
  CASE n = "++" -> v + 1
    [] n = "--" -> v - 1
    [] n = "+=" -> v + x
    [] n = "-=" -> v - x
    [] n = "*=" -> v * x
    [] n = "/=" -> v \div x
    [] n = "%=" -> v % x
    [] n = "="  -> x

(* CAS also reports the value it has found; operator* only reads.          *)
NumberEffects(o, v) ==
  CASE o.name = "*" -> {<<v, Value(v)>>}
    [] o.name = "CAS" ->
         IF v = o.x THEN {<<o.y, Bool(TRUE)>>} ELSE {<<v, <<"false", v>> >>}
    [] OTHER -> {<<Arithmetic(o.name, v, o.x) % NumberSize, Void>>}

Kinds == {"AtomicQueue", "AtomicMap", "AtomicSet", "Atomic"}
Ops   == QueueOps \cup MapOps \cup SetOps \cup NumberOps

DataEffects(o, v) ==
  CASE o.kind = "AtomicQueue" -> QueueEffects(o, v)
    [] o.kind = "AtomicMap" -> MapEffects(o, v)
    [] o.kind = "AtomicSet" -> SetEffects(o, v)
    [] o.kind = "Atomic" -> NumberEffects(o, v)

(* The same on contents that carry the name of their class.                *)
Effects(o, object) ==
  {<< <<o.kind, e[1]>>, e[2]>> : e \in DataEffects(o, object[2])}

(* The default constructors, and Atomic(T init) with 0.                    *)
InitialValue(k) ==
  CASE k = "AtomicQueue" -> <<k, <<>> >>
    [] k = "AtomicMap" -> <<k, [i \in {} |-> 0]>>
    [] k = "AtomicSet" -> <<k, {}>>
    [] k = "Atomic" -> <<k, 0>>
=============================================================================
