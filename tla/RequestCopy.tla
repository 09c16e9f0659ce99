----------------------------- MODULE RequestCopy -----------------------------
(***************************************************************************)
(* CopySize and CopyRequest (a1/src/request.cc): a request is copied into  *)
(* one buffer, the object first, then its write set, then its updates, and *)
(* the pointers of the copy are made to point into the buffer.  Memory is  *)
(* a function from word numbers to words; addresses and sizes are in bytes.*)
(***************************************************************************)
EXTENDS Integers, Sequences

CONSTANTS
  WordBytes,      \* sizeof(uint64_t)
  HeaderWords     \* sizeof(Request) in words: db_, num_writes_, writeset_, updates_

ASSUME CopyAssumption ==
  /\ WordBytes \in Nat \ {0}
  /\ HeaderWords = 4

SizeofRequest == HeaderWords * WordBytes

(* The macro ROUNDUP.                                                      *)
RoundUp(n, v) == (n - 1) + v - ((n - 1) % v)

(* A request: a write set and updates, which it points to elsewhere.       *)
CopySize(req) ==
  RoundUp(SizeofRequest, WordBytes) + WordBytes * (Len(req.updates) + Len(req.writeset))

Memcpy(mem, to, words) ==
  LET first == to \div WordBytes
  IN  [a \in DOMAIN mem |-> IF a \in first..(first + Len(words) - 1)
                              THEN words[a - first + 1] ELSE mem[a]]

(* The words of the object, the pointers first to last.                    *)
Header(req, writeset, updates) == <<req.db, Len(req.writeset), writeset, updates>>

(* Mutant: the pointers of the copy are left as they were.                 *)
CopyRequestShallow(mem, buf, req) ==
  LET array == buf + RoundUp(SizeofRequest, WordBytes)
      after == array + WordBytes * Len(req.writeset)
  IN  Memcpy(Memcpy(Memcpy(mem, buf, Header(req, -1, -1)),
                    array, req.writeset),
             after, req.updates)

CopyRequest(mem, buf, req) ==
  LET array == buf + RoundUp(SizeofRequest, WordBytes)
      after == array + WordBytes * Len(req.writeset)
  IN  Memcpy(Memcpy(Memcpy(mem, buf, Header(req, array, after)),
                    array, req.writeset),
             after, req.updates)

-----------------------------------------------------------------------------
(* The members of the object at an address.                                *)
Member(mem, at, n) == mem[at \div WordBytes + n - 1]
Db(mem, at)        == Member(mem, at, 1)
NumWrites(mem, at) == Member(mem, at, 2)
WriteSet(mem, at)  == Member(mem, at, 3)
Updates(mem, at)   == Member(mem, at, 4)

(* n words from an address on.                                             *)
Words(mem, at, n) == [i \in 1..n |-> mem[at \div WordBytes + i - 1]]

(* The object at an address and its two arrays lie between buf and end.    *)
LiesIn(mem, buf, end, fields) ==
  /\ buf <= WriteSet(mem, buf)
  /\ WriteSet(mem, buf) + WordBytes * NumWrites(mem, buf) <= end
  /\ buf <= Updates(mem, buf)
  /\ Updates(mem, buf) + WordBytes * fields <= end

(* The request an executor of the object at buf sees.                      *)
RequestAt(mem, buf, fields) ==
  [db       |-> Db(mem, buf),
   writeset |-> Words(mem, WriteSet(mem, buf), NumWrites(mem, buf)),
   updates  |-> Words(mem, Updates(mem, buf), fields)]
=============================================================================
