---------------------------- MODULE RingPointers ----------------------------
(***************************************************************************)
(* The pointer arithmetic of CRingBuffer (RingBuffer.h): m_length cells,   *)
(* an input pointer and an output pointer, equal when the ring is empty.   *)
(* The operators take the pointers as arguments, because two threads       *)
(* evaluate them on values they read at different moments.                 *)
(***************************************************************************)
EXTENDS Integers

CONSTANT Length                          \* m_length

ASSUME LengthAssumption == Length \in Nat \ {0}

Positions == 0 .. Length - 1

\* "m_iPtr++" and "m_oPtr++" can leave a pointer at m_length for a moment:
\* the comparison that takes it back to 0 is a separate statement.
Pointers == 0 .. Length

\* Mutant: the pointer is never taken back to 0.
MutWrap(p) == p
Wrap(p) == IF p = Length THEN 0 ELSE p

\* The position k cells after position p, for k at most Length.
\* Mutant: the last position is one too far.
MutAfter(p, k) == IF p + k <= Length THEN p + k ELSE p + k - Length
After(p, k) == IF p + k < Length THEN p + k ELSE p + k - Length

FreeSpace(i, o) ==
  IF o = i THEN Length
  ELSE IF o > i THEN o - i
  ELSE (Length + o) - i

DataSize(i, o) == Length - FreeSpace(i, o)

\* The tests at the head of addData() and getData(), for n elements.
\* Mutant: ">" for ">=".
MutOverflows(n, i, o) == n > FreeSpace(i, o)
Overflows(n, i, o) == n >= FreeSpace(i, o)
Underflows(n, i, o) == DataSize(i, o) < n

=============================================================================
