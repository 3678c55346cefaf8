----------------------------- MODULE RingBuffer -----------------------------
(***************************************************************************)
(* CRingBuffer<T> (RingBuffer.h) used by one thread at a time: each call   *)
(* is one step.  The two-thread use of the same class, where a call is     *)
(* many steps, is module FrameQueue.                                       *)
(***************************************************************************)
EXTENDS RingPointers, Sequences

CONSTANTS
  Element,     \* the values of T
  Zero,        \* the element memset() fills the buffer with
  MaxBatch     \* bound: the largest nSamples of a call

ASSUME RingBufferAssumption ==
  /\ Zero \in Element
  /\ MaxBatch \in Nat

VARIABLES
  buffer,      \* m_buffer
  iPtr,        \* m_iPtr
  oPtr,        \* m_oPtr
  call,        \* the last call and its nSamples
  result       \* the value the last call returned, and the data it read

vars == <<buffer, iPtr, oPtr, call, result>>

Batches == UNION {[1 .. n -> Element] : n \in 0 .. MaxBatch}

Answer(ok, data) == [ok |-> ok, data |-> data]

\* How far position p lies after position i, going round.
Distance(i, p) == IF p >= i THEN p - i ELSE p + Length - i

\* The n cells a reader starting at the output pointer sees.
ReadOut(n) == [k \in 1 .. n |-> buffer[After(oPtr, k - 1)]]

-----------------------------------------------------------------------------

Init ==
  /\ buffer = [p \in Positions |-> Zero]
  /\ iPtr = 0
  /\ oPtr = 0
  /\ call = <<"none", 0>>
  /\ result = Answer(TRUE, <<>>)

AddData(s) ==
  /\ IF Overflows(Len(s), iPtr, oPtr)
       THEN /\ result' = Answer(FALSE, <<>>)
            /\ UNCHANGED <<buffer, iPtr>>
       ELSE /\ buffer' = [p \in Positions |->
                            IF Distance(iPtr, p) < Len(s)
                              THEN s[Distance(iPtr, p) + 1]
                              ELSE buffer[p]]
            /\ iPtr' = After(iPtr, Len(s))
            /\ result' = Answer(TRUE, <<>>)
  /\ call' = <<"addData", Len(s)>>
  /\ UNCHANGED oPtr

GetData(n) ==
  /\ IF Underflows(n, iPtr, oPtr)
       THEN /\ result' = Answer(FALSE, <<>>)
            /\ UNCHANGED oPtr
       ELSE /\ result' = Answer(TRUE, ReadOut(n))
            /\ oPtr' = After(oPtr, n)
  /\ call' = <<"getData", n>>
  /\ UNCHANGED <<buffer, iPtr>>

Peek(n) ==
  /\ result' = IF Underflows(n, iPtr, oPtr) THEN Answer(FALSE, <<>>)
                                           ELSE Answer(TRUE, ReadOut(n))
  /\ call' = <<"peek", n>>
  /\ UNCHANGED <<buffer, iPtr, oPtr>>

Clear ==
  /\ buffer' = [p \in Positions |-> Zero]
  /\ iPtr' = 0
  /\ oPtr' = 0
  /\ call' = <<"clear", 0>>
  /\ result' = Answer(TRUE, <<>>)

Next ==
  \/ \E s \in Batches : AddData(s)
  \/ \E n \in 0 .. MaxBatch : GetData(n) \/ Peek(n)
  \/ Clear

Spec == Init /\ [][Next]_vars

-----------------------------------------------------------------------------

(* Type invariant: the pointers always index the buffer between calls, and *)
(* a cell always holds an element (RingBuffer.h:30-147).                   *)
TypeOK ==
  /\ buffer \in [Positions -> Element]
  /\ iPtr \in Positions
  /\ oPtr \in Positions
  /\ call \in {"none", "addData", "getData", "peek", "clear"} \X Nat
  /\ result \in [ok : BOOLEAN, data : Seq(Element)]

\* The elements between the output and the input pointer, oldest first.
Contents == ReadOut(DataSize(iPtr, oPtr))

Fifo == INSTANCE ByteFifo WITH
          Capacity <- Length - 1,
          queue    <- Contents

(* The ring implements an all-or-nothing FIFO of m_length - 1 elements:    *)
(* addData(), getData(), peek() and clear() answer exactly what the FIFO   *)
(* answers, over any sequence of calls and however often the pointers have *)
(* gone round.                                                             *)
ImplementsFifo == Fifo!Spec

=============================================================================
