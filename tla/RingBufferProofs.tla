-------------------------- MODULE RingBufferProofs --------------------------
(***************************************************************************)
(* Proofs about CRingBuffer used by one thread at a time, for every        *)
(* length, every set of elements and every bound on a batch.               *)
(***************************************************************************)
EXTENDS RingBuffer, SequenceTheorems, TLAPS

(* Moving a pointer forward by at most m_length leaves it in the buffer:   *)
(* one comparison with m_length (RingBuffer.h:60, 77) is enough.           *)
LEMMA AfterInBuffer ==
  ASSUME NEW p \in Positions, NEW k \in 0 .. Length
  PROVE  After(p, k) \in Positions
BY LengthAssumption DEF After, Positions

(* freeSpace() counts the cells from the input to the output pointer, all  *)
(* of them when the pointers are equal; dataSize() never reaches m_length. *)
LEMMA Sizes ==
  ASSUME NEW i \in Positions, NEW o \in Positions
  PROVE  /\ FreeSpace(i, o) \in 1 .. Length
         /\ DataSize(i, o) \in 0 .. Length - 1
         /\ i = After(o, DataSize(i, o))
BY LengthAssumption DEF FreeSpace, DataSize, After, Positions

(* The cells read out form a sequence of elements.                         *)
LEMMA ReadOutType ==
  ASSUME buffer \in [Positions -> Element], oPtr \in Positions,
         NEW n \in 0 .. Length
  PROVE  ReadOut(n) \in Seq(Element)
<1>1. ASSUME NEW k \in 1 .. n
      PROVE  buffer[After(oPtr, k - 1)] \in Element
  <2>1. k - 1 \in 0 .. Length
    BY LengthAssumption
  <2>2. After(oPtr, k - 1) \in Positions
    BY <2>1, AfterInBuffer
  <2> QED
    BY <2>2
<1>2. ReadOut(n) \in [1 .. n -> Element]
  BY <1>1 DEF ReadOut
<1>3. n \in Nat
  BY LengthAssumption
<1> QED
  BY <1>2, <1>3

(* A batch is a sequence of at most MaxBatch elements.                     *)
LEMMA BatchType ==
  ASSUME NEW s \in Batches
  PROVE  s \in Seq(Element) /\ Len(s) \in Nat /\ s \in [1 .. Len(s) -> Element]
<1>1. PICK n \in 0 .. MaxBatch : s \in [1 .. n -> Element]
  BY DEF Batches
<1>2. n \in Nat
  BY RingBufferAssumption
<1>3. s \in Seq(Element) /\ Len(s) = n
  BY <1>1, <1>2
<1> QED
  BY <1>1, <1>2, <1>3

-----------------------------------------------------------------------------

(* What a call returns, when it reads nothing and when it reads elements.  *)
LEMMA AnswerType ==
  /\ Answer(TRUE, <<>>) \in [ok : BOOLEAN, data : Seq(Element)]
  /\ Answer(FALSE, <<>>) \in [ok : BOOLEAN, data : Seq(Element)]
  /\ \A d \in Seq(Element) :
       Answer(TRUE, d) \in [ok : BOOLEAN, data : Seq(Element)]
<1>1. <<>> \in Seq(Element)
  OBVIOUS
<1>2. \A d \in Seq(Element), b \in BOOLEAN :
        [ok |-> b, data |-> d] \in [ok : BOOLEAN, data : Seq(Element)]
  OBVIOUS
<1> QED
  BY <1>1, <1>2 DEF Answer

(* clear() and the constructor leave an empty buffer of zeros.             *)
LEMMA ZeroBuffer ==
  0 \in Positions /\ [p \in Positions |-> Zero] \in [Positions -> Element]
BY LengthAssumption, RingBufferAssumption DEF Positions

LEMMA TypeInit == Init => TypeOK
BY ZeroBuffer, AnswerType DEF Init, TypeOK

LEMMA TypeAddData ==
  ASSUME TypeOK, NEW s \in Batches, AddData(s)
  PROVE  TypeOK'
<1> USE DEF TypeOK
<1>0. s \in Seq(Element) /\ Len(s) \in Nat /\ s \in [1 .. Len(s) -> Element]
  BY BatchType
<1>1. oPtr' \in Positions
  BY DEF AddData
<1>2. /\ result' \in [ok : BOOLEAN, data : Seq(Element)]
      /\ call' \in {"none", "addData", "getData", "peek", "clear"} \X Nat
  BY <1>0, AnswerType DEF AddData
<1>3. CASE Overflows(Len(s), iPtr, oPtr)
  BY <1>1, <1>2, <1>3 DEF AddData
<1>4. CASE ~Overflows(Len(s), iPtr, oPtr)
  <2>1. Len(s) \in 0 .. Length
    BY <1>0, <1>4, Sizes, LengthAssumption DEF Overflows
  <2>2. iPtr' \in Positions
    BY <1>4, <2>1, AfterInBuffer DEF AddData
  <2>3. ASSUME NEW p \in Positions, Distance(iPtr, p) < Len(s)
        PROVE  s[Distance(iPtr, p) + 1] \in Element
    <3>1. Distance(iPtr, p) \in Nat
      BY LengthAssumption DEF Distance, Positions
    <3> QED
      BY <1>0, <2>3, <3>1
  <2>4. buffer' \in [Positions -> Element]
    BY <1>4, <2>3 DEF AddData
  <2> QED
    BY <1>1, <1>2, <2>2, <2>4
<1> QED
  BY <1>3, <1>4

LEMMA TypeGetData ==
  ASSUME TypeOK, NEW n \in 0 .. MaxBatch, GetData(n)
  PROVE  TypeOK'
<1> USE DEF TypeOK
<1>1. /\ UNCHANGED <<buffer, iPtr>>
      /\ call' \in {"none", "addData", "getData", "peek", "clear"} \X Nat
  BY RingBufferAssumption DEF GetData
<1>2. CASE Underflows(n, iPtr, oPtr)
  BY <1>1, <1>2, AnswerType DEF GetData
<1>3. CASE ~Underflows(n, iPtr, oPtr)
  <2>1. n \in 0 .. Length
    BY <1>3, Sizes, LengthAssumption, RingBufferAssumption DEF Underflows
  <2>2. oPtr' \in Positions
    BY <1>3, <2>1, AfterInBuffer DEF GetData
  <2>3. result' \in [ok : BOOLEAN, data : Seq(Element)]
    <3>1. ReadOut(n) \in Seq(Element)
      BY <2>1, ReadOutType
    <3>2. result' = Answer(TRUE, ReadOut(n))
      BY <1>3 DEF GetData
    <3> QED
      BY <3>1, <3>2, AnswerType
  <2> QED
    BY <1>1, <2>2, <2>3
<1> QED
  BY <1>2, <1>3

LEMMA TypePeek ==
  ASSUME TypeOK, NEW n \in 0 .. MaxBatch, Peek(n)
  PROVE  TypeOK'
<1> USE DEF TypeOK
<1>1. /\ UNCHANGED <<buffer, iPtr, oPtr>>
      /\ call' \in {"none", "addData", "getData", "peek", "clear"} \X Nat
  BY RingBufferAssumption DEF Peek
<1>2. CASE Underflows(n, iPtr, oPtr)
  BY <1>1, <1>2, AnswerType DEF Peek
<1>3. CASE ~Underflows(n, iPtr, oPtr)
  <2>1. n \in 0 .. Length
    BY <1>3, Sizes, LengthAssumption, RingBufferAssumption DEF Underflows
  <2>2. result' \in [ok : BOOLEAN, data : Seq(Element)]
    BY <1>3, <2>1, ReadOutType, AnswerType DEF Peek
  <2> QED
    BY <1>1, <2>2
<1> QED
  BY <1>2, <1>3

LEMMA TypeNext == TypeOK /\ [Next]_vars => TypeOK'
<1> SUFFICES ASSUME TypeOK, [Next]_vars
             PROVE  TypeOK'
  OBVIOUS
<1>1. ASSUME NEW s \in Batches, AddData(s)
      PROVE  TypeOK'
  BY <1>1, TypeAddData
<1>2. ASSUME NEW n \in 0 .. MaxBatch, GetData(n) \/ Peek(n)
      PROVE  TypeOK'
  BY <1>2, TypeGetData, TypePeek
<1>3. CASE Clear
  BY <1>3, ZeroBuffer, AnswerType DEF Clear, TypeOK
<1>4. CASE UNCHANGED vars
  BY <1>4 DEF vars, TypeOK
<1> QED
  BY <1>1, <1>2, <1>3, <1>4 DEF Next

(* The pointers of CRingBuffer index its buffer after every sequence of    *)
(* calls, whatever m_length is (RingBuffer.h:50-108).                      *)
THEOREM TypeCorrect == Spec => []TypeOK
BY TypeInit, TypeNext, PTL DEF Spec

-----------------------------------------------------------------------------
(* The refinement.  Pointers first: what moving one of them does to the    *)
(* number of elements, and where a batch written at the input pointer is.  *)

LEMMA MoveInput ==
  ASSUME NEW i \in Positions, NEW o \in Positions, NEW k \in Nat,
         k < FreeSpace(i, o)
  PROVE  DataSize(After(i, k), o) = DataSize(i, o) + k
BY LengthAssumption DEF FreeSpace, DataSize, After, Positions

LEMMA MoveOutput ==
  ASSUME NEW i \in Positions, NEW o \in Positions, NEW k \in Nat,
         k <= DataSize(i, o)
  PROVE  /\ DataSize(i, After(o, k)) = DataSize(i, o) - k
         /\ \A j \in Nat : k + j <= DataSize(i, o) =>
                            After(After(o, k), j) = After(o, k + j)
BY LengthAssumption DEF FreeSpace, DataSize, After, Positions

LEMMA UnreadOutOfReach ==
  ASSUME NEW i \in Positions, NEW o \in Positions, NEW j \in Nat,
         j < DataSize(i, o)
  PROVE  Distance(i, After(o, j)) >= FreeSpace(i, o)
BY LengthAssumption DEF FreeSpace, DataSize, After, Distance, Positions

LEMMA BatchInReach ==
  ASSUME NEW i \in Positions, NEW o \in Positions, NEW j \in Nat,
         j < FreeSpace(i, o)
  PROVE  Distance(i, After(o, DataSize(i, o) + j)) = j
BY LengthAssumption DEF FreeSpace, DataSize, After, Distance, Positions

(* ReadOut(n), as a sequence.                                              *)
LEMMA ReadOutSeq ==
  ASSUME TypeOK, NEW n \in 0 .. Length
  PROVE  /\ ReadOut(n) \in Seq(Element)
         /\ Len(ReadOut(n)) = n
         /\ \A k \in 1 .. n : ReadOut(n)[k] = buffer[After(oPtr, k - 1)]
<1>1. ReadOut(n) \in Seq(Element)
  BY ReadOutType DEF TypeOK
<1>2. n \in Nat
  BY LengthAssumption
<1>3. DOMAIN ReadOut(n) = 1 .. n
  BY DEF ReadOut
<1>4. Len(ReadOut(n)) = n
  BY <1>1, <1>2, <1>3, LenProperties
<1> QED
  BY <1>1, <1>4 DEF ReadOut

(* The contents are the dataSize() cells from the output pointer on.       *)
ContentsInPlace ==
  /\ Contents \in Seq(Element)
  /\ Len(Contents) = DataSize(iPtr, oPtr)
  /\ \A k \in 1 .. DataSize(iPtr, oPtr) :
       Contents[k] = buffer[After(oPtr, k - 1)]

LEMMA ContentsSeq == TypeOK => ContentsInPlace
<1> SUFFICES ASSUME TypeOK
             PROVE  ContentsInPlace
  OBVIOUS
<1>1. DataSize(iPtr, oPtr) \in 0 .. Length
  BY Sizes, LengthAssumption DEF TypeOK
<1> QED
  BY <1>1, ReadOutSeq DEF Contents, ContentsInPlace

LEMMA ContentsSeqNext == TypeOK' => ContentsInPlace'
BY ContentsSeq, PTL

(* Reading n elements yields the first n of the contents.                  *)
LEMMA ReadOutPrefix ==
  ASSUME TypeOK, NEW n \in Nat, n <= DataSize(iPtr, oPtr)
  PROVE  ReadOut(n) = SubSeq(Contents, 1, n)
<1> DEFINE c == Contents
<1>1. n \in 0 .. Length
  BY Sizes, LengthAssumption DEF TypeOK
<1>2. /\ ReadOut(n) \in Seq(Element)
      /\ Len(ReadOut(n)) = n
      /\ \A k \in 1 .. n : ReadOut(n)[k] = buffer[After(oPtr, k - 1)]
  BY <1>1, ReadOutSeq
<1>3. DataSize(iPtr, oPtr) \in Nat
  BY Sizes DEF TypeOK
<1>4. /\ c \in Seq(Element)
      /\ Len(c) = DataSize(iPtr, oPtr)
      /\ \A k \in 1 .. n : c[k] = buffer[After(oPtr, k - 1)]
  BY <1>3, ContentsSeq DEF ContentsInPlace
<1> HIDE DEF c
<1>5. \A k \in 1 .. n : c[k] \in Element
  BY <1>3, <1>4, ElementOfSeq
<1>6. /\ SubSeq(c, 1, n) \in Seq(Element)
      /\ Len(SubSeq(c, 1, n)) = n
      /\ \A k \in 1 .. n : SubSeq(c, 1, n)[k] = c[k]
  BY <1>5, SubSeqProperties
<1>7. \A k \in 1 .. n : ReadOut(n)[k] = SubSeq(c, 1, n)[k]
  BY <1>2, <1>4, <1>6
<1>8. ReadOut(n) = SubSeq(c, 1, n)
  BY <1>2, <1>6, <1>7, SeqEqual
<1> QED
  BY <1>8 DEF c

(* addData() accepts a batch exactly when the FIFO does, and then puts it  *)
(* behind the contents.                                                    *)
LEMMA ImplementsPut ==
  ASSUME TypeOK, NEW s \in Batches, AddData(s)
  PROVE  Fifo!Put(s)
<1> DEFINE d == DataSize(iPtr, oPtr)
<1>1. TypeOK'
  BY TypeAddData
<1>2. s \in Seq(Element) /\ Len(s) \in Nat
  BY BatchType
<1>3. /\ iPtr \in Positions /\ oPtr \in Positions /\ oPtr' = oPtr
      /\ iPtr' \in Positions
  BY <1>1 DEF TypeOK, AddData
<1>4. d \in Nat /\ FreeSpace(iPtr, oPtr) = Length - d
  BY <1>3, Sizes, LengthAssumption DEF DataSize
<1>5. /\ Contents \in Seq(Element) /\ Len(Contents) = d
      /\ \A k \in 1 .. d : Contents[k] = buffer[After(oPtr, k - 1)]
  BY ContentsSeq DEF ContentsInPlace
<1>6. CASE Overflows(Len(s), iPtr, oPtr)
  <2>1. ~(Len(Contents) + Len(s) <= Length - 1)
    BY <1>2, <1>4, <1>5, <1>6, LengthAssumption DEF Overflows
  <2>2. /\ UNCHANGED <<buffer, iPtr, oPtr>>
        /\ result' = Answer(FALSE, <<>>) /\ call' = <<"addData", Len(s)>>
    BY <1>6 DEF AddData
  <2>3. Contents' = Contents
    BY <2>2 DEF Contents, ReadOut
  <2> QED
    BY <2>1, <2>2, <2>3 DEF Fifo!Put, Answer, Fifo!Answer
<1>7. CASE ~Overflows(Len(s), iPtr, oPtr)
  <2>1. Len(s) < FreeSpace(iPtr, oPtr)
    BY <1>2, <1>4, <1>7, LengthAssumption DEF Overflows
  <2>2. Len(Contents) + Len(s) <= Length - 1
    BY <1>2, <1>4, <1>5, <2>1, LengthAssumption
  <2>3. /\ iPtr' = After(iPtr, Len(s))
        /\ result' = Answer(TRUE, <<>>) /\ call' = <<"addData", Len(s)>>
        /\ \A p \in Positions : buffer'[p] = IF Distance(iPtr, p) < Len(s)
                                               THEN s[Distance(iPtr, p) + 1]
                                               ELSE buffer[p]
    BY <1>7 DEF AddData
  <2>4. DataSize(iPtr, oPtr)' = d + Len(s)
    BY <1>2, <1>3, <2>1, <2>3, MoveInput
  <2>5. /\ Contents' \in Seq(Element) /\ Len(Contents') = d + Len(s)
        /\ \A k \in 1 .. d + Len(s) :
             Contents'[k] = buffer'[After(oPtr, k - 1)]
    <3>1. /\ Contents' \in Seq(Element)
          /\ Len(Contents') = DataSize(iPtr, oPtr)'
          /\ \A k \in 1 .. DataSize(iPtr, oPtr)' :
               Contents'[k] = buffer'[After(oPtr', k - 1)]
      BY <1>1, ContentsSeqNext DEF ContentsInPlace
    <3> QED
      BY <1>3, <2>4, <3>1
  <2>6. ASSUME NEW k \in 1 .. d + Len(s)
        PROVE  Contents'[k] = IF k <= d THEN Contents[k] ELSE s[k - d]
    <3>1. k - 1 \in 0 .. Length /\ k - 1 \in Nat
      BY <1>2, <1>4, <2>1, LengthAssumption
    <3>2. After(oPtr, k - 1) \in Positions
      BY <1>3, <3>1, AfterInBuffer
    <3>3. CASE k <= d
      <4>1. Distance(iPtr, After(oPtr, k - 1)) >= FreeSpace(iPtr, oPtr)
        BY <1>3, <1>4, <3>1, <3>3, UnreadOutOfReach
      <4>2. ~(Distance(iPtr, After(oPtr, k - 1)) < Len(s))
        BY <1>2, <1>3, <1>4, <2>1, <3>2, <4>1, LengthAssumption
           DEF Distance, Positions
      <4>3. k \in 1 .. d
        BY <1>2, <1>4, <3>3
      <4>4. buffer'[After(oPtr, k - 1)] = buffer[After(oPtr, k - 1)]
        BY <2>3, <3>2, <4>2
      <4> QED
        BY <1>5, <2>5, <3>3, <4>3, <4>4
    <3>4. CASE ~(k <= d)
      <4>1. k - 1 - d \in Nat /\ k - 1 - d < Len(s)
            /\ d + (k - 1 - d) = k - 1 /\ (k - 1 - d) + 1 = k - d
        BY <1>2, <1>4, <3>4
      <4>2. k - 1 - d < FreeSpace(iPtr, oPtr)
        BY <1>2, <1>4, <2>1, <4>1, LengthAssumption
      <4>3. Distance(iPtr, After(oPtr, k - 1)) = k - 1 - d
        BY <1>3, <4>1, <4>2, BatchInReach
      <4> QED
        BY <2>3, <2>5, <3>2, <3>4, <4>1, <4>3
    <3> QED
      BY <3>3, <3>4
  <2>7. /\ Contents \o s \in Seq(Element)
        /\ Len(Contents \o s) = d + Len(s)
        /\ \A k \in 1 .. d + Len(s) :
             (Contents \o s)[k] = IF k <= d THEN Contents[k] ELSE s[k - d]
    <3>1. /\ Contents \o s \in Seq(Element)
          /\ Len(Contents \o s) = Len(Contents) + Len(s)
          /\ \A k \in 1 .. Len(Contents) + Len(s) :
               (Contents \o s)[k] = IF k <= Len(Contents)
                                      THEN Contents[k]
                                      ELSE s[k - Len(Contents)]
      BY <1>2, <1>5, ConcatProperties
    <3> QED
      BY <1>5, <3>1
  <2>8. Contents' = Contents \o s
    BY <2>5, <2>6, <2>7, SeqEqual
  <2> QED
    BY <2>2, <2>3, <2>8 DEF Fifo!Put, Answer, Fifo!Answer
<1> QED
  BY <1>6, <1>7

(* getData() accepts a request exactly when the FIFO does, and then takes  *)
(* the oldest elements out.                                                *)
LEMMA ImplementsTake ==
  ASSUME TypeOK, NEW n \in 0 .. MaxBatch, GetData(n)
  PROVE  Fifo!Take(n)
<1> DEFINE d == DataSize(iPtr, oPtr)
<1>1. TypeOK'
  BY TypeGetData
<1>2. n \in Nat
  BY RingBufferAssumption
<1>3. /\ iPtr \in Positions /\ oPtr \in Positions
      /\ buffer' = buffer /\ iPtr' = iPtr
  BY DEF TypeOK, GetData
<1>4. d \in Nat /\ d <= Length
  BY <1>3, Sizes, LengthAssumption
<1>5. /\ Contents \in Seq(Element) /\ Len(Contents) = d
      /\ \A k \in 1 .. d : Contents[k] = buffer[After(oPtr, k - 1)]
  BY ContentsSeq DEF ContentsInPlace
<1>6. CASE Underflows(n, iPtr, oPtr)
  <2>1. ~(n <= Len(Contents))
    BY <1>2, <1>4, <1>5, <1>6 DEF Underflows
  <2>2. /\ UNCHANGED <<buffer, iPtr, oPtr>>
        /\ result' = Answer(FALSE, <<>>) /\ call' = <<"getData", n>>
    BY <1>3, <1>6 DEF GetData
  <2>3. Contents' = Contents
    BY <2>2 DEF Contents, ReadOut
  <2> QED
    BY <2>1, <2>2, <2>3 DEF Fifo!Take, Answer, Fifo!Answer
<1>7. CASE ~Underflows(n, iPtr, oPtr)
  <2>1. n <= d
    BY <1>2, <1>4, <1>7 DEF Underflows
  <2>2. /\ oPtr' = After(oPtr, n) /\ result' = Answer(TRUE, ReadOut(n))
        /\ call' = <<"getData", n>>
    BY <1>7 DEF GetData
  <2>3. DataSize(iPtr, oPtr)' = d - n
    BY <1>2, <1>3, <2>1, <2>2, MoveOutput
  <2>4. /\ Contents' \in Seq(Element) /\ Len(Contents') = d - n
        /\ \A k \in 1 .. d - n : Contents'[k] = buffer[After(oPtr', k - 1)]
    <3>1. /\ Contents' \in Seq(Element)
          /\ Len(Contents') = DataSize(iPtr, oPtr)'
          /\ \A k \in 1 .. DataSize(iPtr, oPtr)' :
               Contents'[k] = buffer'[After(oPtr', k - 1)]
      BY <1>1, ContentsSeqNext DEF ContentsInPlace
    <3> QED
      BY <1>3, <2>3, <3>1
  <2>5. ASSUME NEW k \in 1 .. d - n
        PROVE  Contents'[k] = Contents[n + 1 + k - 1]
    <3>1. k - 1 \in Nat /\ n + (k - 1) <= d
      BY <1>2, <1>4, <2>1
    <3>2. After(After(oPtr, n), k - 1) = After(oPtr, n + (k - 1))
      BY <1>2, <1>3, <2>1, <3>1, MoveOutput
    <3>3. /\ n + 1 + k - 1 \in 1 .. d
          /\ (n + 1 + k - 1) - 1 = n + (k - 1)
      BY <1>2, <1>4, <2>1
    <3>4. Contents[n + 1 + k - 1] = buffer[After(oPtr, n + (k - 1))]
      BY <1>5, <3>3
    <3> QED
      BY <2>2, <2>4, <3>2, <3>4
  <2>6. /\ SubSeq(Contents, n + 1, d) \in Seq(Element)
        /\ Len(SubSeq(Contents, n + 1, d)) = d - n
        /\ \A k \in 1 .. d - n :
             SubSeq(Contents, n + 1, d)[k] = Contents[n + 1 + k - 1]
    <3>1. \A k \in n + 1 .. d : Contents[k] \in Element
      BY <1>2, <1>4, <1>5, ElementOfSeq
    <3>2. n + 1 \in Int /\ d \in Int
      BY <1>2, <1>4
    <3>3. /\ SubSeq(Contents, n + 1, d) \in Seq(Element)
          /\ Len(SubSeq(Contents, n + 1, d))
               = IF n + 1 <= d THEN d - (n + 1) + 1 ELSE 0
          /\ \A k \in 1 .. d - (n + 1) + 1 :
               SubSeq(Contents, n + 1, d)[k] = Contents[n + 1 + k - 1]
      BY <3>1, <3>2, SubSeqProperties
    <3> QED
      BY <1>2, <1>4, <2>1, <3>3
  <2>7. Contents' = SubSeq(Contents, n + 1, d)
    BY <2>4, <2>5, <2>6, SeqEqual
  <2>8. ReadOut(n) = SubSeq(Contents, 1, n)
    BY <1>2, <2>1, ReadOutPrefix
  <2> QED
    BY <1>5, <2>1, <2>2, <2>7, <2>8
       DEF Fifo!Take, Fifo!Prefix, Answer, Fifo!Answer
<1> QED
  BY <1>6, <1>7

(* peek() answers like getData() and takes nothing out.                    *)
LEMMA ImplementsLook ==
  ASSUME TypeOK, NEW n \in 0 .. MaxBatch, Peek(n)
  PROVE  Fifo!Look(n)
<1>1. n \in Nat /\ DataSize(iPtr, oPtr) \in Nat
  BY RingBufferAssumption, Sizes DEF TypeOK
<1>2. Len(Contents) = DataSize(iPtr, oPtr)
  BY ContentsSeq DEF ContentsInPlace
<1>3. UNCHANGED <<buffer, iPtr, oPtr>>
  BY DEF Peek
<1>4. Contents' = Contents
  BY <1>3 DEF Contents, ReadOut
<1>5. CASE Underflows(n, iPtr, oPtr)
  BY <1>1, <1>2, <1>4, <1>5
     DEF Peek, Underflows, Fifo!Look, Answer, Fifo!Answer
<1>6. CASE ~Underflows(n, iPtr, oPtr)
  <2>1. n <= DataSize(iPtr, oPtr)
    BY <1>1, <1>6 DEF Underflows
  <2>2. ReadOut(n) = SubSeq(Contents, 1, n)
    BY <1>1, <2>1, ReadOutPrefix
  <2> QED
    BY <1>2, <1>4, <1>6, <2>1, <2>2
       DEF Peek, Fifo!Look, Fifo!Prefix, Answer, Fifo!Answer
<1> QED
  BY <1>5, <1>6

(* Equal pointers mean an empty ring.                                      *)
LEMMA EqualPointersEmpty ==
  ASSUME iPtr = oPtr
  PROVE  Contents = <<>>
<1>1. DataSize(iPtr, oPtr) = 0
  BY LengthAssumption DEF DataSize, FreeSpace
<1> QED
  BY <1>1 DEF Contents, ReadOut

LEMMA EqualPointersEmptyNext ==
  ASSUME iPtr' = oPtr'
  PROVE  Contents' = <<>>
<1>1. DataSize(iPtr', oPtr') = 0
  BY LengthAssumption DEF DataSize, FreeSpace
<1> QED
  BY <1>1 DEF Contents, ReadOut

LEMMA ImplementsReset == Clear => Fifo!Reset
<1>1. Clear => Contents' = <<>>
  BY EqualPointersEmptyNext DEF Clear
<1> QED
  BY <1>1 DEF Clear, Fifo!Reset, Answer, Fifo!Answer

LEMMA ImplementsInit == Init => Fifo!Init
<1>1. Init => Contents = <<>>
  BY EqualPointersEmpty DEF Init
<1> QED
  BY <1>1 DEF Init, Fifo!Init, Answer, Fifo!Answer

LEMMA ImplementsNext == TypeOK /\ [Next]_vars => [Fifo!Next]_(Fifo!vars)
<1> SUFFICES ASSUME TypeOK, [Next]_vars
             PROVE  [Fifo!Next]_(Fifo!vars)
  OBVIOUS
<1>1. ASSUME NEW s \in Batches, AddData(s)
      PROVE  Fifo!Next
  BY <1>1, ImplementsPut DEF Fifo!Next, Fifo!Batches, Batches
<1>2. ASSUME NEW n \in 0 .. MaxBatch, GetData(n)
      PROVE  Fifo!Next
  BY <1>2, ImplementsTake DEF Fifo!Next
<1>3. ASSUME NEW n \in 0 .. MaxBatch, Peek(n)
      PROVE  Fifo!Next
  BY <1>3, ImplementsLook DEF Fifo!Next
<1>4. ASSUME Clear
      PROVE  Fifo!Next
  BY <1>4, ImplementsReset DEF Fifo!Next
<1>5. CASE UNCHANGED vars
  <2>1. UNCHANGED <<buffer, iPtr, oPtr, call, result>>
    BY <1>5 DEF vars
  <2>2. Contents' = Contents
    BY <2>1 DEF Contents, ReadOut
  <2> QED
    BY <2>1, <2>2 DEF Fifo!vars
<1> QED
  BY <1>1, <1>2, <1>3, <1>4, <1>5 DEF Next

(* The ring buffer implements the all-or-nothing FIFO of m_length - 1      *)
(* elements, for every m_length: nothing is lost, repeated or reordered    *)
(* when the pointers go round, and a refused call changes nothing          *)
(* (RingBuffer.h:50-124).                                                  *)
THEOREM RingBufferImplementsFifo == Spec => ImplementsFifo
<1>1. Init => Fifo!Init
  BY ImplementsInit
<1>2. TypeOK /\ [Next]_vars => [Fifo!Next]_(Fifo!vars)
  BY ImplementsNext
<1> QED
  BY <1>1, <1>2, TypeCorrect, PTL DEF Spec, ImplementsFifo, Fifo!Spec

=============================================================================
