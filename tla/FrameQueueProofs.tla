-------------------------- MODULE FrameQueueProofs --------------------------
(***************************************************************************)
(* Proofs about the frame queue under every interleaving of write() and    *)
(* entry(), for every length of the ring, every size of the length field   *)
(* and every size of the messages.  The pointers stay in the buffer, and   *)
(* no byte is overwritten before it has been read.  Every fault has one of *)
(* the four causes, and without an overlap of the two threads only the     *)
(* exact fit is left.                                                      *)
(***************************************************************************)
EXTENDS FrameQueue, TLAPS

(* Where write() and entry() are, and what their pointers may be there.    *)
WriterInv ==
  /\ wDone # {} => wpc \in {"length", "payload"}
  /\ "bump" \in wDone => iPtr >= 1
  /\ "bump" \notin wDone => iPtr < Length
  /\ wpc \in {"idle", "freeSpace", "addLength"} => wpos = 0
  /\ wpc = "length" => wpos < HeaderSize
  /\ wpc = "addPayload" => wpos = HeaderSize
  /\ wpc = "payload" => wpos >= HeaderSize /\ wpos < FrameLength(wmsg)

ReaderInv ==
  /\ rDone # {} => rpc \in {"length", "payload", "discard"}
  /\ "bump" \in rDone => oPtr >= 1
  /\ "bump" \notin rDone => oPtr < Length

(* What write() still has to put in has room behind the bytes that are not *)
(* taken out, however old the m_oPtr is that it was tested with.           *)
InPart == IF "bump" \in wDone THEN 1 ELSE 0
Left ==
  CASE wpc = "length"  -> HeaderSize - wpos - InPart
    [] wpc = "payload" -> FrameLength(wmsg) - wpos - InPart
    [] OTHER           -> 0
Filled == DataSize(Wrap(iPtr), Wrap(oSeen))
RoomInv ==
  wpc \in {"addLength", "length", "addPayload", "payload"} =>
    Len(unread) <= Filled /\ Filled + Left < Length

(* The byte write() is putting in.                                         *)
ByteInv ==
  /\ "bump" \in wDone /\ unread # <<>> => unread[Len(unread)] = PutByte
  /\ wDone = {"store"} => cells[iPtr] = PutByte
  /\ InFlight /\ unread = <<>> /\ rDone = {"bump"} => due = PutByte

IInv ==
  /\ TypeOK /\ WriterInv /\ ReaderInv
  /\ fault # "phantom" => RoomInv /\ ByteInv
  /\ UnreadIntact


-----------------------------------------------------------------------------
(* Types.                                                                  *)

Byte == Bytes \cup {None}

RingType ==
  /\ cells \in [Positions -> Byte]
  /\ iPtr \in Pointers /\ oPtr \in Pointers
WriterType ==
  /\ todo \subseteq Message
  /\ wpc \in {"idle", "freeSpace", "addLength", "length", "addPayload", "payload"}
  /\ wmsg \in Message \cup {None}
  /\ wpc # "idle" => wmsg \in Message
  /\ wpos \in Nat /\ wDone \subseteq {"bump", "store"} /\ oSeen \in Pointers
ReaderType ==
  /\ rpc \in {"connect", "top", "reconnect", "isEmpty", "getLength", "length",
              "getPayload", "payload", "send", "readLine", "drain", "discard",
              "done", "abort", "undefined"}
  /\ want \in Nat /\ taken \in Seq(Byte)
  /\ rDone \subseteq {"bump", "load"} /\ iSeen \in Pointers
FlagType == connected \in BOOLEAN /\ exit \in BOOLEAN
HistoryType ==
  /\ unread \in Seq(Bytes) /\ due \in Byte /\ torn \in BOOLEAN
  /\ committed \in Seq(Message)
  /\ handed \in Seq(Seq(Byte) \cup {Garbage})
  /\ fault \in {"none", "overflow", "underflow", "stale", "phantom"}

LEMMA Types ==
  TypeOK <=> /\ RingType /\ WriterType /\ ReaderType /\ FlagType /\ HistoryType
             /\ overlapped \in BOOLEAN
BY DEF TypeOK, RingType, WriterType, ReaderType, FlagType, HistoryType, Byte

LEMMA Numbers ==
  /\ Length \in Nat /\ Length > 0 /\ HeaderSize \in Nat /\ HeaderSize > 0
  /\ \A m \in Message : Size[m] \in Nat /\ FrameLength(m) = HeaderSize + Size[m]
  /\ 0 \in Pointers /\ 0 \in Positions /\ Positions \subseteq Pointers
BY LengthAssumption, HeaderAssumption, MessageAssumption
   DEF FrameLength, Pointers, Positions

LEMMA WrapType ==
  ASSUME NEW p \in Pointers
  PROVE  Wrap(p) \in Positions
BY LengthAssumption DEF Wrap, Pointers, Positions

LEMMA PutByteType ==
  ASSUME WriterType, WriterInv, wpc \in {"length", "payload"}
  PROVE  PutByte \in Bytes
<1>1. wmsg \in Message /\ wpos + 1 \in 1 .. FrameLength(wmsg)
  BY Numbers DEF WriterType, WriterInv
<1> QED
  BY <1>1 DEF PutByte, Bytes

LEMMA NoteType ==
  ASSUME NEW f \in {"overflow", "underflow", "stale", "phantom"}, Note(f),
         HistoryType
  PROVE  /\ fault' \in {"none", "overflow", "underflow", "stale", "phantom"}
         /\ fault' # "phantom" => fault # "phantom"
BY DEF Note, HistoryType

LEMMA TypeWriteStep ==
  ASSUME TypeOK, WriterInv, Write
  PROVE  RingType' /\ WriterType' /\ ReaderType' /\ FlagType' /\ HistoryType'
<1> USE DEF RingType, WriterType, ReaderType, FlagType, HistoryType
<1>0. RingType /\ WriterType /\ ReaderType /\ FlagType /\ HistoryType
  BY Types
<1>1. ASSUME NEW m \in Message, Call(m)
      PROVE  RingType' /\ WriterType' /\ ReaderType' /\ FlagType' /\ HistoryType'
  BY <1>0, <1>1 DEF Call, ring, reader, flags, history
<1>2. CASE CheckFreeSpace
  BY <1>0, <1>2, Numbers DEF CheckFreeSpace, Return, ring, reader, flags, history
<1>3. CASE AddLength
  <2>1. PICK o \in {oSeen, oPtr} :
          \/ Return /\ UNCHANGED committed
          \/ /\ wpc' = "length" /\ oSeen' = o /\ committed' = Append(committed, wmsg)
             /\ UNCHANGED <<wmsg, wpos>>
    BY <1>3 DEF AddLength
  <2>2. o \in Pointers /\ wmsg \in Message
    BY <1>0, <1>3 DEF AddLength
  <2>3. WriterType' /\ committed' \in Seq(Message)
    <3>1. CASE Return /\ UNCHANGED committed
      BY <1>0, <1>3, <3>1, Numbers DEF AddLength, Return
    <3>2. CASE /\ wpc' = "length" /\ oSeen' = o
               /\ committed' = Append(committed, wmsg) /\ UNCHANGED <<wmsg, wpos>>
      BY <1>0, <1>3, <2>2, <3>2 DEF AddLength
    <3> QED
      BY <2>1, <3>1, <3>2
  <2> QED
    BY <1>0, <1>3, <2>3 DEF AddLength, ring, reader, flags
<1>4. CASE AddPayload
  <2>1. PICK o \in {oSeen, oPtr} :
          \/ Return /\ (Note("overflow") \/ UNCHANGED fault)
          \/ wpc' = "payload" /\ oSeen' = o /\ UNCHANGED <<wmsg, wpos, fault>>
    BY <1>4 DEF AddPayload
  <2>2. fault' \in {"none", "overflow", "underflow", "stale", "phantom"}
    BY <1>0, <2>1, NoteType
  <2> QED
    BY <1>0, <1>4, <2>1, <2>2, Numbers DEF AddPayload, Return, ring, reader, flags
<1>5. CASE PutBump
  <2>1. iPtr + 1 \in Pointers
    BY <1>0, <1>5, Numbers DEF PutBump, WriterInv, Pointers
  <2>2. unread' \in Seq(Bytes)
    BY <1>0, <1>5, PutByteType DEF PutBump
  <2> QED
    BY <1>0, <1>5, <2>1, <2>2 DEF PutBump, reader, flags
<1>6. CASE PutStore
  <2>1. cells' \in [Positions -> Byte]
    BY <1>0, <1>6, PutByteType DEF PutStore, Byte
  <2> QED
    BY <1>0, <1>6, <2>1 DEF PutStore, reader, flags, history
<1>7. CASE PutNext
  <2>1. iPtr' \in Pointers
    BY <1>0, <1>7, WrapType, Numbers DEF PutNext
  <2>2. wDone' = {} /\ todo' = todo
    BY <1>7 DEF PutNext
  <2>3. /\ wpc' \in {"idle", "length", "addPayload", "payload"}
        /\ wmsg' \in {wmsg, None} /\ (wpc' # "idle" => wmsg' = wmsg)
        /\ wpos' \in Nat /\ oSeen' \in Pointers
    BY <1>0, <1>7, Numbers DEF PutNext, Return, WriterInv
  <2>4. wpc # "idle"
    BY <1>7 DEF PutNext, WriterInv
  <2> QED
    BY <1>0, <1>7, <2>1, <2>2, <2>3, <2>4 DEF PutNext, reader, flags, history
<1> QED
  BY <1>1, <1>2, <1>3, <1>4, <1>5, <1>6, <1>7 DEF Write

LEMMA ReloadType ==
  ASSUME TypeOK, Reload
  PROVE  iSeen' \in Pointers /\ torn' \in BOOLEAN
BY DEF TypeOK, Reload, MidFrame

LEMMA LoadedByte ==
  ASSUME RingType, ReaderType, ReaderInv
  PROVE  cells[IF "bump" \in rDone THEN oPtr - 1 ELSE oPtr] \in Byte
<1>1. (IF "bump" \in rDone THEN oPtr - 1 ELSE oPtr) \in Positions
  BY LengthAssumption DEF RingType, ReaderInv, Pointers, Positions
<1> QED
  BY <1>1 DEF RingType

LEMMA GarbageType == <<>> \in Seq(Byte) /\ Garbage \in Seq(Byte)
<1>1. None \in Byte
  BY DEF Byte
<1> QED
  BY <1>1 DEF Garbage

LEMMA TypeEntryStep ==
  ASSUME TypeOK, ReaderInv, Entry
  PROVE  RingType' /\ WriterType' /\ ReaderType' /\ FlagType' /\ HistoryType'
<1> USE DEF RingType, WriterType, ReaderType, FlagType, HistoryType
<1>0. RingType /\ WriterType /\ ReaderType /\ FlagType /\ HistoryType
  BY Types
<1>1. CASE FirstConnect \/ LoopTop \/ Reconnect \/ ReadLine \/ GetNonsense
  <2>1. UNCHANGED <<ring, writer, want, taken, rDone, iSeen, exit, history>>
    BY <1>1 DEF FirstConnect, LoopTop, Reconnect, ReadLine, GetNonsense, flags
  <2>2. CASE LoopTop
    <3>1. connected' \in BOOLEAN
      BY <1>0, <2>2 DEF LoopTop, flags
    <3>2. rpc' \in {"drain", "isEmpty", "top", "reconnect"}
      BY <2>2 DEF LoopTop
    <3> QED
      BY <1>0, <2>1, <3>1, <3>2 DEF ring, writer, history
  <2>3. CASE FirstConnect \/ Reconnect \/ ReadLine \/ GetNonsense
    <3>1. rpc' \in {"top", "isEmpty", "undefined"} /\ connected' \in BOOLEAN
      BY <1>0, <2>3 DEF FirstConnect, Reconnect, ReadLine, GetNonsense, flags
    <3> QED
      BY <1>0, <2>1, <3>1 DEF ring, writer, history
  <2> QED
    BY <1>1, <2>2, <2>3
<1>2. CASE LookForFrame
  BY <1>0, <1>2 DEF LookForFrame, MidFrame, ring, writer, flags
<1>3. CASE GetLength
  <2>1. /\ rpc' \in {"abort", "length"} /\ want' \in {want, HeaderSize}
        /\ Note("underflow") \/ UNCHANGED fault
    BY <1>3 DEF GetLength
  <2>2. fault' \in {"none", "overflow", "underflow", "stale", "phantom"}
    BY <1>0, <2>1, NoteType
  <2>3. iSeen' \in Pointers /\ torn' \in BOOLEAN /\ taken' \in Seq(Byte)
    BY <1>3, ReloadType, GarbageType DEF GetLength
  <2> QED
    BY <1>0, <1>3, <2>1, <2>2, <2>3, Numbers DEF GetLength, ring, writer, flags
<1>4. CASE GetPayload
  <2>1. /\ rpc' \in {"abort", "undefined", "send", "payload"}
        /\ want' = want \/ \E m \in Message : want' = Size[m]
        /\ taken' \in {taken, <<>>, Garbage}
        /\ Note("underflow") \/ UNCHANGED fault
    BY <1>4 DEF GetPayload
  <2>2. fault' \in {"none", "overflow", "underflow", "stale", "phantom"}
    BY <1>0, <2>1, NoteType
  <2>3. iSeen' \in Pointers /\ torn' \in BOOLEAN /\ taken' \in Seq(Byte)
    BY <1>0, <1>4, <2>1, ReloadType, GarbageType DEF GetPayload
  <2> QED
    BY <1>0, <1>4, <2>1, <2>2, <2>3, Numbers DEF GetPayload, ring, writer, flags
<1>5. CASE TakeBump
  <2>1. oPtr + 1 \in Pointers
    BY <1>0, <1>5, Numbers DEF TakeBump, ReaderInv, Pointers
  <2>2. unread' \in Seq(Bytes) /\ due' \in Byte
    <3>1. CASE unread = <<>>
      BY <1>0, <1>5, <3>1 DEF TakeBump
    <3>2. CASE unread # <<>>
      <4>1. unread' = Tail(unread) /\ due' = Head(unread)
        BY <1>5, <3>2 DEF TakeBump
      <4>2. Tail(unread) \in Seq(Bytes) /\ Head(unread) \in Bytes
        BY <1>0, <3>2
      <4> QED
        BY <4>1, <4>2 DEF Byte
    <3> QED
      BY <3>1, <3>2
  <2>3. Note("phantom") \/ UNCHANGED fault
    BY <1>5 DEF TakeBump
  <2>4. fault' \in {"none", "overflow", "underflow", "stale", "phantom"}
    BY <1>0, <2>3, NoteType
  <2> QED
    BY <1>0, <1>5, <2>1, <2>2, <2>4 DEF TakeBump, writer, flags
<1>6. CASE TakeLoad
  <2>1. taken' \in Seq(Byte)
    BY <1>0, <1>6, LoadedByte DEF TakeLoad
  <2>2. Note("phantom") \/ Note("stale") \/ UNCHANGED fault
    BY <1>6 DEF TakeLoad, NoteUnless
  <2>3. fault' \in {"none", "overflow", "underflow", "stale", "phantom"}
    BY <1>0, <2>2, NoteType
  <2> QED
    BY <1>0, <1>6, <2>1, <2>3 DEF TakeLoad, ring, writer, flags
<1>7. CASE TakeNext
  <2>1. oPtr' \in Pointers
    BY <1>0, <1>7, WrapType, Numbers DEF TakeNext
  <2>2. rpc \in {"length", "payload", "discard"}
    BY <1>7 DEF TakeNext, ReaderInv
  <2>3. rpc' \in {"length", "getPayload", "payload", "send", "discard", "drain"}
    BY <1>7, <2>2 DEF TakeNext
  <2>4. rDone' = {}
    BY <1>7 DEF TakeNext
  <2> QED
    BY <1>0, <1>7, <2>1, <2>3, <2>4 DEF TakeNext, writer, flags, history
<1>8. CASE Send
  <2>1. handed' \in Seq(Seq(Byte) \cup {Garbage})
    BY <1>0, <1>8 DEF Send
  <2>2. /\ rpc' \in {"readLine", "top"} /\ connected' \in BOOLEAN
        /\ taken' = <<>> /\ want' = 0 /\ iSeen' = 0 /\ due' = None /\ torn' = FALSE
        /\ rDone' = rDone /\ fault' = fault /\ exit' = exit
        /\ unread' = unread /\ committed' = committed
    BY <1>0, <1>8 DEF Send
  <2>3. due' \in Byte
    BY <2>2 DEF Byte
  <2>4. RingType' /\ WriterType'
    BY <1>0, <1>8 DEF Send, ring, writer
  <2>5. ReaderType' /\ FlagType'
    BY <1>0, <2>2, Numbers, GarbageType
  <2> QED
    BY <1>0, <2>1, <2>2, <2>3, <2>4, <2>5
<1>9. CASE Drain
  <2>1. /\ iSeen' = iPtr /\ rpc' \in {"done", "discard"} /\ want' \in {want, 1}
        /\ taken' \in {taken, <<>>}
    BY <1>9 DEF Drain
  <2>2. taken' \in Seq(Byte)
    BY <1>0, <2>1, GarbageType
  <2> QED
    BY <1>0, <1>9, <2>1, <2>2 DEF Drain, ring, writer, flags, history
<1> QED
  BY <1>1, <1>2, <1>3, <1>4, <1>5, <1>6, <1>7, <1>8, <1>9 DEF Entry

-----------------------------------------------------------------------------
(* Where each thread is.  Neither moves the pointer of the other.          *)

LEMMA WriteFrame ==
  Write => UNCHANGED <<oPtr, reader, exit, connected, due, torn, handed>>
BY DEF Write, Call, CheckFreeSpace, AddLength, AddPayload, PutBump, PutStore,
       PutNext, ring, reader, flags, history

LEMMA EntryFrame ==
  Entry => UNCHANGED <<cells, iPtr, writer, exit, committed>>
BY DEF Entry, FirstConnect, LoopTop, Reconnect, LookForFrame, GetLength, GetPayload,
       GetNonsense, TakeBump, TakeLoad, TakeNext, Send, ReadLine, Drain, ring,
       flags, history

LEMMA WrapFacts ==
  ASSUME NEW p \in Pointers
  PROVE  /\ Wrap(p) \in Positions /\ Wrap(Wrap(p)) = Wrap(p) /\ Wrap(p) < Length
         /\ p < Length => Wrap(p) = p /\ p \in Positions /\ Wrap(p + 1) = After(p, 1)
         /\ p >= 1 => p - 1 \in Positions /\ Wrap(p) = After(p - 1, 1)
         /\ \A q \in Pointers :
              p >= 1 /\ q >= 1 /\ Wrap(p) = Wrap(q) => p = q
BY LengthAssumption DEF Wrap, After, Pointers, Positions

LEMMA WriterStep ==
  ASSUME TypeOK, WriterInv, Write
  PROVE  WriterInv'
<1> USE DEF WriterInv
<1>0. RingType /\ WriterType
  BY Types
<1>1. CASE \E m \in Message : Call(m)
  BY <1>0, <1>1 DEF Call, WriterType, ring
<1>2. CASE CheckFreeSpace
  BY <1>0, <1>2 DEF CheckFreeSpace, Return, WriterType, ring
<1>3. CASE AddLength
  BY <1>0, <1>3, Numbers DEF AddLength, Return, WriterType, ring
<1>4. CASE AddPayload
  <2>1. PICK o \in {oSeen, oPtr} :
          \/ Return
          \/ /\ wpc' = "payload" /\ UNCHANGED <<wmsg, wpos>>
             /\ Size[wmsg] # 0
    BY <1>4 DEF AddPayload
  <2>2. UNCHANGED <<iPtr, wDone>> /\ wDone = {}
    BY <1>4 DEF AddPayload, ring
  <2>3. CASE Return
    BY <2>2, <2>3 DEF Return
  <2>4. CASE wpc' = "payload" /\ UNCHANGED <<wmsg, wpos>> /\ Size[wmsg] # 0
    <3>1. wmsg \in Message /\ Size[wmsg] \in Nat /\ Size[wmsg] # 0
      BY <1>0, <1>4, <2>4, Numbers DEF AddPayload, WriterType
    <3>2. wpos' = HeaderSize /\ wpos' < FrameLength(wmsg)
      BY <1>4, <2>4, <3>1, Numbers DEF AddPayload
    <3> QED
      BY <2>2, <2>4, <3>2, Numbers DEF FrameLength
  <2> QED
    BY <2>1, <2>3, <2>4
<1>5. CASE PutBump
  <2>1. "bump" \in wDone' /\ iPtr' >= 1
    BY <1>0, <1>5 DEF PutBump, RingType, Pointers
  <2> QED
    BY <1>5, <2>1 DEF PutBump, FrameLength
<1>6. CASE PutStore
  BY <1>6 DEF PutStore, FrameLength
<1>7. CASE PutNext
  <2>1. wDone' = {} /\ iPtr' < Length
    BY <1>0, <1>7, WrapFacts DEF PutNext, RingType
  <2>2. wpc \in {"length", "payload"} /\ wmsg \in Message
    BY <1>0, <1>7 DEF PutNext, WriterType
  <2>3. CASE wpc = "payload" /\ wpos + 1 = FrameLength(wmsg)
    BY <1>7, <2>1, <2>3 DEF PutNext, Return
  <2>4. CASE ~(wpc = "payload" /\ wpos + 1 = FrameLength(wmsg))
    <3>1. /\ wpos' = wpos + 1 /\ wmsg' = wmsg
          /\ wpc' = IF wpos + 1 = HeaderSize THEN "addPayload" ELSE wpc
      BY <1>7, <2>4 DEF PutNext
    <3>2. FrameLength(wmsg) \in Nat
      BY <2>2, Numbers
    <3>3. FrameLength(wmsg)' = FrameLength(wmsg)
      BY <3>1 DEF FrameLength
    <3> QED
      BY <1>0, <2>1, <2>2, <2>4, <3>1, <3>2, <3>3, Numbers DEF WriterType
  <2> QED
    BY <2>3, <2>4
<1> QED
  BY <1>1, <1>2, <1>3, <1>4, <1>5, <1>6, <1>7 DEF Write

LEMMA ReaderStep ==
  ASSUME TypeOK, ReaderInv, Entry
  PROVE  ReaderInv'
<1> USE DEF ReaderInv
<1>0. RingType /\ ReaderType
  BY Types
<1>1. CASE FirstConnect \/ LoopTop \/ Reconnect \/ LookForFrame \/ GetLength
             \/ GetPayload
           \/ GetNonsense \/ Send \/ ReadLine \/ Drain
  <2>1. rDone' = rDone /\ oPtr' = oPtr /\ rDone = {}
    BY <1>1 DEF FirstConnect, LoopTop, Reconnect, LookForFrame, GetLength,
           GetPayload, GetNonsense, Send, ReadLine, Drain, ring
  <2> QED
    BY <2>1
<1>2. CASE TakeBump
  BY <1>0, <1>2 DEF TakeBump, RingType, Pointers
<1>3. CASE TakeLoad
  BY <1>3 DEF TakeLoad, ring
<1>4. CASE TakeNext
  BY <1>0, <1>4, WrapFacts DEF TakeNext, RingType
<1> QED
  BY <1>1, <1>2, <1>3, <1>4 DEF Entry

-----------------------------------------------------------------------------
(* What moving one pointer does to the bytes between the two.              *)

LEMMA PointerSteps ==
  ASSUME NEW i \in Positions, NEW o \in Positions
  PROVE  /\ DataSize(i, o) \in 0 .. Length - 1
         /\ i = After(o, DataSize(i, o))
         /\ DataSize(i, o) = 0 <=> i = o
         /\ DataSize(i, o) + 1 < Length =>
              DataSize(After(i, 1), o) = DataSize(i, o) + 1
         /\ DataSize(i, o) > 0 =>
              DataSize(i, After(o, 1)) = DataSize(i, o) - 1
BY LengthAssumption DEF DataSize, FreeSpace, After, Positions

LEMMA AfterFacts ==
  ASSUME NEW o \in Positions, NEW j \in 0 .. Length - 1
  PROVE  /\ After(o, j) \in Positions /\ After(o, 0) = o
         /\ j + 1 < Length => After(After(o, 1), j) = After(o, j + 1)
         /\ \A k \in 0 .. Length - 1 : After(o, j) = After(o, k) => j = k
BY LengthAssumption DEF After, Positions

LEMMA BeforeAfter ==
  ASSUME NEW o \in Positions, NEW w \in Positions, NEW n \in 1 .. Length - 1,
         After(w, 1) = After(o, n)
  PROVE  w = After(o, n - 1)
BY LengthAssumption DEF After, Positions

\* A pointer one cell behind the buffer's end counts as its first cell.
LEMMA FreeSpaceOfWrapped ==
  ASSUME NEW i \in Positions, NEW o \in Pointers
  PROVE  FreeSpace(i, o) = FreeSpace(i, Wrap(o))
BY LengthAssumption DEF FreeSpace, Wrap, Positions, Pointers

-----------------------------------------------------------------------------
(* The bytes in place: the three parts of UnreadIntact.                    *)

LengthRight == Len(unread) = DataSize(Wrap(iPtr), Wrap(oPtr))
CellsRight ==
  \A k \in 1 .. Len(unread) :
    \/ cells[After(Wrap(oPtr), k - 1)] = unread[k]
    \/ k = Len(unread) /\ InFlight
DueRight ==
  rDone = {"bump"} => \/ cells[oPtr - 1] = due
                      \/ unread = <<>> /\ InFlight
InPlace == LengthRight /\ CellsRight /\ DueRight

LEMMA IntactParts == UnreadIntact <=> (fault # "phantom" => InPlace)
BY DEF UnreadIntact, InPlace, LengthRight, CellsRight, DueRight

\* What holds of a queue that has not been overrun by its reader.
Sound == RoomInv /\ ByteInv /\ InPlace

LEMMA PhantomStays ==
  ASSUME TypeOK, Next, fault' # "phantom"
  PROVE  fault # "phantom"
<1>0. HistoryType
  BY Types
<1>1. CASE Write
  <2>1. UNCHANGED fault \/ Note("overflow")
    BY <1>1 DEF Write, Call, CheckFreeSpace, AddLength, AddPayload, PutBump,
       PutStore, PutNext, history
  <2> QED
    BY <1>0, <2>1, NoteType
<1>2. CASE Entry
  <2>1. UNCHANGED fault \/ Note("underflow") \/ Note("stale") \/ Note("phantom")
    BY <1>2 DEF Entry, FirstConnect, LoopTop, Reconnect, LookForFrame, GetLength,
           GetPayload, GetNonsense, TakeBump, TakeLoad, TakeNext, Send, ReadLine,
           Drain, history,
       NoteUnless
  <2> QED
    BY <1>0, <2>1, NoteType
<1>3. CASE Stop
  BY <1>3 DEF Stop, history
<1> QED
  BY <1>1, <1>2, <1>3 DEF Next

(* The steps of write() before and between its loops: nothing moves, and   *)
(* what is tested leaves room for what is to come.                         *)
LEMMA SoundTest ==
  ASSUME TypeOK, WriterInv, Sound,
         (\E m \in Message : Call(m)) \/ CheckFreeSpace \/ AddLength \/ AddPayload
  PROVE  Sound'
<1>0. RingType /\ WriterType /\ HistoryType
  BY Types
<1>1. /\ UNCHANGED <<cells, iPtr, oPtr, wDone, rDone, unread, due>>
      /\ wpc \in {"idle", "freeSpace", "addLength", "addPayload"}
  BY DEF Call, CheckFreeSpace, AddLength, AddPayload, ring, reader, history
<1>2. wDone = {} /\ iPtr \in Positions /\ Wrap(iPtr) = iPtr
  BY <1>0, <1>1, WrapFacts DEF WriterInv, RingType
<1>3. InPlace'
  BY <1>1 DEF Sound, InPlace, LengthRight, CellsRight, DueRight, InFlight
<1>4. ByteInv'
  BY <1>1, <1>2 DEF ByteInv, InFlight
<1>5. Len(unread) = DataSize(iPtr, Wrap(oPtr)) /\ Wrap(oPtr) \in Positions
  BY <1>0, <1>2, WrapFacts DEF Sound, InPlace, LengthRight, RingType
<1>6. RoomInv'
  <2>1. CASE \E m \in Message : Call(m)
    <3>1. wpc' \in {"idle", "freeSpace"}
      BY <2>1 DEF Call
    <3> QED
      BY <3>1 DEF RoomInv
  <2>2. CASE CheckFreeSpace
    <3>1. CASE Return
      BY <3>1 DEF Return, RoomInv
    <3>2. CASE wpc' = "addLength" /\ oSeen' = oPtr
      <4>1. Left' = 0 /\ Filled' = Len(unread)
        BY <1>1, <1>2, <1>5, <3>2 DEF Left, Filled
      <4>2. Len(unread) \in 0 .. Length - 1
        BY <1>2, <1>5, PointerSteps
      <4> QED
        BY <1>1, <4>1, <4>2, Numbers DEF RoomInv
    <3> QED
      BY <2>2, <3>1, <3>2 DEF CheckFreeSpace
  <2>3. ASSUME NEW o \in {oSeen, oPtr}, NEW n \in Nat,
               ~Overflows(n, iPtr, o), oSeen' = o, Left' = n,
               wpc \in {"addLength", "addPayload"}
        PROVE  RoomInv'
    <3>1. o \in Pointers
      BY <1>0, <2>3 DEF RingType, WriterType
    <3>2. Filled' = DataSize(iPtr, Wrap(o)) /\ Wrap(o) \in Positions
      BY <1>1, <1>2, <2>3, <3>1, WrapFacts DEF Filled
    <3>3. n < FreeSpace(iPtr, Wrap(o))
      <4>1. FreeSpace(iPtr, Wrap(o)) \in Int
        BY <1>2, <3>2, Numbers DEF FreeSpace, Positions
      <4> QED
        BY <1>2, <2>3, <3>1, <4>1, FreeSpaceOfWrapped DEF Overflows
    <3>4. Filled' + n < Length
      BY <1>2, <2>3, <3>2, <3>3, Numbers DEF DataSize, FreeSpace, Positions
    <3>5. Len(unread) <= Filled'
      <4>1. CASE o = oPtr
        BY <1>2, <1>5, <3>2, <4>1, PointerSteps, Numbers
      <4>2. CASE o = oSeen
        BY <1>2, <2>3, <3>2, <4>2 DEF Sound, RoomInv, Filled
      <4> QED
        BY <2>3, <4>1, <4>2
    <3> QED
      BY <1>1, <2>3, <3>4, <3>5 DEF RoomInv
  <2>4. CASE AddLength
    <3>1. CASE Return
      BY <3>1 DEF Return, RoomInv
    <3>2. CASE ~Return
      <4>1. PICK o \in {oSeen, oPtr} :
              /\ ~Overflows(HeaderSize, iPtr, o)
              /\ wpc' = "length" /\ oSeen' = o /\ wpos' = wpos
        BY <2>4, <3>2 DEF AddLength
      <4>2. wpos = 0 /\ wpc = "addLength"
        BY <2>4 DEF AddLength, WriterInv
      <4>3. Left' = HeaderSize
        BY <1>1, <1>2, <4>1, <4>2, Numbers DEF Left, InPart
      <4> QED
        BY <2>3, <4>1, <4>2, <4>3, Numbers
    <3> QED
      BY <3>1, <3>2
  <2>5. CASE AddPayload
    <3>1. CASE Return
      BY <3>1 DEF Return, RoomInv
    <3>2. CASE ~Return
      <4>1. PICK o \in {oSeen, oPtr} :
              /\ ~Overflows(Size[wmsg], iPtr, o)
              /\ wpc' = "payload" /\ oSeen' = o /\ wpos' = wpos /\ wmsg' = wmsg
        BY <2>5, <3>2 DEF AddPayload
      <4>2. wpos = HeaderSize /\ wpc = "addPayload" /\ wmsg \in Message
        BY <1>0, <2>5 DEF AddPayload, WriterInv, WriterType
      <4>3. Size[wmsg] \in Nat
        BY <4>2, Numbers
      <4>4. Left' = Size[wmsg]
        BY <1>1, <1>2, <4>1, <4>2, <4>3, Numbers DEF Left, InPart, FrameLength
      <4> QED
        BY <2>3, <4>1, <4>2, <4>3, <4>4
    <3> QED
      BY <3>1, <3>2
  <2> QED
    BY <2>1, <2>2, <2>4, <2>5
<1> QED
  BY <1>3, <1>4, <1>6 DEF Sound

LEMMA SoundPutBump ==
  ASSUME TypeOK, WriterInv, Sound, PutBump
  PROVE  Sound'
<1> DEFINE i == Wrap(iPtr)
           o == Wrap(oPtr)
           n == Len(unread)
<1>0. RingType /\ WriterType /\ ReaderType /\ HistoryType
  BY Types
<1>1. /\ UNCHANGED <<cells, oPtr, wpc, wmsg, wpos, oSeen, rDone, due>>
      /\ wpc \in {"length", "payload"} /\ "bump" \notin wDone
      /\ iPtr' = iPtr + 1 /\ wDone' = wDone \cup {"bump"}
      /\ unread' = Append(unread, PutByte)
  BY DEF PutBump, reader
<1>2. /\ iPtr \in Positions /\ i = iPtr /\ o \in Positions
      /\ Wrap(iPtr + 1) = After(iPtr, 1)
  BY <1>0, <1>1, WrapFacts DEF WriterInv, RingType
<1>3. PutByte' = PutByte /\ ~InFlight
  BY <1>1 DEF PutByte, InFlight
<1>4. /\ n \in Nat /\ Len(unread') = n + 1 /\ unread'[n + 1] = PutByte
      /\ \A k \in 1 .. n : unread'[k] = unread[k]
  BY <1>0, <1>1, PutByteType DEF HistoryType
<1>5. Left \in Nat /\ Left >= 1 /\ Left' = Left - 1
  <2>1. wmsg \in Message /\ FrameLength(wmsg) \in Nat
    BY <1>0, <1>1, Numbers DEF WriterType
  <2>2. FrameLength(wmsg)' = FrameLength(wmsg)
    BY <1>1 DEF FrameLength
  <2> QED
    BY <1>0, <1>1, <2>1, <2>2, Numbers DEF Left, InPart, WriterInv, WriterType
<1>6. n = DataSize(i, o) /\ n <= Filled /\ Filled + Left < Length
  BY <1>1 DEF Sound, InPlace, LengthRight, RoomInv
<1>7. Filled \in 0 .. Length - 1 /\ Filled' = Filled + 1
  <2>1. Wrap(oSeen) \in Positions
    BY <1>0, WrapFacts DEF WriterType
  <2>2. Filled = DataSize(iPtr, Wrap(oSeen))
    BY <1>2 DEF Filled
  <2>3. Filled' = DataSize(After(iPtr, 1), Wrap(oSeen))
    BY <1>1, <1>2 DEF Filled
  <2>4. Filled \in 0 .. Length - 1 /\ Filled + 1 < Length
    BY <1>2, <1>5, <1>6, <2>1, <2>2, PointerSteps, Numbers
  <2> QED
    BY <1>2, <2>1, <2>2, <2>3, <2>4, PointerSteps
<1>8. n + 1 < Length
  BY <1>4, <1>5, <1>6, <1>7, Numbers
<1>9. RoomInv'
  BY <1>4, <1>5, <1>6, <1>7, Numbers DEF RoomInv
<1>10. ByteInv'
  <2>1. unread' # <<>> /\ wDone' # {"store"}
    BY <1>1, <1>4
  <2> QED
    BY <1>3, <1>4, <2>1 DEF ByteInv
<1>11. LengthRight'
  BY <1>1, <1>2, <1>4, <1>6, <1>8, PointerSteps DEF LengthRight
<1>12. CellsRight'
  <2> SUFFICES ASSUME NEW k \in 1 .. n + 1
               PROVE  \/ cells[After(o, k - 1)] = unread'[k]
                      \/ k = n + 1 /\ InFlight'
    BY <1>1, <1>4 DEF CellsRight
  <2>1. CASE k \in 1 .. n
    BY <1>3, <1>4, <2>1 DEF Sound, InPlace, CellsRight
  <2>2. CASE k = n + 1
    <3>1. CASE wDone = {}
      BY <1>1, <2>2, <3>1 DEF InFlight
    <3>2. CASE wDone = {"store"}
      <4>1. After(o, k - 1) = iPtr
        BY <1>2, <1>4, <1>6, <2>2, PointerSteps
      <4> QED
        BY <1>4, <2>2, <3>2, <4>1 DEF Sound, ByteInv
    <3> QED
      BY <1>0, <1>1, <3>1, <3>2 DEF WriterType
  <2> QED
    BY <1>4, <2>1, <2>2
<1>13. DueRight'
  BY <1>1, <1>3 DEF Sound, InPlace, DueRight
<1> QED
  BY <1>9, <1>10, <1>11, <1>12, <1>13 DEF Sound, InPlace

LEMMA SoundPutStore ==
  ASSUME TypeOK, WriterInv, ReaderInv, Sound, PutStore
  PROVE  Sound'
<1> DEFINE i == Wrap(iPtr)
           o == Wrap(oPtr)
           n == Len(unread)
           w == IF InFlight THEN iPtr - 1 ELSE iPtr
<1>0. RingType /\ WriterType /\ ReaderType /\ HistoryType
  BY Types
<1>1. /\ UNCHANGED <<iPtr, oPtr, wpc, wmsg, wpos, oSeen, rDone, due, unread>>
      /\ wpc \in {"length", "payload"} /\ "store" \notin wDone
      /\ cells' = [cells EXCEPT ![w] = PutByte]
      /\ wDone' = wDone \cup {"store"}
  BY DEF PutStore, reader, history
<1>2. InFlight <=> wDone # {}
  BY <1>0, <1>1 DEF InFlight, WriterType
<1>3. i \in Positions /\ o \in Positions /\ w \in Positions
  BY <1>0, <1>1, <1>2, WrapFacts DEF RingType, WriterInv, InFlight
<1>4. /\ cells'[w] = PutByte
      /\ \A p \in Positions : p # w => cells'[p] = cells[p]
  BY <1>0, <1>1, <1>3 DEF RingType
<1>5. PutByte' = PutByte /\ ~InFlight' /\ InPart' = InPart
  BY <1>1, <1>2 DEF PutByte, InFlight, InPart
<1>6. /\ n = DataSize(i, o) /\ n \in 0 .. Length - 1 /\ i = After(o, n)
      /\ (n = 0 <=> i = o) /\ (n = 0 <=> unread = <<>>)
  BY <1>0, <1>3, PointerSteps DEF Sound, InPlace, LengthRight, HistoryType
<1>7. RoomInv'
  <2>1. FrameLength(wmsg)' = FrameLength(wmsg)
    BY <1>1 DEF FrameLength
  <2>2. Left' = Left /\ Filled' = Filled
    BY <1>1, <1>5, <2>1 DEF Left, Filled
  <2> QED
    BY <1>1, <2>2 DEF Sound, RoomInv
<1>8. ByteInv'
  <2>1. wDone' = {"store"} => cells'[iPtr'] = PutByte
    BY <1>1, <1>2, <1>4
  <2>2. "bump" \in wDone' => "bump" \in wDone
    BY <1>1
  <2> QED
    BY <1>1, <1>5, <2>1, <2>2 DEF Sound, ByteInv
<1>9. LengthRight'
  BY <1>1 DEF Sound, InPlace, LengthRight
<1>10. CASE InFlight
  <2>1. w = iPtr - 1 /\ iPtr >= 1 /\ i = After(w, 1)
    BY <1>0, <1>10, WrapFacts DEF RingType, WriterInv, InFlight
  <2>2. n > 0 => w = After(o, n - 1) /\ unread[n] = PutByte
    <3>1. n > 0 => w = After(o, n - 1)
      BY <1>3, <1>6, <2>1, BeforeAfter, Numbers
    <3> QED
      BY <1>6, <1>10, <3>1 DEF Sound, ByteInv, InFlight
  <2>3. CellsRight'
    <3> SUFFICES ASSUME NEW k \in 1 .. n
                 PROVE  cells'[After(o, k - 1)] = unread[k]
      BY <1>1 DEF CellsRight
    <3>1. k - 1 \in 0 .. Length - 1 /\ n - 1 \in 0 .. Length - 1 /\ n > 0
      BY <1>6, Numbers
    <3>2. CASE k = n
      BY <1>4, <2>2, <3>1, <3>2
    <3>3. CASE k # n
      <4>1. After(o, k - 1) # w /\ After(o, k - 1) \in Positions
        BY <1>3, <2>2, <3>1, <3>3, AfterFacts
      <4> QED
        BY <1>4, <3>3, <4>1 DEF Sound, InPlace, CellsRight
    <3> QED
      BY <3>2, <3>3
  <2>4. DueRight'
    <3> SUFFICES ASSUME rDone = {"bump"}
                 PROVE  cells'[oPtr - 1] = due
      BY <1>1 DEF DueRight
    <3>1. oPtr >= 1 /\ oPtr - 1 \in Positions
      BY <1>0, WrapFacts DEF RingType, ReaderInv
    <3>2. CASE iPtr = oPtr
      BY <1>4, <1>6, <1>10, <2>1, <3>2 DEF Sound, ByteInv
    <3>3. CASE iPtr # oPtr
      <4>1. i # o
        BY <1>0, <2>1, <3>1, <3>3, WrapFacts DEF RingType
      <4>2. cells[oPtr - 1] = due
        BY <1>6, <4>1 DEF Sound, InPlace, DueRight
      <4>3. oPtr - 1 # w
        BY <1>0, <2>1, <3>3 DEF RingType, Pointers
      <4> QED
        BY <1>4, <3>1, <4>2, <4>3
    <3> QED
      BY <3>2, <3>3
  <2> QED
    BY <1>7, <1>8, <1>9, <2>3, <2>4 DEF Sound, InPlace
<1>11. CASE ~InFlight
  <2>1. w = iPtr /\ i = iPtr /\ wDone = {}
    BY <1>0, <1>2, <1>11, WrapFacts DEF RingType, WriterInv
  <2>2. n + 1 < Length
    <3>1. wmsg \in Message /\ FrameLength(wmsg) \in Nat
      BY <1>0, <1>1, Numbers DEF WriterType
    <3>2. Left \in Nat /\ Left >= 1
      BY <1>0, <1>1, <2>1, <3>1, Numbers DEF Left, InPart, WriterInv, WriterType
    <3>3. Filled \in Int
      BY <1>0, <1>3, WrapFacts, PointerSteps DEF Filled, WriterType
    <3> QED
      BY <1>1, <1>6, <3>2, <3>3, Numbers DEF Sound, RoomInv
  <2>3. CellsRight'
    <3> SUFFICES ASSUME NEW k \in 1 .. n
                 PROVE  cells'[After(o, k - 1)] = unread[k]
      BY <1>1 DEF CellsRight
    <3>1. k - 1 \in 0 .. Length - 1 /\ n \in 0 .. Length - 1 /\ k - 1 # n
      BY <1>6, Numbers
    <3>2. After(o, k - 1) # w /\ After(o, k - 1) \in Positions
      BY <1>3, <1>6, <2>1, <3>1, AfterFacts
    <3> QED
      BY <1>4, <1>11, <3>2 DEF Sound, InPlace, CellsRight
  <2>4. DueRight'
    <3> SUFFICES ASSUME rDone = {"bump"}
                 PROVE  cells'[oPtr - 1] = due
      BY <1>1 DEF DueRight
    <3>1. oPtr - 1 \in Positions /\ o = After(oPtr - 1, 1)
      BY <1>0, WrapFacts DEF RingType, ReaderInv
    <3>2. iPtr = After(oPtr - 1, n + 1)
      BY <1>6, <2>1, <2>2, <3>1, AfterFacts
    <3>3. iPtr # oPtr - 1
      BY <1>6, <2>2, <3>1, <3>2, LengthAssumption DEF After, Positions
    <3> QED
      BY <1>4, <1>11, <2>1, <3>1, <3>3 DEF Sound, InPlace, DueRight
  <2> QED
    BY <1>7, <1>8, <1>9, <2>3, <2>4 DEF Sound, InPlace
<1> QED
  BY <1>10, <1>11

LEMMA SoundPutNext ==
  ASSUME TypeOK, WriterInv, Sound, PutNext
  PROVE  Sound'
<1>0. RingType /\ WriterType
  BY Types
<1>1. /\ UNCHANGED <<cells, oPtr, rDone, due, unread>>
      /\ wDone = {"bump", "store"} /\ wDone' = {}
      /\ Wrap(iPtr') = Wrap(iPtr)
      /\ wpc \in {"length", "payload"}
  BY <1>0, WrapFacts DEF PutNext, reader, history, RingType, WriterInv
<1>2. InPlace'
  <2>1. ~InFlight /\ ~InFlight'
    BY <1>1 DEF InFlight
  <2> QED
    BY <1>1, <2>1 DEF Sound, InPlace, LengthRight, CellsRight, DueRight
<1>3. ByteInv'
  BY <1>1 DEF ByteInv, InFlight
<1>4. RoomInv'
  <2>1. CASE wpc = "payload" /\ wpos + 1 = FrameLength(wmsg)
    <3>1. wpc' = "idle"
      BY <2>1 DEF PutNext, Return
    <3> QED
      BY <3>1 DEF RoomInv
  <2>2. CASE ~(wpc = "payload" /\ wpos + 1 = FrameLength(wmsg))
    <3>1. /\ wpos' = wpos + 1 /\ wmsg' = wmsg /\ oSeen' = oSeen
          /\ wpc' = IF wpos + 1 = HeaderSize THEN "addPayload" ELSE wpc
      BY <2>2 DEF PutNext
    <3>2. FrameLength(wmsg) \in Nat /\ FrameLength(wmsg)' = FrameLength(wmsg)
      BY <1>0, <1>1, <3>1, Numbers DEF WriterType, FrameLength
    <3>3. Left' = Left
      BY <1>0, <1>1, <3>1, <3>2, Numbers DEF Left, InPart, WriterInv, WriterType
    <3>4. Filled' = Filled
      BY <1>1, <3>1 DEF Filled
    <3> QED
      BY <1>1, <3>3, <3>4 DEF Sound, RoomInv
  <2> QED
    BY <2>1, <2>2
<1> QED
  BY <1>2, <1>3, <1>4 DEF Sound

(* The reader.  Taking a byte shifts the others; everything else it does   *)
(* leaves the ring as it is.                                               *)
LEMMA SoundTakeBump ==
  ASSUME TypeOK, WriterInv, ReaderInv, Sound, TakeBump, unread # <<>>
  PROVE  Sound'
<1> DEFINE i == Wrap(iPtr)
           o == Wrap(oPtr)
           n == Len(unread)
<1>0. RingType /\ WriterType /\ ReaderType /\ HistoryType
  BY Types
<1>1. /\ UNCHANGED <<cells, iPtr, wpc, wmsg, wpos, wDone, oSeen>>
      /\ "bump" \notin rDone /\ oPtr' = oPtr + 1
      /\ unread' = Tail(unread) /\ due' = Head(unread)
  BY DEF TakeBump, writer
<1>2. /\ oPtr \in Positions /\ o = oPtr /\ i \in Positions
      /\ Wrap(oPtr + 1) = After(oPtr, 1)
  BY <1>0, <1>1, WrapFacts DEF ReaderInv, RingType
<1>3. PutByte' = PutByte /\ InFlight' = InFlight /\ Left' = Left /\ Filled' = Filled
  BY <1>1 DEF PutByte, InFlight, Left, InPart, Filled, FrameLength
<1>4. n = DataSize(i, o) /\ n \in 1 .. Length - 1
  BY <1>0, <1>2, PointerSteps DEF Sound, InPlace, LengthRight, HistoryType
<1>5. /\ Len(unread') = n - 1 /\ due' = unread[1]
      /\ \A k \in 1 .. n - 1 : unread'[k] = unread[k + 1]
  BY <1>0, <1>1 DEF HistoryType
<1>6. RoomInv'
  <2>1. wpc \in {"addLength", "length", "addPayload", "payload"} => Filled \in Int
    BY <1>0, <1>2, WrapFacts, PointerSteps DEF Filled, WriterType
  <2> QED
    BY <1>1, <1>3, <1>4, <1>5, <2>1 DEF Sound, RoomInv
<1>7. ByteInv'
  <2>1. unread' # <<>> => unread'[n - 1] = unread[n]
    BY <1>0, <1>1, <1>4, <1>5 DEF HistoryType
  <2>2. unread' = <<>> => n = 1
    BY <1>5
  <2> QED
    BY <1>1, <1>3, <1>5, <2>1, <2>2 DEF Sound, ByteInv, InFlight
<1>8. LengthRight'
  BY <1>1, <1>2, <1>4, <1>5, PointerSteps DEF LengthRight
<1>9. CellsRight'
  <2> SUFFICES ASSUME NEW k \in 1 .. n - 1
               PROVE  \/ cells[After(After(oPtr, 1), k - 1)] = unread'[k]
                      \/ k = n - 1 /\ InFlight
    BY <1>1, <1>2, <1>3, <1>5 DEF CellsRight
  <2>1. After(After(oPtr, 1), k - 1) = After(oPtr, k) /\ k + 1 \in 1 .. n
    <3>1. k - 1 \in 0 .. Length - 1 /\ (k - 1) + 1 < Length
      BY <1>4, Numbers
    <3>2. After(After(oPtr, 1), k - 1) = After(oPtr, (k - 1) + 1)
      BY <1>2, <3>1, AfterFacts
    <3> QED
      BY <1>4, <3>2
  <2>2. \/ cells[After(oPtr, k)] = unread[k + 1]
        \/ k + 1 = n /\ InFlight
    BY <1>2, <2>1 DEF Sound, InPlace, CellsRight
  <2> QED
    BY <1>4, <1>5, <2>1, <2>2
<1>10. DueRight'
  <2>1. oPtr' - 1 = oPtr /\ After(oPtr, 0) = oPtr
    BY <1>1, <1>2, <1>4, AfterFacts DEF Positions
  <2>2. cells[oPtr] = unread[1] \/ (n = 1 /\ InFlight)
    BY <1>2, <1>4, <2>1 DEF Sound, InPlace, CellsRight
  <2>3. n = 1 => unread' = <<>>
    BY <1>0, <1>1, <1>5 DEF HistoryType
  <2> QED
    BY <1>1, <1>3, <1>5, <2>1, <2>2, <2>3 DEF DueRight
<1> QED
  BY <1>6, <1>7, <1>8, <1>9, <1>10 DEF Sound, InPlace

LEMMA SoundTakeNext ==
  ASSUME TypeOK, Sound, TakeNext
  PROVE  Sound'
<1>1. /\ UNCHANGED <<cells, iPtr, wpc, wmsg, wpos, wDone, oSeen, unread>>
      /\ rDone' = {} /\ Wrap(oPtr') = Wrap(oPtr)
  BY WrapFacts DEF TypeOK, TakeNext, writer, history
<1>2. /\ PutByte' = PutByte /\ InFlight' = InFlight /\ Left' = Left
      /\ Filled' = Filled
  BY <1>1 DEF PutByte, InFlight, Left, InPart, Filled, FrameLength
<1> QED
  BY <1>1, <1>2 DEF Sound, RoomInv, ByteInv, InPlace, LengthRight, CellsRight,
     DueRight

LEMMA SoundElsewhere ==
  ASSUME TypeOK, ReaderInv, Sound,
         \/ FirstConnect \/ LoopTop \/ Reconnect \/ LookForFrame \/ GetLength
         \/ GetPayload
         \/ GetNonsense \/ TakeLoad \/ Send \/ ReadLine \/ Drain \/ Stop
  PROVE  Sound'
<1>1. UNCHANGED <<cells, iPtr, oPtr, wpc, wmsg, wpos, wDone, oSeen, unread>>
  BY DEF FirstConnect, LoopTop, Reconnect, LookForFrame, GetLength, GetPayload,
         GetNonsense, TakeLoad, Send, ReadLine, Drain, Stop, ring, writer, history
<1>2. /\ PutByte' = PutByte /\ InFlight' = InFlight /\ Left' = Left
      /\ Filled' = Filled
  BY <1>1 DEF PutByte, InFlight, Left, InPart, Filled, FrameLength
<1>3. rDone' = {"bump"} => rDone = {"bump"} /\ due' = due
  <2>1. CASE TakeLoad
    BY <2>1 DEF TakeLoad
  <2>2. CASE Send
    BY <2>2 DEF Send, ReaderInv
  <2>3. CASE \/ FirstConnect \/ LoopTop \/ Reconnect \/ LookForFrame
             \/ GetLength \/ GetPayload
             \/ GetNonsense \/ ReadLine \/ Drain \/ Stop
    BY <2>3 DEF FirstConnect, LoopTop, Reconnect, LookForFrame, GetLength,
           GetPayload, GetNonsense, ReadLine, Drain, Stop, reader, history
  <2> QED
    BY <2>1, <2>2, <2>3
<1> QED
  BY <1>1, <1>2, <1>3 DEF Sound, RoomInv, ByteInv, InPlace, LengthRight,
     CellsRight, DueRight

-----------------------------------------------------------------------------
(* The invariant, and what follows from it.                                *)

LEMMA IInvInit == Init => IInv
<1> SUFFICES ASSUME Init PROVE IInv
  OBVIOUS
<1>1. 0 \in Positions /\ 0 \in Pointers /\ Length > 0 /\ Wrap(0) = 0
  BY Numbers, WrapFacts
<1>2. TypeOK
  BY <1>1, GarbageType DEF Init, TypeOK, Byte
<1>3. WriterInv /\ ReaderInv
  BY <1>1 DEF Init, WriterInv, ReaderInv
<1>4. RoomInv /\ ByteInv
  BY DEF Init, RoomInv, ByteInv, InFlight
<1>5. DataSize(0, 0) = 0
  BY LengthAssumption DEF DataSize, FreeSpace
<1>6. UnreadIntact
  BY <1>1, <1>5 DEF Init, UnreadIntact
<1> QED
  BY <1>2, <1>3, <1>4, <1>6 DEF IInv

LEMMA TypeStep ==
  ASSUME TypeOK, WriterInv, ReaderInv, Next
  PROVE  TypeOK'
<1>1. RingType' /\ WriterType' /\ ReaderType' /\ FlagType' /\ HistoryType'
  <2>1. CASE Write
    BY <2>1, TypeWriteStep
  <2>2. CASE Entry
    BY <2>2, TypeEntryStep
  <2>3. CASE Stop
    BY <2>3, Types DEF Stop, ring, writer, reader, history, RingType, WriterType,
       ReaderType, FlagType, HistoryType
  <2> QED
    BY <2>1, <2>2, <2>3 DEF Next
<1>2. overlapped' \in BOOLEAN
  BY DEF Next, Watch, TypeOK
<1> QED
  BY <1>1, <1>2 DEF TypeOK, RingType, WriterType, ReaderType, FlagType,
     HistoryType, Byte

LEMMA PlaceStep ==
  ASSUME TypeOK, WriterInv, ReaderInv, Next
  PROVE  WriterInv' /\ ReaderInv'
<1>1. CASE Write
  <2>1. ReaderInv'
    BY <1>1, WriteFrame DEF ReaderInv, reader
  <2> QED
    BY <1>1, <2>1, WriterStep
<1>2. CASE Entry
  <2>1. WriterInv'
    BY <1>2, EntryFrame DEF WriterInv, writer, FrameLength
  <2> QED
    BY <1>2, <2>1, ReaderStep
<1>3. CASE Stop
  BY <1>3 DEF Stop, ring, writer, reader, WriterInv, ReaderInv, FrameLength
<1> QED
  BY <1>1, <1>2, <1>3 DEF Next

LEMMA SoundStep ==
  ASSUME TypeOK, WriterInv, ReaderInv, Sound, Next, fault' # "phantom"
  PROVE  Sound'
<1>1. CASE Write
  BY <1>1, SoundTest, SoundPutBump, SoundPutStore, SoundPutNext DEF Write
<1>2. CASE TakeBump
  <2>1. unread # <<>>
    BY <1>2 DEF TakeBump, Note
  <2> QED
    BY <1>2, <2>1, SoundTakeBump
<1>3. CASE TakeNext
  BY <1>3, SoundTakeNext
<1>4. CASE \/ FirstConnect \/ LoopTop \/ Reconnect \/ LookForFrame \/ GetLength
           \/ GetPayload
           \/ GetNonsense \/ TakeLoad \/ Send \/ ReadLine \/ Drain \/ Stop
  BY <1>4, SoundElsewhere
<1> QED
  BY <1>1, <1>2, <1>3, <1>4 DEF Next, Entry

LEMMA IInvStep == IInv /\ [Next]_vars => IInv'
<1> SUFFICES ASSUME IInv, [Next]_vars
             PROVE  IInv'
  OBVIOUS
<1>1. CASE Next
  <2>1. TypeOK' /\ WriterInv' /\ ReaderInv'
    BY <1>1, TypeStep, PlaceStep DEF IInv
  <2>2. fault' # "phantom" => Sound'
    BY <1>1, PhantomStays, SoundStep, IntactParts DEF IInv, Sound
  <2> QED
    BY <2>1, <2>2 DEF IInv, Sound, InPlace, LengthRight, CellsRight, DueRight,
       UnreadIntact
<1>2. CASE UNCHANGED vars
  BY <1>2 DEF vars, ring, writer, reader, flags, history, IInv, TypeOK, WriterInv,
     ReaderInv, RoomInv, ByteInv, UnreadIntact, Left, InPart, Filled, FrameLength,
     PutByte, InFlight
<1> QED
  BY <1>1, <1>2

LEMMA IInvAlways == Spec => []IInv
BY IInvInit, IInvStep, PTL DEF Spec

(* The pointers never leave the buffer, and every value stays in its type, *)
(* under every interleaving of write(), entry() and stop() and for every   *)
(* length of the ring (RingBuffer.h:57-79).                                *)
THEOREM TypeCorrect == Spec => []TypeOK
<1>1. IInv => TypeOK
  BY DEF IInv
<1> QED
  BY <1>1, IInvAlways, PTL

(* No byte is overwritten before it has been read, for every length of the *)
(* ring, every size of the messages and however old the pointer is that    *)
(* addData() was tested with (RingBuffer.h:52-61): as long as the reader   *)
(* has not run past the writer, the cells between the pointers hold what   *)
(* was put in.                                                             *)
THEOREM NothingOverwritten == Spec => []UnreadIntact
<1>1. IInv => UnreadIntact
  BY DEF IInv
<1> QED
  BY <1>1, IInvAlways, PTL

-----------------------------------------------------------------------------
(* What is known as long as the reader has not run past the writer.        *)

(* The whole rest of the frame fits, if perhaps exactly, into the free     *)
(* space.                                                                  *)
Rest == FrameLength(wmsg) - wpos - InPart
FitInv ==
  wpc \in {"addLength", "length", "addPayload", "payload"} =>
    Filled + Rest <= Length

(* A getData() past its test has as many bytes before it as it still has   *)
(* to take, unless the m_iPtr it was tested with was about to wrap.        *)
Taking == rpc \in {"length", "payload", "discard"}
Bumped == Len(taken) - (IF "load" \in rDone THEN 1 ELSE 0)
                     + (IF "bump" \in rDone THEN 1 ELSE 0)
Seen == DataSize(iSeen, Wrap(oPtr))
CountInv ==
  Taking => want > Len(taken) - (IF "load" \in rDone THEN 1 ELSE 0)
SeenInv ==
  Dequeuing /\ iSeen # Length =>
    /\ Seen <= Len(unread)
    /\ Taking => want - Bumped <= Seen

-----------------------------------------------------------------------------
(* What is known as long as there was no fault at all.                     *)

\* The number of bytes of the present frame that write() has put in.
Putting == wpc \in {"length", "addPayload", "payload"}
Put == wpos + InPart

Ends(b) == b[2] = FrameLength(b[1])

(* The unread bytes are frames, one behind the other; the last one may     *)
(* still be on its way in.                                                 *)
ChainInv ==
  /\ \A k, l \in 1 .. Len(unread) :
       k <= l /\ unread[k][2] + (l - k) <= FrameLength(unread[k][1]) =>
         unread[l] = <<unread[k][1], unread[k][2] + (l - k)>>
  /\ \A k \in 1 .. Len(unread) - 1 : Ends(unread[k]) => unread[k + 1][2] = 1
LastInv ==
  unread # <<>> =>
    IF Putting /\ Put > 0 THEN unread[Len(unread)] = <<wmsg, Put>>
                          ELSE Ends(unread[Len(unread)])

(* The next byte the reader meets follows the one it took last.            *)
Fresh ==
  \/ rpc \in {"connect", "top", "reconnect", "isEmpty", "getLength", "readLine"}
  \/ rpc = "length" /\ Bumped = 0
Inside == rpc \in {"length", "getPayload", "payload", "send"} /\ ~Fresh
AtStart ==
  IF unread # <<>> THEN unread[1][2] = 1
                   ELSE Putting => Put \in {0, FrameLength(wmsg)}
InFrame(b) ==
  IF unread # <<>> THEN unread[1] = <<b[1], b[2] + 1>>
                   ELSE Putting /\ b = <<wmsg, Put>>
FollowsInv ==
  /\ Fresh => AtStart
  /\ Inside => due \in Bytes /\ IF Ends(due) THEN AtStart ELSE InFrame(due)

(* What the reader has taken is the beginning of one frame.                *)
LengthTaken ==
  /\ want = HeaderSize /\ Bumped \in Nat
  /\ Bumped > 0 => due[2] = Bumped
  /\ \A k \in 1 .. Len(taken) : k <= Bumped => taken[k] = <<due[1], k>>
  /\ Len(taken) > Bumped => unread # <<>> /\ taken[Len(taken)] = unread[1]
TakenInv ==
  /\ rpc = "length" => LengthTaken
  /\ rpc = "getPayload" => due[2] = HeaderSize /\ taken = Header(due[1])
  /\ rpc = "payload" => due[2] = HeaderSize + Bumped /\ want = Size[due[1]]
  /\ rpc = "send" => Ends(due)

(* What the reader has seen of the ring ends with a frame, unless it       *)
(* looked while a frame was half in.                                       *)
SeenEnds == Ends(unread[Seen])
TornInv ==
  iSeen # Length =>
    /\ rpc = "getLength" => Seen > 0
    /\ rpc \in {"getLength", "length", "getPayload"} /\ ~torn =>
         IF Seen > 0 THEN SeenEnds ELSE Inside /\ Ends(due)

NoPhantom == FitInv /\ CountInv /\ SeenInv
NoFault == ChainInv /\ LastInv /\ FollowsInv /\ TakenInv /\ TornInv

FInv ==
  /\ IInv
  /\ fault # "phantom" => NoPhantom
  /\ fault = "none" => NoFault

(* While the threads have not overlapped, the reader has looked at m_iPtr  *)
(* only when write() was not there.                                        *)
ApartInv ==
  ~overlapped =>
    /\ Apart
    /\ Dequeuing => iSeen # Length
    /\ rpc \in {"getLength", "length", "getPayload", "payload"} => ~torn

-----------------------------------------------------------------------------
(* write(): the rest of the frame keeps its room.                          *)

LEMMA FrameNumbers ==
  ASSUME TypeOK, WriterInv
  PROVE  /\ InPart \in {0, 1} /\ wpos \in Nat /\ Put \in Nat
         /\ wpc # "idle" => wmsg \in Message /\ FrameLength(wmsg) \in Nat
         /\ Putting => Put \in 0 .. FrameLength(wmsg)
         /\ Wrap(iPtr) \in Positions /\ Wrap(oPtr) \in Positions
         /\ Filled \in 0 .. Length - 1
<1>0. RingType /\ WriterType
  BY Types
<1>1. InPart \in {0, 1} /\ wpos \in Nat /\ Put \in Nat
  BY <1>0 DEF InPart, Put, WriterType
<1>2. wpc # "idle" => wmsg \in Message /\ FrameLength(wmsg) \in Nat
  BY <1>0, Numbers DEF WriterType
<1>3. Putting => Put \in 0 .. FrameLength(wmsg)
  <2>1. wpc = "addPayload" => InPart = 0
    BY DEF WriterInv, InPart
  <2> QED
    BY <1>0, <1>1, <1>2, <2>1, Numbers DEF Putting, Put, WriterInv, WriterType
<1>4. Wrap(iPtr) \in Positions /\ Wrap(oPtr) \in Positions /\ Wrap(oSeen) \in Positions
  BY <1>0, WrapFacts DEF RingType, WriterType
<1>5. Filled \in 0 .. Length - 1
  BY <1>4, PointerSteps DEF Filled
<1> QED
  BY <1>1, <1>2, <1>3, <1>4, <1>5

LEMMA FitWriteStep ==
  ASSUME TypeOK, WriterInv, Sound, FitInv, Write
  PROVE  FitInv'
<1> USE DEF FitInv
<1>0. RingType /\ WriterType /\ HistoryType /\ Length \in Nat
  BY Types, Numbers
<1>1. CASE \E m \in Message : Call(m)
  <2>1. wpc' \in {"idle", "freeSpace"}
    BY <1>1 DEF Call
  <2> QED
    BY <2>1
<1>2. CASE CheckFreeSpace
  <2>1. CASE Return
    BY <2>1 DEF Return
  <2>2. CASE ~Return
    <3>1. /\ ~NoSpace /\ oSeen' = oPtr
          /\ UNCHANGED <<iPtr, wmsg, wpos, wDone>> /\ wpc = "freeSpace"
      BY <1>2, <2>2 DEF CheckFreeSpace, ring
    <3>2. wDone = {} /\ iPtr \in Positions /\ Wrap(iPtr) = iPtr /\ wpos = 0
      BY <1>0, <3>1, WrapFacts DEF WriterInv, RingType
    <3>3. wmsg \in Message /\ Size[wmsg] \in Nat
      BY <1>0, <3>1, Numbers DEF WriterType
    <3>4. Filled' = DataSize(iPtr, Wrap(oPtr)) /\ Wrap(oPtr) \in Positions
      BY <1>0, <3>1, <3>2, WrapFacts DEF Filled, RingType
    <3>5. Rest' = HeaderSize + Size[wmsg]
      BY <3>1, <3>2, <3>3, Numbers DEF Rest, InPart, FrameLength
    <3>6. FreeSpace(iPtr, Wrap(oPtr)) >= Size[wmsg] + HeaderSize
      <4>1. FreeSpace(iPtr, Wrap(oPtr)) \in Int
        BY <3>2, <3>4, Numbers DEF FreeSpace, Positions
      <4>2. FreeSpace(iPtr, oPtr) = FreeSpace(iPtr, Wrap(oPtr))
        BY <1>0, <3>2, FreeSpaceOfWrapped DEF RingType
      <4> QED
        BY <3>1, <3>3, <4>1, <4>2, Numbers DEF NoSpace
    <3> QED
      BY <3>2, <3>3, <3>4, <3>5, <3>6, Numbers DEF DataSize, FreeSpace, Positions
  <2> QED
    BY <2>1, <2>2
<1>3. ASSUME NEW o \in {oSeen, oPtr}, oSeen' = o, Rest' = Rest,
             wpc \in {"addLength", "addPayload"}, iPtr' = iPtr
      PROVE  FitInv'
  <2>1. Filled' <= Filled
    <3>1. CASE o = oSeen
      BY <1>3, <3>1, FrameNumbers DEF Filled
    <3>2. CASE o = oPtr
      BY <1>3, <3>2 DEF Filled, Sound, InPlace, LengthRight, RoomInv
    <3> QED
      BY <1>3, <3>1, <3>2
  <2>2. Filled' \in Int /\ Filled \in Int /\ Rest \in Int
    <3>1. wmsg \in Message /\ FrameLength(wmsg) \in Nat
      BY <1>3, FrameNumbers
    <3>2. Filled' \in Int
      <4>1. Wrap(oSeen') \in Positions /\ Wrap(iPtr) \in Positions
        BY <1>0, <1>3, WrapFacts DEF RingType, WriterType
      <4> QED
        BY <1>3, <4>1, PointerSteps DEF Filled
    <3> QED
      BY <3>1, <3>2, FrameNumbers DEF Rest
  <2>3. Filled + Rest <= Length
    BY <1>3
  <2>4. Filled' + Rest' <= Length
    <3> DEFINE f == Filled
               g == Filled'
               r == Rest
    <3>1. g <= f /\ g \in Int /\ f \in Int /\ r \in Int /\ f + r <= Length
      BY <2>1, <2>2, <2>3
    <3>2. Rest' = r /\ Length \in Int
      BY <1>3, Numbers
    <3> HIDE DEF f, g, r
    <3>3. g + r <= Length
      BY <3>1, <3>2
    <3> QED
      BY <3>2, <3>3 DEF g
  <2> QED
    BY <2>4
<1>4. CASE AddLength
  <2>1. CASE Return
    BY <2>1 DEF Return
  <2>2. CASE ~Return
    <3>1. PICK o \in {oSeen, oPtr} : oSeen' = o /\ UNCHANGED <<wmsg, wpos>>
      BY <1>4, <2>2 DEF AddLength
    <3>2. iPtr' = iPtr /\ wDone' = wDone /\ wpc = "addLength"
      BY <1>4 DEF AddLength, ring
    <3>3. Rest' = Rest
      BY <3>1, <3>2 DEF Rest, InPart, FrameLength
    <3> QED
      BY <1>3, <3>1, <3>2, <3>3
  <2> QED
    BY <2>1, <2>2
<1>5. CASE AddPayload
  <2>1. CASE Return
    BY <2>1 DEF Return
  <2>2. CASE ~Return
    <3>1. PICK o \in {oSeen, oPtr} : oSeen' = o /\ UNCHANGED <<wmsg, wpos>>
      BY <1>5, <2>2 DEF AddPayload
    <3>2. iPtr' = iPtr /\ wDone' = wDone /\ wpc = "addPayload"
      BY <1>5 DEF AddPayload, ring
    <3>3. Rest' = Rest
      BY <3>1, <3>2 DEF Rest, InPart, FrameLength
    <3> QED
      BY <1>3, <3>1, <3>2, <3>3
  <2> QED
    BY <2>1, <2>2
<1>6. CASE PutBump
  <2>1. /\ UNCHANGED <<wpc, wmsg, wpos, oSeen>>
        /\ wpc \in {"length", "payload"} /\ "bump" \notin wDone
        /\ iPtr' = iPtr + 1 /\ wDone' = wDone \cup {"bump"}
    BY <1>6 DEF PutBump
  <2>2. wmsg \in Message /\ FrameLength(wmsg) \in Nat /\ Filled \in 0 .. Length - 1
    BY <2>1, FrameNumbers
  <2>3. Rest \in Int /\ Rest' = Rest - 1 /\ Left \in Nat /\ Left >= 1
    <3>1. FrameLength(wmsg)' = FrameLength(wmsg)
      BY <2>1 DEF FrameLength
    <3> QED
      BY <1>0, <2>1, <2>2, <3>1, Numbers DEF Rest, InPart, Left, WriterInv, WriterType
  <2>4. Filled + 1 < Length
    BY <1>0, <2>1, <2>2, <2>3 DEF Sound, RoomInv
  <2>5. Filled' = Filled + 1
    <3>1. Wrap(iPtr) = iPtr /\ iPtr \in Positions /\ Wrap(iPtr + 1) = After(iPtr, 1)
      BY <1>0, <2>1, WrapFacts DEF WriterInv, RingType
    <3>2. Wrap(oSeen) \in Positions
      BY <1>0, WrapFacts DEF WriterType
    <3> QED
      BY <2>1, <2>4, <3>1, <3>2, PointerSteps DEF Filled
  <2> QED
    BY <1>0, <2>1, <2>2, <2>3, <2>5
<1>7. CASE PutStore
  <2>1. /\ UNCHANGED <<iPtr, wpc, wmsg, wpos, oSeen>>
        /\ wDone' = wDone \cup {"store"}
    BY <1>7 DEF PutStore
  <2>2. Rest' = Rest /\ Filled' = Filled
    BY <2>1 DEF Rest, InPart, FrameLength, Filled
  <2> QED
    BY <2>1, <2>2
<1>8. CASE PutNext
  <2>1. CASE wpc = "payload" /\ wpos + 1 = FrameLength(wmsg)
    <3>1. wpc' = "idle"
      BY <1>8, <2>1 DEF PutNext, Return
    <3> QED
      BY <3>1
  <2>2. CASE ~(wpc = "payload" /\ wpos + 1 = FrameLength(wmsg))
    <3>1. /\ wpos' = wpos + 1 /\ wmsg' = wmsg /\ oSeen' = oSeen
          /\ wDone = {"bump", "store"} /\ wDone' = {} /\ iPtr' = Wrap(iPtr)
      BY <1>8, <2>2 DEF PutNext
    <3>2. wpc \in {"length", "payload"} /\ FrameLength(wmsg) \in Nat /\ wpos \in Nat
      BY <3>1, FrameNumbers DEF WriterInv
    <3>3. Rest' = Rest
      BY <3>1, <3>2 DEF Rest, InPart, FrameLength
    <3>4. Filled' = Filled
      BY <1>0, <3>1, WrapFacts DEF Filled, RingType
    <3> QED
      BY <3>2, <3>3, <3>4
  <2> QED
    BY <2>1, <2>2
<1> QED
  BY <1>1, <1>2, <1>4, <1>5, <1>6, <1>7, <1>8 DEF Write

LEMMA FitStep ==
  ASSUME TypeOK, WriterInv, Sound, FitInv, Next
  PROVE  FitInv'
<1>1. CASE Entry \/ Stop
  <2>1. UNCHANGED <<iPtr, wpc, wmsg, wpos, wDone, oSeen>>
    BY <1>1, EntryFrame DEF Stop, ring, writer
  <2> QED
    BY <2>1 DEF FitInv, Filled, Rest, InPart, FrameLength
<1> QED
  BY <1>1, FitWriteStep DEF Next

(* What addData() refuses for the bytes of a frame fits exactly.           *)
LEMMA RefusedFitsExactly ==
  ASSUME TypeOK, WriterInv, Sound, FitInv, wpc = "addPayload",
         NEW o \in {oSeen, oPtr}, Overflows(Size[wmsg], iPtr, o)
  PROVE  FreeSpace(iPtr, o) = Size[wmsg]
<1>0. RingType /\ WriterType
  BY Types
<1>1. wDone = {} /\ iPtr \in Positions /\ Wrap(iPtr) = iPtr
  BY <1>0, WrapFacts DEF WriterInv, RingType
<1>2. o \in Pointers /\ Wrap(o) \in Positions
  BY <1>0, WrapFacts DEF RingType, WriterType
<1>3. wmsg \in Message /\ Size[wmsg] \in Nat
  BY <1>0, Numbers DEF WriterType
<1>4. Rest = Size[wmsg]
  BY <1>1, <1>3, Numbers DEF Rest, InPart, FrameLength, WriterInv
<1>5. Filled + Size[wmsg] <= Length
  BY <1>4 DEF FitInv
<1>6. DataSize(iPtr, Wrap(o)) <= Filled
  <2>1. CASE o = oSeen
    BY <1>1, <2>1, FrameNumbers DEF Filled
  <2>2. CASE o = oPtr
    BY <1>1, <2>2 DEF Sound, InPlace, LengthRight, RoomInv
  <2> QED
    BY <2>1, <2>2
<1>7. FreeSpace(iPtr, Wrap(o)) \in Int
  BY <1>1, <1>2, Numbers DEF FreeSpace, Positions
<1>8. FreeSpace(iPtr, Wrap(o)) >= Size[wmsg]
  BY <1>3, <1>5, <1>6, <1>7, FrameNumbers, Numbers DEF DataSize
<1> QED
  BY <1>1, <1>2, <1>3, <1>7, <1>8, FreeSpaceOfWrapped DEF Overflows

-----------------------------------------------------------------------------
(* entry(): a getData() past its test does not run past the writer.        *)

LEMMA ReaderNumbers ==
  ASSUME TypeOK
  PROVE  /\ want \in Nat /\ Len(taken) \in Nat /\ Bumped \in Int /\ Len(unread) \in Nat
         /\ Wrap(iPtr) \in Positions /\ Wrap(oPtr) \in Positions
         /\ iSeen # Length => iSeen \in Positions /\ Seen \in 0 .. Length - 1
         /\ rDone \in {{}, {"bump"}, {"load"}, {"bump", "load"}}
<1>0. RingType /\ ReaderType /\ HistoryType
  BY Types
<1>1. want \in Nat /\ Len(taken) \in Nat /\ Bumped \in Int /\ Len(unread) \in Nat
  BY <1>0 DEF ReaderType, HistoryType, Bumped
<1>2. Wrap(iPtr) \in Positions /\ Wrap(oPtr) \in Positions
  BY <1>0, WrapFacts DEF RingType
<1>3. iSeen # Length => iSeen \in Positions
  BY <1>0, Numbers DEF ReaderType, Pointers, Positions
<1>4. iSeen # Length => Seen \in 0 .. Length - 1
  BY <1>2, <1>3, PointerSteps DEF Seen
<1>5. rDone \in {{}, {"bump"}, {"load"}, {"bump", "load"}}
  BY <1>0 DEF ReaderType
<1> QED
  BY <1>1, <1>2, <1>3, <1>4, <1>5

LEMMA CountStep ==
  ASSUME TypeOK, ReaderInv, CountInv, Next
  PROVE  CountInv'
<1> USE DEF CountInv, Taking
<1>0. ReaderType /\ want \in Nat /\ Len(taken) \in Nat
  BY Types, ReaderNumbers
<1>1. CASE Write \/ Stop
  BY <1>1, WriteFrame DEF Stop, reader
<1>2. CASE FirstConnect \/ LoopTop \/ Reconnect \/ LookForFrame \/ Send
             \/ ReadLine \/ GetNonsense
  <2>1. rpc' \notin {"length", "payload", "discard"}
    BY <1>2 DEF FirstConnect, LoopTop, Reconnect, LookForFrame, Send, ReadLine,
           GetNonsense
  <2> QED
    BY <2>1
<1>3. CASE GetLength
  <2>1. taken' = <<>> /\ rDone' = rDone /\ rDone = {}
        /\ (rpc' = "abort" \/ (rpc' = "length" /\ want' = HeaderSize))
    BY <1>3 DEF GetLength, ReaderInv
  <2> QED
    BY <2>1, Numbers
<1>4. CASE GetPayload
  <2>1. rDone' = rDone /\ rDone = {}
    BY <1>4 DEF GetPayload, ReaderInv
  <2>2. PICK m \in Message :
          \/ rpc' \in {"abort", "undefined", "send"}
          \/ /\ rpc' = "payload" /\ taken' = <<>> /\ want' = Size[m] /\ Size[m] # 0
    BY <1>4 DEF GetPayload
  <2> QED
    BY <2>1, <2>2, Numbers
<1>5. CASE TakeBump
  BY <1>5 DEF TakeBump
<1>6. CASE TakeLoad
  <2>1. Len(taken') = Len(taken) + 1
    BY <1>0, <1>6, LoadedByte, Types DEF TakeLoad, ReaderType
  <2> QED
    BY <1>0, <1>6, <2>1 DEF TakeLoad
<1>7. CASE TakeNext
  BY <1>0, <1>7 DEF TakeNext, ReaderInv
<1>8. CASE Drain
  <2>1. rDone' = rDone /\ rDone = {}
        /\ (rpc' = "done" \/ (rpc' = "discard" /\ want' = 1 /\ taken' = <<>>))
    BY <1>8 DEF Drain, ReaderInv
  <2> QED
    BY <2>1
<1> QED
  BY <1>1, <1>2, <1>3, <1>4, <1>5, <1>6, <1>7, <1>8 DEF Next, Entry

(* A getData() past its test finds a byte, or the pointer was about to     *)
(* wrap when it was loaded.                                                *)
LEMMA EnoughSeen ==
  ASSUME TypeOK, CountInv, SeenInv, Taking, "bump" \notin rDone, iSeen # Length
  PROVE  Seen >= 1 /\ Len(unread) >= 1 /\ unread # <<>>
<1>1. Dequeuing
  BY DEF Dequeuing, Taking
<1>2. Seen \in Nat /\ Seen <= Len(unread) /\ want - Bumped <= Seen
  BY <1>1, ReaderNumbers, Numbers DEF SeenInv
<1>3. want - Bumped >= 1
  BY ReaderNumbers DEF CountInv, Bumped
<1>4. Seen >= 1 /\ Len(unread) >= 1
  BY <1>2, <1>3, ReaderNumbers
<1> QED
  BY <1>4

LEMMA UnreadGrows ==
  ASSUME TypeOK, WriterInv, Write
  PROVE  /\ Len(unread') \in Nat /\ Len(unread') >= Len(unread)
         /\ \A k \in 1 .. Len(unread) : unread'[k] = unread[k]
<1>0. HistoryType /\ WriterType
  BY Types
<1>1. CASE PutBump
  BY <1>0, <1>1, PutByteType DEF PutBump, HistoryType
<1>2. CASE ~PutBump
  <2>1. unread' = unread
    BY <1>2 DEF Write, Call, CheckFreeSpace, AddLength, AddPayload, PutStore,
       PutNext, history
  <2> QED
    BY <1>0, <2>1 DEF HistoryType
<1> QED
  BY <1>1, <1>2

LEMMA SeenNow ==
  ASSUME TypeOK, ReaderInv, LengthRight, "bump" \notin rDone, iPtr # Length
  PROVE  /\ Wrap(oPtr) = oPtr /\ oPtr \in Positions /\ iPtr \in Positions
         /\ DataSize(iPtr, oPtr) = Len(unread)
<1>0. RingType
  BY Types
<1>1. oPtr < Length /\ iPtr < Length
  BY <1>0, Numbers DEF ReaderInv, RingType, Pointers
<1> QED
  BY <1>0, <1>1, WrapFacts DEF RingType, LengthRight

LEMMA SeenStep ==
  ASSUME TypeOK, WriterInv, ReaderInv, LengthRight, CountInv, SeenInv, Next,
         fault' # "phantom"
  PROVE  SeenInv'
<1>0. RingType /\ ReaderType /\ HistoryType /\ Length \in Nat
  BY Types, Numbers
<1>1. CASE Write
  <2>1. UNCHANGED <<oPtr, rpc, want, taken, rDone, iSeen>>
    BY <1>1, WriteFrame DEF reader
  <2>2. Seen' = Seen /\ Bumped' = Bumped /\ Taking' = Taking /\ Dequeuing' = Dequeuing
    BY <2>1 DEF Seen, Bumped, Taking, Dequeuing
  <2> QED
    BY <1>1, <2>1, <2>2, UnreadGrows, ReaderNumbers DEF SeenInv
<1>2. CASE FirstConnect \/ LoopTop \/ Reconnect \/ Send \/ ReadLine \/ GetNonsense
  <2>1. ~Dequeuing'
    BY <1>2 DEF FirstConnect, LoopTop, Reconnect, Send, ReadLine, GetNonsense,
           Dequeuing
  <2> QED
    BY <2>1 DEF SeenInv
<1>3. CASE LookForFrame
  <2>1. UNCHANGED <<oPtr, unread>> /\ iSeen' = iPtr /\ ~Taking' /\ "bump" \notin rDone
    BY <1>3 DEF LookForFrame, ring, Taking, ReaderInv
  <2>2. iPtr # Length => Seen' = Len(unread)
    BY <2>1, SeenNow DEF Seen
  <2> QED
    BY <2>1, <2>2, ReaderNumbers DEF SeenInv
<1>4. ASSUME NEW n \in Nat, rpc \in {"getLength", "getPayload"},
             UNCHANGED <<oPtr, unread, rDone>>, Reload,
             taken' = <<>>, want' = n, ~Underflows(n, iSeen', oPtr)
      PROVE  SeenInv'
  <2>1. rDone = {} /\ Dequeuing
    BY <1>4 DEF ReaderInv, Dequeuing
  <2>2. oPtr \in Positions /\ Wrap(oPtr) = oPtr
    BY <1>0, <2>1, WrapFacts DEF ReaderInv, RingType
  <2>3. iSeen' # Length => Seen' <= Len(unread)
    <3>1. CASE iSeen' = iSeen
      BY <1>4, <2>1, <3>1 DEF SeenInv, Seen
    <3>2. CASE iSeen' = iPtr
      BY <1>4, <2>1, <3>2, SeenNow, ReaderNumbers DEF Seen
    <3> QED
      BY <1>4, <3>1, <3>2 DEF Reload
  <2>4. Bumped' = 0
    BY <1>4, <2>1 DEF Bumped
  <2>5. iSeen' # Length => n <= Seen'
    <3> SUFFICES ASSUME iSeen' # Length PROVE n <= Seen'
      OBVIOUS
    <3>1. iSeen' \in Positions
      BY <1>0, <1>4, ReloadType, Numbers DEF Pointers, Positions
    <3>2. Seen' = DataSize(iSeen', oPtr) /\ Seen' \in Int
      BY <1>4, <2>2, <3>1, PointerSteps DEF Seen
    <3> QED
      BY <1>4, <3>2 DEF Underflows
  <2> QED
    BY <1>4, <2>3, <2>4, <2>5 DEF SeenInv
<1>5. CASE GetLength
  <2>1. CASE rpc' = "abort"
    BY <2>1 DEF SeenInv, Dequeuing
  <2>2. CASE rpc' # "abort"
    BY <1>4, <1>5, <2>2, Numbers DEF GetLength, ring
  <2> QED
    BY <2>1, <2>2
<1>6. CASE GetPayload
  <2>1. CASE rpc' \in {"abort", "undefined", "send"}
    BY <2>1 DEF SeenInv, Dequeuing
  <2>2. CASE rpc' \notin {"abort", "undefined", "send"}
    <3>1. PICK m \in Message :
            taken' = <<>> /\ want' = Size[m] /\ ~Underflows(Size[m], iSeen', oPtr)
      <4>1. PICK m \in Message :
              CASE Size[m] = 0 ->
                     rpc' = "abort" /\ UNCHANGED <<taken, want, fault>>
                [] ~Fits(m) ->
                     rpc' = "undefined" /\ UNCHANGED <<taken, want, fault>>
                [] Fits(m) /\ Size[m] > 0 /\ Underflows(Size[m], iSeen', oPtr) ->
                     /\ rpc' = "send" /\ taken' = Garbage
                     /\ Note("underflow")
                     /\ UNCHANGED want
                [] OTHER ->
                     /\ rpc' = "payload" /\ taken' = <<>> /\ want' = Size[m]
                     /\ UNCHANGED fault
        BY <1>6 DEF GetPayload
      <4>2. Size[m] \in Nat
        BY Numbers
      <4>3. Size[m] # 0 /\ Fits(m)
        BY <2>2, <4>1
      <4>4. ~(Fits(m) /\ Size[m] > 0 /\ Underflows(Size[m], iSeen', oPtr))
        BY <2>2, <4>1, <4>2, <4>3
      <4> QED
        BY <4>1, <4>2, <4>3, <4>4
    <3> QED
      BY <1>4, <1>6, <3>1, Numbers DEF GetPayload, ring
  <2> QED
    BY <2>1, <2>2
<1>7. CASE TakeBump
  <2>1. /\ unread # <<>> /\ unread' = Tail(unread) /\ oPtr' = oPtr + 1
        /\ "bump" \notin rDone /\ rDone' = rDone \cup {"bump"}
        /\ UNCHANGED <<rpc, want, taken, iSeen>> /\ Taking
    BY <1>7 DEF TakeBump, Note, Taking
  <2>2. /\ oPtr \in Positions /\ Wrap(oPtr) = oPtr
        /\ Wrap(oPtr + 1) = After(oPtr, 1)
    BY <1>0, <2>1, WrapFacts DEF ReaderInv, RingType
  <2>3. Len(unread') = Len(unread) - 1
    BY <1>0, <2>1 DEF HistoryType
  <2>4. Bumped' = Bumped + 1
    BY <2>1, ReaderNumbers DEF Bumped
  <2>5. iSeen # Length => Seen' = Seen - 1 /\ Seen \in Int
    BY <2>1, <2>2, EnoughSeen, PointerSteps, ReaderNumbers DEF Seen
  <2>6. Dequeuing /\ Taking' = Taking
    BY <2>1 DEF Dequeuing, Taking
  <2> QED
    BY <2>1, <2>3, <2>4, <2>5, <2>6, ReaderNumbers DEF SeenInv
<1>8. CASE TakeLoad
  <2>1. UNCHANGED <<oPtr, rpc, want, iSeen, unread>>
    BY <1>8 DEF TakeLoad, ring
  <2>2. Len(taken') = Len(taken) + 1
    BY <1>0, <1>8, LoadedByte DEF TakeLoad, ReaderType
  <2>3. rDone' = rDone \cup {"load"} /\ "load" \notin rDone
    BY <1>8 DEF TakeLoad
  <2>4. Bumped' = Bumped
    BY <2>2, <2>3, ReaderNumbers DEF Bumped
  <2>5. Seen' = Seen /\ Taking' = Taking /\ Dequeuing' = Dequeuing
    BY <2>1 DEF Seen, Taking, Dequeuing
  <2> QED
    BY <2>1, <2>4, <2>5 DEF SeenInv
<1>9. CASE TakeNext
  <2>1. /\ UNCHANGED <<want, iSeen, unread, taken>> /\ Wrap(oPtr') = Wrap(oPtr)
        /\ rDone = {"bump", "load"} /\ rDone' = {}
    BY <1>0, <1>9, WrapFacts DEF TakeNext, RingType, history
  <2>2. Seen' = Seen /\ Bumped' = Bumped
    BY <2>1, ReaderNumbers DEF Seen, Bumped
  <2>3. Taking /\ Dequeuing
    BY <2>1 DEF ReaderInv, Taking, Dequeuing
  <2> QED
    BY <2>1, <2>2, <2>3 DEF SeenInv
<1>10. CASE Drain
  <2>1. CASE oPtr = iPtr
    BY <1>10, <2>1 DEF Drain, SeenInv, Dequeuing
  <2>2. CASE oPtr # iPtr
    <3>1. /\ UNCHANGED <<oPtr, unread, rDone>> /\ iSeen' = iPtr /\ rDone = {}
          /\ want' = 1 /\ taken' = <<>>
      BY <1>10, <2>2 DEF Drain, ring, history, ReaderInv
    <3>2. Bumped' = 0
      BY <3>1 DEF Bumped
    <3>3. iPtr # Length => Seen' = Len(unread) /\ Len(unread) >= 1
      <4> SUFFICES ASSUME iPtr # Length
                   PROVE  Seen' = Len(unread) /\ Len(unread) >= 1
        OBVIOUS
      <4>1. /\ Wrap(oPtr) = oPtr /\ oPtr \in Positions /\ iPtr \in Positions
            /\ DataSize(iPtr, oPtr) = Len(unread)
        BY <3>1, SeenNow
      <4> QED
        BY <2>2, <3>1, <4>1, PointerSteps DEF Seen
    <3> QED
      BY <3>1, <3>2, <3>3, ReaderNumbers DEF SeenInv
  <2> QED
    BY <2>1, <2>2
<1>11. CASE Stop
  <2>1. UNCHANGED <<oPtr, rpc, want, taken, rDone, iSeen, unread>>
    BY <1>11 DEF Stop, ring, reader, history
  <2> QED
    BY <2>1 DEF SeenInv, Seen, Bumped, Taking, Dequeuing
<1> QED
  BY <1>1, <1>2, <1>3, <1>5, <1>6, <1>7, <1>8, <1>9, <1>10, <1>11 DEF Next, Entry

-----------------------------------------------------------------------------
(* The frames in the ring, as long as there is no fault.                   *)

LEMMA ByteFacts ==
  ASSUME NEW b \in Bytes
  PROVE  /\ b = <<b[1], b[2]>> /\ b[1] \in Message
         /\ b[2] \in 1 .. FrameLength(b[1]) /\ FrameLength(b[1]) \in Nat
         /\ FrameLength(b[1]) = HeaderSize + Size[b[1]] /\ Size[b[1]] \in Nat
BY Numbers DEF Bytes

LEMMA FaultStays ==
  ASSUME Next, fault' = "none"
  PROVE  fault = "none" /\ ~Note("overflow") /\ ~Note("underflow")
         /\ ~Note("stale") /\ ~Note("phantom")
<1>1. ~Note("overflow") /\ ~Note("underflow") /\ ~Note("stale") /\ ~Note("phantom")
  BY DEF Note
<1>2. CASE Write
  BY <1>1, <1>2 DEF Write, Call, CheckFreeSpace, AddLength, AddPayload, PutBump,
     PutStore, PutNext, history
<1>3. CASE Entry
  <2>1. UNCHANGED fault \/ Note("underflow") \/ Note("stale") \/ Note("phantom")
    BY <1>3 DEF Entry, FirstConnect, LoopTop, Reconnect, LookForFrame, GetLength,
           GetPayload, GetNonsense, TakeBump, TakeLoad, TakeNext, Send, ReadLine,
           Drain, history,
       NoteUnless
  <2> QED
    BY <1>1, <2>1
<1>4. CASE Stop
  BY <1>1, <1>4 DEF Stop, history
<1> QED
  BY <1>1, <1>2, <1>3, <1>4 DEF Next

(* The steps of write() that put nothing in: it goes on with its frame,    *)
(* is not at one, begins one or has put in a whole one.                    *)
GoesOn == Putting' = Putting /\ Put' = Put /\ wmsg' = wmsg
Idles == ~Putting /\ ~Putting'
Begins == ~Putting /\ Putting' /\ Put' = 0
Finishes == Putting /\ ~Putting' /\ Put = FrameLength(wmsg) /\ Put > 0

LEMMA QuietWrite ==
  ASSUME TypeOK, WriterInv, Write, ~PutBump, ~Note("overflow")
  PROVE  unread' = unread /\ (GoesOn \/ Idles \/ Begins \/ Finishes)
<1> USE DEF Putting
<1>1. unread' = unread
  BY DEF Write, Call, CheckFreeSpace, AddLength, AddPayload, PutStore, PutNext,
     history
<1>2. CASE (\E m \in Message : Call(m)) \/ CheckFreeSpace
  <2>1. Idles
    BY <1>2 DEF Call, CheckFreeSpace, Return, Idles
  <2> QED
    BY <1>1, <2>1
<1>3. CASE AddLength
  <2>1. wDone' = {} /\ wpos = 0 /\ ~Putting
    BY <1>3 DEF AddLength, WriterInv
  <2>2. CASE Return
    BY <1>1, <2>1, <2>2 DEF Return, Idles
  <2>3. CASE ~Return
    <3>1. wpc' = "length" /\ wpos' = 0
      BY <1>3, <2>1, <2>3 DEF AddLength
    <3> QED
      BY <1>1, <2>1, <3>1 DEF Begins, Put, InPart
  <2> QED
    BY <2>2, <2>3
<1>4. CASE AddPayload
  <2>1. wDone = {} /\ wDone' = wDone /\ wpos = HeaderSize /\ Putting /\ wmsg \in Message
    BY <1>4, FrameNumbers DEF AddPayload, WriterInv
  <2>2. Put = HeaderSize
    BY <2>1, Numbers DEF Put, InPart
  <2>3. PICK o \in {oSeen, oPtr} :
          \/ Size[wmsg] = 0 /\ Return
          \/ wpc' = "payload" /\ UNCHANGED <<wmsg, wpos>>
    BY <1>4 DEF AddPayload
  <2>4. CASE Size[wmsg] = 0 /\ Return
    BY <1>1, <2>1, <2>2, <2>4, Numbers DEF Return, Finishes, FrameLength
  <2>5. CASE wpc' = "payload" /\ UNCHANGED <<wmsg, wpos>>
    BY <1>1, <2>1, <2>5 DEF GoesOn, Put, InPart
  <2> QED
    BY <2>3, <2>4, <2>5
<1>5. CASE PutStore
  <2>1. UNCHANGED <<wpc, wmsg, wpos>> /\ wDone' = wDone \cup {"store"}
    BY <1>5 DEF PutStore
  <2> QED
    BY <1>1, <2>1 DEF GoesOn, Put, InPart
<1>6. CASE PutNext
  <2>1. wDone = {"bump", "store"} /\ wDone' = {} /\ wpc \in {"length", "payload"}
    BY <1>6 DEF PutNext, WriterInv
  <2>2. Put = wpos + 1 /\ wpos \in Nat
    BY <2>1, FrameNumbers DEF Put, InPart
  <2>3. CASE wpc = "payload" /\ wpos + 1 = FrameLength(wmsg)
    <3>1. wpc' = "idle"
      BY <1>6, <2>3 DEF PutNext, Return
    <3> QED
      BY <1>1, <2>2, <2>3, <3>1 DEF Finishes
  <2>4. CASE ~(wpc = "payload" /\ wpos + 1 = FrameLength(wmsg))
    <3>1. /\ wpos' = wpos + 1 /\ wmsg' = wmsg
          /\ wpc' = IF wpos + 1 = HeaderSize THEN "addPayload" ELSE wpc
      BY <1>6, <2>4 DEF PutNext
    <3>2. Put' = Put
      BY <2>1, <2>2, <3>1 DEF Put, InPart
    <3> QED
      BY <1>1, <2>1, <3>1, <3>2 DEF GoesOn
  <2> QED
    BY <2>3, <2>4
<1> QED
  BY <1>2, <1>3, <1>4, <1>5, <1>6 DEF Write

LEMMA BumpFacts ==
  ASSUME TypeOK, WriterInv, PutBump
  PROVE  /\ Putting /\ Putting' /\ wmsg' = wmsg /\ wmsg \in Message
         /\ Put \in Nat /\ Put' = Put + 1 /\ Put < FrameLength(wmsg)
         /\ FrameLength(wmsg) \in Nat
         /\ Len(unread) \in Nat /\ Len(unread') = Len(unread) + 1
         /\ unread'[Len(unread) + 1] = <<wmsg, Put + 1>>
         /\ \A k \in 1 .. Len(unread) : unread'[k] = unread[k]
<1>1. /\ UNCHANGED <<wpc, wmsg, wpos>> /\ wpc \in {"length", "payload"}
      /\ "bump" \notin wDone /\ wDone' = wDone \cup {"bump"}
      /\ unread' = Append(unread, PutByte)
  BY DEF PutBump
<1>2. wmsg \in Message /\ FrameLength(wmsg) \in Nat /\ wpos \in Nat
  BY <1>1, FrameNumbers
<1>3. Put = wpos /\ Put' = wpos + 1
  BY <1>1, <1>2 DEF Put, InPart
<1>4. wpos < FrameLength(wmsg)
  BY <1>1, <1>2, Numbers DEF WriterInv
<1>5. PutByte = <<wmsg, Put + 1>> /\ PutByte \in Bytes
  BY <1>1, <1>3, PutByteType, Types DEF PutByte
<1>6. unread \in Seq(Bytes)
  BY Types DEF HistoryType
<1>7. /\ Len(unread') = Len(unread) + 1 /\ Len(unread) \in Nat
      /\ unread'[Len(unread) + 1] = PutByte
      /\ \A k \in 1 .. Len(unread) : unread'[k] = unread[k]
  BY <1>1, <1>5, <1>6
<1> QED
  BY <1>1, <1>2, <1>3, <1>4, <1>5, <1>7 DEF Putting

LEMMA TailFacts ==
  ASSUME TypeOK, TakeBump, unread # <<>>
  PROVE  /\ Len(unread) \in Nat \ {0} /\ Len(unread') = Len(unread) - 1
         /\ due' = unread[1] /\ due' \in Bytes
         /\ \A k \in 1 .. Len(unread) - 1 : unread'[k] = unread[k + 1]
         /\ \A k \in 1 .. Len(unread) : unread[k] \in Bytes
<1>1. unread \in Seq(Bytes) /\ unread' = Tail(unread) /\ due' = Head(unread)
  BY Types DEF TakeBump, HistoryType
<1> QED
  BY <1>1

LEMMA ChainStep ==
  ASSUME TypeOK, WriterInv, ChainInv, LastInv, Next, fault' = "none"
  PROVE  ChainInv'
<1> DEFINE n == Len(unread)
<1>0. HistoryType /\ \A k \in 1 .. n : unread[k] \in Bytes
  BY Types DEF HistoryType
<1>1. CASE PutBump
  <2>0. n \in Nat /\ Len(unread') = n + 1
    BY <1>1, BumpFacts
  <2>1. ASSUME NEW k \in 1 .. n, unread[k][2] + (n + 1 - k) <= FrameLength(unread[k][1])
        PROVE  unread'[n + 1] = <<unread[k][1], unread[k][2] + (n + 1 - k)>>
    <3>1. unread[k] \in Bytes
      BY <1>0
    <3>2. unread[n] = <<unread[k][1], unread[k][2] + (n - k)>>
      <4>1. n \in 1 .. n /\ k <= n
        BY <2>0, <2>1
      <4>2. unread[k][2] + (n - k) <= FrameLength(unread[k][1])
        BY <2>0, <2>1, <3>1, ByteFacts
      <4> QED
        BY <2>1, <4>1, <4>2 DEF ChainInv
    <3>3. ~Ends(unread[n])
      BY <2>0, <2>1, <3>1, <3>2, ByteFacts DEF Ends
    <3>4. unread[n] = <<wmsg, Put>>
      BY <2>0, <3>3 DEF LastInv
    <3>5. wmsg = unread[k][1] /\ Put = unread[k][2] + (n - k)
      BY <3>2, <3>4
    <3> QED
      BY <1>1, <2>0, <3>1, <3>5, BumpFacts, ByteFacts
  <2>2. ASSUME NEW k \in 1 .. n + 1, NEW l \in 1 .. n + 1, k <= l,
               unread'[k][2] + (l - k) <= FrameLength(unread'[k][1])
        PROVE  unread'[l] = <<unread'[k][1], unread'[k][2] + (l - k)>>
    <3>1. CASE l \in 1 .. n
      <4>1. k \in 1 .. n /\ unread'[k] = unread[k] /\ unread'[l] = unread[l]
        BY <1>1, <2>0, <2>2, <3>1, BumpFacts
      <4> QED
        BY <2>2, <3>1, <4>1 DEF ChainInv
    <3>2. CASE l = n + 1 /\ k \in 1 .. n
      <4>1. unread'[k] = unread[k]
        BY <1>1, <3>2, BumpFacts
      <4> QED
        BY <2>1, <2>2, <3>2, <4>1
    <3>3. CASE l = n + 1 /\ k = n + 1
      <4>1. unread'[k] = <<wmsg, Put + 1>> /\ Put \in Nat /\ l - k = 0
        BY <1>1, <2>0, <3>3, BumpFacts
      <4> QED
        BY <3>3, <4>1
    <3> QED
      BY <2>0, <2>2, <3>1, <3>2, <3>3
  <2>3. ASSUME NEW k \in 1 .. n, Ends(unread'[k])
        PROVE  unread'[k + 1][2] = 1
    <3>1. unread'[k] = unread[k]
      BY <1>1, BumpFacts
    <3>2. CASE k \in 1 .. n - 1
      BY <1>1, <2>0, <2>3, <3>1, <3>2, BumpFacts DEF ChainInv, Ends
    <3>3. CASE k = n
      <4>1. Ends(unread[n])
        BY <2>3, <3>1, <3>3 DEF Ends
      <4>2. Put = 0
        <5> SUFFICES ASSUME Put # 0 PROVE FALSE
          OBVIOUS
        <5>1. Put > 0 /\ Putting /\ unread # <<>>
          BY <1>1, <2>0, <2>3, BumpFacts
        <5>2. unread[n] = <<wmsg, Put>>
          BY <5>1 DEF LastInv
        <5> QED
          BY <1>1, <4>1, <5>2, BumpFacts DEF Ends
      <4> QED
        BY <1>1, <2>0, <3>3, <4>2, BumpFacts
    <3> QED
      BY <2>0, <3>2, <3>3
  <2> QED
    BY <2>0, <2>2, <2>3 DEF ChainInv, Ends
<1>2. CASE TakeBump
  <2>0. unread # <<>>
    BY <1>2, FaultStays DEF TakeBump
  <2>1. /\ n \in Nat \ {0} /\ Len(unread') = n - 1
        /\ \A k \in 1 .. n - 1 : unread'[k] = unread[k + 1]
    BY <1>2, <2>0, TailFacts
  <2>2. ASSUME NEW k \in 1 .. n - 1, NEW l \in 1 .. n - 1, k <= l,
               unread'[k][2] + (l - k) <= FrameLength(unread'[k][1])
        PROVE  unread'[l] = <<unread'[k][1], unread'[k][2] + (l - k)>>
    <3>1. k + 1 \in 1 .. n /\ l + 1 \in 1 .. n /\ (l + 1) - (k + 1) = l - k
      BY <2>1
    <3>2. unread'[k] = unread[k + 1] /\ unread'[l] = unread[l + 1]
      BY <2>1
    <3> QED
      BY <2>2, <3>1, <3>2 DEF ChainInv
  <2>3. ASSUME NEW k \in 1 .. n - 1 - 1, Ends(unread'[k])
        PROVE  unread'[k + 1][2] = 1
    <3>1. k + 1 \in 1 .. n - 1 /\ k \in 1 .. n - 1
      BY <2>1
    <3>2. unread'[k] = unread[k + 1] /\ unread'[k + 1] = unread[k + 1 + 1]
      BY <2>1, <3>1
    <3> QED
      BY <2>3, <3>1, <3>2 DEF ChainInv, Ends
  <2> QED
    BY <2>1, <2>2, <2>3 DEF ChainInv, Ends
<1>3. CASE ~PutBump /\ ~TakeBump
  <2>1. unread' = unread
    BY <1>3 DEF Next, Write, Call, CheckFreeSpace, AddLength, AddPayload, PutStore,
       PutNext, Entry, FirstConnect, LoopTop, Reconnect, LookForFrame, GetLength,
       GetPayload, GetNonsense, TakeLoad, TakeNext, Send, ReadLine, Drain, Stop,
       history
  <2> QED
    BY <2>1 DEF ChainInv, Ends, FrameLength
<1> QED
  BY <1>1, <1>2, <1>3

LEMMA LastStep ==
  ASSUME TypeOK, WriterInv, LastInv, Next, fault' = "none"
  PROVE  LastInv'
<1>1. CASE PutBump
  <2>1. Putting' /\ Put' > 0 /\ unread'[Len(unread')] = <<wmsg', Put'>>
    BY <1>1, BumpFacts
  <2> QED
    BY <2>1 DEF LastInv
<1>2. CASE Write /\ ~PutBump
  <2>1. unread' = unread /\ (GoesOn \/ Idles \/ Begins \/ Finishes)
    BY <1>2, QuietWrite, FaultStays
  <2>2. CASE GoesOn
    BY <2>1, <2>2 DEF GoesOn, LastInv, Ends, FrameLength
  <2>3. CASE Idles \/ Begins
    BY <2>1, <2>3 DEF Idles, Begins, LastInv, Ends, FrameLength
  <2>4. CASE Finishes
    BY <2>1, <2>4 DEF Finishes, LastInv, Ends, FrameLength
  <2> QED
    BY <2>1, <2>2, <2>3, <2>4
<1>3. CASE Entry \/ Stop
  <2>1. UNCHANGED <<wpc, wmsg, wpos, wDone>>
    BY <1>3, EntryFrame DEF Stop, writer
  <2>2. Putting' = Putting /\ Put' = Put
    BY <2>1 DEF Putting, Put, InPart
  <2>3. CASE TakeBump
    <3>1. unread # <<>>
      BY <2>3, FaultStays DEF TakeBump
    <3>2. unread' # <<>> => unread'[Len(unread')] = unread[Len(unread)]
      <4>1. unread \in Seq(Bytes) /\ unread' = Tail(unread)
        BY <2>3, <3>1, Types DEF TakeBump, HistoryType
      <4> QED
        BY <3>1, <4>1
    <3> QED
      BY <2>1, <2>2, <3>1, <3>2 DEF LastInv, Ends, FrameLength
  <2>4. CASE ~TakeBump
    <3>1. unread' = unread
      BY <1>3, <2>4 DEF Entry, FirstConnect, LoopTop, Reconnect, LookForFrame,
             GetLength, GetPayload, GetNonsense, TakeLoad, TakeNext, Send,
             ReadLine, Drain, Stop,
         history
    <3> QED
      BY <2>1, <2>2, <3>1 DEF LastInv, Ends, FrameLength
  <2> QED
    BY <2>3, <2>4
<1> QED
  BY <1>1, <1>2, <1>3 DEF Next

(* write() never puts anything but the next byte before the reader.        *)
LEMMA StartWrite ==
  ASSUME TypeOK, WriterInv, Write, ~Note("overflow"), AtStart
  PROVE  AtStart'
<1>1. CASE PutBump
  <2>1. CASE unread # <<>>
    <3>1. unread' # <<>> /\ unread'[1] = unread[1]
      BY <1>1, <2>1, BumpFacts, Types DEF HistoryType
    <3> QED
      BY <2>1, <3>1 DEF AtStart
  <2>2. CASE unread = <<>>
    <3>1. Put = 0
      BY <1>1, <2>2, BumpFacts DEF AtStart
    <3>2. unread' # <<>> /\ unread'[1] = <<wmsg, 1>>
      BY <1>1, <2>2, <3>1, BumpFacts
    <3> QED
      BY <3>2 DEF AtStart
  <2> QED
    BY <2>1, <2>2
<1>2. CASE ~PutBump
  <2>1. unread' = unread /\ (GoesOn \/ Idles \/ Begins \/ Finishes)
    BY <1>2, QuietWrite
  <2> QED
    BY <2>1 DEF AtStart, GoesOn, Idles, Begins, Finishes, FrameLength
<1> QED
  BY <1>1, <1>2

LEMMA InFrameWrite ==
  ASSUME TypeOK, WriterInv, Write, ~Note("overflow"), NEW b, ~Ends(b), InFrame(b),
         due' = due, b = due
  PROVE  InFrame(due)'
<1>1. CASE PutBump
  <2>1. CASE unread # <<>>
    <3>1. unread' # <<>> /\ unread'[1] = unread[1]
      BY <1>1, <2>1, BumpFacts, Types DEF HistoryType
    <3> QED
      BY <2>1, <3>1 DEF InFrame
  <2>2. CASE unread = <<>>
    <3>1. b = <<wmsg, Put>>
      BY <2>2 DEF InFrame
    <3>2. unread' # <<>> /\ unread'[1] = <<wmsg, Put + 1>>
      <4>1. Len(unread) = 0
        BY <2>2
      <4>2. Len(unread') = 1 /\ unread'[1] = <<wmsg, Put + 1>>
        BY <1>1, <4>1, BumpFacts
      <4> QED
        BY <4>2
    <3> QED
      BY <3>1, <3>2 DEF InFrame
  <2> QED
    BY <2>1, <2>2
<1>2. CASE ~PutBump
  <2>1. unread' = unread /\ (GoesOn \/ Idles \/ Begins \/ Finishes)
    BY <1>2, QuietWrite
  <2>2. CASE unread # <<>>
    BY <2>1, <2>2 DEF InFrame
  <2>3. CASE unread = <<>>
    <3>1. Putting /\ b = <<wmsg, Put>>
      BY <2>3 DEF InFrame
    <3>2. ~Finishes
      BY <3>1 DEF Finishes, Ends
    <3>3. GoesOn
      BY <2>1, <3>1, <3>2 DEF Idles, Begins
    <3> QED
      BY <2>1, <2>3, <3>1, <3>3 DEF InFrame, GoesOn
  <2> QED
    BY <2>2, <2>3
<1> QED
  BY <1>1, <1>2

\* The byte after the one taken, once that one has been taken.
LEMMA NextByte ==
  ASSUME TypeOK, WriterInv, ChainInv, LastInv, TakeBump, unread # <<>>
  PROVE  IF Ends(due)' THEN AtStart' ELSE InFrame(due)'
<1> DEFINE n == Len(unread)
           b == unread[1]
<1>1. /\ n \in Nat \ {0} /\ Len(unread') = n - 1 /\ due' = b /\ b \in Bytes
      /\ \A k \in 1 .. n - 1 : unread'[k] = unread[k + 1]
  BY TailFacts
<1>2. UNCHANGED <<wpc, wmsg, wpos, wDone>>
  BY DEF TakeBump, writer
<1>3. Putting' = Putting /\ Put' = Put
  BY <1>2 DEF Putting, Put, InPart
<1>4. Ends(due)' <=> Ends(b)
  BY <1>1 DEF Ends, FrameLength
<1>5. CASE n > 1
  <2>1. unread' # <<>> /\ unread'[1] = unread[2]
    BY <1>1, <1>5
  <2>2. CASE Ends(b)
    <3>1. unread[2][2] = 1
      <4>1. 1 \in 1 .. n - 1 /\ 1 + 1 = 2
        BY <1>1, <1>5
      <4> QED
        BY <2>2, <4>1 DEF ChainInv
    <3> QED
      BY <1>4, <2>1, <2>2, <3>1 DEF AtStart
  <2>3. CASE ~Ends(b)
    <3>1. b[2] + (2 - 1) <= FrameLength(b[1])
      BY <1>1, <2>3, ByteFacts DEF Ends
    <3>2. unread[2] = <<b[1], b[2] + (2 - 1)>>
      <4>1. 1 \in 1 .. n /\ 2 \in 1 .. n /\ 1 <= 2
        BY <1>1, <1>5
      <4> QED
        BY <3>1, <4>1 DEF ChainInv
    <3>3. unread'[1] = <<due'[1], due'[2] + 1>>
      BY <1>1, <2>1, <3>2, ByteFacts
    <3> QED
      BY <1>4, <2>1, <2>3, <3>3 DEF InFrame
  <2> QED
    BY <2>2, <2>3
<1>6. CASE n = 1
  <2>1. unread' = <<>>
    <3>1. unread \in Seq(Bytes) /\ unread' = Tail(unread)
      BY Types DEF TakeBump, HistoryType
    <3> QED
      BY <1>6, <3>1
  <2>2. CASE Putting /\ Put > 0
    <3>1. b = <<wmsg, Put>>
      BY <1>6, <2>2 DEF LastInv
    <3> QED
      BY <1>1, <1>2, <1>3, <1>4, <2>1, <2>2, <3>1 DEF AtStart, InFrame, Ends,
         FrameLength
  <2>3. CASE ~(Putting /\ Put > 0)
    <3>1. Ends(b)
      BY <1>6, <2>3 DEF LastInv
    <3>2. Putting => Put = 0
      BY <2>3, FrameNumbers
    <3> QED
      BY <1>3, <1>4, <2>1, <3>1, <3>2 DEF AtStart
  <2> QED
    BY <2>2, <2>3
<1> QED
  BY <1>1, <1>5, <1>6

LEMMA FollowsStep ==
  ASSUME TypeOK, WriterInv, ReaderInv, CountInv, ChainInv, LastInv, FollowsInv,
         TakenInv, Next, fault' = "none"
  PROVE  FollowsInv'
<1>0. ~Note("overflow") /\ ~Note("underflow") /\ ~Note("stale") /\ ~Note("phantom")
  BY FaultStays
<1>1. CASE Write
  <2>1. UNCHANGED <<rpc, want, taken, rDone, iSeen, due>>
    BY <1>1, WriteFrame DEF reader
  <2>2. Fresh' = Fresh /\ Inside' = Inside /\ (Ends(due)' <=> Ends(due))
    BY <2>1 DEF Fresh, Inside, Bumped, Ends, FrameLength
  <2>3. Fresh => AtStart'
    BY <1>0, <1>1, StartWrite DEF FollowsInv
  <2>4. Inside => IF Ends(due) THEN AtStart' ELSE InFrame(due)'
    BY <1>0, <1>1, <2>1, StartWrite, InFrameWrite DEF FollowsInv
  <2> QED
    BY <2>1, <2>2, <2>3, <2>4 DEF FollowsInv
<1>2. CASE TakeBump
  <2>1. unread # <<>>
    BY <1>0, <1>2 DEF TakeBump
  <2>2. due' \in Bytes
    BY <1>2, <2>1, TailFacts
  <2>3. ~Fresh'
    <3>1. rpc' = rpc /\ rpc \in {"length", "payload", "discard"}
      BY <1>2 DEF TakeBump
    <3>2. Bumped' = Bumped + 1
      <4>1. taken' = taken /\ "bump" \notin rDone /\ rDone' = rDone \cup {"bump"}
        BY <1>2 DEF TakeBump
      <4> QED
        BY <4>1, ReaderNumbers DEF Bumped
    <3>3. rpc = "length" => Bumped \in Nat
      BY DEF TakenInv, LengthTaken
    <3> QED
      BY <3>1, <3>2, <3>3 DEF Fresh
  <2> QED
    BY <1>2, <2>1, <2>2, <2>3, NextByte DEF FollowsInv
<1>3. CASE (Entry \/ Stop) /\ ~TakeBump
  <2>1. UNCHANGED <<wpc, wmsg, wpos, wDone, unread>>
    BY <1>3, EntryFrame DEF Entry, FirstConnect, LoopTop, Reconnect, LookForFrame,
           GetLength, GetPayload, GetNonsense, TakeLoad, TakeNext, Send, ReadLine,
           Drain, Stop,
       history, writer
  <2>2. AtStart' <=> AtStart
    BY <2>1 DEF AtStart, Putting, Put, InPart, FrameLength
  <2>3. ASSUME Fresh, Fresh' \/ ~Inside' PROVE FollowsInv'
    <3>1. AtStart' /\ ~Inside'
      BY <2>2, <2>3 DEF FollowsInv, Inside
    <3> QED
      BY <3>1 DEF FollowsInv
  <2>4. ASSUME Inside, Inside', due' = due PROVE FollowsInv'
    <3>1. ~Fresh' /\ (Ends(due)' <=> Ends(due))
      BY <2>4 DEF Inside, Ends, FrameLength
    <3>2. InFrame(due)' <=> InFrame(due)
      BY <2>1, <2>4 DEF InFrame, Putting, Put, InPart
    <3> QED
      BY <2>2, <2>4, <3>1, <3>2 DEF FollowsInv
  <2>5. ASSUME ~Fresh', ~Inside' PROVE FollowsInv'
    BY <2>5 DEF FollowsInv
  <2>6. CASE FirstConnect \/ LoopTop \/ Reconnect \/ LookForFrame \/ ReadLine
    <3>1. Fresh /\ ~Inside'
      BY <2>6 DEF FirstConnect, LoopTop, Reconnect, LookForFrame, ReadLine, Fresh,
             Inside
    <3> QED
      BY <2>3, <3>1
  <2>7. CASE GetLength
    <3>1. Fresh
      BY <2>7 DEF GetLength, Fresh
    <3>2. taken' = <<>> /\ rDone' = {} /\ rpc' \in {"length", "abort"}
      BY <2>7 DEF GetLength, ReaderInv
    <3>3. Bumped' = 0
      BY <3>2 DEF Bumped
    <3>4. ~Inside'
      BY <3>2, <3>3 DEF Inside, Fresh
    <3> QED
      BY <2>3, <3>1, <3>4
  <2>8. CASE GetPayload \/ GetNonsense
    <3>1. rpc' \in {"abort", "undefined", "payload"}
      BY <1>0, <2>8 DEF GetPayload, GetNonsense
    <3>2. Inside /\ ~Fresh'
      BY <2>8, <3>1 DEF GetPayload, GetNonsense, Inside, Fresh
    <3>3. due' = due
      BY <2>8 DEF GetPayload, GetNonsense, history
    <3> QED
      BY <2>4, <2>5, <3>2, <3>3
  <2>9. CASE TakeLoad
    <3>1. rpc' = rpc /\ due' = due /\ rDone' = rDone \cup {"load"} /\ "load" \notin rDone
      BY <2>9 DEF TakeLoad
    <3>2. Bumped' = Bumped
      <4>1. Len(taken') = Len(taken) + 1
        BY <2>9, LoadedByte, Types DEF TakeLoad, ReaderType
      <4> QED
        BY <3>1, <4>1, ReaderNumbers DEF Bumped
    <3>3. Fresh' = Fresh /\ Inside' = Inside
      BY <3>1, <3>2 DEF Fresh, Inside
    <3> QED
      BY <2>3, <2>4, <2>5, <3>1, <3>3
  <2>10. CASE TakeNext
    <3>1. /\ UNCHANGED <<taken, due>> /\ rDone = {"bump", "load"} /\ rDone' = {}
          /\ rpc \in {"length", "payload", "discard"}
      BY <2>10 DEF TakeNext, history, ReaderInv
    <3>2. Bumped' = Bumped /\ Bumped = Len(taken)
      BY <3>1, ReaderNumbers DEF Bumped
    <3>3. \/ rpc' = rpc
          \/ rpc = "length" /\ rpc' = "getPayload" /\ Len(taken) >= want
          \/ rpc = "payload" /\ rpc' = "send"
          \/ rpc = "discard" /\ rpc' = "drain"
      <4>1. CASE Len(taken) < want
        BY <2>10, <4>1 DEF TakeNext
      <4>2. CASE ~(Len(taken) < want)
        <5>1. Len(taken) >= want
          BY <4>2, ReaderNumbers
        <5> QED
          BY <2>10, <3>1, <4>2, <5>1 DEF TakeNext
      <4> QED
        BY <4>1, <4>2
    <3>4. CASE rpc' = rpc
      <4>1. Fresh' = Fresh /\ Inside' = Inside
        BY <3>2, <3>4 DEF Fresh, Inside
      <4> QED
        BY <2>3, <2>4, <2>5, <3>1, <4>1
    <3>5. CASE rpc = "length" /\ rpc' = "getPayload" /\ Len(taken) >= want
      <4>1. Bumped # 0
        BY <3>2, <3>5, ReaderNumbers, Numbers DEF TakenInv, LengthTaken
      <4>2. Inside /\ Inside'
        BY <3>5, <4>1 DEF Inside, Fresh
      <4> QED
        BY <2>4, <3>1, <4>2
    <3>6. CASE rpc = "payload" /\ rpc' = "send"
      <4>1. Inside /\ Inside'
        BY <3>6 DEF Inside, Fresh
      <4> QED
        BY <2>4, <3>1, <4>1
    <3>7. CASE rpc = "discard" /\ rpc' = "drain"
      <4>1. ~Fresh' /\ ~Inside'
        BY <3>7 DEF Inside, Fresh
      <4> QED
        BY <2>5, <4>1
    <3> QED
      BY <3>3, <3>4, <3>5, <3>6, <3>7
  <2>11. CASE Send
    <3>1. Inside /\ Ends(due) /\ ~Inside'
      BY <2>11 DEF Send, Inside, Fresh, TakenInv
    <3>2. AtStart'
      BY <2>2, <3>1 DEF FollowsInv
    <3> QED
      BY <3>1, <3>2 DEF FollowsInv
  <2>12. CASE Drain
    <3>1. ~Fresh' /\ ~Inside'
      BY <2>12 DEF Drain, Inside, Fresh
    <3> QED
      BY <2>5, <3>1
  <2>13. CASE Stop
    <3>1. UNCHANGED <<rpc, taken, rDone, due>>
      BY <2>13 DEF Stop, reader, history
    <3>2. Fresh' = Fresh /\ Inside' = Inside
      BY <3>1 DEF Fresh, Inside, Bumped
    <3> QED
      BY <2>3, <2>4, <2>5, <3>1, <3>2
  <2> QED
    BY <1>3, <2>6, <2>7, <2>8, <2>9, <2>10, <2>11, <2>12, <2>13 DEF Entry
<1> QED
  BY <1>1, <1>2, <1>3 DEF Next

-----------------------------------------------------------------------------
(* What getData() has copied, as long as there is no fault.                *)

LEMMA HeaderTells ==
  ASSUME NEW l, NEW m, Header(l) = Header(m)
  PROVE  l = m
<1>1. Header(l)[1] = <<l, 1>> /\ Header(m)[1] = <<m, 1>>
  BY Numbers DEF Header
<1> QED
  BY <1>1

LEMMA GetPayloadTakes ==
  ASSUME GetPayload, rpc' = "payload", ~Note("underflow"), TypeOK
  PROVE  \E m \in Message :
           /\ taken = Header(m) /\ taken' = <<>> /\ want' = Size[m] /\ Size[m] > 0
           /\ ~Underflows(Size[m], iSeen', oPtr)
BY Numbers DEF GetPayload

LEMMA BumpCounts ==
  ASSUME TypeOK, CountInv, TakeBump
  PROVE  /\ Bumped' = Bumped + 1 /\ Bumped < want /\ Bumped \in Int
         /\ Len(taken) = Bumped + (IF "load" \in rDone THEN 1 ELSE 0)
         /\ UNCHANGED <<rpc, want, taken>> /\ Taking
<1>1. /\ UNCHANGED <<rpc, want, taken>> /\ Taking
      /\ "bump" \notin rDone /\ rDone' = rDone \cup {"bump"}
  BY DEF TakeBump, Taking
<1> QED
  BY <1>1, ReaderNumbers DEF Bumped, CountInv

LEMMA LengthTakenBump ==
  ASSUME TypeOK, CountInv, FollowsInv, TakenInv, TakeBump, unread # <<>>,
         rpc = "length"
  PROVE  LengthTaken'
<1>1. LengthTaken
  BY DEF TakenInv
<1>2. /\ Bumped' = Bumped + 1 /\ Bumped < HeaderSize /\ Bumped \in Nat
      /\ Len(taken) = Bumped + (IF "load" \in rDone THEN 1 ELSE 0)
      /\ UNCHANGED <<rpc, want, taken>>
  BY <1>1, BumpCounts DEF LengthTaken
<1>3. due' = unread[1] /\ unread[1] \in Bytes
  BY TailFacts
<1>4. due'[2] = Bumped + 1 /\ (Bumped > 0 => due'[1] = due[1])
  <2>1. CASE Bumped = 0
    <3>1. unread[1][2] = 1
      BY <2>1 DEF FollowsInv, Fresh, AtStart
    <3> QED
      BY <1>3, <2>1, <3>1
  <2>2. CASE Bumped > 0
    <3>1. Inside
      BY <2>2 DEF Inside, Fresh
    <3>2. due \in Bytes /\ due[2] = Bumped
      BY <1>1, <2>2, <3>1 DEF FollowsInv, LengthTaken
    <3>3. ~Ends(due)
      BY <1>2, <3>2, ByteFacts, Numbers DEF Ends
    <3>4. unread[1] = <<due[1], due[2] + 1>>
      BY <3>1, <3>3 DEF FollowsInv, InFrame
    <3> QED
      BY <1>3, <3>2, <3>4
  <2> QED
    BY <1>2, <2>1, <2>2
<1>5. ASSUME NEW k \in 1 .. Len(taken), k <= Bumped + 1
      PROVE  taken[k] = <<due'[1], k>>
  <2>1. CASE k <= Bumped
    BY <1>1, <1>2, <1>4, <1>5, <2>1 DEF LengthTaken
  <2>2. CASE k = Bumped + 1
    <3>1. Len(taken) = Bumped + 1 /\ Len(taken) > Bumped
      BY <1>2, <1>5, <2>2
    <3>2. taken[k] = unread[1]
      BY <1>1, <2>2, <3>1 DEF LengthTaken
    <3> QED
      BY <1>3, <1>4, <2>2, <3>2, ByteFacts
  <2> QED
    BY <1>2, <1>5, <2>1, <2>2
<1>6. ~(Len(taken) > Bumped + 1)
  BY <1>2
<1> QED
  BY <1>1, <1>2, <1>4, <1>5, <1>6 DEF LengthTaken

LEMMA LengthTakenLoad ==
  ASSUME TypeOK, ReaderInv, CountInv, FollowsInv, TakenInv, TakeLoad,
         ~Note("stale"), ~Note("phantom"), rpc = "length"
  PROVE  LengthTaken'
<1> DEFINE byte == cells[IF "bump" \in rDone THEN oPtr - 1 ELSE oPtr]
<1>1. LengthTaken
  BY DEF TakenInv
<1>2. /\ UNCHANGED <<want, due, unread>> /\ "load" \notin rDone
      /\ rDone' = rDone \cup {"load"} /\ taken' = Append(taken, byte)
  BY DEF TakeLoad
<1>3. /\ Len(taken) \in Nat /\ Len(taken') = Len(taken) + 1
      /\ taken'[Len(taken) + 1] = byte
      /\ \A k \in 1 .. Len(taken) : taken'[k] = taken[k]
  BY <1>2, LoadedByte, Types DEF ReaderType
<1>4. /\ Bumped' = Bumped
      /\ Bumped = Len(taken) + (IF "bump" \in rDone THEN 1 ELSE 0)
  BY <1>2, <1>3, ReaderNumbers DEF Bumped
<1>5. CASE "bump" \in rDone
  <2>1. byte = due
    BY <1>5 DEF TakeLoad, NoteUnless
  <2>2. Bumped = Len(taken) + 1 /\ Bumped > 0
    BY <1>3, <1>4, <1>5
  <2>3. due \in Bytes /\ due[2] = Bumped
    BY <1>1, <2>2 DEF FollowsInv, Inside, Fresh, LengthTaken
  <2>4. ASSUME NEW k \in 1 .. Len(taken')
        PROVE  taken'[k] = <<due[1], k>>
    <3>1. CASE k \in 1 .. Len(taken)
      BY <1>1, <1>3, <2>2, <3>1 DEF LengthTaken
    <3>2. CASE k = Len(taken) + 1
      BY <1>3, <2>1, <2>2, <2>3, <3>2, ByteFacts
    <3> QED
      BY <1>3, <2>4, <3>1, <3>2
  <2> QED
    BY <1>1, <1>2, <1>3, <1>4, <2>2, <2>4 DEF LengthTaken
<1>6. CASE "bump" \notin rDone
  <2>1. unread # <<>> /\ byte = Head(unread)
    BY <1>6 DEF TakeLoad, NoteUnless
  <2>2. byte = unread[1] /\ Bumped = Len(taken)
    BY <1>3, <1>4, <1>6, <2>1
  <2>3. ASSUME NEW k \in 1 .. Len(taken'), k <= Bumped
        PROVE  taken'[k] = <<due[1], k>>
    BY <1>1, <1>3, <2>2, <2>3 DEF LengthTaken
  <2> QED
    BY <1>1, <1>2, <1>3, <1>4, <2>1, <2>2, <2>3 DEF LengthTaken
<1> QED
  BY <1>5, <1>6

LEMMA TakenStep ==
  ASSUME TypeOK, WriterInv, ReaderInv, CountInv, FollowsInv, TakenInv, Next,
         fault' = "none"
  PROVE  TakenInv'
<1>0. ~Note("overflow") /\ ~Note("underflow") /\ ~Note("stale") /\ ~Note("phantom")
  BY FaultStays
<1>1. CASE Write
  <2>1. UNCHANGED <<rpc, want, taken, rDone, due>>
    BY <1>1, WriteFrame DEF reader
  <2>2. Bumped' = Bumped
    BY <2>1 DEF Bumped
  <2>3. unread # <<>> => unread' # <<>> /\ unread'[1] = unread[1]
    <3>1. unread # <<>> => Len(unread) >= 1
      BY Types DEF HistoryType
    <3> QED
      BY <1>1, <3>1, UnreadGrows, ReaderNumbers
  <2>4. LengthTaken => LengthTaken'
    BY <2>1, <2>2, <2>3 DEF LengthTaken
  <2> QED
    BY <2>1, <2>2, <2>4 DEF TakenInv, Header, Ends, FrameLength
<1>2. CASE TakeBump
  <2>1. unread # <<>>
    BY <1>0, <1>2 DEF TakeBump
  <2>2. Bumped' = Bumped + 1 /\ Bumped < want /\ UNCHANGED <<rpc, want, taken>> /\ Taking
    BY <1>2, BumpCounts
  <2>3. CASE rpc = "length"
    BY <1>2, <2>1, <2>2, <2>3, LengthTakenBump DEF TakenInv
  <2>4. CASE rpc = "payload"
    <3>1. /\ due \in Bytes /\ due[2] = HeaderSize + Bumped /\ want = Size[due[1]]
      BY <2>4 DEF FollowsInv, TakenInv, Inside, Fresh
    <3>2. ~Ends(due)
      BY <2>2, <3>1, ReaderNumbers, ByteFacts, Numbers DEF Ends
    <3>3. unread[1] = <<due[1], due[2] + 1>>
      BY <2>1, <2>4, <3>2 DEF FollowsInv, InFrame, Inside, Fresh
    <3>4. due' = <<due[1], due[2] + 1>>
      BY <1>2, <2>1, <3>3, TailFacts
    <3>5. due'[2] = HeaderSize + Bumped' /\ want' = Size[due'[1]]
      BY <2>2, <3>1, <3>4, ReaderNumbers, Numbers
    <3> QED
      BY <2>2, <2>4, <3>5 DEF TakenInv
  <2>5. CASE rpc = "discard"
    BY <2>2, <2>5 DEF TakenInv
  <2> QED
    BY <2>2, <2>3, <2>4, <2>5 DEF Taking
<1>3. CASE TakeLoad
  <2>1. UNCHANGED <<rpc, want, due>> /\ Taking
        /\ rDone' = rDone \cup {"load"} /\ "load" \notin rDone
    BY <1>3 DEF TakeLoad, Taking
  <2>2. Bumped' = Bumped
    <3>1. Len(taken') = Len(taken) + 1
      BY <1>3, LoadedByte, Types DEF TakeLoad, ReaderType
    <3> QED
      BY <2>1, <3>1, ReaderNumbers DEF Bumped
  <2>3. rpc = "length" => LengthTaken'
    BY <1>0, <1>3, LengthTakenLoad
  <2> QED
    BY <2>1, <2>2, <2>3 DEF TakenInv, Taking, Ends, FrameLength
<1>4. CASE TakeNext
  <2>1. /\ UNCHANGED <<want, taken, due, unread>>
        /\ rDone = {"bump", "load"} /\ rDone' = {}
        /\ rpc \in {"length", "payload", "discard"}
    BY <1>4 DEF TakeNext, history, ReaderInv
  <2>2. Bumped' = Bumped /\ Bumped = Len(taken) /\ Len(taken) <= want
    BY <2>1, ReaderNumbers DEF Bumped, CountInv, Taking
  <2>3. CASE Len(taken) < want
    <3>1. rpc' = rpc
      BY <1>4, <2>3 DEF TakeNext
    <3> QED
      BY <2>1, <2>2, <3>1 DEF TakenInv, LengthTaken, Ends, FrameLength, Header
  <2>4. CASE ~(Len(taken) < want)
    <3>1. Len(taken) = want
      BY <2>2, <2>4, ReaderNumbers
    <3>2. CASE rpc = "length"
      <4>1. rpc' = "getPayload"
        BY <1>4, <2>4, <3>2 DEF TakeNext
      <4>2. want = HeaderSize /\ due[2] = HeaderSize
        BY <2>2, <3>1, <3>2, Numbers DEF TakenInv, LengthTaken
      <4>3. taken = Header(due[1])
        <5>1. taken \in Seq(Byte) /\ Len(taken) = HeaderSize
          BY <3>1, <4>2, Types DEF ReaderType
        <5>2. \A k \in 1 .. HeaderSize : taken[k] = <<due[1], k>>
          BY <2>2, <3>1, <3>2, <4>2 DEF TakenInv, LengthTaken
        <5>3. taken = [k \in 1 .. HeaderSize |-> taken[k]]
          BY <5>1
        <5> QED
          BY <5>2, <5>3 DEF Header
      <4> QED
        BY <2>1, <4>1, <4>2, <4>3 DEF TakenInv, Header
    <3>3. CASE rpc = "payload"
      <4>1. rpc' = "send"
        BY <1>4, <2>4, <3>3 DEF TakeNext
      <4>2. due \in Bytes /\ due[2] = HeaderSize + Size[due[1]]
        BY <2>2, <3>1, <3>3 DEF TakenInv, FollowsInv, Inside, Fresh
      <4>3. Ends(due)
        BY <4>2, ByteFacts DEF Ends
      <4> QED
        BY <2>1, <4>1, <4>3 DEF TakenInv, Ends, FrameLength
    <3>4. CASE rpc = "discard"
      <4>1. rpc' = "drain"
        BY <1>4, <2>4, <3>4 DEF TakeNext
      <4> QED
        BY <4>1 DEF TakenInv
    <3> QED
      BY <2>1, <3>2, <3>3, <3>4
  <2> QED
    BY <2>3, <2>4
<1>5. CASE GetLength
  <2>1. CASE rpc' = "abort"
    BY <2>1 DEF TakenInv
  <2>2. CASE rpc' # "abort"
    <3>1. rpc' = "length" /\ want' = HeaderSize /\ taken' = <<>> /\ rDone' = {}
      BY <1>5, <2>2 DEF GetLength, ReaderInv
    <3>2. Bumped' = 0 /\ Len(taken') = 0
      BY <3>1 DEF Bumped
    <3>3. LengthTaken'
      BY <3>1, <3>2 DEF LengthTaken
    <3> QED
      BY <3>1, <3>3 DEF TakenInv
  <2> QED
    BY <2>1, <2>2
<1>6. CASE GetPayload
  <2>1. CASE rpc' = "payload"
    <3>1. PICK m \in Message :
            taken = Header(m) /\ taken' = <<>> /\ want' = Size[m]
      BY <1>0, <1>6, <2>1, GetPayloadTakes
    <3>2. rDone' = {} /\ due' = due /\ rpc = "getPayload"
      BY <1>6 DEF GetPayload, ReaderInv
    <3>3. due[2] = HeaderSize /\ m = due[1]
      BY <3>1, <3>2, HeaderTells DEF TakenInv
    <3>4. Bumped' = 0
      BY <3>1, <3>2 DEF Bumped
    <3> QED
      BY <2>1, <3>1, <3>2, <3>3, <3>4, Numbers DEF TakenInv
  <2>2. CASE rpc' # "payload"
    <3>1. rpc' \in {"abort", "undefined"}
      BY <1>0, <1>6, <2>2 DEF GetPayload
    <3> QED
      BY <3>1 DEF TakenInv
  <2> QED
    BY <2>1, <2>2
<1>7. CASE \/ FirstConnect \/ LoopTop \/ Reconnect \/ LookForFrame
           \/ GetNonsense \/ Send
           \/ ReadLine \/ Drain
  <2>1. rpc' \notin {"length", "getPayload", "payload", "send"}
    BY <1>7 DEF FirstConnect, LoopTop, Reconnect, LookForFrame, GetNonsense, Send,
           ReadLine, Drain
  <2> QED
    BY <2>1 DEF TakenInv
<1>8. CASE Stop
  <2>1. UNCHANGED <<rpc, want, taken, rDone, due, unread>>
    BY <1>8 DEF Stop, reader, history
  <2> QED
    BY <2>1 DEF TakenInv, LengthTaken, Bumped, Header, Ends, FrameLength
<1> QED
  BY <1>1, <1>2, <1>3, <1>4, <1>5, <1>6, <1>7, <1>8 DEF Next, Entry

-----------------------------------------------------------------------------
(* What the reader has seen, as long as there is no fault.                 *)

LEMMA WholeAtEnd ==
  ASSUME TypeOK, WriterInv, LastInv, ~MidFrame, unread # <<>>
  PROVE  Ends(unread[Len(unread)])
<1>1. CASE Putting /\ Put > 0
  <2>1. wpos > 0 \/ "bump" \in wDone
    BY <1>1, FrameNumbers DEF Put, InPart
  <2>2. wpos >= FrameLength(wmsg) /\ Put >= wpos
    BY <1>1, <2>1, FrameNumbers DEF MidFrame, Putting, Put
  <2>3. Put = FrameLength(wmsg)
    BY <1>1, <2>2, FrameNumbers DEF Putting
  <2> QED
    BY <1>1, <2>3 DEF LastInv, Ends
<1>2. CASE ~(Putting /\ Put > 0)
  BY <1>2 DEF LastInv
<1> QED
  BY <1>1, <1>2

LEMMA MidAtWrap ==
  ASSUME TypeOK, WriterInv, iPtr = Length
  PROVE  MidFrame
<1>1. "bump" \in wDone /\ wpc \in {"length", "payload"}
  BY Numbers DEF WriterInv
<1>2. wpos < FrameLength(wmsg)
  BY <1>1, FrameNumbers, Numbers DEF WriterInv
<1> QED
  BY <1>1, <1>2 DEF MidFrame

LEMMA TornStep ==
  ASSUME TypeOK, WriterInv, ReaderInv, LengthRight, CountInv, SeenInv, LastInv,
         TakenInv, TornInv, Next, fault' = "none"
  PROVE  TornInv'
<1>0. ~Note("overflow") /\ ~Note("underflow") /\ ~Note("stale") /\ ~Note("phantom")
  BY FaultStays
<1>1. CASE Write
  <2>1. UNCHANGED <<oPtr, rpc, want, taken, rDone, iSeen, due, torn>>
    BY <1>1, WriteFrame DEF reader
  <2>2. Seen' = Seen /\ Inside' = Inside /\ (Ends(due)' <=> Ends(due))
    BY <2>1 DEF Seen, Inside, Fresh, Bumped, SeenEnds, Ends, FrameLength
  <2>3. /\ iSeen # Length /\ Seen > 0
        /\ rpc \in {"getLength", "length", "getPayload"}
        => unread'[Seen] = unread[Seen]
    <3> SUFFICES ASSUME iSeen # Length, Seen > 0,
                        rpc \in {"getLength", "length", "getPayload"}
                 PROVE  unread'[Seen] = unread[Seen]
      OBVIOUS
    <3>1. Seen \in 1 .. Len(unread)
      BY ReaderNumbers DEF SeenInv, Dequeuing
    <3> QED
      BY <1>1, <3>1, UnreadGrows
  <2> QED
    BY <2>1, <2>2, <2>3 DEF TornInv, SeenEnds, Ends, FrameLength
<1>2. CASE \/ FirstConnect \/ LoopTop \/ Reconnect \/ GetNonsense \/ Send
           \/ ReadLine \/ Drain
  <2>1. rpc' \notin {"getLength", "length", "getPayload"}
    BY <1>2 DEF FirstConnect, LoopTop, Reconnect, GetNonsense, Send, ReadLine, Drain
  <2> QED
    BY <2>1 DEF TornInv
<1>3. CASE GetPayload
  <2>1. rpc' \notin {"getLength", "length", "getPayload"}
    BY <1>3 DEF GetPayload
  <2> QED
    BY <2>1 DEF TornInv
<1>4. CASE LookForFrame
  <2> SUFFICES ASSUME iSeen' # Length, rpc' = "getLength"
               PROVE  Seen' > 0 /\ (~torn' => SeenEnds')
    BY <1>4 DEF LookForFrame, TornInv
  <2>1. /\ UNCHANGED <<oPtr, unread>> /\ iSeen' = iPtr /\ oPtr # iPtr
        /\ torn' = MidFrame /\ rDone = {}
    BY <1>4 DEF LookForFrame, ring, ReaderInv
  <2>2. /\ Wrap(oPtr) = oPtr /\ oPtr \in Positions /\ iPtr \in Positions
        /\ DataSize(iPtr, oPtr) = Len(unread)
    BY <2>1, SeenNow
  <2>3. Seen' = Len(unread) /\ Seen' > 0
    BY <2>1, <2>2, PointerSteps DEF Seen
  <2>4. unread # <<>>
    BY <2>3
  <2>5. ~torn' => Ends(unread[Len(unread)])
    BY <2>1, <2>4, WholeAtEnd
  <2> QED
    BY <2>1, <2>3, <2>5 DEF SeenEnds, Ends, FrameLength
<1>5. CASE GetLength
  <2>1. CASE rpc' = "abort"
    BY <2>1 DEF TornInv
  <2>2. CASE rpc' # "abort"
    <3>1. /\ rpc' = "length" /\ UNCHANGED <<oPtr, unread>> /\ rDone = {}
          /\ ~Underflows(HeaderSize, iSeen', oPtr) /\ Reload /\ rpc = "getLength"
      BY <1>5, <2>2 DEF GetLength, ring, ReaderInv
    <3> SUFFICES ASSUME iSeen' # Length, ~torn'
                 PROVE  Seen' > 0 /\ SeenEnds'
      BY <3>1 DEF TornInv
    <3>2. CASE iSeen' = iSeen /\ torn' = torn
      <4>1. Seen' = Seen /\ Seen > 0 /\ SeenEnds
        BY <3>1, <3>2 DEF Seen, TornInv
      <4> QED
        BY <3>1, <4>1 DEF SeenEnds, Ends, FrameLength
    <3>3. CASE iSeen' = iPtr /\ torn' = MidFrame
      <4>1. /\ Wrap(oPtr) = oPtr /\ oPtr \in Positions /\ iPtr \in Positions
            /\ DataSize(iPtr, oPtr) = Len(unread)
        BY <3>1, <3>3, SeenNow
      <4>2. Seen' = Len(unread)
        BY <3>1, <3>3, <4>1 DEF Seen
      <4>3. Len(unread) >= HeaderSize /\ Len(unread) > 0
        BY <3>1, <3>3, <4>1, ReaderNumbers, Numbers DEF Underflows
      <4>4. unread # <<>>
        BY <4>3
      <4>5. Ends(unread[Len(unread)])
        BY <3>3, <4>4, WholeAtEnd
      <4> QED
        BY <3>1, <4>2, <4>3, <4>5 DEF SeenEnds, Ends, FrameLength
    <3> QED
      BY <3>1, <3>2, <3>3 DEF Reload
  <2> QED
    BY <2>1, <2>2
<1>6. CASE TakeBump
  <2>0. unread # <<>>
    BY <1>0, <1>6 DEF TakeBump
  <2>1. /\ UNCHANGED <<rpc, iSeen, torn>> /\ "bump" \notin rDone /\ oPtr' = oPtr + 1
        /\ Taking
    BY <1>6 DEF TakeBump, Taking
  <2> SUFFICES ASSUME iSeen # Length, rpc = "length", ~torn
               PROVE  IF Seen' > 0 THEN SeenEnds' ELSE Inside' /\ Ends(due)'
    BY <2>1 DEF TornInv, Taking
  <2>2. Seen >= 1 /\ Seen \in 1 .. Len(unread) /\ SeenEnds
    BY <2>1, EnoughSeen, ReaderNumbers DEF TornInv, SeenInv, Dequeuing
  <2>3. Seen' = Seen - 1
    <3>1. /\ oPtr \in Positions /\ Wrap(oPtr) = oPtr
          /\ Wrap(oPtr + 1) = After(oPtr, 1)
      BY <2>1, WrapFacts, Types DEF ReaderInv, RingType
    <3> QED
      BY <2>1, <2>2, <3>1, PointerSteps, ReaderNumbers DEF Seen
  <2>4. /\ Len(unread) \in Nat \ {0} /\ due' = unread[1]
        /\ \A k \in 1 .. Len(unread) - 1 : unread'[k] = unread[k + 1]
    BY <1>6, <2>0, TailFacts
  <2>5. CASE Seen > 1
    <3>1. Seen - 1 \in 1 .. Len(unread) - 1 /\ (Seen - 1) + 1 = Seen
      BY <2>2, <2>5, ReaderNumbers
    <3>2. unread'[Seen - 1] = unread[Seen]
      BY <2>4, <3>1
    <3>3. Seen' > 0 /\ unread'[Seen'] = unread[Seen]
      BY <2>3, <3>1, <3>2
    <3> QED
      BY <2>2, <3>3 DEF SeenEnds, Ends, FrameLength
  <2>6. CASE Seen = 1
    <3>1. Seen' = 0 /\ Ends(due)'
      BY <2>2, <2>3, <2>4, <2>6 DEF SeenEnds, Ends, FrameLength
    <3>2. Inside'
      <4>1. Bumped' = Bumped + 1 /\ Bumped \in Nat
        BY <1>6, BumpCounts DEF TakenInv, LengthTaken
      <4> QED
        BY <2>1, <4>1 DEF Inside, Fresh
    <3> QED
      BY <3>1, <3>2
  <2> QED
    BY <2>2, <2>5, <2>6
<1>7. CASE TakeLoad
  <2>1. UNCHANGED <<oPtr, rpc, iSeen, torn, due, unread>> /\ Taking
        /\ rDone' = rDone \cup {"load"} /\ "load" \notin rDone
    BY <1>7 DEF TakeLoad, Taking, ring
  <2>2. Bumped' = Bumped
    <3>1. Len(taken') = Len(taken) + 1
      BY <1>7, LoadedByte, Types DEF TakeLoad, ReaderType
    <3> QED
      BY <2>1, <3>1, ReaderNumbers DEF Bumped
  <2>3. Seen' = Seen /\ Inside' = Inside
    BY <2>1, <2>2 DEF Seen, Inside, Fresh
  <2> QED
    BY <2>1, <2>3 DEF TornInv, SeenEnds, Ends, FrameLength
<1>8. CASE TakeNext
  <2>1. /\ UNCHANGED <<want, taken, iSeen, torn, due, unread>>
        /\ rDone = {"bump", "load"} /\ rDone' = {} /\ Taking
        /\ oPtr' = Wrap(oPtr)
    BY <1>8 DEF TakeNext, history, ReaderInv, Taking
  <2>2. Seen' = Seen
    BY <2>1, WrapFacts, Types DEF Seen, RingType
  <2>3. Bumped' = Bumped
    BY <2>1, ReaderNumbers DEF Bumped
  <2>4. CASE rpc' \notin {"length", "getPayload"}
    <3>1. rpc' # "getLength"
      BY <1>8, <2>1 DEF TakeNext, Taking
    <3> QED
      BY <2>4, <3>1 DEF TornInv
  <2>5. CASE rpc' \in {"length", "getPayload"}
    <3>1. rpc = "length"
      BY <1>8, <2>1, <2>5 DEF TakeNext, Taking
    <3>2. Inside => Inside'
      BY <2>3, <2>5, <3>1 DEF Inside, Fresh
    <3> QED
      BY <2>1, <2>2, <2>5, <3>1, <3>2 DEF TornInv, SeenEnds, Ends, FrameLength
  <2> QED
    BY <2>4, <2>5
<1>9. CASE Stop
  <2>1. UNCHANGED <<oPtr, rpc, taken, rDone, iSeen, torn, due, unread>>
    BY <1>9 DEF Stop, ring, reader, history
  <2> QED
    BY <2>1 DEF TornInv, Seen, Inside, Fresh, Bumped, SeenEnds, Ends, FrameLength
<1> QED
  BY <1>1, <1>2, <1>3, <1>4, <1>5, <1>6, <1>7, <1>8, <1>9 DEF Next, Entry

-----------------------------------------------------------------------------
(* The causes of the faults.                                               *)

\* From a byte of a frame on, the bytes seen hold the rest of that frame.
LEMMA RestOfFrame ==
  ASSUME TypeOK, ChainInv, NEW d \in 1 .. Len(unread), Ends(unread[d])
  PROVE  d >= FrameLength(unread[1][1]) - unread[1][2] + 1
<1> DEFINE b == unread[1]
<1>1. Len(unread) \in Nat /\ 1 \in 1 .. Len(unread) /\ b \in Bytes
  BY Types, ReaderNumbers DEF HistoryType
<1> SUFFICES ASSUME b[2] + (d - 1) < FrameLength(b[1])
             PROVE  FALSE
  BY <1>1, ByteFacts
<1>2. unread[d] = <<b[1], b[2] + (d - 1)>>
  BY <1>1, ByteFacts DEF ChainInv
<1> QED
  BY <1>1, <1>2, ByteFacts DEF Ends

LEMMA LengthRefused ==
  ASSUME TypeOK, WriterInv, ReaderInv, LengthRight, SeenInv, NoFault, GetLength,
         Underflows(HeaderSize, iSeen', oPtr), iSeen # Length, ~torn'
  PROVE  FALSE
<1>1. /\ rDone = {} /\ Reload /\ rpc = "getLength" /\ Fresh /\ ~Inside /\ Dequeuing
  BY DEF GetLength, ReaderInv, Fresh, Inside, Dequeuing
<1>2. oPtr \in Positions /\ Wrap(oPtr) = oPtr
  BY <1>1, WrapFacts, Types DEF ReaderInv, RingType
<1>3. Seen > 0 /\ Seen <= Len(unread) /\ Seen \in Nat /\ unread # <<>>
  BY <1>1, ReaderNumbers, Numbers DEF NoFault, TornInv, SeenInv
<1>4. ASSUME NEW d \in 1 .. Len(unread), Ends(unread[d])
      PROVE  d >= HeaderSize
  <2>1. unread[1] \in Bytes
    BY <1>3, Types, ReaderNumbers DEF HistoryType
  <2>2. unread[1][2] = 1
    BY <1>1, <1>3 DEF NoFault, FollowsInv, AtStart
  <2>3. d >= FrameLength(unread[1][1])
    BY <1>4, <2>1, <2>2, RestOfFrame, ByteFacts DEF NoFault
  <2> QED
    BY <2>1, <2>3, ByteFacts, Numbers
<1>5. CASE iSeen' = iSeen /\ torn' = torn
  <2>1. Ends(unread[Seen]) /\ Seen \in 1 .. Len(unread)
    BY <1>1, <1>3, <1>5, ReaderNumbers DEF NoFault, TornInv, SeenEnds
  <2>2. Seen = DataSize(iSeen', oPtr)
    BY <1>2, <1>5 DEF Seen
  <2> QED
    BY <1>3, <1>4, <2>1, <2>2, Numbers DEF Underflows
<1>6. CASE iSeen' = iPtr /\ torn' = MidFrame
  <2>1. iPtr # Length
    BY <1>6, MidAtWrap
  <2>2. DataSize(iPtr, oPtr) = Len(unread)
    BY <1>1, <2>1, SeenNow
  <2>3. Ends(unread[Len(unread)]) /\ Len(unread) \in 1 .. Len(unread)
    BY <1>3, <1>6, WholeAtEnd, ReaderNumbers DEF NoFault
  <2> QED
    BY <1>4, <1>6, <2>2, <2>3, Numbers DEF Underflows
<1> QED
  BY <1>1, <1>5, <1>6 DEF Reload

LEMMA PayloadRefused ==
  ASSUME TypeOK, WriterInv, ReaderInv, LengthRight, SeenInv, NoFault, GetPayload,
         NEW m \in Message, taken = Header(m), Size[m] > 0,
         Underflows(Size[m], iSeen', oPtr), iSeen # Length, ~torn'
  PROVE  FALSE
<1>1. /\ rDone = {} /\ Reload /\ rpc = "getPayload" /\ Inside /\ Dequeuing
  BY DEF GetPayload, ReaderInv, Fresh, Inside, Dequeuing
<1>2. oPtr \in Positions /\ Wrap(oPtr) = oPtr
  BY <1>1, WrapFacts, Types DEF ReaderInv, RingType
<1>3. due \in Bytes /\ due[1] = m /\ due[2] = HeaderSize
  BY <1>1, HeaderTells DEF NoFault, FollowsInv, TakenInv
<1>4. ~Ends(due) /\ InFrame(due)
  <2>1. ~Ends(due)
    BY <1>3, ByteFacts, Numbers DEF Ends
  <2> QED
    BY <1>1, <2>1 DEF NoFault, FollowsInv
<1>5. ASSUME NEW d \in 1 .. Len(unread), Ends(unread[d])
      PROVE  d >= Size[m]
  <2>1. unread # <<>>
    BY <1>5, ReaderNumbers
  <2>2. unread[1] = <<m, HeaderSize + 1>>
    BY <1>3, <1>4, <2>1 DEF InFrame
  <2>3. d >= FrameLength(m) - (HeaderSize + 1) + 1
    BY <1>5, <2>2, RestOfFrame DEF NoFault
  <2> QED
    BY <2>3, Numbers
<1>6. CASE iSeen' = iSeen /\ torn' = torn
  <2>1. Seen > 0 /\ Ends(unread[Seen])
    BY <1>1, <1>4, <1>6 DEF NoFault, TornInv, SeenEnds
  <2>2. Seen \in 1 .. Len(unread)
    BY <1>1, <2>1, ReaderNumbers DEF SeenInv
  <2>3. Seen = DataSize(iSeen', oPtr)
    BY <1>2, <1>6 DEF Seen
  <2>4. Seen >= Size[m]
    BY <1>5, <2>1, <2>2
  <2> QED
    BY <2>2, <2>3, <2>4, Numbers, ReaderNumbers DEF Underflows
<1>7. CASE iSeen' = iPtr /\ torn' = MidFrame
  <2>1. iPtr # Length
    BY <1>7, MidAtWrap
  <2>2. DataSize(iPtr, oPtr) = Len(unread)
    BY <1>1, <2>1, SeenNow
  <2>3. unread # <<>>
    <3> SUFFICES ASSUME unread = <<>> PROVE FALSE
      OBVIOUS
    <3>1. Putting /\ due = <<wmsg, Put>>
      BY <1>4 DEF InFrame
    <3>2. Put = HeaderSize /\ wmsg = m /\ Put < FrameLength(wmsg)
      BY <1>3, <3>1, Numbers
    <3>3. Put > 0 /\ wpos <= Put
      BY <3>2, FrameNumbers, Numbers DEF Put
    <3>4. wpos > 0 \/ "bump" \in wDone
      BY <3>3, FrameNumbers DEF Put, InPart
    <3>5. wpos < FrameLength(wmsg)
      BY <1>3, <3>2, <3>3, FrameNumbers, Numbers
    <3>6. MidFrame
      BY <3>1, <3>4, <3>5 DEF MidFrame, Putting
    <3> QED
      BY <1>7, <3>6
  <2>4. Ends(unread[Len(unread)]) /\ Len(unread) \in 1 .. Len(unread)
    BY <1>7, <2>3, WholeAtEnd, Types, ReaderNumbers DEF NoFault, HistoryType
  <2>5. Len(unread) >= Size[m]
    BY <1>5, <2>4
  <2> QED
    BY <1>7, <2>2, <2>5, Numbers, ReaderNumbers DEF Underflows
<1> QED
  BY <1>1, <1>6, <1>7 DEF Reload

LEMMA OverflowCause ==
  ASSUME FInv, Write, fault' # fault
  PROVE  /\ fault' = "overflow"
         /\ \E o \in {oSeen, oPtr} : FreeSpace(iPtr, o) = Size[wmsg]
<1>1. AddPayload
  BY DEF Write, Call, CheckFreeSpace, AddLength, PutBump, PutStore, PutNext, history
<1>2. PICK o \in {oSeen, oPtr} : Overflows(Size[wmsg], iPtr, o) /\ Note("overflow")
  BY <1>1 DEF AddPayload
<1>3. fault = "none" /\ fault' = "overflow"
  BY <1>2 DEF Note
<1>4. TypeOK /\ WriterInv /\ Sound /\ FitInv
  BY <1>3, IntactParts DEF FInv, IInv, Sound, NoPhantom
<1>5. FreeSpace(iPtr, o) = Size[wmsg]
  BY <1>1, <1>2, <1>4, RefusedFitsExactly DEF AddPayload
<1> QED
  BY <1>3, <1>5

LEMMA FaultInEntry ==
  ASSUME Entry, fault' # fault
  PROVE  \/ /\ GetLength /\ fault = "none" /\ fault' = "underflow"
            /\ Underflows(HeaderSize, iSeen', oPtr)
         \/ /\ GetPayload /\ fault = "none" /\ fault' = "underflow"
            /\ \E m \in Message : /\ taken = Header(m) /\ Size[m] > 0
                                  /\ Underflows(Size[m], iSeen', oPtr)
         \/ /\ TakeBump \/ TakeLoad
            /\ "bump" \notin rDone /\ unread = <<>>
            /\ fault' = "phantom" /\ fault # "phantom"
         \/ /\ TakeLoad /\ fault = "none" /\ fault' = "stale"
            /\ \/ "bump" \notin rDone /\ unread # <<>> /\ cells[oPtr] # Head(unread)
               \/ "bump" \in rDone /\ cells[oPtr - 1] # due
<1>1. CASE GetLength
  BY <1>1 DEF GetLength, Note
<1>2. CASE GetPayload
  <2>1. PICK m \in Message :
          /\ taken = Header(m)
          /\ fault' = fault \/ (/\ Note("underflow") /\ Size[m] > 0
                                /\ Underflows(Size[m], iSeen', oPtr))
    BY <1>2 DEF GetPayload
  <2> QED
    BY <1>2, <2>1 DEF Note
<1>3. CASE TakeBump
  BY <1>3 DEF TakeBump, Note
<1>4. CASE TakeLoad
  <2>1. CASE "bump" \in rDone
    BY <1>4, <2>1 DEF TakeLoad, NoteUnless, Note
  <2>2. CASE "bump" \notin rDone /\ unread = <<>>
    BY <1>4, <2>2 DEF TakeLoad, Note
  <2>3. CASE "bump" \notin rDone /\ unread # <<>>
    BY <1>4, <2>3 DEF TakeLoad, NoteUnless, Note
  <2> QED
    BY <2>1, <2>2, <2>3
<1>5. CASE \/ FirstConnect \/ LoopTop \/ Reconnect \/ LookForFrame
           \/ GetNonsense \/ TakeNext \/ Send
           \/ ReadLine \/ Drain
  BY <1>5 DEF FirstConnect, LoopTop, Reconnect, LookForFrame, GetNonsense,
         TakeNext, Send, ReadLine, Drain, history
<1> QED
  BY <1>1, <1>2, <1>3, <1>4, <1>5 DEF Entry

LEMMA EntryCause ==
  ASSUME FInv, Entry, fault' # fault
  PROVE  \/ fault' = "underflow" /\ (torn' \/ iSeen = Length) /\ (GetLength \/ GetPayload)
         \/ fault' = "stale" /\ InFlight /\ Taking
         \/ fault' = "phantom" /\ iSeen = Length /\ Taking
<1>0. TypeOK /\ WriterInv /\ ReaderInv
  BY DEF FInv, IInv
<1>1. fault # "phantom" => LengthRight /\ CellsRight /\ DueRight /\ NoPhantom
  BY IntactParts DEF FInv, IInv, InPlace
<1>2. CASE /\ GetLength /\ fault = "none" /\ fault' = "underflow"
           /\ Underflows(HeaderSize, iSeen', oPtr)
  BY <1>0, <1>1, <1>2, LengthRefused DEF FInv, NoPhantom
<1>3. CASE /\ GetPayload /\ fault = "none" /\ fault' = "underflow"
           /\ \E m \in Message : /\ taken = Header(m) /\ Size[m] > 0
                                 /\ Underflows(Size[m], iSeen', oPtr)
  BY <1>0, <1>1, <1>3, PayloadRefused DEF FInv, NoPhantom
<1>4. CASE /\ TakeBump \/ TakeLoad
           /\ "bump" \notin rDone /\ unread = <<>>
           /\ fault' = "phantom" /\ fault # "phantom"
  <2>1. Taking
    BY <1>4 DEF TakeBump, TakeLoad, Taking
  <2>2. iSeen = Length
    BY <1>0, <1>1, <1>4, <2>1, EnoughSeen DEF NoPhantom
  <2> QED
    BY <1>4, <2>1, <2>2
<1>5. CASE /\ TakeLoad /\ fault = "none" /\ fault' = "stale"
           /\ \/ "bump" \notin rDone /\ unread # <<>> /\ cells[oPtr] # Head(unread)
              \/ "bump" \in rDone /\ cells[oPtr - 1] # due
  <2>1. Taking /\ "load" \notin rDone
    BY <1>5 DEF TakeLoad, Taking
  <2>2. CASE "bump" \in rDone
    <3>1. rDone = {"bump"}
      BY <1>0, <2>1, <2>2, ReaderNumbers
    <3> QED
      BY <1>1, <1>5, <2>1, <2>2, <3>1 DEF DueRight
  <2>3. CASE "bump" \notin rDone
    <3>1. oPtr \in Positions /\ Wrap(oPtr) = oPtr
      BY <1>0, <2>3, WrapFacts, Types DEF ReaderInv, RingType
    <3>2. After(oPtr, 0) = oPtr
      BY <3>1, Numbers, AfterFacts
    <3>3. 1 \in 1 .. Len(unread) /\ Head(unread) = unread[1]
      BY <1>0, <1>5, <2>3, Types DEF HistoryType
    <3>4. cells[After(Wrap(oPtr), 1 - 1)] = unread[1] \/ InFlight
      BY <1>1, <1>5, <3>3 DEF CellsRight
    <3> QED
      BY <1>5, <2>1, <2>3, <3>1, <3>2, <3>3, <3>4
  <2> QED
    BY <2>2, <2>3
<1> QED
  BY <1>2, <1>3, <1>4, <1>5, FaultInEntry

-----------------------------------------------------------------------------
(* The invariant.                                                          *)

LEMMA FInvInit == Init => FInv
<1> SUFFICES ASSUME Init PROVE FInv
  OBVIOUS
<1>1. IInv
  BY IInvInit
<1>2. Bumped = 0
  BY DEF Init, Bumped
<1>3. NoPhantom
  BY DEF Init, NoPhantom, FitInv, CountInv, SeenInv, Taking, Dequeuing
<1>4. NoFault
  BY DEF Init, NoFault, ChainInv, LastInv, FollowsInv, TakenInv, TornInv, Fresh,
     Inside, AtStart, Putting
<1> QED
  BY <1>1, <1>3, <1>4 DEF FInv

LEMMA FInvStep == FInv /\ [Next]_vars => FInv'
<1> SUFFICES ASSUME FInv, [Next]_vars
             PROVE  FInv'
  OBVIOUS
<1>0. IInv /\ IInv' /\ TypeOK /\ WriterInv /\ ReaderInv
  BY IInvStep DEF FInv, IInv
<1>1. CASE Next
  <2>1. ASSUME fault' # "phantom" PROVE NoPhantom'
    <3>1. fault # "phantom"
      BY <1>0, <1>1, <2>1, PhantomStays
    <3>2. Sound /\ LengthRight /\ NoPhantom
      BY <1>0, <3>1, IntactParts DEF FInv, IInv, Sound, InPlace
    <3>3. FitInv'
      BY <1>0, <1>1, <3>2, FitStep DEF NoPhantom
    <3>4. CountInv'
      BY <1>0, <1>1, <3>2, CountStep DEF NoPhantom
    <3>5. SeenInv'
      BY <1>0, <1>1, <2>1, <3>2, SeenStep DEF NoPhantom
    <3> QED
      BY <3>3, <3>4, <3>5 DEF NoPhantom
  <2>2. ASSUME fault' = "none" PROVE NoFault'
    <3>1. fault = "none"
      BY <1>1, <2>2, FaultStays
    <3>2. LengthRight /\ NoPhantom /\ NoFault
      BY <1>0, <3>1, IntactParts DEF FInv, InPlace, IInv
    <3>3. ChainInv'
      BY <1>0, <1>1, <2>2, <3>2, ChainStep DEF NoFault
    <3>4. LastInv'
      BY <1>0, <1>1, <2>2, <3>2, LastStep DEF NoFault
    <3>5. FollowsInv'
      BY <1>0, <1>1, <2>2, <3>2, FollowsStep DEF NoFault, NoPhantom
    <3>6. TakenInv'
      BY <1>0, <1>1, <2>2, <3>2, TakenStep DEF NoFault, NoPhantom
    <3>7. TornInv'
      BY <1>0, <1>1, <2>2, <3>2, TornStep DEF NoFault, NoPhantom
    <3> QED
      BY <3>3, <3>4, <3>5, <3>6, <3>7 DEF NoFault
  <2> QED
    BY <1>0, <2>1, <2>2 DEF FInv
<1>2. CASE UNCHANGED vars
  <2>1. UNCHANGED <<iPtr, oPtr, writer, reader, history>>
    BY <1>2 DEF vars, ring
  <2>2. NoPhantom => NoPhantom'
    BY <2>1 DEF writer, reader, history, NoPhantom, FitInv, CountInv, SeenInv,
       Filled, Rest, InPart, FrameLength, Taking, Dequeuing, Bumped, Seen
  <2>3. ChainInv => ChainInv'
    BY <2>1 DEF history, ChainInv, Ends, FrameLength
  <2>4. LastInv => LastInv'
    BY <2>1 DEF writer, history, LastInv, Putting, Put, InPart, Ends, FrameLength
  <2>5. FollowsInv => FollowsInv'
    <3>1. /\ Fresh' <=> Fresh
          /\ Inside' <=> Inside
          /\ AtStart' <=> AtStart
          /\ InFrame(due)' <=> InFrame(due)
          /\ Ends(due)' <=> Ends(due)
      BY <2>1 DEF writer, reader, history, Fresh, Inside, AtStart, InFrame,
         Putting, Put, InPart, Bumped, Ends, FrameLength
    <3> QED
      BY <2>1, <3>1 DEF history, FollowsInv
  <2>6. TakenInv => TakenInv'
    BY <2>1 DEF reader, history, TakenInv, LengthTaken, Header, Bumped, Ends,
       FrameLength
  <2>7. TornInv => TornInv'
    <3>1. /\ Seen' = Seen
          /\ Inside' <=> Inside
          /\ SeenEnds' <=> SeenEnds
          /\ Ends(due)' <=> Ends(due)
      BY <2>1 DEF reader, history, Seen, SeenEnds, Inside, Fresh, Bumped, Ends,
         FrameLength
    <3> QED
      BY <2>1, <3>1 DEF reader, history, TornInv
  <2>8. NoFault => NoFault'
    BY <2>3, <2>4, <2>5, <2>6, <2>7 DEF NoFault
  <2> QED
    BY <1>0, <2>1, <2>2, <2>8 DEF FInv, history
<1> QED
  BY <1>1, <1>2

LEMMA FInvAlways == Spec => []FInv
BY FInvInit, FInvStep, PTL DEF Spec

(* Every fault of the frame queue has one of four causes, for every length *)
(* of the ring and every size of the messages (APRSWriterThread.cpp:170,   *)
(* RingBuffer.h:52-61).                                                    *)
THEOREM EveryFaultExplained == Spec => FaultsExplained
<1> DEFINE Explained ==
      fault' # fault =>
        CASE fault' = "overflow"  -> \E o \in {oSeen, oPtr} :
                                       FreeSpace(iPtr, o) = Size[wmsg]
          [] fault' = "underflow" -> torn' \/ iSeen = Length
          [] fault' = "stale"     -> InFlight
          [] fault' = "phantom"   -> iSeen = Length
          [] OTHER                -> FALSE
<1>1. FInv /\ [Next]_vars => [Explained]_vars
  <2> SUFFICES ASSUME FInv, Next, fault' # fault
               PROVE  Explained
    BY DEF vars, history
  <2>1. CASE Write
    BY <2>1, OverflowCause
  <2>2. CASE Entry
    BY <2>2, EntryCause
  <2>3. CASE Stop
    BY <2>3 DEF Stop, history
  <2> QED
    BY <2>1, <2>2, <2>3 DEF Next
<1> QED
  BY <1>1, FInvAlways, PTL DEF Spec, FaultsExplained

-----------------------------------------------------------------------------
(* Without an overlap of the threads.                                      *)

LEMMA IdleWriter ==
  ASSUME TypeOK, WriterInv, wpc = "idle"
  PROVE  ~MidFrame /\ ~InFlight /\ iPtr # Length
BY Numbers DEF WriterInv, MidFrame, InFlight

LEMMA ApartStep ==
  ASSUME TypeOK, WriterInv, ReaderInv, ApartInv, Next
  PROVE  ApartInv'
<1> SUFFICES ASSUME ~overlapped'
             PROVE  /\ Apart'
                    /\ Dequeuing' => iSeen' # Length
                    /\ rpc' \in {"getLength", "length", "getPayload", "payload"} => ~torn'
  BY DEF ApartInv
<1>1. ~overlapped /\ Apart'
  BY DEF Next, Watch
<1>2. /\ Apart
      /\ Dequeuing => iSeen # Length
      /\ rpc \in {"getLength", "length", "getPayload", "payload"} => ~torn
  BY <1>1 DEF ApartInv
<1>3. CASE Write \/ Stop
  <2>1. UNCHANGED <<rpc, iSeen, torn>>
    BY <1>3, WriteFrame DEF Stop, reader, history
  <2> QED
    BY <1>1, <1>2, <2>1 DEF Dequeuing
<1>4. CASE Entry
  <2>1. wpc' = wpc
    BY <1>4, EntryFrame DEF writer
  <2>2. CASE ~Dequeuing'
    BY <1>1, <2>2 DEF Dequeuing
  <2>3. CASE Dequeuing'
    <3>1. wpc = "idle" /\ ~MidFrame /\ iPtr # Length
      BY <1>1, <2>1, <2>3, IdleWriter DEF Apart
    <3>2. CASE LookForFrame
      BY <1>1, <3>1, <3>2 DEF LookForFrame
    <3>3. CASE GetLength \/ GetPayload
      <4>1. Reload /\ rpc \in {"getLength", "getPayload"}
        BY <3>3 DEF GetLength, GetPayload
      <4> QED
        BY <1>1, <1>2, <3>1, <4>1 DEF Reload, Dequeuing
    <3>4. CASE TakeBump \/ TakeLoad
      <4>1. rpc' = rpc /\ iSeen' = iSeen /\ torn' = torn
        BY <3>4 DEF TakeBump, TakeLoad
      <4> QED
        BY <1>1, <1>2, <4>1 DEF Dequeuing
    <3>5. CASE TakeNext
      <4>1. iSeen' = iSeen /\ torn' = torn
        BY <3>5 DEF TakeNext, history
      <4>2. rpc' = rpc \/ (rpc = "length" /\ rpc' = "getPayload")
        BY <2>3, <3>5 DEF TakeNext, Dequeuing, ReaderInv
      <4> QED
        BY <1>1, <1>2, <4>1, <4>2 DEF Dequeuing
    <3>6. CASE Drain
      <4>1. iSeen' = iPtr /\ rpc' \in {"done", "discard"}
        BY <3>6 DEF Drain
      <4> QED
        BY <1>1, <3>1, <4>1
    <3>7. CASE FirstConnect \/ LoopTop \/ Reconnect \/ GetNonsense \/ Send
                 \/ ReadLine
      BY <2>3, <3>7 DEF FirstConnect, LoopTop, Reconnect, GetNonsense, Send,
             ReadLine, Dequeuing
    <3> QED
      BY <1>4, <3>2, <3>3, <3>4, <3>5, <3>6, <3>7 DEF Entry
  <2> QED
    BY <2>2, <2>3
<1> QED
  BY <1>3, <1>4 DEF Next

(* As long as write() has not overlapped the taking of a frame, the exact  *)
(* fit is the only fault there can be, for every length of the ring and    *)
(* every size of the messages (APRSWriterThread.cpp:100-105, 170-177).     *)
THEOREM ApartOnlyExactFit == Spec => []OnlyExactFit
<1> DEFINE Inv == ApartInv /\ OnlyExactFit
<1>1. Init => Inv
  BY DEF Init, ApartInv, OnlyExactFit, Apart, Dequeuing
<1>2. FInv /\ Inv /\ [Next]_vars => Inv'
  <2> SUFFICES ASSUME FInv, Inv, [Next]_vars
               PROVE  Inv'
    OBVIOUS
  <2>0. TypeOK /\ WriterInv /\ ReaderInv
    BY DEF FInv, IInv
  <2>1. CASE Next
    <3>1. ApartInv'
      BY <2>0, <2>1, ApartStep
    <3>2. OnlyExactFit'
      <4> SUFFICES ASSUME ~overlapped', fault' # fault
                   PROVE  fault' = "overflow"
        BY <2>1 DEF OnlyExactFit, Next, Watch
      <4>1. ~overlapped /\ Apart
        BY <2>1 DEF Next, Watch, ApartInv
      <4>2. CASE Write
        BY <4>2, OverflowCause
      <4>3. CASE Entry
        <5>1. /\ Dequeuing
              /\ \/ (torn' \/ iSeen = Length) /\ (GetLength \/ GetPayload)
                 \/ InFlight
                 \/ iSeen = Length
          BY <4>3, EntryCause DEF GetLength, GetPayload, Taking, Dequeuing
        <5>2. ~MidFrame /\ ~InFlight /\ iSeen # Length
          BY <2>0, <4>1, <5>1, IdleWriter DEF Apart, ApartInv
        <5>3. GetLength \/ GetPayload => ~torn'
          BY <4>1, <5>2 DEF GetLength, GetPayload, Reload, ApartInv
        <5> QED
          BY <5>1, <5>2, <5>3
      <4>4. CASE Stop
        BY <4>4 DEF Stop, history
      <4> QED
        BY <2>1, <4>2, <4>3, <4>4 DEF Next
    <3> QED
      BY <3>1, <3>2
  <2>2. CASE UNCHANGED vars
    BY <2>2 DEF vars, writer, reader, history, ApartInv, OnlyExactFit, Apart, Dequeuing
  <2> QED
    BY <2>1, <2>2
<1>3. Inv => OnlyExactFit
  OBVIOUS
<1> QED
  BY <1>1, <1>2, <1>3, FInvAlways, PTL DEF Spec

=============================================================================
