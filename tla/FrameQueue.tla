----------------------------- MODULE FrameQueue -----------------------------
(***************************************************************************)
(* The frame queue of CAPRSWriterThread: write(), called on the MQTT       *)
(* client's thread, puts a frame - its length as an unsigned int, then its *)
(* bytes - into the ring buffer m_queue, and entry(), on the writer's own  *)
(* thread, takes frames out and hands them to the socket.  No lock and no  *)
(* atomic type protects the ring, so each call is modelled as its accesses *)
(* to the shared pointers and cells, interleaved with the other thread's.  *)
(*                                                                         *)
(* The accesses are those a build can make.  For one byte the store to the *)
(* pointer and the access to the cell come in either order, and a pointer  *)
(* of the other thread that is tested twice is either loaded again or kept *)
(* from the first load (oSeen, iSeen).                                     *)
(***************************************************************************)
EXTENDS RingPointers, Sequences

CONSTANTS
  HeaderSize,  \* sizeof(unsigned int)
  BufferSize,  \* FRAME_BUFFER_SIZE, the bytes of p[] in entry()
  Message,     \* the messages MQTT delivers, each one at most once
  Size,        \* Size[m]: the number of bytes of message m, any number: what
               \* MQTT delivers is not looked at on its way to write()
  None         \* no message, and what a cell holds that was never written

ASSUME HeaderAssumption == HeaderSize \in Nat \ {0} /\ BufferSize \in Nat \ {0}
ASSUME MessageAssumption ==
  /\ Size \in [Message -> Nat]
  /\ None \notin Message

VARIABLES
  cells, iPtr, oPtr,         \* m_queue: m_buffer, m_iPtr, m_oPtr
  connected,                 \* m_connected
  exit,                      \* m_exit
  \* write(), on the MQTT client's thread
  todo,                      \* the messages not yet delivered to write()
  wpc,                       \* where write() is
  wmsg,                      \* its message
  wpos,                      \* how many bytes of the frame it has stored
  wDone,                     \* what it has done for the byte after those
  oSeen,                     \* the last value of m_oPtr it loaded
  \* entry(), on the writer thread
  rpc,                       \* where entry() is
  want,                      \* nSamples of the getData() in progress
  taken,                     \* the bytes that getData() has copied so far
  rDone,                     \* what it has done for the byte after those
  iSeen,                     \* the last value of m_iPtr it loaded
  \* history
  unread,                    \* the bytes put in and not yet taken out
  due,                       \* the byte that getData() should be copying
  torn,                      \* iSeen was loaded when part of a frame was in
  committed,                 \* the messages write() began to put in
  handed,                    \* what was passed to m_socket.write()
  fault,                     \* the first departure from a queue of frames, or
                             \* "phantom" once m_oPtr has passed m_iPtr
  overlapped                 \* write() has overlapped the taking of a frame

ring    == <<cells, iPtr, oPtr>>
writer  == <<todo, wpc, wmsg, wpos, wDone, oSeen>>
reader  == <<rpc, want, taken, rDone, iSeen>>
flags   == <<connected, exit>>
history == <<unread, due, torn, committed, handed, fault>>
vars    == <<ring, writer, reader, flags, history, overlapped>>

-----------------------------------------------------------------------------
(* Frames.  Byte j of the frame of message m is <<m, j>>; the first        *)
(* HeaderSize bytes encode Size[m].                                        *)

\* Mutant: the last byte is missed.
MutFrameLength(m) == HeaderSize + Size[m] - 1
FrameLength(m) == HeaderSize + Size[m]
Header(m)  == [j \in 1 .. HeaderSize |-> <<m, j>>]
Payload(m) == [j \in 1 .. Size[m] |-> <<m, HeaderSize + j>>]
Bytes == {b \in Message \X Nat : b[2] \in 1 .. FrameLength(b[1])}

\* What p[] holds when getData() refused to fill it.
Garbage == <<None>>

Note(f) == fault' = IF fault = "none" \/ f = "phantom" THEN f ELSE fault

-----------------------------------------------------------------------------
(* write() on the MQTT client's thread.                                    *)

\* write() puts the byte after the first wpos ones of the frame.
PutByte == <<wmsg, wpos + 1>>

\* Part of a frame, but not all of it, is behind the input pointer.
MidFrame ==
  /\ wpc \in {"length", "addPayload", "payload"}
  /\ wpos > 0 \/ "bump" \in wDone
  /\ wpos < FrameLength(wmsg)

\* The newest byte is counted by m_iPtr and not yet in its cell.
InFlight == wDone = {"bump"}

\* write() returns, and its locals are gone.
Return == wpc' = "idle" /\ wmsg' = None /\ wpos' = 0 /\ oSeen' = 0

Call(m) ==
  /\ wpc = "idle"
  /\ m \in todo
  /\ todo' = todo \ {m}
  /\ IF connected THEN wpc' = "freeSpace" /\ wmsg' = m
                  ELSE UNCHANGED <<wpc, wmsg>>
  /\ UNCHANGED <<ring, wpos, wDone, oSeen, reader, flags, history>>

\* Mutant: the bytes of the length are forgotten.
MutNoSpace == FreeSpace(iPtr, oPtr) < Size[wmsg]
NoSpace == FreeSpace(iPtr, oPtr) < Size[wmsg] + HeaderSize

CheckFreeSpace ==
  /\ wpc = "freeSpace"
  /\ IF NoSpace
       THEN Return
       ELSE wpc' = "addLength" /\ oSeen' = oPtr /\ UNCHANGED <<wmsg, wpos>>
  /\ UNCHANGED <<ring, todo, wDone, reader, flags, history>>

\* The test at the head of addData(), for the length of the frame.  It can
\* only fail for a message without bytes that fits exactly, which is then not
\* put in at all.
AddLength ==
  /\ wpc = "addLength"
  /\ \E o \in {oSeen, oPtr} :
       IF Overflows(HeaderSize, iPtr, o)
         THEN Return /\ UNCHANGED committed
         ELSE /\ wpc' = "length"
              /\ oSeen' = o
              /\ committed' = Append(committed, wmsg)
              /\ UNCHANGED <<wmsg, wpos>>
  /\ UNCHANGED <<ring, todo, wDone, reader, flags, unread, due, torn, handed,
                 fault>>

\* The test at the head of addData(), for the bytes of the frame.  When it
\* fails, write() returns with the length already in the ring.
AddPayload ==
  /\ wpc = "addPayload"
  /\ \E o \in {oSeen, oPtr} :
       IF Overflows(Size[wmsg], iPtr, o)
         THEN Return /\ Note("overflow")
         ELSE /\ IF Size[wmsg] = 0
                   THEN Return
                   ELSE wpc' = "payload" /\ oSeen' = o /\ UNCHANGED <<wmsg, wpos>>
              /\ UNCHANGED fault
  /\ UNCHANGED <<ring, todo, wDone, reader, flags, unread, due, torn,
                 committed, handed>>

\* One round of addData()'s loop is three steps: m_iPtr++ , the store to the
\* cell, and the wrap of m_iPtr with the loop's own test.
PutBump ==
  /\ wpc \in {"length", "payload"}
  /\ "bump" \notin wDone
  /\ iPtr' = iPtr + 1
  /\ wDone' = wDone \cup {"bump"}
  /\ unread' = Append(unread, PutByte)
  /\ UNCHANGED <<cells, oPtr, todo, wpc, wmsg, wpos, oSeen, reader, flags,
                 due, torn, committed, handed, fault>>

PutStore ==
  /\ wpc \in {"length", "payload"}
  /\ "store" \notin wDone
  /\ cells' = [cells EXCEPT ![IF InFlight THEN iPtr - 1 ELSE iPtr] = PutByte]
  /\ wDone' = wDone \cup {"store"}
  /\ UNCHANGED <<iPtr, oPtr, todo, wpc, wmsg, wpos, oSeen, reader, flags,
                 history>>

PutNext ==
  /\ wDone = {"bump", "store"}
  /\ iPtr' = Wrap(iPtr)
  /\ wDone' = {}
  /\ IF wpc = "payload" /\ wpos + 1 = FrameLength(wmsg)
       THEN Return
       ELSE /\ wpos' = wpos + 1
            /\ wpc' = IF wpos + 1 = HeaderSize THEN "addPayload" ELSE wpc
            /\ UNCHANGED <<wmsg, oSeen>>
  /\ UNCHANGED <<cells, oPtr, todo, reader, flags, history>>

Write ==
  \/ \E m \in Message : Call(m)
  \/ CheckFreeSpace \/ AddLength \/ AddPayload
  \/ PutBump \/ PutStore \/ PutNext

-----------------------------------------------------------------------------
(* entry() on the writer thread.                                           *)

\* The first connect(), before the loop.
FirstConnect ==
  /\ rpc = "connect"
  /\ rpc' = "top"
  /\ connected' \in BOOLEAN
  /\ UNCHANGED <<ring, writer, want, taken, rDone, iSeen, exit, history>>

\* Mutant: m_exit is only looked at while disconnected.
MutLoopTop ==
  /\ rpc = "top"
  /\ rpc' \in IF exit /\ ~connected THEN {"drain"}
             ELSE IF connected THEN {"isEmpty"}
             ELSE {"reconnect", "top"}
  /\ UNCHANGED <<ring, writer, want, taken, rDone, iSeen, flags, history>>

\* while (!m_exit).  The timer of the reconnection is module WriterThread;
\* here it may expire in any round.
LoopTop ==
  /\ rpc = "top"
  /\ rpc' \in IF exit THEN {"drain"}
             ELSE IF connected THEN {"isEmpty"}
             ELSE {"reconnect", "top"}
  /\ UNCHANGED <<ring, writer, want, taken, rDone, iSeen, flags, history>>

\* connect() in the loop; a round without a connection does nothing more.
Reconnect ==
  /\ rpc = "reconnect"
  /\ connected' \in BOOLEAN
  /\ rpc' = IF connected' THEN "isEmpty" ELSE "top"
  /\ UNCHANGED <<ring, writer, want, taken, rDone, iSeen, exit, history>>

\* Mutant: the load of m_iPtr is kept from round to round.
MutLookForFrame ==
  /\ rpc = "isEmpty"
  /\ iSeen' = iSeen
  /\ torn' = MidFrame
  /\ rpc' = IF oPtr = iSeen THEN "readLine" ELSE "getLength"
  /\ UNCHANGED <<ring, writer, want, taken, rDone, flags, unread, due,
                 committed, handed, fault>>

\* m_queue.isEmpty()
LookForFrame ==
  /\ rpc = "isEmpty"
  /\ iSeen' = iPtr
  /\ torn' = MidFrame
  /\ rpc' = IF oPtr = iPtr THEN "readLine" ELSE "getLength"
  /\ UNCHANGED <<ring, writer, want, taken, rDone, flags, unread, due,
                 committed, handed, fault>>

\* The reader loads m_iPtr again, or keeps the value it has.
Reload ==
  \/ UNCHANGED <<iSeen, torn>>
  \/ iSeen' = iPtr /\ torn' = MidFrame

\* The test at the head of getData(), for the length.  entry() ignores a
\* refusal: length stays 0, getData() copies nothing, and m_socket.write()
\* asserts that its length is positive.
GetLength ==
  /\ rpc = "getLength"
  /\ Reload
  /\ taken' = <<>>
  /\ IF Underflows(HeaderSize, iSeen', oPtr)
       THEN rpc' = "abort" /\ Note("underflow") /\ UNCHANGED want
       ELSE rpc' = "length" /\ want' = HeaderSize /\ UNCHANGED fault
  /\ UNCHANGED <<ring, writer, rDone, flags, unread, due, committed, handed>>

\* Mutant: a byte of p[] is kept for a terminator.
MutFits(m) == Size[m] < BufferSize
\* The frame has room in p[].
Fits(m) == Size[m] <= BufferSize

\* The test at the head of getData(), for the bytes of the frame.  entry()
\* ignores a refusal here too and sends what p[] happens to hold.  Without
\* bytes there is nothing to take, and m_socket.write() asserts as above.  A
\* frame longer than p[] is copied, or at least sent, from beyond its end.
GetPayload ==
  /\ rpc = "getPayload"
  /\ Reload
  /\ \E m \in Message :
       /\ taken = Header(m)
       /\ CASE Size[m] = 0 ->
                 rpc' = "abort" /\ UNCHANGED <<taken, want, fault>>
            [] ~Fits(m) ->
                 rpc' = "undefined" /\ UNCHANGED <<taken, want, fault>>
            [] Fits(m) /\ Size[m] > 0 /\ Underflows(Size[m], iSeen', oPtr) ->
                 /\ rpc' = "send" /\ taken' = Garbage
                 /\ Note("underflow")
                 /\ UNCHANGED want
            [] OTHER ->
                 /\ rpc' = "payload" /\ taken' = <<>> /\ want' = Size[m]
                 /\ UNCHANGED fault
  /\ UNCHANGED <<ring, writer, rDone, flags, unread, due, committed, handed>>

\* The four bytes are not the length of any frame: whatever number they make,
\* what the program does next is not defined.
GetNonsense ==
  /\ rpc = "getPayload"
  /\ \A m \in Message : taken # Header(m)
  /\ rpc' = "undefined"
  /\ UNCHANGED <<ring, writer, want, taken, rDone, iSeen, flags, history>>

\* One round of getData()'s loop: m_oPtr++ , the load of the cell, and the
\* wrap of m_oPtr with the loop's own test.
TakeBump ==
  /\ rpc \in {"length", "payload", "discard"}
  /\ "bump" \notin rDone
  /\ oPtr' = oPtr + 1
  /\ rDone' = rDone \cup {"bump"}
  /\ IF unread = <<>>
       THEN Note("phantom") /\ UNCHANGED <<unread, due>>
       ELSE unread' = Tail(unread) /\ due' = Head(unread) /\ UNCHANGED fault
  /\ UNCHANGED <<cells, iPtr, writer, rpc, want, taken, iSeen, flags, torn,
                 committed, handed>>

NoteUnless(same) == IF same THEN UNCHANGED fault ELSE Note("stale")

TakeLoad ==
  /\ rpc \in {"length", "payload", "discard"}
  /\ "load" \notin rDone
  /\ LET bumped == "bump" \in rDone
         byte   == cells[IF bumped THEN oPtr - 1 ELSE oPtr]
     IN  /\ taken' = Append(taken, byte)
         /\ CASE ~bumped /\ unread = <<>> -> Note("phantom")
              [] ~bumped /\ unread # <<>> -> NoteUnless(byte = Head(unread))
              [] bumped                  -> NoteUnless(byte = due)
  /\ rDone' = rDone \cup {"load"}
  /\ UNCHANGED <<ring, writer, rpc, want, iSeen, flags, unread, due, torn,
                 committed, handed>>

TakeNext ==
  /\ rDone = {"bump", "load"}
  /\ oPtr' = Wrap(oPtr)
  /\ rDone' = {}
  /\ rpc' = IF Len(taken) < want
              THEN rpc
              ELSE CASE rpc = "length"  -> "getPayload"
                     [] rpc = "payload" -> "send"
                     [] rpc = "discard" -> "drain"
  /\ UNCHANGED <<cells, iPtr, writer, want, taken, iSeen, flags, history>>

\* Mutant: a frame is sent a second time when the first attempt failed.
MutSend ==
  /\ rpc = "send"
  /\ handed' = Append(handed, taken)
  /\ rpc' \in {"readLine", "send"}
  /\ UNCHANGED <<ring, writer, want, taken, rDone, iSeen, flags, unread, due,
                 torn, committed, fault>>

\* m_socket.write(p, length), and close() when it fails.
Send ==
  /\ rpc = "send"
  /\ handed' = Append(handed, taken)
  /\ \/ rpc' = "readLine" /\ UNCHANGED connected
     \/ rpc' = "top" /\ connected' = FALSE
  /\ taken' = <<>> /\ want' = 0 /\ iSeen' = 0 /\ due' = None /\ torn' = FALSE
  /\ UNCHANGED <<ring, writer, rDone, exit, unread, committed, fault>>

\* m_socket.readLine(), and close() when it fails.
ReadLine ==
  /\ rpc = "readLine"
  /\ rpc' = "top"
  /\ connected' \in BOOLEAN
  /\ UNCHANGED <<ring, writer, want, taken, rDone, iSeen, exit, history>>

\* while (!m_queue.isEmpty()) getData(&p, 1)
Drain ==
  /\ rpc = "drain"
  /\ iSeen' = iPtr
  /\ IF oPtr = iPtr
       THEN rpc' = "done" /\ UNCHANGED <<want, taken>>
       ELSE rpc' = "discard" /\ want' = 1 /\ taken' = <<>>
  /\ UNCHANGED <<ring, writer, rDone, flags, history>>

Entry ==
  \/ FirstConnect \/ LoopTop \/ Reconnect
  \/ LookForFrame \/ GetLength \/ GetPayload \/ GetNonsense
  \/ TakeBump \/ TakeLoad \/ TakeNext
  \/ Send \/ ReadLine \/ Drain

\* stop(), on the main thread.
Stop ==
  /\ ~exit
  /\ exit' = TRUE
  /\ UNCHANGED <<ring, writer, reader, connected, history>>

-----------------------------------------------------------------------------

Init ==
  /\ cells = [p \in Positions |-> None]
  /\ iPtr = 0 /\ oPtr = 0
  /\ connected = FALSE /\ exit = FALSE
  /\ todo = Message
  /\ wpc = "idle" /\ wmsg = None /\ wpos = 0 /\ wDone = {} /\ oSeen = 0
  /\ rpc = "connect" /\ want = 0 /\ taken = <<>> /\ rDone = {} /\ iSeen = 0
  /\ unread = <<>> /\ due = None /\ torn = FALSE
  /\ committed = <<>> /\ handed = <<>> /\ fault = "none"
  /\ overlapped = FALSE

\* The program stops for good once it has aborted.
Running == rpc \notin {"abort", "undefined"}

\* write() is not overlapping the taking of a frame.
Dequeuing == rpc \in {"getLength", "length", "getPayload", "payload", "discard"}
Apart == wpc = "idle" \/ ~Dequeuing

Watch == overlapped' = (overlapped \/ ~Apart')

Next == Running /\ (Write \/ Entry \/ Stop) /\ Watch

Spec == Init /\ [][Next]_vars

\* Where the other end of the connection can hold entry() for any time:
\* readLine() starts its timeout again with every byte, and send() has none.
InCall == rpc \in {"connect", "reconnect", "send", "readLine"}

\* Both threads are scheduled.  Nothing says that a message comes, or that a
\* call of the socket returns.
FairSpec ==
  /\ Spec
  /\ WF_vars(Running /\ wpc # "idle" /\ Write /\ Watch)
  /\ WF_vars(Running /\ ~InCall /\ Entry /\ Watch)

\* The behaviours in which write() never overlaps the taking of a frame.
SerialNext == Next /\ Apart'
SerialSpec == Init /\ [][SerialNext]_vars

-----------------------------------------------------------------------------

(* Type invariant: the pointers never leave the buffer, even in the middle *)
(* of a call (RingBuffer.h:57-79).                                         *)
TypeOK ==
  /\ cells \in [Positions -> Bytes \cup {None}]
  /\ iPtr \in Pointers /\ oPtr \in Pointers
  /\ oSeen \in Pointers /\ iSeen \in Pointers
  /\ connected \in BOOLEAN /\ exit \in BOOLEAN
  /\ todo \subseteq Message
  /\ wpc \in {"idle", "freeSpace", "addLength", "length", "addPayload",
              "payload"}
  /\ wmsg \in Message \cup {None}
  /\ wpc # "idle" => wmsg \in Message
  /\ wpos \in Nat
  /\ wDone \subseteq {"bump", "store"}
  /\ rpc \in {"connect", "top", "reconnect", "isEmpty", "getLength", "length",
              "getPayload", "payload", "send", "readLine", "drain",
              "discard", "done", "abort", "undefined"}
  /\ want \in Nat
  /\ taken \in Seq(Bytes \cup {None})
  /\ rDone \subseteq {"bump", "load"}
  /\ unread \in Seq(Bytes)
  /\ due \in Bytes \cup {None}
  /\ torn \in BOOLEAN
  /\ committed \in Seq(Message)
  /\ handed \in Seq(Seq(Bytes \cup {None}) \cup {Garbage})
  /\ overlapped \in BOOLEAN
  /\ fault \in {"none", "overflow", "underflow", "stale", "phantom"}

(* No byte is overwritten before it has been read.  Whatever the two       *)
(* threads are in the middle of, the cells from m_oPtr to m_iPtr hold the  *)
(* bytes put in and not yet taken out, in order; only the newest may still *)
(* be missing from its cell, and the byte getData() is about to copy is    *)
(* still there although m_oPtr has already moved past it.  What protects   *)
(* it is the one cell that "nSamples >= freeSpace()" keeps unused          *)
(* (RingBuffer.h:52).                                                      *)
UnreadIntact ==
  fault # "phantom" =>
    /\ Len(unread) = DataSize(Wrap(iPtr), Wrap(oPtr))
    /\ \A k \in 1 .. Len(unread) :
         \/ cells[After(Wrap(oPtr), k - 1)] = unread[k]
         \/ k = Len(unread) /\ InFlight
    /\ rDone = {"bump"} =>
         \/ cells[oPtr - 1] = due
         \/ unread = <<>> /\ InFlight

(* As long as no fault has occurred, the two threads together make a       *)
(* channel of messages: what was passed to m_socket.write() are the        *)
(* messages write() put in, whole, in order, none skipped and none twice,  *)
(* and nothing more once entry() has left its loop                         *)
(* (APRSWriterThread.cpp:100-110, 139-145, 162-178).                       *)
ChannelState ==
  IF rpc \in {"drain", "discard", "done"} THEN "closed"
  ELSE IF ~Running \/ fault # "none" THEN "broken"
  ELSE "open"
Channel ==
  INSTANCE FrameChannel WITH
    state  <- ChannelState,
    queue  <- IF ChannelState = "open"
                THEN SubSeq(committed, Len(handed) + 1, Len(committed))
                ELSE <<>>,
    passed <- IF ChannelState = "open"
                THEN [k \in DOMAIN handed |->
                        CHOOSE m \in Message : handed[k] = Payload(m)]
                ELSE <<>>
ImplementsChannel == Channel!Spec

(* Every fault noted has one of four causes: a frame that would have  *)
(* taken exactly the free space (APRSWriterThread.cpp:170 lets it through, *)
(* RingBuffer.h:52 does not); a look at m_iPtr while a frame was half in;  *)
(* a byte counted by m_iPtr before it was in its cell; an m_iPtr loaded    *)
(* between its increment and its wrap (RingBuffer.h:58-61).                *)
FaultsExplained ==
  [][fault' # fault =>
       CASE fault' = "overflow"  -> \E o \in {oSeen, oPtr} :
                                      FreeSpace(iPtr, o) = Size[wmsg]
         [] fault' = "underflow" -> torn' \/ iSeen = Length
         [] fault' = "stale"     -> InFlight
         [] fault' = "phantom"   -> iSeen = Length
         [] OTHER                -> FALSE]_vars

(* As long as write() and the taking of a frame have not overlapped,       *)
(* nothing is ever misread: the exact fit, which leaves a length in the    *)
(* ring without the bytes it announces, is the only fault that can come    *)
(* first (APRSWriterThread.cpp:100-105, 170-177).                          *)
OnlyExactFit == overlapped \/ fault \in {"none", "overflow"}

(* Without a fault of the queue the program is lost on two kinds of        *)
(* message only: one without bytes and one longer than p[], when entry()   *)
(* comes to it and not before (APRSWriterThread.cpp:104-110,               *)
(* APRSWriterThread.h:29).                                                 *)
LossExplained ==
  ~Running /\ fault = "none" =>
    Size[committed[Len(handed) + 1]] \notin 1 .. BufferSize

(* While the connection lasts, the calls of the socket keep returning and  *)
(* nothing has gone wrong, a frame write() began to put in is passed to    *)
(* the socket: no wake-up is needed, because entry() looks at the queue in *)
(* every round of its loop (APRSWriterThread.cpp:83-128).  The second      *)
(* premise is the server's to break: one that never ends its line, or      *)
(* never reads, holds the queue for as long as it likes                    *)
(* (TCPSocket.cpp:226-232, 247).                                           *)
Sent(m) == \E k \in DOMAIN committed :
             committed[k] = m /\ Len(handed) >= k
EventuallySent ==
  <>[]connected /\ []<>~InCall =>
    \A m \in Message :
      (\E k \in DOMAIN committed : committed[k] = m)
        ~> (Sent(m) \/ fault # "none" \/ exit \/ ~Running)

(* The thread ends once stop() has set m_exit and no message is to come    *)
(* any more or still on its way through write(), unless the program has    *)
(* been lost before: the loop that discards the queue comes to its end     *)
(* whatever a torn or wrapped look at the pointers has left in it          *)
(* (APRSWriterThread.cpp:139-145).  While messages do come it need not,    *)
(* because m_connected can stay set behind the loop; and a call of the     *)
(* socket that does not return keeps the thread from looking at m_exit.    *)
ExitEnds ==
  []<>~InCall =>
    ((exit /\ todo = {} /\ wpc = "idle") ~> (rpc = "done" \/ ~Running))

(* The assertion of CTCPSocket::write(), "assert(length > 0U)"             *)
(* (TCPSocket.cpp:240), when entry() calls it.                             *)
LengthPositive == rpc # "abort"

=============================================================================
