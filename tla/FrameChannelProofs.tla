------------------------- MODULE FrameChannelProofs -------------------------
(***************************************************************************)
(* Proofs about what the frame queue does with the messages: until a fault *)
(* it is a channel, and without a fault the program is lost on messages it *)
(* cannot send alone, for every length of the ring, every size of the      *)
(* length field and every size of the messages.                            *)
(***************************************************************************)
EXTENDS FrameQueueProofs, SequenceTheorems

-----------------------------------------------------------------------------
(* The messages behind the frames: what the reader passes on is what       *)
(* write() put in.                                                         *)

(* write() gets each message once.                                         *)
OnceInv ==
  /\ \A i, j \in 1 .. Len(committed) : committed[i] = committed[j] => i = j
  /\ \A i \in 1 .. Len(committed) :
       /\ committed[i] \notin todo
       /\ wpc \in {"freeSpace", "addLength"} => committed[i] # wmsg
  /\ wpc # "idle" => wmsg \notin todo
  /\ Putting => committed # <<>> /\ committed[Len(committed)] = wmsg

\* The number of messages of which a byte has been put in, of those of which
\* the reader has taken a byte, and the place in committed of the message
\* whose byte the reader takes next.
Begun == Len(committed) - (IF Putting /\ Put = 0 THEN 1 ELSE 0)
Reached == Len(handed) + (IF Inside THEN 1 ELSE 0)
Upcoming == Len(handed) + (IF Inside /\ Ends(due) THEN 2 ELSE 1)

(* The frames in the ring are those of the messages put in, one after the  *)
(* other, from the one the reader is at to the one write() is at.          *)
FramesInv ==
  /\ \A k \in 1 .. Len(unread) - 1 : Ends(unread[k]) =>
       \E i \in 1 .. Begun - 1 :
         committed[i] = unread[k][1] /\ committed[i + 1] = unread[k + 1][1]
  /\ Reached <= Begun
  /\ Inside => due[1] = committed[Reached]
  /\ IF unread = <<>>
       THEN Reached = Begun
       ELSE /\ Upcoming <= Begun
            /\ unread[1][1] = committed[Upcoming]
            /\ unread[Len(unread)][1] = committed[Begun]

(* The bytes of a message are taken as they were put in, and handed on     *)
(* whole.                                                                  *)
PayloadTaken ==
  /\ Size[due[1]] > 0
  /\ \A k \in 1 .. Len(taken) :
       k <= Bumped => taken[k] = <<due[1], HeaderSize + k>>
  /\ Len(taken) > Bumped => unread # <<>> /\ taken[Len(taken)] = unread[1]
HandedInv ==
  /\ rpc = "payload" => PayloadTaken
  /\ rpc = "send" => taken = Payload(due[1]) /\ Size[due[1]] > 0
  /\ \A k \in 1 .. Len(handed) :
       handed[k] = Payload(committed[k]) /\ Size[committed[k]] > 0

Open == fault = "none" /\ Running /\ rpc \notin {"drain", "discard", "done"}

(* A program lost without a fault is at a message it cannot send.          *)
LossInv ==
  ~Running /\ fault = "none" =>
    Size[committed[Len(handed) + 1]] \notin 1 .. BufferSize

ChannelInv == OnceInv /\ (Open => FramesInv /\ HandedInv) /\ LossInv

\* stop() is never undone.
LEMMA ClosedStays ==
  ASSUME ReaderInv, Next, rpc \in {"drain", "discard", "done"}
  PROVE  rpc' \in {"drain", "discard", "done"}
<1>1. CASE Entry
  <2>1. TakeBump \/ TakeLoad \/ TakeNext \/ Drain
    BY <1>1 DEF Entry, FirstConnect, LoopTop, Reconnect, LookForFrame, GetLength,
           GetPayload, GetNonsense, Send, ReadLine
  <2>2. CASE TakeNext
    BY <2>2 DEF TakeNext, ReaderInv
  <2>3. CASE TakeBump \/ TakeLoad \/ Drain
    BY <2>3 DEF TakeBump, TakeLoad, Drain
  <2> QED
    BY <2>1, <2>2, <2>3
<1>2. CASE Write \/ Stop
  BY <1>2, WriteFrame DEF Stop, reader
<1> QED
  BY <1>1, <1>2 DEF Next

LEMMA OpenStays ==
  ASSUME ReaderInv, Next, Open'
  PROVE  Open
<1>1. fault = "none" /\ Running
  BY FaultStays DEF Next, Open
<1> QED
  BY <1>1, ClosedStays DEF Open

(* write() puts a message down exactly when it begins to put it in.        *)
LEMMA Commits ==
  ASSUME TypeOK, WriterInv, Write
  PROVE  \/ committed' = committed
         \/ /\ AddLength /\ Begins /\ wmsg' = wmsg /\ wmsg \in Message
            /\ todo' = todo /\ wpc' = "length"
            /\ committed' = Append(committed, wmsg)
<1>1. CASE AddLength
  <2>1. wDone' = {} /\ wpos = 0 /\ ~Putting /\ todo' = todo /\ wmsg \in Message
    BY <1>1, FrameNumbers DEF AddLength, WriterInv, Putting
  <2>2. PICK o \in {oSeen, oPtr} :
          \/ Return /\ committed' = committed
          \/ /\ wpc' = "length" /\ UNCHANGED <<wmsg, wpos>>
             /\ committed' = Append(committed, wmsg)
    BY <1>1 DEF AddLength
  <2> QED
    BY <1>1, <2>1, <2>2 DEF Begins, Putting, Put, InPart
<1>2. CASE ~AddLength
  BY <1>2 DEF Write, Call, CheckFreeSpace, AddPayload, PutBump, PutStore, PutNext,
     history
<1> QED
  BY <1>1, <1>2

LEMMA OnceStep ==
  ASSUME TypeOK, WriterInv, OnceInv, Next
  PROVE  OnceInv'
<1> USE DEF OnceInv
<1>0. committed \in Seq(Message) /\ todo \subseteq Message
  BY Types DEF HistoryType, WriterType
<1>1. CASE Entry \/ Stop
  <2>1. UNCHANGED <<committed, todo, wpc, wmsg>>
    BY <1>1, EntryFrame DEF Stop, writer, history
  <2> QED
    BY <2>1 DEF Putting
<1>2. ASSUME NEW m \in Message, Call(m)
      PROVE  OnceInv'
  <2>1. wpc = "idle" /\ m \in todo /\ todo' = todo \ {m} /\ committed' = committed
    BY <1>2 DEF Call, history
  <2>2. wpc' = "idle" \/ (wpc' = "freeSpace" /\ wmsg' = m)
    BY <1>2 DEF Call
  <2> QED
    BY <2>1, <2>2 DEF Putting
<1>3. CASE CheckFreeSpace
  <2>1. wpc = "freeSpace" /\ UNCHANGED <<todo, committed>>
    BY <1>3 DEF CheckFreeSpace, history
  <2>2. wpc' = "idle" \/ (wpc' = "addLength" /\ wmsg' = wmsg)
    BY <1>3 DEF CheckFreeSpace, Return
  <2> QED
    BY <2>1, <2>2 DEF Putting
<1>4. CASE AddLength
  <2>1. wpc = "addLength" /\ todo' = todo
    BY <1>4 DEF AddLength
  <2>2. CASE wpc' = "idle" /\ committed' = committed
    BY <2>1, <2>2 DEF Putting
  <2>3. CASE /\ wpc' = "length" /\ wmsg' = wmsg /\ wmsg \in Message
             /\ committed' = Append(committed, wmsg)
    <3>1. /\ Len(committed') = Len(committed) + 1 /\ Len(committed) \in Nat
          /\ committed'[Len(committed) + 1] = wmsg
          /\ \A i \in 1 .. Len(committed) : committed'[i] = committed[i]
      BY <1>0, <2>3
    <3>2. \A i \in 1 .. Len(committed) : committed[i] \notin todo /\ committed[i] # wmsg
      BY <2>1
    <3>3. wmsg \notin todo
      BY <2>1
    <3>4. \A i \in 1 .. Len(committed') : committed'[i] \notin todo
      BY <3>1, <3>2, <3>3
    <3>5. \A i, j \in 1 .. Len(committed') : committed'[i] = committed'[j] => i = j
      BY <3>1, <3>2
    <3>6. committed' # <<>>
      BY <1>0, <2>3
    <3> QED
      BY <2>1, <2>3, <3>1, <3>3, <3>4, <3>5, <3>6
  <2>4. \/ wpc' = "idle" /\ committed' = committed
        \/ /\ wpc' = "length" /\ wmsg' = wmsg /\ wmsg \in Message
           /\ committed' = Append(committed, wmsg)
    <3>1. wmsg \in Message
      BY <2>1, FrameNumbers
    <3> QED
      BY <1>4, <3>1 DEF AddLength, Return
  <2> QED
    BY <2>2, <2>3, <2>4
<1>5. CASE AddPayload \/ PutBump \/ PutStore \/ PutNext
  <2>1. Putting /\ UNCHANGED <<todo, committed>>
    BY <1>5 DEF AddPayload, PutBump, PutStore, PutNext, WriterInv, Putting, history
  <2>2. wpc' = "idle" \/ (Putting' /\ wmsg' = wmsg /\ wpc' \notin {"freeSpace", "addLength"})
    BY <1>5 DEF AddPayload, PutBump, PutStore, PutNext, WriterInv, Return, Putting
  <2>3. wpc # "idle"
    BY <2>1 DEF Putting
  <2> QED
    BY <2>1, <2>2, <2>3 DEF Putting
<1> QED
  BY <1>1, <1>2, <1>3, <1>4, <1>5 DEF Next, Write

(* The steps of entry() that take no byte out and hand nothing on.         *)
LEMMA QuietRead ==
  ASSUME TypeOK, ReaderInv, TakenInv, Entry \/ Stop, ~TakeBump, ~Send, Open, Open'
  PROVE  /\ UNCHANGED <<todo, wpc, wmsg, wpos, wDone, unread, due, committed, handed>>
         /\ Inside' <=> Inside
<1>1. UNCHANGED <<todo, wpc, wmsg, wpos, wDone, unread, due, committed, handed>>
  BY EntryFrame DEF Entry, FirstConnect, LoopTop, Reconnect, LookForFrame,
         GetLength, GetPayload, GetNonsense, TakeLoad, TakeNext, ReadLine, Drain,
         Stop, history,
     writer
<1>2. CASE FirstConnect \/ LoopTop \/ Reconnect \/ LookForFrame \/ ReadLine
  <2>1. ~Inside /\ ~Inside'
    BY <1>2 DEF FirstConnect, LoopTop, Reconnect, LookForFrame, ReadLine, Fresh,
           Inside
  <2> QED
    BY <1>1, <2>1
<1>3. CASE GetLength
  <2>1. ~Inside
    BY <1>3 DEF GetLength, Fresh, Inside
  <2>2. taken' = <<>> /\ rDone' = {} /\ rpc' \in {"length", "abort"}
    BY <1>3 DEF GetLength, ReaderInv
  <2>3. Bumped' = 0
    BY <2>2 DEF Bumped
  <2>4. ~Inside'
    BY <2>2, <2>3 DEF Inside, Fresh
  <2> QED
    BY <1>1, <2>1, <2>4
<1>4. CASE GetPayload \/ GetNonsense
  <2>1. Inside /\ rpc' \in {"payload", "send"}
    BY <1>4 DEF GetPayload, GetNonsense, Inside, Fresh, Open, Running
  <2>2. Inside'
    BY <2>1 DEF Inside, Fresh
  <2> QED
    BY <1>1, <2>1, <2>2
<1>5. CASE TakeLoad
  <2>1. rpc' = rpc /\ rDone' = rDone \cup {"load"} /\ "load" \notin rDone
    BY <1>5 DEF TakeLoad
  <2>2. Len(taken') = Len(taken) + 1
    BY <1>5, LoadedByte, Types DEF TakeLoad, ReaderType
  <2>3. Bumped' = Bumped
    BY <2>1, <2>2, ReaderNumbers DEF Bumped
  <2> QED
    BY <1>1, <2>1, <2>3 DEF Inside, Fresh
<1>6. CASE TakeNext
  <2>1. /\ taken' = taken /\ rDone = {"bump", "load"} /\ rDone' = {}
        /\ rpc \in {"length", "payload"}
    BY <1>6 DEF TakeNext, ReaderInv, Open
  <2>2. Bumped' = Bumped /\ Bumped = Len(taken)
    BY <2>1, ReaderNumbers DEF Bumped
  <2>3. CASE rpc' = rpc
    BY <1>1, <2>2, <2>3 DEF Inside, Fresh
  <2>4. CASE rpc' # rpc
    <3>1. ~(Len(taken) < want)
      BY <1>6, <2>4 DEF TakeNext
    <3>2. rpc = "length" => Bumped # 0
      BY <2>2, <3>1, ReaderNumbers, Numbers DEF TakenInv, LengthTaken
    <3>3. rpc' \in {"getPayload", "send"}
      BY <1>6, <2>1, <3>1 DEF TakeNext
    <3>4. Inside /\ Inside'
      BY <2>1, <3>2, <3>3 DEF Inside, Fresh
    <3> QED
      BY <1>1, <3>4
  <2> QED
    BY <2>3, <2>4
<1>7. CASE Drain
  BY <1>7 DEF Drain, Open
<1>8. CASE Stop
  <2>1. UNCHANGED <<rpc, taken, rDone>>
    BY <1>8 DEF Stop, reader
  <2> QED
    BY <1>1, <2>1 DEF Inside, Fresh, Bumped
<1> QED
  BY <1>2, <1>3, <1>4, <1>5, <1>6, <1>7, <1>8 DEF Entry

(* What the numbers of the messages are.                                   *)
LEMMA PlaceNumbers ==
  ASSUME TypeOK, WriterInv, OnceInv
  PROVE  /\ committed \in Seq(Message) /\ Len(committed) \in Nat /\ Len(handed) \in Nat
         /\ Begun \in 0 .. Len(committed)
         /\ Reached \in Nat /\ Upcoming \in Nat /\ Upcoming >= 1
         /\ Putting => Len(committed) >= 1 /\ committed[Len(committed)] = wmsg
         /\ Putting /\ Put = 0 => Begun = Len(committed) - 1
         /\ ~(Putting /\ Put = 0) => Begun = Len(committed)
<1>1. committed \in Seq(Message) /\ Len(committed) \in Nat /\ Len(handed) \in Nat
  BY Types DEF HistoryType
<1>2. Putting => Len(committed) >= 1 /\ committed[Len(committed)] = wmsg
  BY <1>1 DEF OnceInv
<1> QED
  BY <1>1, <1>2 DEF Begun, Reached, Upcoming

(* Where the reader is.                                                    *)
LEMMA FreshOrInside ==
  ASSUME TypeOK, Open
  PROVE  /\ Fresh <=> ~Inside
         /\ ~Inside => Upcoming = Len(handed) + 1 /\ Reached = Len(handed)
         /\ Inside => Reached = Len(handed) + 1
         /\ Inside /\ Ends(due) => Upcoming = Len(handed) + 2
         /\ Inside /\ ~Ends(due) => Upcoming = Len(handed) + 1
<1>1. Fresh <=> ~Inside
  BY DEF Open, Running, TypeOK, Fresh, Inside
<1>2. Len(handed) \in Nat
  BY Types DEF HistoryType
<1> QED
  BY <1>1, <1>2 DEF Upcoming, Reached

\* The reader keeps its place while write() goes on.
LEMMA PlaceKept ==
  ASSUME Write
  PROVE  /\ Inside' <=> Inside
         /\ UNCHANGED <<rpc, due, handed, taken, Bumped>>
         /\ Reached' = Reached /\ Upcoming' = Upcoming
<1>1. UNCHANGED <<rpc, want, taken, rDone, iSeen, due, handed>>
  BY WriteFrame DEF reader
<1>2. Bumped' = Bumped /\ (Inside' <=> Inside) /\ (Ends(due)' <=> Ends(due))
  BY <1>1 DEF Inside, Fresh, Bumped, Ends, FrameLength
<1> QED
  BY <1>1, <1>2 DEF Reached, Upcoming

LEMMA FramesQuietWrite ==
  ASSUME TypeOK, WriterInv, OnceInv, FramesInv, Write, ~PutBump, ~Note("overflow"),
         TypeOK', WriterInv', OnceInv'
  PROVE  FramesInv'
<1>1. unread' = unread /\ (GoesOn \/ Idles \/ Begins \/ Finishes)
  BY QuietWrite
<1>2. /\ Begun' = Begun /\ Begun \in 0 .. Len(committed)
      /\ \A i \in 1 .. Begun : committed'[i] = committed[i]
  <2>1. Begun \in 0 .. Len(committed) /\ Len(committed) \in Nat
    BY PlaceNumbers
  <2>2. CASE committed' = committed /\ ~Begins
    BY <1>1, <2>1, <2>2 DEF GoesOn, Idles, Begins, Finishes, Begun
  <2>3. CASE AddLength /\ Begins /\ wmsg \in Message /\ committed' = Append(committed, wmsg)
    <3>1. /\ Len(committed') = Len(committed) + 1
          /\ \A i \in 1 .. Len(committed) : committed'[i] = committed[i]
      BY <2>1, <2>3, PlaceNumbers
    <3>2. Begun = Len(committed) /\ Begun' = Len(committed') - 1
      BY <2>1, <2>3, <3>1 DEF Begins, Begun
    <3> QED
      BY <2>1, <3>1, <3>2
  <2>4. committed' = committed => ~Begins
    <3> SUFFICES ASSUME committed' = committed, Begins PROVE FALSE
      OBVIOUS
    <3>1. wpc' = "length" /\ wpc # "length"
      BY DEF Begins, Putting, Write, Call, CheckFreeSpace, AddLength, AddPayload,
         PutBump, PutStore, PutNext, Return, WriterInv
    <3>2. AddLength
      BY <3>1 DEF Write, Call, CheckFreeSpace, AddLength, AddPayload, PutBump,
         PutStore, PutNext, Return, Begins, Putting, WriterInv
    <3>3. committed' = Append(committed, wmsg) /\ wmsg \in Message
      BY <3>1, <3>2, FrameNumbers DEF AddLength, Return
    <3>4. Len(committed') = Len(committed) + 1
      BY <3>3, PlaceNumbers
    <3> QED
      BY <2>1, <3>4
  <2> QED
    BY <2>2, <2>3, <2>4, Commits
<1>3. Reached' = Reached /\ Upcoming' = Upcoming /\ due' = due /\ (Inside' <=> Inside)
  BY PlaceKept
<1>4. Reached \in Nat /\ Upcoming \in Nat /\ Upcoming >= 1 /\ (Inside => Reached >= 1)
  <2>1. Inside => Reached >= 1
    BY PlaceNumbers DEF Reached
  <2> QED
    BY <2>1, PlaceNumbers
<1>5. ASSUME NEW k \in 1 .. Len(unread) - 1, Ends(unread[k])
      PROVE  \E i \in 1 .. Begun - 1 :
               committed'[i] = unread[k][1] /\ committed'[i + 1] = unread[k + 1][1]
  <2>1. PICK i \in 1 .. Begun - 1 :
               committed[i] = unread[k][1] /\ committed[i + 1] = unread[k + 1][1]
    BY <1>5 DEF FramesInv
  <2>2. i \in 1 .. Begun /\ i + 1 \in 1 .. Begun
    BY <1>2
  <2> QED
    BY <1>2, <2>1, <2>2
<1>6. Inside => due[1] = committed'[Reached]
  BY <1>2, <1>4 DEF FramesInv
<1>7. unread # <<>> =>
        /\ Upcoming <= Begun
        /\ unread[1][1] = committed'[Upcoming]
        /\ unread[Len(unread)][1] = committed'[Begun]
  <2> SUFFICES ASSUME unread # <<>>
               PROVE  /\ Upcoming <= Begun
                      /\ unread[1][1] = committed'[Upcoming]
                      /\ unread[Len(unread)][1] = committed'[Begun]
    OBVIOUS
  <2>1. /\ Upcoming <= Begun
        /\ unread[1][1] = committed[Upcoming]
        /\ unread[Len(unread)][1] = committed[Begun]
    BY DEF FramesInv
  <2>2. Upcoming \in 1 .. Begun /\ Begun \in 1 .. Begun
    BY <1>2, <1>4, <2>1
  <2> QED
    BY <1>2, <2>1, <2>2
<1>8. \A k \in 1 .. Len(unread) - 1 : Ends(unread[k])' <=> Ends(unread[k])
  BY <1>1 DEF Ends, FrameLength
<1> QED
  BY <1>1, <1>2, <1>3, <1>5, <1>6, <1>7, <1>8 DEF FramesInv

LEMMA FramesPutBump ==
  ASSUME TypeOK, WriterInv, OnceInv, ChainInv, LastInv, FollowsInv, FramesInv,
         PutBump, Open, TypeOK', WriterInv', OnceInv'
  PROVE  FramesInv'
<1> DEFINE n == Len(unread)
           c == Len(committed)
<1>1. /\ Putting /\ Putting' /\ wmsg \in Message /\ FrameLength(wmsg) \in Nat
      /\ Put \in Nat /\ Put' = Put + 1 /\ Put < FrameLength(wmsg)
      /\ n \in Nat /\ Len(unread') = n + 1 /\ unread'[n + 1] = <<wmsg, Put + 1>>
      /\ \A k \in 1 .. n : unread'[k] = unread[k]
  BY BumpFacts
<1>2. committed' = committed /\ Reached' = Reached /\ Upcoming' = Upcoming
      /\ due' = due /\ (Inside' <=> Inside)
  BY PlaceKept DEF Write, PutBump
<1>3. /\ c \in Nat /\ c >= 1 /\ committed[c] = wmsg /\ Begun' = c
      /\ Begun = IF Put = 0 THEN c - 1 ELSE c
      /\ Reached \in Nat /\ Upcoming \in Nat /\ Upcoming >= 1 /\ Begun \in 0 .. c
  <2>1. Begun' = c
    BY <1>1, <1>2, PlaceNumbers DEF Begun
  <2> QED
    BY <1>1, <2>1, PlaceNumbers DEF Begun
<1>4. \A k \in 1 .. n : Ends(unread[k])' <=> Ends(unread[k])
  BY <1>1 DEF Ends, FrameLength
<1>5. ASSUME NEW k \in 1 .. n, Ends(unread[k])
      PROVE  \E i \in 1 .. c - 1 :
               committed[i] = unread'[k][1] /\ committed[i + 1] = unread'[k + 1][1]
  <2>1. CASE k < n
    <3>1. PICK i \in 1 .. Begun - 1 :
                 committed[i] = unread[k][1] /\ committed[i + 1] = unread[k + 1][1]
      BY <1>1, <1>5, <2>1 DEF FramesInv
    <3>2. i \in 1 .. c - 1 /\ unread'[k] = unread[k] /\ unread'[k + 1] = unread[k + 1]
      BY <1>1, <1>3, <2>1
    <3> QED
      BY <3>1, <3>2
  <2>2. CASE k = n
    <3>1. unread # <<>> /\ n >= 1
      BY <1>1, <2>2
    <3>2. Put = 0
      <4> SUFFICES ASSUME Put > 0 PROVE FALSE
        BY <1>1
      <4>1. unread[n] = <<wmsg, Put>>
        BY <1>1, <3>1 DEF LastInv
      <4> QED
        BY <1>1, <1>5, <2>2, <4>1 DEF Ends
    <3>3. unread[n][1] = committed[c - 1] /\ c - 1 >= 1
      BY <1>3, <3>1, <3>2 DEF FramesInv
    <3>4. unread'[n] = unread[n] /\ unread'[n + 1][1] = committed[(c - 1) + 1]
      BY <1>1, <1>3, <2>2
    <3>5. c - 1 \in 1 .. c - 1
      BY <1>3, <3>3
    <3> QED
      BY <2>2, <3>3, <3>4, <3>5
  <2> QED
    BY <1>1, <2>1, <2>2
<1>6. Reached <= c
  BY <1>3 DEF FramesInv
<1>7. Inside => due[1] = committed[Reached]
  BY DEF FramesInv
<1>8. unread' # <<>> /\ unread'[n + 1][1] = committed[c]
  BY <1>1, <1>3
<1>9. Upcoming <= c /\ unread'[1][1] = committed[Upcoming]
  <2>1. CASE unread # <<>>
    <3>1. Upcoming <= Begun /\ unread[1][1] = committed[Upcoming]
      BY <2>1 DEF FramesInv
    <3>2. unread'[1] = unread[1]
      BY <1>1, <2>1, Types DEF HistoryType
    <3> QED
      BY <1>3, <3>1, <3>2
  <2>2. CASE unread = <<>>
    <3>1. n = 0 /\ unread'[1][1] = wmsg /\ Reached = Begun
      BY <1>1, <2>2 DEF FramesInv
    <3>2. CASE Put = 0
      <4>1. ~(Inside /\ ~Ends(due))
        <5> SUFFICES ASSUME Inside, ~Ends(due) PROVE FALSE
          OBVIOUS
        <5>1. due = <<wmsg, Put>> /\ due \in Bytes
          BY <2>2 DEF FollowsInv, InFrame
        <5>2. due[2] = 0 /\ due[2] \in 1 .. FrameLength(due[1])
          BY <3>2, <5>1, ByteFacts
        <5> QED
          BY <5>2
      <4>2. Upcoming = Reached + 1
        BY <4>1, FreshOrInside, PlaceNumbers
      <4> QED
        BY <1>3, <3>1, <3>2, <4>2
    <3>3. CASE Put # 0
      <4>1. ~AtStart
        BY <1>1, <2>2, <3>3 DEF AtStart
      <4>2. Inside /\ ~Ends(due)
        BY <4>1, FreshOrInside DEF FollowsInv
      <4>3. Upcoming = Reached
        BY <4>2, FreshOrInside
      <4> QED
        BY <1>3, <3>1, <3>3, <4>3
    <3> QED
      BY <3>2, <3>3
  <2> QED
    BY <2>1, <2>2
<1>10. Len(unread') - 1 = n /\ Len(unread') = n + 1
  BY <1>1
<1> QED
  BY <1>2, <1>3, <1>4, <1>5, <1>6, <1>7, <1>8, <1>9, <1>10 DEF FramesInv

\* In the middle of a getData() the frame is not yet at its end.
LEMMA NotAtEnd ==
  ASSUME TypeOK, CountInv, FollowsInv, TakenInv, TakeBump, Open
  PROVE  Inside => due \in Bytes /\ ~Ends(due)
<1> SUFFICES ASSUME Inside PROVE due \in Bytes /\ ~Ends(due)
  OBVIOUS
<1>1. due \in Bytes /\ Bumped < want /\ Bumped \in Int /\ want \in Nat
  BY BumpCounts, ReaderNumbers DEF FollowsInv
<1>2. CASE rpc = "length"
  <2>1. due[2] = Bumped /\ want = HeaderSize
    BY <1>2, ReaderNumbers DEF TakenInv, LengthTaken, Inside, Fresh
  <2> QED
    BY <1>1, <2>1, ByteFacts, Numbers DEF Ends
<1>3. CASE rpc = "payload"
  <2>1. due[2] = HeaderSize + Bumped /\ want = Size[due[1]]
    BY <1>3 DEF TakenInv
  <2> QED
    BY <1>1, <2>1, ByteFacts, Numbers DEF Ends
<1> QED
  BY <1>2, <1>3 DEF TakeBump, Open

LEMMA FramesTakeBump ==
  ASSUME TypeOK, WriterInv, CountInv, OnceInv, ChainInv, FollowsInv, TakenInv, FramesInv,
         TakeBump, Open, ~Note("phantom"), TypeOK', WriterInv', OnceInv'
  PROVE  FramesInv'
<1> DEFINE n == Len(unread)
           h == Len(handed)
           b == unread[1]
<1>1. unread # <<>>
  BY DEF TakeBump
<1>2. /\ n \in Nat \ {0} /\ Len(unread') = n - 1 /\ due' = b /\ b \in Bytes
      /\ \A k \in 1 .. n - 1 : unread'[k] = unread[k + 1]
      /\ \A k \in 1 .. n : unread[k] \in Bytes
  BY <1>1, TailFacts
<1>3. UNCHANGED <<wpc, wmsg, wpos, wDone, committed, handed>> /\ h \in Nat
  BY PlaceNumbers, EntryFrame DEF TakeBump, writer
<1>4. Begun' = Begun /\ Begun \in 0 .. Len(committed) /\ Len(committed) \in Nat
  BY <1>3, PlaceNumbers DEF Begun, Putting, Put, InPart
<1>5. Inside'
  <2>1. rpc' = rpc /\ rpc \in {"length", "payload"} /\ Bumped' = Bumped + 1
    BY BumpCounts DEF TakeBump, Open
  <2>2. rpc = "length" => Bumped \in Nat
    BY DEF TakenInv, LengthTaken
  <2> QED
    BY <2>1, <2>2 DEF Inside, Fresh
<1>6. /\ Reached' = h + 1 /\ Upcoming = h + 1
      /\ Upcoming' = IF Ends(b) THEN h + 2 ELSE h + 1
  <2>1. Reached' = h + 1
    BY <1>3, <1>5 DEF Reached
  <2>2. Ends(due)' <=> Ends(b)
    BY <1>2 DEF Ends, FrameLength
  <2>3. Upcoming' = IF Ends(b) THEN h + 2 ELSE h + 1
    BY <1>3, <1>5, <2>2 DEF Upcoming
  <2> QED
    BY <2>1, <2>3, NotAtEnd, FreshOrInside
<1>7. /\ h + 1 <= Begun /\ b[1] = committed[h + 1]
      /\ unread[n][1] = committed[Begun]
  BY <1>1, <1>6 DEF FramesInv
<1>8. ASSUME NEW k \in 1 .. n - 1, Ends(unread[k])
      PROVE  \E i \in 1 .. Begun - 1 :
               committed[i] = unread[k][1] /\ committed[i + 1] = unread[k + 1][1]
  BY <1>8 DEF FramesInv
<1>9. ASSUME NEW k \in 1 .. (n - 1) - 1, Ends(unread[k])'
      PROVE  \E i \in 1 .. Begun - 1 :
               committed[i] = unread'[k][1] /\ committed[i + 1] = unread'[k + 1][1]
  <2>1. k + 1 \in 1 .. n - 1 /\ unread'[k] = unread[k + 1] /\ unread'[k + 1] = unread[k + 2]
    BY <1>2
  <2>2. Ends(unread[k + 1])
    BY <1>9, <2>1 DEF Ends, FrameLength
  <2> QED
    BY <1>8, <2>1, <2>2
<1>10. CASE n = 1
  <2>1. unread' = <<>>
    BY <1>2, <1>10 DEF TakeBump
  <2>2. Begun = h + 1
    BY <1>3, <1>4, <1>7, <1>10 DEF OnceInv
  <2> QED
    BY <1>2, <1>3, <1>4, <1>5, <1>6, <1>7, <1>10, <2>1, <2>2 DEF FramesInv
<1>11. CASE n > 1
  <2>1. unread' # <<>> /\ unread'[1] = unread[2] /\ unread'[n - 1] = unread[n]
    <3>1. 1 \in 1 .. n - 1 /\ n - 1 \in 1 .. n - 1 /\ (n - 1) + 1 = n /\ 1 + 1 = 2
      BY <1>2, <1>11
    <3>2. unread'[1] = unread[2] /\ unread'[n - 1] = unread[n]
      BY <1>2, <3>1
    <3> QED
      BY <1>2, <1>11, <3>2
  <2>2. Upcoming' <= Begun /\ unread[2][1] = committed[Upcoming']
    <3>1. CASE Ends(b)
      <4>1. PICK i \in 1 .. Begun - 1 :
                   committed[i] = b[1] /\ committed[i + 1] = unread[2][1]
        BY <1>2, <1>8, <1>11, <3>1
      <4>2. i = h + 1
        BY <1>3, <1>4, <1>7, <4>1 DEF OnceInv
      <4> QED
        BY <1>3, <1>4, <1>6, <3>1, <4>1, <4>2
    <3>2. CASE ~Ends(b)
      <4>1. b[2] + 1 <= FrameLength(b[1])
        BY <1>2, <3>2, ByteFacts DEF Ends
      <4>2. unread[2] = <<b[1], b[2] + 1>>
        <5>1. 1 \in 1 .. n /\ 2 \in 1 .. n /\ 2 - 1 = 1
          BY <1>2, <1>11
        <5> QED
          BY <4>1, <5>1 DEF ChainInv
      <4> QED
        BY <1>6, <1>7, <3>2, <4>2
    <3> QED
      BY <3>1, <3>2
  <2> QED
    BY <1>2, <1>3, <1>4, <1>5, <1>6, <1>7, <1>9, <2>1, <2>2 DEF FramesInv
<1> QED
  BY <1>2, <1>10, <1>11

LEMMA FramesQuietRead ==
  ASSUME TypeOK, ReaderInv, TakenInv, FramesInv, Entry \/ Stop, ~TakeBump, ~Send,
         Open, Open'
  PROVE  FramesInv'
<1>1. /\ UNCHANGED <<wpc, wmsg, wpos, wDone, unread, due, committed, handed>>
      /\ Inside' <=> Inside
  BY QuietRead
<1>2. Begun' = Begun
  BY <1>1 DEF Begun, Putting, Put, InPart
<1>3. Reached' = Reached /\ Upcoming' = Upcoming
  BY <1>1 DEF Reached, Upcoming, Ends, FrameLength
<1>4. \A k \in 1 .. Len(unread) - 1 : Ends(unread[k])' <=> Ends(unread[k])
  BY <1>1 DEF Ends, FrameLength
<1> QED
  BY <1>1, <1>2, <1>3, <1>4 DEF FramesInv

LEMMA SendHands ==
  ASSUME TypeOK, TakenInv, FramesInv, HandedInv, Send, Open
  PROVE  /\ UNCHANGED <<todo, wpc, wmsg, wpos, wDone, unread, committed>>
         /\ Inside /\ ~Inside' /\ Ends(due)
         /\ Len(handed) \in Nat /\ Reached = Len(handed) + 1
         /\ Upcoming = Len(handed) + 2 /\ Len(handed') = Len(handed) + 1
         /\ handed'[Len(handed) + 1] = Payload(committed[Len(handed) + 1])
         /\ \A k \in 1 .. Len(handed) : handed'[k] = handed[k]
         /\ Size[committed[Len(handed) + 1]] > 0
<1>1. UNCHANGED <<todo, wpc, wmsg, wpos, wDone, unread, committed>>
  BY DEF Send, writer
<1>2. Inside /\ ~Inside' /\ Ends(due)
  BY DEF Send, Inside, Fresh, TakenInv
<1>3. handed \in Seq(Seq(Byte) \cup {Garbage}) /\ taken \in Seq(Byte)
      /\ handed' = Append(handed, taken)
  BY Types DEF HistoryType, ReaderType, Send
<1>4. Reached = Len(handed) + 1 /\ Upcoming = Len(handed) + 2
  BY <1>2, FreshOrInside
<1>5. taken = Payload(committed[Len(handed) + 1]) /\ Size[committed[Len(handed) + 1]] > 0
  BY <1>2, <1>4 DEF FramesInv, HandedInv, Send
<1>6. /\ Len(handed) \in Nat /\ Len(handed') = Len(handed) + 1
      /\ handed'[Len(handed) + 1] = taken
      /\ \A k \in 1 .. Len(handed) : handed'[k] = handed[k]
  BY <1>3
<1> QED
  BY <1>1, <1>2, <1>4, <1>5, <1>6

LEMMA FramesSend ==
  ASSUME TypeOK, TakenInv, FramesInv, HandedInv, Send, Open
  PROVE  FramesInv'
<1>1. /\ UNCHANGED <<wpc, wmsg, wpos, wDone, unread, committed>> /\ ~Inside' /\ Inside
      /\ Len(handed) \in Nat /\ Reached = Len(handed) + 1
      /\ Upcoming = Len(handed) + 2 /\ Len(handed') = Len(handed) + 1
  BY SendHands
<1>2. Begun' = Begun
  BY <1>1 DEF Begun, Putting, Put, InPart
<1>3. Reached' = Reached /\ Upcoming' = Upcoming
  BY <1>1 DEF Reached, Upcoming
<1>4. \A k \in 1 .. Len(unread) - 1 : Ends(unread[k])' <=> Ends(unread[k])
  BY <1>1 DEF Ends, FrameLength
<1> QED
  BY <1>1, <1>2, <1>3, <1>4 DEF FramesInv

LEMMA FramesStep ==
  ASSUME IInv, CountInv, NoFault, OnceInv, FramesInv, HandedInv, Next, Open, Open',
         TypeOK', WriterInv', OnceInv'
  PROVE  FramesInv'
<1>0. TypeOK /\ WriterInv /\ ReaderInv
  BY DEF IInv
<1>1. ~Note("overflow") /\ ~Note("phantom")
  BY FaultStays DEF Open
<1>2. ChainInv /\ LastInv /\ FollowsInv /\ TakenInv
  BY DEF NoFault
<1>3. CASE Write
  BY <1>0, <1>1, <1>2, <1>3, FramesQuietWrite, FramesPutBump
<1>4. CASE TakeBump
  BY <1>0, <1>1, <1>2, <1>4, FramesTakeBump
<1>5. CASE Send
  BY <1>0, <1>2, <1>5, FramesSend
<1>6. CASE (Entry \/ Stop) /\ ~TakeBump /\ ~Send
  BY <1>0, <1>2, <1>6, FramesQuietRead
<1> QED
  BY <1>3, <1>4, <1>5, <1>6 DEF Next

LEMMA PayloadTakenBump ==
  ASSUME TypeOK, CountInv, FollowsInv, TakenInv, HandedInv, TakeBump, unread # <<>>,
         rpc = "payload", Open
  PROVE  PayloadTaken'
<1>1. PayloadTaken /\ due \in Bytes /\ ~Ends(due)
  BY NotAtEnd DEF HandedInv, Inside, Fresh
<1>2. /\ Bumped' = Bumped + 1 /\ Bumped \in Int
      /\ Len(taken) = Bumped + (IF "load" \in rDone THEN 1 ELSE 0)
      /\ UNCHANGED <<rpc, want, taken>>
  BY BumpCounts
<1>3. unread[1] = <<due[1], due[2] + 1>>
  BY <1>1 DEF FollowsInv, InFrame, Inside, Fresh
<1>4. due' = unread[1] /\ due[2] = HeaderSize + Bumped
  BY TailFacts DEF TakenInv
<1>5. due'[1] = due[1] /\ unread[1] = <<due[1], HeaderSize + (Bumped + 1)>>
  BY <1>1, <1>2, <1>3, <1>4, Numbers
<1>6. ASSUME NEW k \in 1 .. Len(taken), k <= Bumped + 1
      PROVE  taken[k] = <<due[1], HeaderSize + k>>
  <2>1. CASE k <= Bumped
    BY <1>1, <2>1 DEF PayloadTaken
  <2>2. CASE k = Bumped + 1
    <3>1. Len(taken) = k /\ Len(taken) > Bumped
      BY <1>2, <1>6, <2>2
    <3> QED
      BY <1>1, <1>5, <2>2, <3>1 DEF PayloadTaken
  <2> QED
    BY <1>2, <1>6, <2>1, <2>2
<1>7. ~(Len(taken) > Bumped + 1)
  BY <1>2
<1> QED
  BY <1>1, <1>2, <1>5, <1>6, <1>7 DEF PayloadTaken

LEMMA PayloadTakenLoad ==
  ASSUME TypeOK, ReaderInv, FollowsInv, TakenInv, HandedInv, TakeLoad,
         ~Note("stale"), ~Note("phantom"), rpc = "payload"
  PROVE  PayloadTaken'
<1> DEFINE byte == cells[IF "bump" \in rDone THEN oPtr - 1 ELSE oPtr]
<1>1. PayloadTaken /\ due \in Bytes /\ due[2] = HeaderSize + Bumped
  BY DEF HandedInv, FollowsInv, TakenInv, Inside, Fresh
<1>2. /\ UNCHANGED <<due, unread>> /\ "load" \notin rDone
      /\ rDone' = rDone \cup {"load"} /\ taken' = Append(taken, byte)
  BY DEF TakeLoad
<1>3. /\ Len(taken) \in Nat /\ Len(taken') = Len(taken) + 1
      /\ taken'[Len(taken) + 1] = byte
      /\ \A k \in 1 .. Len(taken) : taken'[k] = taken[k]
  BY <1>2, LoadedByte, Types DEF ReaderType
<1>4. /\ Bumped' = Bumped
      /\ Bumped = Len(taken) + (IF "bump" \in rDone THEN 1 ELSE 0)
  BY <1>2, <1>3, ReaderNumbers DEF Bumped
<1>5. CASE "bump" \in rDone
  <2>1. byte = due /\ Bumped = Len(taken) + 1
    BY <1>3, <1>4, <1>5 DEF TakeLoad, NoteUnless
  <2>2. due = <<due[1], HeaderSize + (Len(taken) + 1)>>
    BY <1>1, <2>1, ByteFacts
  <2>3. ASSUME NEW k \in 1 .. Len(taken')
        PROVE  taken'[k] = <<due[1], HeaderSize + k>>
    <3>1. CASE k \in 1 .. Len(taken)
      BY <1>1, <1>3, <2>1, <3>1 DEF PayloadTaken
    <3>2. CASE k = Len(taken) + 1
      BY <1>3, <2>1, <2>2, <3>2
    <3> QED
      BY <1>3, <2>3, <3>1, <3>2
  <2> QED
    BY <1>1, <1>2, <1>3, <1>4, <2>1, <2>3 DEF PayloadTaken
<1>6. CASE "bump" \notin rDone
  <2>1. unread # <<>> /\ byte = Head(unread)
    BY <1>6 DEF TakeLoad, NoteUnless
  <2>2. byte = unread[1] /\ Bumped = Len(taken)
    BY <1>3, <1>4, <1>6, <2>1
  <2>3. ASSUME NEW k \in 1 .. Len(taken'), k <= Bumped
        PROVE  taken'[k] = <<due[1], HeaderSize + k>>
    BY <1>1, <1>3, <2>2, <2>3 DEF PayloadTaken
  <2> QED
    BY <1>1, <1>2, <1>3, <1>4, <2>1, <2>2, <2>3 DEF PayloadTaken
<1> QED
  BY <1>5, <1>6

LEMMA HandedStep ==
  ASSUME IInv, CountInv, NoFault, OnceInv, FramesInv, HandedInv, Next, Open, Open'
  PROVE  HandedInv'
<1>0. /\ TypeOK /\ WriterInv /\ ReaderInv
      /\ ChainInv /\ LastInv /\ FollowsInv /\ TakenInv
  BY DEF IInv, NoFault
<1>1. ~Note("overflow") /\ ~Note("underflow") /\ ~Note("stale") /\ ~Note("phantom")
  BY FaultStays DEF Open
<1>2. CASE Write
  <2>1. UNCHANGED <<rpc, due, handed, taken, Bumped>>
    BY <1>2, PlaceKept
  <2>2. \A k \in 1 .. Len(handed) : committed'[k] = committed[k]
    <3>1. committed \in Seq(Message) /\ Len(handed) \in Nat /\ Len(committed) \in Nat
          /\ Len(handed) <= Len(committed)
      BY <1>0, PlaceNumbers DEF FramesInv, Reached
    <3>2. CASE committed' = committed
      BY <3>2
    <3>3. CASE wmsg \in Message /\ committed' = Append(committed, wmsg)
      <4>1. \A k \in 1 .. Len(committed) : committed'[k] = committed[k]
        BY <3>1, <3>3
      <4> QED
        BY <3>1, <4>1
    <3> QED
      BY <1>0, <1>2, <3>2, <3>3, Commits
  <2>3. PayloadTaken => PayloadTaken'
    <3>1. unread # <<>> => unread' # <<>> /\ unread'[1] = unread[1]
      <4>1. unread # <<>> => Len(unread) >= 1
        BY <1>0, Types DEF HistoryType
      <4> QED
        BY <1>0, <1>2, <4>1, UnreadGrows, ReaderNumbers
    <3> QED
      BY <2>1, <3>1 DEF PayloadTaken
  <2> QED
    BY <2>1, <2>2, <2>3 DEF HandedInv, Payload
<1>3. CASE Send
  <2>1. rpc' \notin {"payload", "send"} /\ committed' = committed
    BY <1>3 DEF Send
  <2>2. /\ Len(handed) \in Nat /\ Len(handed') = Len(handed) + 1
        /\ handed'[Len(handed) + 1] = Payload(committed[Len(handed) + 1])
        /\ \A k \in 1 .. Len(handed) : handed'[k] = handed[k]
        /\ Size[committed[Len(handed) + 1]] > 0
    BY <1>0, <1>3, SendHands
  <2>3. ASSUME NEW k \in 1 .. Len(handed')
        PROVE  handed'[k] = Payload(committed[k]) /\ Size[committed[k]] > 0
    <3>1. k \in 1 .. Len(handed) \/ k = Len(handed) + 1
      BY <2>2
    <3> QED
      BY <2>2, <3>1 DEF HandedInv
  <2>4. \A k \in 1 .. Len(handed') : Payload(committed[k])' = Payload(committed[k])
    BY <2>1 DEF Payload
  <2> QED
    BY <2>1, <2>3, <2>4 DEF HandedInv
<1>4. CASE (Entry \/ Stop) /\ ~Send
  <2>0. UNCHANGED <<handed, committed>>
    BY <1>4, EntryFrame DEF Entry, FirstConnect, LoopTop, Reconnect, LookForFrame,
           GetLength, GetPayload, GetNonsense, TakeBump, TakeLoad, TakeNext,
           ReadLine, Drain,
       Stop, history
  <2>1. \A k \in 1 .. Len(handed) : Payload(committed[k])' = Payload(committed[k])
    BY <2>0 DEF Payload
  <2>2. SUFFICES /\ rpc' = "payload" => PayloadTaken'
                 /\ rpc' = "send" => taken' = Payload(due[1])' /\ Size[due'[1]] > 0
    BY <2>0, <2>1 DEF HandedInv
  <2>3. CASE TakeBump
    BY <1>0, <1>1, <2>3, PayloadTakenBump DEF TakeBump, Open
  <2>4. CASE TakeLoad
    BY <1>0, <1>1, <2>4, PayloadTakenLoad DEF TakeLoad
  <2>5. CASE TakeNext
    <3>1. /\ UNCHANGED <<want, taken, due, unread>>
          /\ rDone = {"bump", "load"} /\ rDone' = {}
          /\ rpc \in {"length", "payload"}
      BY <1>0, <2>5 DEF TakeNext, history, ReaderInv, Open
    <3>2. Bumped' = Bumped /\ Bumped = Len(taken) /\ Len(taken) <= want
      BY <1>0, <3>1, ReaderNumbers DEF Bumped, CountInv, Taking
    <3>3. CASE rpc' = "payload"
      <4>1. rpc = "payload"
        BY <2>5, <3>1, <3>3 DEF TakeNext
      <4> QED
        BY <3>1, <3>2, <3>3, <4>1 DEF HandedInv, PayloadTaken
    <3>4. CASE rpc' = "send"
      <4>1. rpc = "payload" /\ ~(Len(taken) < want)
        BY <2>5, <3>1, <3>4 DEF TakeNext
      <4>2. Len(taken) = Size[due[1]] /\ PayloadTaken
        BY <1>0, <3>2, <4>1, ReaderNumbers DEF TakenInv, HandedInv
      <4>3. \A k \in 1 .. Size[due[1]] : taken[k] = <<due[1], HeaderSize + k>>
        BY <3>2, <4>2 DEF PayloadTaken
      <4>4. taken = [k \in 1 .. Len(taken) |-> taken[k]]
        BY <1>0, Types DEF ReaderType
      <4>5. taken = Payload(due[1])
        BY <4>2, <4>3, <4>4 DEF Payload
      <4> QED
        BY <3>1, <3>4, <4>2, <4>5 DEF PayloadTaken, Payload
    <3>5. CASE rpc' \notin {"payload", "send"}
      BY <3>5
    <3> QED
      BY <3>3, <3>4, <3>5
  <2>6. CASE GetPayload
    <3>1. rpc' = "payload"
      BY <1>1, <2>6 DEF GetPayload, Open, Running
    <3>2. PICK m \in Message : taken = Header(m) /\ taken' = <<>> /\ Size[m] > 0
      BY <1>0, <1>1, <2>6, <3>1, GetPayloadTakes
    <3>3. rDone' = {} /\ due' = due /\ rpc = "getPayload"
      BY <1>0, <2>6 DEF GetPayload, ReaderInv
    <3>4. m = due[1]
      BY <1>0, <3>2, <3>3, HeaderTells DEF TakenInv
    <3>5. Bumped' = 0
      BY <3>2, <3>3 DEF Bumped
    <3> QED
      BY <3>1, <3>2, <3>3, <3>4, <3>5 DEF PayloadTaken
  <2>7. CASE \/ FirstConnect \/ LoopTop \/ Reconnect \/ LookForFrame
             \/ GetLength \/ GetNonsense
             \/ ReadLine \/ Drain
    <3>1. rpc' \notin {"payload", "send"}
      BY <2>7 DEF FirstConnect, LoopTop, Reconnect, LookForFrame, GetLength,
             GetNonsense, ReadLine, Drain
    <3> QED
      BY <3>1
  <2>8. CASE Stop
    <3>1. UNCHANGED <<rpc, taken, rDone, due, unread>>
      BY <2>8 DEF Stop, reader, history
    <3> QED
      BY <3>1 DEF HandedInv, PayloadTaken, Bumped, Payload
  <2> QED
    BY <1>4, <2>3, <2>4, <2>5, <2>6, <2>7, <2>8 DEF Entry
<1> QED
  BY <1>2, <1>3, <1>4 DEF Next

(* A program that is lost without a fault has read the length of a message *)
(* it cannot send.                                                         *)
LEMMA LossStep ==
  ASSUME IInv, NoFault, FramesInv, Open, Next
  PROVE  LossInv'
<1> SUFFICES ASSUME ~Running', fault' = "none"
             PROVE  Size[committed'[Len(handed') + 1]] \notin 1 .. BufferSize
  BY DEF LossInv
<1>0. TypeOK /\ ReaderInv /\ FollowsInv /\ TakenInv
  BY DEF IInv, NoFault
<1>1. ~Note("underflow") /\ Running
  BY FaultStays DEF Next
<1>2. GetPayload \/ GetNonsense
  <2>1. CASE Write \/ Stop
    <3>1. rpc' = rpc
      BY <2>1, WriteFrame DEF Stop, reader
    <3> QED
      BY <1>1, <3>1 DEF Running
  <2>2. CASE Entry /\ ~GetPayload /\ ~GetNonsense /\ ~TakeNext
    BY <1>1, <2>2 DEF Entry, FirstConnect, LoopTop, Reconnect, LookForFrame,
           GetLength, TakeBump, TakeLoad, Send, ReadLine, Drain, Running
  <2>3. CASE TakeNext
    <3>1. rpc' \in {rpc, "getPayload", "send", "drain"}
      BY <1>0, <2>3 DEF TakeNext, ReaderInv
    <3> QED
      BY <1>1, <3>1 DEF Running
  <2> QED
    BY <2>1, <2>2, <2>3 DEF Next
<1>3. /\ Inside /\ taken = Header(due[1]) /\ due \in Bytes
      /\ UNCHANGED <<committed, handed>>
  BY <1>0, <1>2 DEF GetPayload, GetNonsense, Inside, Fresh, TakenInv, FollowsInv, history
<1>4. due[1] = committed[Len(handed) + 1] /\ due[1] \in Message
  BY <1>0, <1>3, FreshOrInside, ByteFacts DEF FramesInv
<1>5. GetPayload
  BY <1>2, <1>3, <1>4 DEF GetNonsense
<1>6. PICK m \in Message :
        taken = Header(m) /\ (Size[m] = 0 \/ ~Fits(m))
  BY <1>1, <1>5 DEF GetPayload, Running
<1>7. m = due[1]
  BY <1>3, <1>6, HeaderTells
<1>8. Size[m] \notin 1 .. BufferSize
  BY <1>6, Numbers DEF Fits
<1> QED
  BY <1>3, <1>4, <1>7, <1>8

LEMMA ChannelInit == Init => ChannelInv
<1> SUFFICES ASSUME Init PROVE ChannelInv
  OBVIOUS
<1>1. OnceInv
  BY DEF Init, OnceInv, Putting
<1>2. FramesInv
  BY DEF Init, FramesInv, Reached, Begun, Inside, Putting
<1>3. HandedInv
  BY DEF Init, HandedInv
<1>4. LossInv
  BY DEF Init, LossInv, Running
<1> QED
  BY <1>1, <1>2, <1>3, <1>4 DEF ChannelInv

LEMMA ChannelStep ==
  FInv /\ FInv' /\ ChannelInv /\ [Next]_vars => ChannelInv'
<1> SUFFICES ASSUME FInv, FInv', ChannelInv, [Next]_vars
             PROVE  ChannelInv'
  OBVIOUS
<1>0. /\ IInv /\ TypeOK /\ WriterInv /\ ReaderInv /\ TypeOK' /\ WriterInv'
      /\ OnceInv /\ LossInv
  BY DEF FInv, IInv, ChannelInv
<1>1. CASE Next
  <2>1. OnceInv'
    BY <1>0, <1>1, OnceStep
  <2>2. ASSUME Open' PROVE FramesInv' /\ HandedInv'
    <3>1. Open /\ CountInv /\ NoFault /\ FramesInv /\ HandedInv
      BY <1>0, <1>1, <2>2, OpenStays DEF FInv, NoPhantom, Open, ChannelInv
    <3> QED
      BY <1>0, <1>1, <2>1, <2>2, <3>1, FramesStep, HandedStep
  <2>3. LossInv'
    <3>1. CASE Open
      BY <1>0, <1>1, <3>1, LossStep DEF FInv, Open, ChannelInv
    <3>2. CASE ~Open
      <4> SUFFICES ASSUME ~Running', fault' = "none" PROVE FALSE
        BY DEF LossInv
      <4>1. rpc \in {"drain", "discard", "done"}
        BY <1>1, <3>2, FaultStays DEF Open, Next
      <4>2. rpc' \in {"drain", "discard", "done"}
        BY <1>0, <1>1, <4>1, ClosedStays
      <4> QED
        BY <4>2 DEF Running
    <3> QED
      BY <3>1, <3>2
  <2> QED
    BY <2>1, <2>2, <2>3 DEF ChannelInv
<1>2. CASE UNCHANGED vars
  <2>1. UNCHANGED <<writer, reader, history>>
    BY <1>2 DEF vars
  <2>2. /\ Putting' <=> Putting
        /\ Put' = Put
        /\ Inside' <=> Inside
        /\ Bumped' = Bumped
        /\ Open' <=> Open
        /\ Running' <=> Running
        /\ \A b : Ends(b)' <=> Ends(b)
    BY <2>1 DEF writer, reader, history, Putting, Put, InPart, Inside, Fresh, Bumped,
       Open, Running, Ends, FrameLength
  <2>3. UNCHANGED <<Begun, Reached, Upcoming>>
    <3>1. Ends(due)' <=> Ends(due)
      BY <2>1 DEF history, Ends, FrameLength
    <3> QED
      BY <2>1, <2>2, <3>1 DEF history, Begun, Reached, Upcoming
  <2>4. OnceInv'
    BY <1>0, <2>1, <2>2 DEF OnceInv, writer, history
  <2>5. FramesInv => FramesInv'
    <3>1. \A k \in 1 .. Len(unread) - 1 : Ends(unread[k])' <=> Ends(unread[k])
      BY <2>1 DEF history, Ends, FrameLength
    <3> QED
      BY <2>1, <2>2, <2>3, <3>1 DEF FramesInv, history
  <2>6. HandedInv => HandedInv'
    BY <2>1, <2>2 DEF HandedInv, PayloadTaken, Payload, reader, history
  <2>7. LossInv'
    BY <1>0, <2>1, <2>2 DEF LossInv, history
  <2> QED
    BY <2>2, <2>4, <2>5, <2>6, <2>7 DEF ChannelInv
<1> QED
  BY <1>1, <1>2

LEMMA ChannelAlways == Spec => [](FInv /\ ChannelInv)
<1>1. FInv /\ [Next]_vars => FInv'
  BY FInvStep
<1> QED
  BY <1>1, FInvInit, ChannelInit, ChannelStep, PTL DEF Spec

(* Without a fault the program is lost on messages without bytes or longer *)
(* than p[] alone, for every length of the ring and every size of the      *)
(* messages (APRSWriterThread.cpp:104-110, APRSWriterThread.h:29).         *)
THEOREM OnlyBadSizesLoseIt == Spec => []LossExplained
<1>1. ChannelInv => LossExplained
  BY DEF ChannelInv, LossInv, LossExplained
<1> QED
  BY <1>1, ChannelAlways, PTL

-----------------------------------------------------------------------------
(* The channel.                                                            *)

LEMMA PayloadTells ==
  ASSUME NEW m \in Message, Size[m] > 0
  PROVE  (CHOOSE l \in Message : Payload(m) = Payload(l)) = m
<1>1. ASSUME NEW l \in Message, Payload(m) = Payload(l)
      PROVE  l = m
  <2>1. Size[m] \in Nat /\ Size[l] \in Nat /\ 1 \in 1 .. Size[m]
    BY Numbers
  <2>2. DOMAIN Payload(m) = 1 .. Size[m] /\ DOMAIN Payload(l) = 1 .. Size[l]
    BY DEF Payload
  <2>3. 1 \in 1 .. Size[l]
    BY <1>1, <2>1, <2>2
  <2>4. Payload(m)[1] = <<m, HeaderSize + 1>> /\ Payload(l)[1] = <<l, HeaderSize + 1>>
    BY <2>1, <2>3 DEF Payload
  <2> QED
    BY <1>1, <2>4
<1> QED
  BY <1>1

\* The variables of the channel while it is open.
Queued == SubSeq(committed, Len(handed) + 1, Len(committed))
Passed == [k \in DOMAIN handed |-> CHOOSE m \in Message : handed[k] = Payload(m)]

LEMMA StateOpen ==
  /\ Open <=> ChannelState = "open"
  /\ ChannelState \in {"open", "closed", "broken"}
BY DEF Open, ChannelState

\* The rest of a sequence behind its first h elements.
LEMMA RestOfSeq ==
  ASSUME NEW s \in Seq(Message), NEW h \in 0 .. Len(s)
  PROVE  /\ Len(s) \in Nat /\ SubSeq(s, h + 1, Len(s)) \in Seq(Message)
         /\ Len(SubSeq(s, h + 1, Len(s))) = Len(s) - h
         /\ \A k \in 1 .. Len(s) - h : SubSeq(s, h + 1, Len(s))[k] = s[h + k]
<1>0. Len(s) \in Nat /\ h \in Nat /\ h <= Len(s)
  OBVIOUS
<1>1. \A i \in h + 1 .. Len(s) : s[i] \in Message
  BY <1>0
<1>2. /\ SubSeq(s, h + 1, Len(s)) \in Seq(Message)
      /\ Len(SubSeq(s, h + 1, Len(s)))
           = (IF h + 1 <= Len(s) THEN Len(s) - (h + 1) + 1 ELSE 0)
      /\ \A k \in 1 .. Len(s) - (h + 1) + 1 :
           SubSeq(s, h + 1, Len(s))[k] = s[(h + 1) + k - 1]
  BY <1>0, <1>1, SubSeqProperties
<1>3. Len(SubSeq(s, h + 1, Len(s))) = Len(s) - h
  BY <1>0, <1>2
<1>4. ASSUME NEW k \in 1 .. Len(s) - h
      PROVE  SubSeq(s, h + 1, Len(s))[k] = s[h + k]
  <2>1. k \in 1 .. Len(s) - (h + 1) + 1 /\ (h + 1) + k - 1 = h + k
    BY <1>0
  <2> QED
    BY <1>2, <2>1
<1> QED
  BY <1>0, <1>2, <1>3, <1>4

\* One more element at the end of a sequence.
LEMMA AppendedIs ==
  ASSUME NEW n \in Nat, NEW S, NEW q \in Seq(S), NEW p \in Seq(S), NEW m \in S,
         Len(p) = n, Len(q) = n + 1, q[n + 1] = m, \A k \in 1 .. n : q[k] = p[k]
  PROVE  q = Append(p, m)
<1> DEFINE r == Append(p, m)
<1>1. /\ r \in Seq(S) /\ Len(r) = n + 1 /\ r[n + 1] = m
      /\ \A k \in 1 .. n : r[k] = p[k]
  OBVIOUS
<1> HIDE DEF r
<1>2. ASSUME NEW k \in 1 .. n + 1
      PROVE  q[k] = r[k]
  <2>1. k \in 1 .. n \/ k = n + 1
    OBVIOUS
  <2> QED
    BY <1>1, <2>1
<1>3. q = r
  BY <1>1, <1>2
<1> QED
  BY <1>3 DEF r

LEMMA RestGrows ==
  ASSUME NEW s \in Seq(Message), NEW h \in 0 .. Len(s), NEW m \in Message
  PROVE  SubSeq(Append(s, m), h + 1, Len(Append(s, m)))
           = Append(SubSeq(s, h + 1, Len(s)), m)
<1> DEFINE t == Append(s, m)
           q == SubSeq(t, h + 1, Len(t))
           p == SubSeq(s, h + 1, Len(s))
<1>1. /\ Len(s) \in Nat /\ h \in Nat /\ p \in Seq(Message) /\ Len(p) = Len(s) - h
      /\ \A k \in 1 .. Len(s) - h : p[k] = s[h + k]
  BY RestOfSeq
<1>2. /\ t \in Seq(Message) /\ Len(t) = Len(s) + 1 /\ t[Len(s) + 1] = m
      /\ \A k \in 1 .. Len(s) : t[k] = s[k]
  OBVIOUS
<1>3. /\ q \in Seq(Message) /\ Len(q) = Len(t) - h
      /\ \A k \in 1 .. Len(t) - h : q[k] = t[h + k]
  <2> HIDE DEF t
  <2>1. h \in 0 .. Len(t)
    BY <1>1, <1>2
  <2> QED
    BY <1>2, <2>1, RestOfSeq
<1> HIDE DEF p, q, t
<1>4. ASSUME NEW k \in 1 .. Len(s) - h
      PROVE  q[k] = p[k]
  <2>1. k \in 1 .. Len(t) - h /\ h + k \in 1 .. Len(s)
    BY <1>1, <1>2
  <2> QED
    BY <1>1, <1>2, <1>3, <2>1
<1>5. q[(Len(s) - h) + 1] = m
  <2>1. (Len(s) - h) + 1 \in 1 .. Len(t) - h /\ h + ((Len(s) - h) + 1) = Len(s) + 1
    BY <1>1, <1>2
  <2> QED
    BY <1>2, <1>3, <2>1
<1>6. Len(s) - h \in Nat /\ Len(q) = (Len(s) - h) + 1
  BY <1>1, <1>2, <1>3
<1>7. q = Append(p, m)
  BY <1>1, <1>3, <1>4, <1>5, <1>6, AppendedIs
<1> QED
  BY <1>7 DEF p, q, t

LEMMA RestShrinks ==
  ASSUME NEW s \in Seq(Message), NEW h \in 0 .. Len(s) - 1
  PROVE  /\ SubSeq(s, h + 1, Len(s)) # <<>>
         /\ Head(SubSeq(s, h + 1, Len(s))) = s[h + 1]
         /\ Tail(SubSeq(s, h + 1, Len(s))) = SubSeq(s, (h + 1) + 1, Len(s))
<1> DEFINE p == SubSeq(s, h + 1, Len(s))
           q == SubSeq(s, (h + 1) + 1, Len(s))
           r == Tail(p)
<1>0. Len(s) \in Nat /\ h \in Nat /\ h \in 0 .. Len(s) /\ h + 1 \in 0 .. Len(s)
  OBVIOUS
<1>1. /\ p \in Seq(Message) /\ Len(p) = Len(s) - h
      /\ \A k \in 1 .. Len(s) - h : p[k] = s[h + k]
  BY <1>0, RestOfSeq
<1>2. /\ q \in Seq(Message) /\ Len(q) = Len(s) - (h + 1)
      /\ \A k \in 1 .. Len(s) - (h + 1) : q[k] = s[(h + 1) + k]
  BY <1>0, RestOfSeq
<1> HIDE DEF p, q
<1>3. Len(p) >= 1 /\ p[1] = s[h + 1]
  <2>1. 1 \in 1 .. Len(s) - h
    BY <1>0
  <2> QED
    BY <1>0, <1>1, <2>1
<1>4. p # <<>> /\ Head(p) = p[1]
  BY <1>1, <1>3
<1>5. /\ r \in Seq(Message) /\ Len(r) = Len(p) - 1
      /\ \A k \in 1 .. Len(p) - 1 : r[k] = p[k + 1]
  BY <1>1, <1>4
<1> HIDE DEF r
<1>6. ASSUME NEW k \in 1 .. Len(s) - (h + 1)
      PROVE  r[k] = q[k]
  <2>1. k \in 1 .. Len(p) - 1 /\ k + 1 \in 1 .. Len(s) - h /\ h + (k + 1) = (h + 1) + k
    BY <1>0, <1>1
  <2>2. r[k] = p[k + 1] /\ p[k + 1] = s[h + (k + 1)] /\ q[k] = s[(h + 1) + k]
    BY <1>1, <1>2, <1>5, <2>1
  <2> QED
    BY <2>1, <2>2
<1>7. Len(r) = Len(s) - (h + 1) /\ Len(q) = Len(r)
  BY <1>0, <1>1, <1>2, <1>5
<1>8. r = q
  BY <1>2, <1>5, <1>6, <1>7
<1> QED
  BY <1>3, <1>4, <1>8 DEF p, q, r

LEMMA AcceptMaps ==
  ASSUME TypeOK, WriterInv, OnceInv, FramesInv,
         NEW m \in Message, committed' = Append(committed, m), handed' = handed
  PROVE  Queued' = Append(Queued, m) /\ Passed' = Passed
<1>1. committed \in Seq(Message) /\ Len(handed) \in 0 .. Len(committed)
  BY PlaceNumbers DEF FramesInv, Reached
<1>2. SubSeq(Append(committed, m), Len(handed) + 1, Len(Append(committed, m)))
        = Append(SubSeq(committed, Len(handed) + 1, Len(committed)), m)
  BY <1>1, RestGrows
<1>3. Queued' = Append(Queued, m)
  BY <1>2 DEF Queued
<1> QED
  BY <1>3 DEF Passed, Payload

LEMMA PassMaps ==
  ASSUME TypeOK, WriterInv, OnceInv, FramesInv, TakenInv, HandedInv, Send, Open
  PROVE  Queued # <<>> /\ Queued' = Tail(Queued) /\ Passed' = Append(Passed, Head(Queued))
<1> DEFINE h == Len(handed)
           m == committed[h + 1]
<1>1. /\ committed' = committed /\ h \in Nat /\ Len(handed') = h + 1
      /\ handed'[h + 1] = Payload(m) /\ Size[m] > 0
      /\ \A k \in 1 .. h : handed'[k] = handed[k]
  BY SendHands
<1>2. committed \in Seq(Message) /\ h \in 0 .. Len(committed) - 1 /\ m \in Message
  <2>1. committed \in Seq(Message) /\ Len(committed) \in Nat /\ h + 1 <= Len(committed)
    BY SendHands, PlaceNumbers DEF FramesInv
  <2> QED
    BY <1>1, <2>1
<1>3. Queued # <<>> /\ Head(Queued) = m /\ Queued' = Tail(Queued)
  <2>1. Queued # <<>> /\ Head(Queued) = m
    BY <1>2, RestShrinks DEF Queued
  <2>2. Queued' = SubSeq(committed, (h + 1) + 1, Len(committed))
    BY <1>1 DEF Queued
  <2>3. Tail(Queued) = SubSeq(committed, (h + 1) + 1, Len(committed))
    BY <1>2, RestShrinks DEF Queued
  <2> QED
    BY <2>1, <2>2, <2>3
<1>4. Passed' = Append(Passed, m)
  <2> DEFINE q == Passed'
             p == Passed
             Told(x) == CHOOSE l \in Message : x = Payload(l)
  <2>1. DOMAIN handed = 1 .. h /\ DOMAIN handed' = 1 .. h + 1
    <3>1. handed \in Seq(Seq(Byte) \cup {Garbage}) /\ taken \in Seq(Byte)
          /\ handed' = Append(handed, taken)
      BY Types DEF HistoryType, ReaderType, Send
    <3>2. handed' \in Seq(Seq(Byte) \cup {Garbage})
      BY <3>1
    <3> QED
      BY <1>1, <3>1, <3>2
  <2>2. p = [k \in 1 .. h |-> Told(handed[k])]
    BY <2>1 DEF Passed
  <2>3. q = [k \in 1 .. h + 1 |-> Told(handed'[k])]
    BY <2>1 DEF Passed, Payload
  <2>4. Told(handed'[h + 1]) = m
    BY <1>1, <1>2, PayloadTells
  <2>5. \A k \in 1 .. h : Told(handed'[k]) = Told(handed[k]) /\ Told(handed[k]) \in Message
    <3> SUFFICES ASSUME NEW k \in 1 .. h
                 PROVE  handed'[k] = handed[k] /\ Told(handed[k]) \in Message
      OBVIOUS
    <3>1. handed[k] = Payload(committed[k]) /\ Size[committed[k]] > 0
          /\ committed[k] \in Message
      BY <1>1, <1>2 DEF HandedInv
    <3>2. Told(handed[k]) = committed[k]
      BY <3>1, PayloadTells
    <3> QED
      BY <1>1, <3>1, <3>2
  <2> HIDE DEF Told
  <2>6. p \in Seq(Message) /\ Len(p) = h
    BY <1>1, <2>2, <2>5
  <2>7. /\ q \in Seq(Message) /\ Len(q) = h + 1 /\ q[h + 1] = m
        /\ \A k \in 1 .. h : q[k] = p[k]
    <3>1. \A k \in 1 .. h + 1 : Told(handed'[k]) \in Message
      <4>1. \A k \in 1 .. h + 1 : k \in 1 .. h \/ k = h + 1
        BY <1>1
      <4> QED
        BY <1>2, <2>4, <2>5, <4>1
    <3>2. q \in Seq(Message) /\ Len(q) = h + 1
      BY <1>1, <2>3, <3>1
    <3>3. q[h + 1] = m
      BY <1>1, <2>3, <2>4
    <3>4. \A k \in 1 .. h : q[k] = p[k]
      BY <1>1, <2>2, <2>3, <2>5
    <3> QED
      BY <3>2, <3>3, <3>4
  <2> HIDE DEF q, p, m, h
  <2>8. q = Append(p, m)
    BY <1>1, <1>2, <2>6, <2>7, AppendedIs
  <2> QED
    BY <2>8 DEF q, p
<1> QED
  BY <1>3, <1>4

LEMMA ChannelStarts == Init => Channel!Init
<1> SUFFICES ASSUME Init PROVE Channel!Init
  OBVIOUS
<1>1. ChannelState = "open"
  BY DEF Init, ChannelState, Running
<1>2. SubSeq(committed, Len(handed) + 1, Len(committed)) = <<>>
  BY DEF Init
<1>3. [k \in DOMAIN handed |-> CHOOSE m \in Message : handed[k] = Payload(m)] = <<>>
  BY DEF Init
<1> QED
  BY <1>1, <1>2, <1>3 DEF Channel!Init

(* While the channel is open, the first byte of a length is an Accept, the *)
(* call of m_socket.write() a Pass, and every other step leaves the        *)
(* channel as it is.                                                       *)
LEMMA OpenMaps ==
  ASSUME FInv, ChannelInv, Next, Open, Open'
  PROVE  \/ UNCHANGED <<Queued, Passed>>
         \/ \E m \in Message : Queued' = Append(Queued, m) /\ Passed' = Passed
         \/ Queued # <<>> /\ Queued' = Tail(Queued) /\ Passed' = Append(Passed, Head(Queued))
<1>0. /\ TypeOK /\ WriterInv /\ ReaderInv /\ TakenInv
      /\ OnceInv /\ FramesInv /\ HandedInv
  BY DEF FInv, IInv, NoFault, Open, ChannelInv
<1>1. ASSUME UNCHANGED <<committed, handed>>
      PROVE  UNCHANGED <<Queued, Passed>>
  BY <1>1 DEF Queued, Passed, Payload
<1>2. CASE Write
  <2>1. handed' = handed
    BY <1>2, WriteFrame
  <2>2. committed' = committed \/ (wmsg \in Message /\ committed' = Append(committed, wmsg))
    BY <1>0, <1>2, Commits
  <2> QED
    BY <1>0, <1>1, <2>1, <2>2, AcceptMaps
<1>3. CASE Send
  BY <1>0, <1>3, PassMaps
<1>4. CASE (Entry \/ Stop) /\ ~Send
  <2>1. UNCHANGED <<committed, handed>>
    BY <1>4, EntryFrame DEF Entry, FirstConnect, LoopTop, Reconnect, LookForFrame,
           GetLength, GetPayload, GetNonsense, TakeBump, TakeLoad, TakeNext,
           ReadLine, Drain,
       Stop, history
  <2> QED
    BY <1>1, <2>1
<1> QED
  BY <1>2, <1>3, <1>4 DEF Next

\* A channel that is closed stays so, and one that is broken is not mended.
LEMMA EndMaps ==
  ASSUME ReaderInv, Next, ~Open'
  PROVE  /\ ChannelState' \in {"closed", "broken"}
         /\ ChannelState = "closed" => ChannelState' = "closed"
<1>1. ChannelState' \in {"closed", "broken"}
  BY DEF Open, ChannelState
<1>2. ChannelState = "closed" => ChannelState' = "closed"
  <2> SUFFICES ASSUME ChannelState = "closed" PROVE ChannelState' = "closed"
    OBVIOUS
  <2>1. rpc \in {"drain", "discard", "done"}
    BY DEF ChannelState
  <2> QED
    BY <2>1, ClosedStays DEF ChannelState
<1> QED
  BY <1>1, <1>2

(* For every length of the ring and every size of the length field and of  *)
(* the messages, and however the two threads interleave: until a fault     *)
(* comes or entry() leaves its loop, the messages write() put in are       *)
(* passed to the socket whole, in order, none left out and none twice      *)
(* (APRSWriterThread.cpp:100-110, 139-145, 162-178).                       *)
THEOREM FrameQueueImplementsChannel == Spec => ImplementsChannel
<1> DEFINE State == ChannelState
           Queue == IF ChannelState = "open"
                      THEN SubSeq(committed, Len(handed) + 1, Len(committed)) ELSE <<>>
           Handed == IF ChannelState = "open"
                       THEN [k \in DOMAIN handed |->
                               CHOOSE m \in Message : handed[k] = Payload(m)]
                       ELSE <<>>
<1>1. FInv /\ ChannelInv /\ [Next]_vars
        => [Channel!Next]_<<State, Queue, Handed>>
  <2> SUFFICES ASSUME FInv, ChannelInv, [Next]_vars
               PROVE  Channel!Next \/ UNCHANGED <<State, Queue, Handed>>
    OBVIOUS
  <2>0. ReaderInv
    BY DEF FInv, IInv
  <2>1. CASE Next /\ Open'
    <3>1. Open
      BY <2>0, <2>1, OpenStays
    <3>2. ChannelState = "open" /\ ChannelState' = "open"
      BY <2>1, <3>1 DEF Open, ChannelState
    <3>3. /\ Queue = Queued /\ Queue' = Queued'
          /\ Handed = Passed /\ Handed' = Passed'
      BY <3>2 DEF Queued, Passed
    <3> HIDE DEF Queue, Handed
    <3>4. \/ UNCHANGED <<Queue, Handed>>
          \/ \E m \in Message : Queue' = Append(Queue, m) /\ Handed' = Handed
          \/ Queue # <<>> /\ Queue' = Tail(Queue) /\ Handed' = Append(Handed, Head(Queue))
      BY <2>1, <3>1, <3>3, OpenMaps
    <3> USE DEF Queue, Handed
    <3> QED
      BY <3>2, <3>4 DEF Channel!Next, Channel!Accept, Channel!Pass
  <2>2. CASE Next /\ ~Open'
    <3>1. /\ ChannelState' \in {"closed", "broken"}
          /\ ChannelState = "closed" => ChannelState' = "closed"
      BY <2>0, <2>2, EndMaps
    <3>2. Queue' = <<>> /\ Handed' = <<>>
      BY <3>1
    <3>3. CASE ChannelState = "closed"
      BY <3>1, <3>2, <3>3
    <3>4. CASE ChannelState # "closed"
      BY <3>1, <3>2, <3>4 DEF Channel!Next, Channel!End
    <3> QED
      BY <3>3, <3>4
  <2>3. CASE UNCHANGED vars
    BY <2>3 DEF vars, reader, history, ChannelState, Running, Payload
  <2> QED
    BY <2>1, <2>2, <2>3
<1> QED
  BY <1>1, ChannelStarts, ChannelAlways, PTL DEF Spec, ImplementsChannel, Channel!Spec

=============================================================================
