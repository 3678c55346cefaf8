------------------------------ MODULE Delivery ------------------------------
(***************************************************************************)
(* The way of the messages from write() to the server, over as many        *)
(* connections as it takes: the sockets of TCPSocket send what comes out   *)
(* of the queue of CAPRSWriterThread, which is here what FrameQueue has    *)
(* been shown to implement, an open FrameChannel.  The queue outlives the  *)
(* connections; nothing ever confirms a frame.                             *)
(***************************************************************************)
EXTENDS TCPSocket

CONSTANT MaxMessages   \* bound: the messages write() accepts

ASSUME MessagesAssumption == MaxMessages \in Nat

VARIABLES
  state, queue, passed,   \* the channel
  given,                  \* what send() has taken whole, in order: each
                          \* message, and the connection it went to
  late,                   \* how many were given behind the end of a connection
  allowed                 \* how many that may be

channel == <<state, queue, passed>>
fate == <<given, late, allowed>>
deliveryVars == <<vars, channel, fate>>

Channel == INSTANCE FrameChannel WITH Message <- 1 .. MaxMessages

\* The messages are numbered as write() accepts them.
Accepted == Len(passed) + Len(queue)
Write ==
  /\ Accepted < MaxMessages
  /\ Channel!Accept(Accepted + 1)
  /\ UNCHANGED <<vars, fate>>

Give ==
  /\ given' = Append(given, [conn |-> conns, message |-> Head(queue)])
  /\ late' = IF server = "done" THEN late + 1 ELSE late

\* Mutant: the frame stays in the queue until a line has come back.
MutDeliver ==
  /\ queue # <<>> /\ SendFrame
  /\ Give
  /\ UNCHANGED <<channel, allowed>>

\* The frame is out of the queue before it is sent.  Without a server, and
\* behind the end of the connection, send() can still return as if all was
\* well.
Deliver ==
  /\ Channel!Pass /\ SendFrame
  /\ Give
  /\ UNCHANGED allowed

DeliveryFails ==
  /\ Channel!Pass /\ FrameFails
  /\ UNCHANGED fate

NothingToDeliver ==
  /\ queue = <<>> /\ NoFrame
  /\ UNCHANGED <<channel, fate>>

Newlines(bytes) == Cardinality({j \in DOMAIN bytes : bytes[j] = "nl"})

ConnectionEnds ==
  /\ EndArrives
  /\ allowed' = allowed + Newlines(inbox) + 1
  /\ UNCHANGED <<channel, given, late>>

\* What does not touch the queue.
Serve ==
  /\ \/ Open \/ Connect \/ ConnectFails
     \/ ReadByte \/ ReadTimeout \/ ReadEnd \/ LoginByte \/ LoginDone
  /\ UNCHANGED <<channel, fate>>

Disturb ==
  /\ ReadFails \/ LoginFails \/ \E b \in Byte : ByteArrives(b)
  /\ UNCHANGED <<channel, fate>>

DeliveryInit ==
  /\ Init /\ Channel!Init
  /\ given = <<>> /\ late = 0 /\ allowed = 0

DeliveryProgress == Deliver \/ NothingToDeliver \/ Serve

DeliveryNext ==
  DeliveryProgress \/ Write \/ DeliveryFails \/ ConnectionEnds \/ Disturb

DeliverySpec == DeliveryInit /\ [][DeliveryNext]_deliveryVars

\* send() has no timeout: a server that does not read holds the thread here.
Sending == pc = "login" \/ (pc = "round" /\ queue # <<>>)

\* The writer thread runs.  Nothing says that send() returns, or that any call
\* fails.
DeliveryFairSpec ==
  DeliverySpec /\ WF_deliveryVars(~Sending /\ DeliveryProgress)

-----------------------------------------------------------------------------
(* Properties.                                                             *)

\* Over all connections no message is given to send() again once it has been
\* taken whole, and none out of the order of the calls of write(), and none
\* that is still queued (APRSWriterThread.cpp:100-117).
AtMostOnce ==
  /\ \A i, j \in DOMAIN given : i < j => given[i].message < given[j].message
  /\ \A i \in DOMAIN given : given[i].message \notin ToSet(queue)

\* A connection skips at most one message, the last it was to get, and so the
\* messages it has taken follow on each other.  What a server misses of them
\* is then the last ones, as many as were on their way when the connection
\* broke: nothing confirms them, and no number bounds them.  Once the end has
\* reached this host only one more is given for each line still to be read,
\* and one (APRSWriterThread.cpp:110-127, TCPSocket.cpp:199-202).
Before(i) == IF i = 1 THEN [conn |-> 1, message |-> 0] ELSE given[i - 1]
LossBounded ==
  /\ \A i \in DOMAIN given :
       given[i].message - Before(i).message
         <= 1 + given[i].conn - Before(i).conn
  /\ late <= allowed

\* A connection whose end has come is noticed, whatever there is to send, and
\* given up, if only the calls of send() return (TCPSocket.cpp:200-202,
\* APRSWriterThread.cpp:122-127).
EndIsNoticed == []<>~Sending => ((server = "done") ~> ~fd)

=============================================================================
