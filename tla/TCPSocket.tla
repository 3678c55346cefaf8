----------------------------- MODULE TCPSocket -----------------------------
(***************************************************************************)
(* CTCPSocket at the level of bytes, driven by connect() and entry() of    *)
(* CAPRSWriterThread, with the server at the other end.  readLine() reads  *)
(* one byte at a time, each with a timeout of its own; writeLine() sends   *)
(* one byte at a time; write() sends a frame in one call, all of it or a   *)
(* part.  What send() has taken waits in the kernel's buffers: nothing     *)
(* here tells whether it arrives.  The wait between two connect() and      *)
(* stop() are in WriterThread, the queue of the frames in FrameQueue.      *)
(***************************************************************************)
EXTENDS Integers, FiniteSets, Sequences, SequencesExt

CONSTANTS
  LoginSize,   \* the bytes of the login line
  FrameSize,   \* the bytes of a frame
  MaxFrames,   \* bound: the frames sent on one connection
  MaxBytes,    \* bound: the bytes that come in on one connection
  MaxConns     \* bound: the connections made

ASSUME SizesAssumption ==
  /\ LoginSize \in Nat \ {0} /\ FrameSize \in Nat \ {0}
  /\ MaxFrames \in Nat /\ MaxBytes \in Nat /\ MaxConns \in Nat

VARIABLES
  fd,          \* m_fd # -1
  pc,          \* where connect() and entry() are
  line,        \* the bytes the readLine() in progress has read
  written,     \* the bytes the writeLine() in progress has sent
  server,      \* "none", "up", or "done" when the end of the connection has
               \* reached this host; until then the server need not be there
  inbox,       \* the bytes that have reached this host and are not yet read
  \* history of the connection, and the number of connections
  got,         \* every byte recv() has returned
  pieces,      \* what each readLine() has kept: returned, or dropped
  stream,      \* every byte send() has taken
  frames,      \* the frames it has taken whole
  conns

incoming == <<line, inbox, got, pieces>>
outgoing == <<written, stream, frames>>
vars == <<fd, pc, server, incoming, outgoing, conns>>

\* A NUL is the byte that ends a C string.
Byte == {"x", "nl", "nul"}
Login == [j \in 1 .. LoginSize |-> <<0, j>>]
Frame(k) == [j \in 1 .. FrameSize |-> <<k, j>>]

Reading == pc \in {"banner", "response", "reading"}

-----------------------------------------------------------------------------
(* open() and close().                                                     *)

\* open() up to ::socket(): an open socket is used as it is.
Open ==
  /\ pc = "closed"
  /\ fd' = TRUE
  /\ pc' = IF fd THEN "banner" ELSE "connecting"
  /\ UNCHANGED <<server, incoming, outgoing, conns>>

\* ::connect() and the socket options.
Connect ==
  /\ pc = "connecting"
  /\ conns < MaxConns
  /\ conns' = conns + 1
  /\ pc' = "banner"
  /\ server' = "up"
  /\ line' = <<>> /\ inbox' = <<>> /\ got' = <<>> /\ pieces' = <<>>
  /\ written' = 0 /\ stream' = <<>> /\ frames' = 0
  /\ UNCHANGED fd

\* close(), and back to the caller, which tries again later.
Close ==
  /\ fd' = FALSE
  /\ pc' = "closed"
  /\ server' = "none"
  /\ line' = <<>> /\ inbox' = <<>> /\ got' = <<>> /\ pieces' = <<>>

ConnectFails ==
  /\ pc = "connecting"
  /\ Close
  /\ UNCHANGED <<outgoing, conns>>

-----------------------------------------------------------------------------
(* read() and readLine(): banner, response, and one line in every round.   *)

Add(returned, bytes) ==
  Append(pieces, [returned |-> returned, bytes |-> bytes])

\* Where connect() or entry() goes on when readLine() has returned a line.
Behind == CASE pc = "banner" -> "login" [] OTHER -> "round"

\* line.append(c) takes c[] for a C string.
Kept(b) == IF b = "nul" THEN <<>> ELSE <<b>>

\* Mutant: every byte ends the line.
MutReadByte ==
  /\ Reading /\ inbox # <<>>
  /\ inbox' = Tail(inbox) /\ got' = Append(got, Head(inbox))
  /\ pieces' = Add(TRUE, line \o Kept(Head(inbox)))
  /\ line' = <<>> /\ pc' = Behind
  /\ UNCHANGED <<fd, server, outgoing, conns>>

\* recv() returns a byte.
ReadByte ==
  /\ Reading /\ inbox # <<>>
  /\ inbox' = Tail(inbox) /\ got' = Append(got, Head(inbox))
  /\ LET kept == line \o Kept(Head(inbox))
     IN  IF Head(inbox) = "nl"
           THEN /\ pieces' = Add(TRUE, kept)
                /\ line' = <<>> /\ pc' = Behind
           ELSE line' = kept /\ UNCHANGED <<pieces, pc>>
  /\ UNCHANGED <<fd, server, outgoing, conns>>

\* select() times out: readLine() returns 0, and what it has read of a line
\* is lost.  connect() gives up, entry() goes on.
ReadTimeout ==
  /\ Reading /\ inbox = <<>> /\ server = "up"
  /\ IF pc = "reading"
       THEN /\ pieces' = IF line = <<>> THEN pieces ELSE Add(FALSE, line)
            /\ line' = <<>> /\ pc' = "round"
            /\ UNCHANGED <<fd, server, inbox, got>>
       ELSE Close
  /\ UNCHANGED <<outgoing, conns>>

\* Mutant: taken for a timeout.
MutReadEnd ==
  /\ Reading /\ inbox = <<>> /\ server = "done"
  /\ IF pc = "reading"
       THEN /\ line' = <<>> /\ pc' = "round"
            /\ UNCHANGED <<fd, server, inbox, got, pieces>>
       ELSE Close
  /\ UNCHANGED <<outgoing, conns>>

\* recv() returns 0: the end of the connection.
ReadEnd ==
  /\ Reading /\ inbox = <<>> /\ server = "done"
  /\ Close
  /\ UNCHANGED <<outgoing, conns>>

\* select() or recv() fails.
ReadFails ==
  /\ Reading
  /\ Close
  /\ UNCHANGED <<outgoing, conns>>

-----------------------------------------------------------------------------
(* write() and writeLine().                                                *)

\* writeLine() sends the next byte of the login line, or has sent them all.
LoginByte ==
  /\ pc = "login" /\ written < LoginSize
  /\ written' = written + 1
  /\ stream' = Append(stream, Login[written'])
  /\ UNCHANGED <<fd, pc, server, incoming, frames, conns>>

LoginDone ==
  /\ pc = "login" /\ written = LoginSize
  /\ pc' = "response" /\ written' = 0
  /\ UNCHANGED <<fd, server, incoming, stream, frames, conns>>

\* Mutant: connect() leaves the socket open when writeLine() fails.
MutLoginFails ==
  /\ pc = "login"
  /\ pc' = "closed" /\ written' = 0
  /\ UNCHANGED <<fd, server, incoming, stream, frames, conns>>

LoginFails ==
  /\ pc = "login"
  /\ Close /\ written' = 0
  /\ UNCHANGED <<stream, frames, conns>>

\* A round of entry() begins, with a frame to send or without.
SendFrame ==
  /\ pc = "round" /\ frames < MaxFrames
  /\ stream' = stream \o Frame(frames + 1)
  /\ frames' = frames + 1
  /\ pc' = "reading"
  /\ UNCHANGED <<fd, server, incoming, written, conns>>

NoFrame ==
  /\ pc = "round"
  /\ pc' = "reading"
  /\ UNCHANGED <<fd, server, incoming, outgoing, conns>>

\* Mutant: entry() goes on behind a write() that failed.
MutFrameFails ==
  /\ pc = "round" /\ frames < MaxFrames
  /\ \E n \in 0 .. FrameSize - 1 :
       stream' = stream \o SubSeq(Frame(frames + 1), 1, n)
  /\ pc' = "reading"
  /\ UNCHANGED <<fd, server, incoming, written, frames, conns>>

\* send() fails or takes a part; write() returns false.
FrameFails ==
  /\ pc = "round" /\ frames < MaxFrames
  /\ \E n \in 0 .. FrameSize - 1 :
       stream' = stream \o SubSeq(Frame(frames + 1), 1, n)
  /\ Close
  /\ UNCHANGED <<written, frames, conns>>

-----------------------------------------------------------------------------
(* What comes from the server, or does not come any more.                  *)

ByteArrives(b) ==
  /\ server = "up" /\ Len(got) + Len(inbox) < MaxBytes
  /\ inbox' = Append(inbox, b)
  /\ UNCHANGED <<fd, pc, line, server, got, pieces, outgoing, conns>>

EndArrives ==
  /\ server = "up"
  /\ server' = "done"
  /\ UNCHANGED <<fd, pc, incoming, outgoing, conns>>

-----------------------------------------------------------------------------

Init ==
  /\ fd = FALSE /\ pc = "closed"
  /\ line = <<>> /\ written = 0
  /\ server = "none" /\ inbox = <<>>
  /\ got = <<>> /\ pieces = <<>> /\ stream = <<>> /\ frames = 0
  /\ conns = 0

Progress ==
  \/ Open \/ Connect \/ ConnectFails
  \/ ReadByte \/ ReadTimeout \/ ReadEnd
  \/ LoginByte \/ LoginDone
  \/ SendFrame \/ NoFrame

Failure == ReadFails \/ LoginFails \/ FrameFails

Server == EndArrives \/ \E b \in Byte : ByteArrives(b)

Next == Progress \/ Failure \/ Server

Spec == Init /\ [][Next]_vars

-----------------------------------------------------------------------------
(* Properties.                                                             *)

\* Types; the socket is open everywhere but between two attempts.
TypeOK ==
  /\ fd \in BOOLEAN /\ (fd <=> pc # "closed")
  /\ pc \in {"closed", "connecting", "banner", "login", "response", "round",
             "reading"}
  /\ line \in Seq(Byte) /\ written \in 0 .. LoginSize
  /\ server \in {"none", "up", "done"} /\ inbox \in Seq(Byte)
  /\ got \in Seq(Byte)
  /\ pieces \in Seq([returned : BOOLEAN, bytes : Seq(Byte)])
  /\ stream \in Seq((0 .. MaxFrames) \X Nat)
  /\ frames \in 0 .. MaxFrames /\ conns \in 0 .. MaxConns
  /\ server # "none" => pc \notin {"closed", "connecting"}

Returned == {k \in DOMAIN pieces : pieces[k].returned}

\* What is sent on one connection, and so whatever part of it the server
\* gets, begins the login line and then whole frames.  A line or a frame cut
\* short is the last thing on its connection, and nothing is sent before the
\* banner, no frame before the response (TCPSocket.cpp:237-275,
\* APRSWriterThread.cpp:110-117, 197-246).
Expected ==
  FlattenSeq(<<Login>> \o [k \in 1 .. MaxFrames |-> Frame(k)])
ServerReads ==
  /\ IsPrefix(stream, Expected)
  /\ pc \in {"round", "reading"} =>
       Len(stream) = LoginSize + frames * FrameSize
  /\ (server # "none" /\ stream # <<>>) => 1 \in Returned
  /\ (server # "none" /\ Len(stream) > LoginSize) => Cardinality(Returned) >= 2

\* readLine() drops the NUL bytes, which it counts all the same, and nothing
\* else by itself, and neither joins, splits nor repeats: what it returned and
\* what its timeouts dropped are, in order, what recv() returned, and every
\* line it returned ends at a newline, so that it is never empty although its
\* length counts more than it holds, and starts behind one or behind what a
\* timeout has dropped (TCPSocket.cpp:214-235, APRSWriterThread.cpp:130).
WithoutNul(bytes) == FlattenSeq([j \in DOMAIN bytes |-> Kept(bytes[j])])
LinesInOrder ==
  /\ WithoutNul(got) =
       FlattenSeq([k \in DOMAIN pieces |-> pieces[k].bytes]) \o line
  /\ \A k \in DOMAIN pieces :
       pieces[k].returned <=> "nl" \in ToSet(pieces[k].bytes)
  /\ \A k \in Returned : \A j \in DOMAIN pieces[k].bytes :
       pieces[k].bytes[j] = "nl" <=> j = Len(pieces[k].bytes)

=============================================================================
