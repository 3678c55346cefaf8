# Verification of APRSGateway

APRSGateway takes APRS text from an MQTT topic and passes it on to an APRS-IS
server over TCP.  It is a small C++ program with three kinds of thread and no
locks.  This directory models it in TLA+, checks the models with TLC on small
instances, and proves the results that hold for every instance with TLAPS.

All source paths below are relative to `src/`.

## 1. The system

### Threads and data flow

    MQTT broker --> client thread (libmosquitto) --onMessage--> onAPRS
                                                         |
                                             CAPRSWriterThread::write
                                                         v
                                                m_queue (CRingBuffer)
                                                         v
     main thread --clock--> m_reconnectTimer --> writer thread: entry --> TCP
     signals --> m_killed, m_signal --> main thread

* The **main thread** runs `main()` and `CAPRSGateway::run()`: it reads the
  configuration, creates the writer and the MQTT client, calls
  `m_writer->clock(ms)` about every 20 ms until a signal comes, and takes the
  writer down.  After SIGHUP it does all that again.
* The **writer thread** runs `CAPRSWriterThread::entry()`: connect, log in,
  send queued frames, read what the server says, reconnect when it fails.
* The **MQTT thread**, made by libmosquitto, calls `onConnect()`,
  `onMessage()` and `onDisconnect()`; `onMessage()` ends up in `write()`.
* **Signal handlers** run on whichever thread the signal finds.

The threads share `m_queue`, `m_connected`, `m_exit`, the reconnect timer, the
pointers `gateway`, `m_writer`, `m_mqtt` and the flags of the signal handler,
none of which is atomic, volatile or locked.

### Components

| Component | State | Operations | Correct when | Model |
|---|---|---|---|---|
| Ring buffer (`RingBuffer.h`) | `m_buffer`, `m_iPtr`, `m_oPtr` | `addData`, `getData`, `peek`, `clear`, sizes | it is an all-or-nothing FIFO of `m_length - 1` elements | `RingBuffer` refines `ByteFifo`; proved |
| Frame queue (`APRSWriterThread.cpp` over `RingBuffer.h`) | the ring, `m_connected`, `m_exit` | `write()` on the MQTT thread, the dequeuing in `entry()`, the drain | frames come out whole, in order, once | `FrameQueue` refines `FrameChannel`; proved |
| Writer thread (`APRSWriterThread.cpp`) | `m_connected`, `m_exit`, `m_tries`, the timer, the socket | `connect`, `startReconnectionTimer`, `entry`, `clock`, `stop` | no descriptor is leaked or used closed; a retry always comes, not early, with growing waits; `stop()` returns if the calls of the socket do | `WriterThread`, `MainLoop`; proved |
| Timer (`Timer.h/.cpp`) | `m_timer`, `m_timeout` | `setTimeout`, `start`, `stop`, `clock`, `hasExpired` | it expires after the timeout and not before | inside `WriterThread` |
| Stop watch (`StopWatch.cpp`) | `m_startMS` | `start`, `elapsed` | the milliseconds handed to `clock()` follow real time | `MainLoop` |
| Thread (`Thread.cpp`) | the pthread | `run`, `wait`, `sleep` | what is joined was started | the start and the join in `WriterThread` and `Gateway`, `sleep` in `MainLoop` |
| TCP socket (`TCPSocket.cpp`) | `m_fd` | `open`, `read`, `readLine`, `write`, `writeLine`, `close` | one descriptor at a time; a line is returned whole or a failure reported; nothing is sent twice, out of order or behind a piece | `TCPSocket`, `Delivery`; proved |
| Gateway (`APRSGateway.cpp`) | `gateway`, `m_writer`, `m_killed`, `m_signal`, the process | `main`, `run`, `sigHandler`, `onAPRS` | signals end or restart it; a message never meets a writer that is not there; a daemon serves as its user and group, not as root | `Gateway`, `Daemon`; proved |
| MQTT connection (`MQTTConnection.cpp`) | `m_mosq`, `m_connected`, `m_subs` | `open`, `close`, `publish`, callbacks | messages reach their handler while it is open; nothing is published with a closed client | `Gateway`, `GatewayLog` |
| Log (`Log.cpp`) | `m_mqtt`, two levels | `LogInitialise`, `Log`, `WriteJSON`, `LogFinalise` | the client is closed at the end, and used by no thread behind it | `GatewayLog`; the text on stdout in `Daemon` |
| Configuration (`Conf.cpp`) | one member per key | `read`, getters | each key of its section sets its member | `Conf`; proved |
| Utilities | | | | not modelled: formatting |
| Build files, `.ini`, schema | | | | not program code |

### What is hard here

* `write()` and `entry()` share a ring whose pointers take the value
  `m_length` for a moment and are visible before the bytes they count.
* `entry()` decides on `isEmpty()` that a *frame* is there and ignores what
  `getData()` returns.
* `write()` and `addData()` disagree about a frame that fits exactly.
* `clock()` and `stop()`/`start()` of the timer overlap on two threads.
* The connection fails at any step and the retry depends on another thread.
* `stop()` must end a thread that may be connecting, waiting or sending.
* The MQTT client outlives the writer it delivers to, and a restart leaves the
  client of the run before running.
* `readLine()` and `writeLine()` go byte by byte: either can stop in the middle
  of a line.  Each byte read has a timeout of its own and `send()` has none, so
  the server decides how long either keeps the thread.
* A frame has left the queue before it is sent, and `send()` only fills the
  kernel's buffer: for a server that is gone it reports no error, however many
  frames it is given, until a line is read or the network gives up.
* `Log()` uses `m_mqtt` on every thread while `run()` overwrites it and
  `LogFinalise()` deletes what it points to.
* The daemon start changes the process for good: threads, directory, user and
  descriptors are not what the next run expects.
* Signals come between any two steps, also between the two assignments of the
  handler and between the two resets of `main()`.

`PROJECT.json` lists each hazard at its line with the properties about it.

## 2. The modules

| Module | Models |
|---|---|
| `RingPointers` | the pointer arithmetic of `CRingBuffer` as operators of the two pointers |
| `ByteFifo` | the abstract promise: a bounded, all-or-nothing FIFO |
| `RingBuffer` | `CRingBuffer` used by one thread at a time, one step per call |
| `RingBufferProofs` | its theorems |
| `FrameChannel` | the abstract promise of the frame queue: a channel of messages, until it is closed or broken |
| `FrameQueue` | the same ring shared by two threads, one step per access, with the code of `write()` and `entry()` around it |
| `FrameQueueProofs` | its theorems: what the ring keeps, and what can go wrong |
| `FrameChannelProofs` | its theorems about messages: it is that channel, and what loses the program without a fault |
| `WriterThread` | the connection, the reconnect timer, `clock()`, `stop()` |
| `MainLoop` | the loop of `run()` above it: stop watch, `clock()`, `sleep()`, real time |
| `WriterThreadProofs` | the theorems of both |
| `Gateway` | `main()`, `run()`, signals, MQTT clients and the lifetimes of the objects |
| `GatewayLog` | `Log()`, `WriteJSON()` and `publish()` on every thread, composed with `Gateway` |
| `GatewayProofs` | the theorems of both |
| `Daemon` | the daemon start and what it means to the runs behind a SIGHUP |
| `DaemonProofs` | its theorems |
| `TCPSocket` | `CTCPSocket` byte by byte, under the calls of `connect()` and `entry()`, with the server |
| `Delivery` | the messages from `write()` to the server: an open `FrameChannel` composed with the connections of `TCPSocket` |
| `DeliveryProofs` | the theorems of both |
| `Conf` | `CConf::read()`, one step per line of the file, and the assertions its members meet |
| `ConfProofs` | its theorems |
| `MC...` | values for the constants of the model-checking runs |

`RingBuffer` and `FrameQueue` both build on `RingPointers`, so that the tests
`nSamples >= freeSpace()` and `dataSize() < nSamples` are written once.
`WriterThread`, `FrameQueue` and `TCPSocket` are three views of the same loop of
`entry()`: the first keeps the connection and lets a frame be there or not in
any round, the second keeps the frames and lets the connection come and go, the
third keeps the bytes of one connection and lets both happen at any time.
They are composed where they meet: `FrameQueue` is shown to implement
`FrameChannel`, and `Delivery` puts that channel, in place of the queue, above
the connections of `TCPSocket`; `MainLoop` puts the real main loop in place of
the one `WriterThread` lets call `clock()` at will; `GatewayLog` adds to every
step of `Gateway` the threads that are in `Log()` meanwhile.

### FrameQueue

Byte `j` of the frame of message `m` is the pair `<<m, j>>`, header bytes
first, so a byte that turns up in the wrong place is seen.  `write()` is
`Call`, `CheckFreeSpace`, `AddLength`, the bytes of the length, `AddPayload`,
the bytes of the message, `Return`.  `entry()` is `LoopTop`, `Reconnect`,
`LookForFrame`, `GetLength`, `GetPayload` and their bytes, `Send`, `ReadLine`
and `Drain`.

Storing or copying one byte is two accesses that a build may order either way
(compiled with the flags of the `Makefile`, GCC publishes `m_iPtr + 1` and
`m_oPtr + 1` before it touches the cell): `PutBump`/`PutStore` and
`TakeBump`/`TakeLoad`, in any order, then `PutNext`/`TakeNext` for the wrap.
A pointer of the *other* thread is either loaded again or kept from the last
load (`oSeen`, `iSeen`).  The bytes of a frame that was overlapped mean
nothing, so a length decoded from the wrong bytes is any length
(`GetNonsense`).

`fault` records the first departure from a queue of frames: *overflow* (a
payload was refused after its length went in), *underflow* (`getData()`
refused and the result was ignored), *stale* (a byte was copied that was not
in its cell yet) and *phantom* (`m_oPtr` overtook `m_iPtr`).  A message may
have no bytes, or more than `p[]` holds (`BufferSize`, `FRAME_BUFFER_SIZE`):
either ends the program when `entry()` comes to it.

### WriterThread

`connect()` is `Open`, `Progress`, `Connected` or `GiveUp`;
`startReconnectionTimer()` is `Reschedule` and `Arm`; the loop is `Top`,
`Poll`, `Retry`, `Serve`, `Send`, `Read` (both with `Drop`), `End` and `Drain`.
`Held` names the positions at which others can keep the thread.  `clock()` is `ClockLoad` and
`ClockStore`, `stop()` is `Stop` and `Join`.  `waited` counts the ticks since
the timer was started and `raced` notes that a store of `clock()` undid that
start; both are history only.

### MainLoop

Each round is `Elapsed`, `Restart`, `Clock`, `ClockEnds`, `Sleep`, with
`TimePasses` between any two of them, so that the time between reading the stop
watch and starting it again is lost to it.  `real` is the time since the timer
was started by the clock on the wall.  A tick is as long as the sleep of 20 ms
or a part of it (`Nap`); readings in whole milliseconds are exact.

### Gateway

`pc` follows `main()` and `run()` statement by statement where the order of
statements matters.  Every run has an MQTT client of its own, numbered like
the run; `mqtt` is the one `m_mqtt` points to.  libmosquitto and the broker are
modelled as the code uses them: a client that is `running` may connect, be
refused, or have a message delivered while the broker serves it, and since all
clients of a process share one name, the broker serves the one that connected
last.  `FindWriter` and `UseWriter` are the two moments at which a message
depends on `gateway` and `m_writer`.  `pthread_create()` may fail, and `start()`
does not notice: `stop()` then joins a thread that was never made
(`JoinNothing`).  A client may lose its connection at any time (`Lose`).  A
`fault` ends the behaviour: the program has aborted in an assertion or is
undefined.  The program runs in the foreground (`Daemon=0`).

### GatewayLog

`LogBegin` is the test of `m_mqtt`, `LogTest` the load of `m_connected` in
`publish()` - of the client tested, or of the one a second load of `m_mqtt`
finds - and `LogPublish` the call of `mosquitto_publish()`.  The writer thread,
the main thread and the threads of the clients take these steps on their own,
while `MainSteps` and `ClientSteps` move the program under them.  `gone` is set
when a thread meets no client, a deleted one, or one whose `m_mosq` is gone.

### Daemon

`pc` follows `run()` through `fork()`, `setsid()`, `chdir()`, the change of
user and the closing of 0, 1 and 2, each with its failure.  `fds` is the table
of descriptors, given out lowest first as POSIX does; a client of libmosquitto
holds one (the pipe it makes for itself is left out).  `Fork` takes the threads
of the clients away (`alive`) and leaves the objects and descriptors.
`stray` collects the sockets that text for stdout or stderr has gone to,
`closed` those in use that were closed in place of 0, 1 or 2.  The `.ini` file
may be named relative to the starting directory, and be readable only for the
user who started the program.

### TCPSocket

`Open` is `open()` up to `::socket()`, which uses a socket that is already
there as it is; `Connect` and `ConnectFails` are the rest of it.  `ReadByte`,
`ReadTimeout`, `ReadEnd` and `ReadFails` are the outcomes of `read()` for one
byte, with what `readLine()` and its caller make of them: `connect()` gives up
on a timeout, `entry()` goes on without the part of the line read so far.
`LoginByte` is one byte of `writeLine()`, `SendFrame` and `FrameFails` are
`write()`, whose `send()` may take a part of the frame.  What is kept of a byte
is `Kept`: `line.append(c)` takes `c` for a C string, so that a NUL byte is
counted and dropped.

The other side is seen from this host: a byte or the end of the connection
*arrives* at any time, or never.  `server = "up"` says that no end has arrived,
which may be because the server has not closed, because its end is still on its
way, or because the host is gone; a timeout of `select()` and a `send()` that
returns as if all was well are possible in all three.  `got` records every byte
`recv()` has returned, `pieces` what every `readLine()` kept and whether it was
returned or dropped, `stream` what `send()` has taken, of which the server gets
some beginning; all three are history.

### Delivery

`Write` accepts a message, `Deliver` and `DeliveryFails` take one out of the
channel and pass it to `send()`.  `given` records the messages `send()` has
taken whole, with their connections: that is all this program ever knows of
them, and what a server misses of them is not bounded.  Behind an end that has
arrived `send()` may still succeed (`late`) until the end is read.  `allowed`
counts how many that may be: when the end arrives, one for every line still to
be read and one more.

### Conf

The file is a sequence of lines, each a comment, a head or an entry; a line too
long for the buffer is two.  What the parser does with a value is done here on
sequences of the characters it tells apart: quotes, `#`, blanks, signs,
figures, lower and upper case and others.  The key ends at the first of the separators
and the value starts behind *that one character*, so further separators belong
to the value, as they do in the code.  `Atoi` is `atoi()` as the C library has
it, `strtol()` with its sign and its nearest value cut to an int; `Convert` adds
the casts, to 16 bits for a port and to an unsigned int for the numbers; `Upper`
is what is done to the callsign.  The widths of int and long are constants.  `Open` is
`fopen()`, which may fail.  `Construct` is what `run()` does with the members
next: the constructors of the writer, its socket and the MQTT connection assert
some of them (`Refused`).  `Login` is the `sprintf()` of `connect()`: callsign
(`Username`, cut to eight characters by the constructor) and password go into
`connectString[200]`, which has room for 161 characters of both (`LoginRoom`);
what a longer line does is undefined, and the model ends there (`"overrun"`).

## 3. The runs

| Run | Shows |
|---|---|
| `ring_buffer` | `ImplementsFifo`: used by one thread, the ring answers like `ByteFifo` for every sequence of calls |
| `frame_queue_safety` | the interleaved ring: `UnreadIntact` (no byte is overwritten before it is read), `ImplementsChannel` (until a fault the queue is a channel of messages), `FaultsExplained` (each fault has one of four causes), `OnlyExactFit` (without overlap only the exact fit), `LossExplained` (without a fault the program is lost on messages without bytes or too long for `p[]` alone) |
| `frame_queue_liveness` | `EventuallySent`, `ExitEnds`; `LossExplained` with a message too long for `p[]` |
| `frame_queue_overlap_abort` | **violation**: `entry()` sees part of a length, `length` stays 0, `assert(length > 0U)` (`TCPSocket.cpp:240`) fails |
| `frame_queue_exact_fit_abort` | **violation**: the same assertion without any overlap, after a frame that fits exactly |
| `writer_thread` | `SocketInUse`, `WaitIsTimed`, `NotTooSoon`, `BackoffGrows`; `NearlyInTime` (by real time a retry is at most two rounds of the main loop early); `RetryComes`, `StopReturns` |
| `writer_thread_too_soon` | **violation**: a retry before the minutes the log announces, by a lost update of `m_timer` |
| `gateway` | `Lifetimes` (the order of taking down on every way out), `FaultsExplained` (when a message can find no writer and `stop()` no thread), `PublishExplained` (when a log line can find no client); `SignalEndsRun`, `SignalsObeyed` |
| `gateway_writer_known` | **violation**: after SIGHUP the client of the earlier run reaches `assert(m_writer != nullptr)` (`APRSGateway.cpp:270`) |
| `tcp_socket` | `ServerReads` (what is sent is the login line, then whole frames, and nothing behind a piece), `LinesInOrder` (what `readLine()` returned or dropped is what came in without its NUL bytes, in order, and every line returned ends at its newline), `AtMostOnce` and `LossBounded` (over all connections no message is given to `send()` again or out of order, a connection skips at most one, its last, and few go out behind an end that has arrived); `EndIsNoticed` |
| `daemon` | `DaemonServes` (a daemon serves from `/` as its user and group, not as root; supplementary groups are not dropped by the code and not modelled), `DescriptorsExplained` (text reaches sockets only behind a daemon start, and its second close hits no connection in use), `LostThreadExplained` (when `LogFinalise()` joins a thread that is gone), `RestartReads` (when a restart no longer finds its file) |
| `conf` | `ValueKept` (quotes, comments and blanks for every value up to a length), `LastWins` (each member has the value of the last entry with its key in its own section), `AbortExplained` (which files end the program in an assertion, and which password makes the login line too long) |

The violations come with the properties that say how far the trouble goes:
`FaultsExplained`, `NotTooSoon` and the other `...Explained` hold of the code as
it is and name every cause.

### Bounds, and why they are enough

* `ring_buffer`: 4 cells, two element values, batches of up to 5: batches fit,
  fit exactly and do not fit, and the pointers go round.  The theorems remove
  the bound.
* `frame_queue_*`: a header of 2 bytes and messages of 0, 1 and 2 bytes (or 1,
  2 and 1) in 5 to 7 cells.  Two header bytes are the least that can be seen in
  part; 5 cells make the 2-byte message at times exact and the 1-byte message
  wrap; three messages let a frame overwrite, follow and precede another.  In
  the run without overlap, `Length = 6` lets bytes of a later frame complete a
  length that was left behind.  The liveness run has two messages, a frame and
  one to come behind it, and a `p[]` of 1 byte, so that one of them is too long.
* `writer_thread`: a minute, a round and the sleep are one tick, so that a round
  may take as long as a minute; `m_tries` goes up to its real clamp of 10.
  `Cap` stops the timer at a value beyond every timeout, where more counting
  changes no comparison.  `writer_thread_too_soon` has a minute of 2 ticks.
  Two rounds is what `NearlyInTime` needs: with one it is violated.  The
  theorems remove these bounds.
* `gateway_*`: 3 runs, 2 signals.  Every restart takes a signal of its own, so
  with fewer signals than runs the bound on runs never blocks (`RunsSuffice`).
  Two runs are needed for a client that is left behind, the third for a
  restart of a restart.  The theorems remove these bounds.
* `tcp_socket`: a login line and frames of 2 bytes, the least that can be cut
  short; 3 frames and 3 messages over 2 connections, so that one frame can
  go out before the end, one behind it and one to the next connection; 4 bytes,
  of three kinds, from the server, enough for the banner, the response and a
  line cut in two or with a NUL byte.
* `daemon`: 3 runs, so that a daemon can come behind a run in the foreground
  and before another; 7 descriptors, one for every socket there can be.
* `conf`: every value of up to 4 characters, which has room for a pair of
  quotes around a `#` and a blank, and for a blank before a comment behind
  quotes; 4 lines, so that a key can come before, in, behind and again in its
  section; whole files with every needed key missing, useless or good.  An int
  has 20 bits and a long 24, so that TLC's integers hold them: 65536 and 111111
  do not fit a port, 1048576 and 1048580 not an int, 9999999 not a long, and
  there are values below 0.  Callsigns are cut to 2 characters and the login
  line has room for 4, so that it fits exactly, overruns, and overruns only with
  a full callsign.  The theorems remove these bounds.

Deadlock is not checked in the runs that end: `frame_queue_*` (the thread
ends), `writer_thread_*`, `gateway_*` and `daemon` (the program ends),
`tcp_socket` (the bound on connections), `conf` (the file ends).

### Fairness

Fairness is assumed only of what the scheduler gives: time to each thread.
Nothing is assumed of the other end of a connection.  `readLine()` starts its
timeout again with every byte (`TCPSocket.cpp:226-232`), so a server that sends
on without a newline keeps it, and `send()` (247) has none, so a server that
does not read keeps that.  The calls of the socket are therefore under no
fairness condition; where a liveness property needs them to return, it says so
in a premise.

* `FrameQueue`: weak fairness of a call of `write()` once begun, and of
  `entry()` outside the calls of the socket (`~InCall`), as long as the program
  runs.  That a message comes is not assumed, nor that `stop()` is called.
  `EventuallySent` and `ExitEnds` hold if the calls keep returning
  (`[]<>~InCall`); `EventuallySent` besides if the connection lasts, and
  `ExitEnds` once no message is to come: while messages do come, `m_connected`
  can stay set behind the loop and the drain can go on for ever.
* `MainLoop`: weak fairness of time, of the rounds of the main loop, of `Join`
  and of the writer thread outside the calls of the socket and the drain
  (`~Held`).  That `clock()` gets ticks again and again is not assumed but
  follows from the sleep in rounds without any.  `stop()` itself is never
  assumed.  `RetryComes` needs no premise, since a thread that waits is in no
  call; `StopReturns` has `[]<>~Held`.
* `GatewayLog`: weak fairness of the second half of a handler and of the main
  thread, but for the join in `stop()`.  `SignalEndsRun` and `SignalsObeyed` have
  the premise that the join comes to an end (`StopsReturn`), which is what
  `StopReturns` is about.  Signals, messages, log lines and the broker are not
  assumed to do anything.
* `Delivery`: weak fairness of the writer thread outside `send()` (`~Sending`).
  Nothing is assumed to arrive or to fail.  `EndIsNoticed` has the premise
  `[]<>~Sending`; behind the end no more bytes come, so `readLine()` needs none.

## 4. The proofs

`RingBufferProofs`, from `LengthAssumption` (`m_length > 0`) and
`RingBufferAssumption`:

* `TypeCorrect`: `Spec => []TypeOK`, one lemma per call.
* `RingBufferImplementsFifo`: `Spec => ImplementsFifo`, for every length, every
  set of elements and every bound on batches.  The argument: `Contents` is the
  sequence of cells from the output pointer to the input pointer
  (`ContentsSeq`); moving a pointer changes its length by the batch
  (`MoveInput`, `MoveOutput`); a batch accepted by `nSamples >= freeSpace()`
  touches no unread cell (`UnreadOutOfReach`) and lands behind them
  (`BatchInReach`).  Each call then maps to the FIFO's action of the same name.

`FrameQueueProofs`, from `LengthAssumption`, `HeaderAssumption` and
`MessageAssumption`, for every length of the ring, of the length field and of
the messages:

* `TypeCorrect`: no access of either thread leaves the buffer.
* `NothingOverwritten` (`UnreadIntact`).  That a byte is safe while it is in the
  ring follows from what `write()` knew when it was let in: `RoomInv` says that
  what is still to be stored fits between the pointers, computed with the
  `m_oPtr` that was tested, however old.  The reader only makes room, which is
  why a stale `m_oPtr` does no harm.  `WriterInv` and `ReaderInv` say how far
  each thread is with its byte, `ByteInv` that the cell it works on is the one
  meant.  All of it holds until `m_oPtr` has passed `m_iPtr`.
* `EveryFaultExplained` (`FaultsExplained`), one inductive invariant `FInv` for
  the four faults.  *Overflow* comes only at an exact fit since `FitInv` keeps
  the rest of a frame within the free space.  *Phantom* comes only with an
  `m_iPtr` caught before its wrap, since `SeenInv` ties what the reader still
  has to take to what it has seen.  *Stale* needs `UnreadIntact`.  *Underflow*
  takes most: the ring holds a chain of frames (`ChainInv`, `LastInv`), the
  reader stands at the end of one or inside one (`FollowsInv`, `TakenInv`), and
  what it has seen of the ring ends with a frame if nobody was in the middle of
  one when it looked (`TornInv`).
* `ApartOnlyExactFit` (`OnlyExactFit`): without an overlap the last three causes
  cannot come about (`ApartInv`).

`FrameChannelProofs`, from the same assumptions and on top of `FInv`, which
speaks of bytes, with the invariant `ChannelInv`, which speaks of messages:

* `OnlyBadSizesLoseIt` (`LossExplained`).  The program can only be lost where
  it hands over a frame of a size `writeLine()` or `p[]` cannot take; `LossInv`
  names the message, the one behind those already handed over.
* `FrameQueueImplementsChannel` (`ImplementsChannel`).  The channel's `queue` is
  the tail of `committed` that has not been handed over, so it has to be known
  that the frame the reader has in hand is that of the first message in there.
  `OnceInv` says that no message is put in twice, so that a byte tells its
  message; `FramesInv` that where one frame in the ring ends the next one is
  that of the message put in next, from the one the reader is at to the one
  `write()` is at; `HandedInv` that what has been taken of a payload is its
  beginning, and what has been handed over were whole ones.  These hold while
  the channel is open; a fault, a lost program or the end of the loop closes
  it for good (`OpenStays`).  A step of `AddLength` then maps to `Accept`,
  `Send` to `Pass`, what ends the loop or the program to `End`, and every
  access to a byte to nothing.

`WriterThreadProofs`, from `TimeAssumption` (a minute has a tick, and time
passes):

* `TypeCorrect` splits `TypeOK` into `Modes` and `Counts`, which are inductive
  separately.
* `SocketSafe` needs `LinkInv`: `SocketInUse` alone does not say that
  `m_connected` is false while `connect()` runs, which is what makes the
  drain and the loop top close, or not close, the right socket.
* `WaitsAreTimed` and `OnlyRacesAreEarly` need `TimerInv`: from `Arm` to the
  retry the timer is positive and, unless a `clock()` raced, is one more than
  the ticks waited.
* `BackoffIsBounded` needs `BackoffInv`, which ties `m_tries` to the failures
  since the last connection at every position and not only while waiting.

For `MainLoop`, with `NapAssumption` as well, for every length of a minute, of a
round and of the sleep:

* `LoopKeepsThread`: the main loop takes only steps `WriterThread` has, so that
  the theorems above hold under it.
* `AtMostTwoRoundsEarly` (`NearlyInTime`): what has been counted since the timer
  was started, together with what the stop watch has read or will read, is
  ahead of real time by at most what it held when the timer was started, which
  is two rounds (`AheadInv`).

`GatewayProofs`, from `BoundsAssumption`, for any number of runs and signals:

* `TypeCorrect` says that the broker serves only clients whose thread runs.
  That is inductive only with `LifeInv`, which says where `run()` has its
  writer and gateway, that no client of a run to come exists, and that a
  running client is the one `m_mqtt` points to or an older one.
* `SafeTakedown` follows from the same `LifeInv`.
* `OnlyTakedownAndRestart` adds `CallInv`: the client of the current run exists
  only behind the writer, and a message on its way holds a writer no older
  than its client.  A client of the current run can then find the writer
  deleted but never missing, which leaves the clients of earlier runs.

For `GatewayLog`, from the same assumption:

* `LogKeepsLife`: every step of the composition is a step of `Gateway` or none,
  so that the theorems above hold of it.
* `OnlyOldClientsPublishLate` (`PublishExplained`) needs to know, for each
  thread, whose client it holds: the writer thread is joined before the client
  can be closed, the thread of a client is stopped in `close()` before its
  object is deleted, and both hold clients no younger than `m_mqtt`.  What is
  left is the thread of a client a restart has forgotten.

`DaemonProofs`, from `RunsAssumption`, for any number of runs: `TypeOK`, the
four invariants of the run and `RestartReads`, from one inductive invariant.
`ClientInv` orders the clients by their runs, `ForkInv` says what a fork leaves
of them, `UserInv` that root is given up group first and only in a daemon, and
`TextInv` that 0, 1 and 2 are what they were as long as no run was a daemon.
`OpeningIsSafe` and `ClosingIsSafe` are the facts about the table of
descriptors all of them use.

`DeliveryProofs`, from `SizesAssumption` and `MessagesAssumption`, for any number
of bytes, lines, frames, messages and connections and any size of the login line
and of a frame:

* `TypeCorrect`, in three parts (`LinkType`, `InType`, `OutType`) that are
  inductive one after the other.
* `NothingMisread` (`LinesInOrder`) needs `InInv`: the bytes received, without
  the NUL bytes among them (`WithoutNulAppend`), are the pieces returned or
  dropped so far and the line being read, which has no newline yet.
* `WholeFramesInOrder` (`ServerReads`) needs `OutInv`, which gives the bytes sent
  for each position of the thread: `Upto(frames)` between two frames, a part of
  the login line or of one frame within one.
* `DeliveryUsesSockets` and `DeliveryUsesChannel`: every step of the composition
  is one of `TCPSocket` or none, and one of `FrameChannel` or none, so that the
  theorems of both sides hold of it.
* `NothingTwice` (`AtMostOnce`) needs `OrderInv`: messages are numbered in the
  order of their calls, and what has been given to `send()` is older than all
  that is queued.
* `LossIsBounded` (`LossBounded`).  That a connection skips at most its last
  message is not inductive: `GapInv` says how many have left the queue since the
  last one that was taken whole, at most one for each connection begun or given
  up since (`Skipped`).  Nor is it that at most so many frames go out behind the
  end of a connection as the bound allows: it has to be said what may still
  follow.  `LossInv` adds `Pending`, one frame for every newline the thread has
  yet to read and one if it is between two rounds, since the thread only sends
  again when `readLine()` has returned a line.

The concatenation of the pieces is `FlattenSeq`, a recursive function of the
library.  The library's induction over naturals takes an operator and cannot be
used; the same argument goes with a *set* of naturals, of which a non-empty one
has a least element (`LeastNumber`, `AllNumbers`).  With it `FlattenSeq` is
shown to exist and to follow its equation, which is all the proofs use
(`FlattenAppend`).  The newlines are counted with a bijection (`NewlinesTail`).

`ConfProofs`, from `ConfAssumption` and `WidthAssumption`, for files and values of
any length and every width of int and long:

* `ConfTypes` and `LastEntryWins` (`LastWins`), proved together.  The last entry
  with a key is the largest of a set of line numbers; `SectionStep`,
  `SectionKept` and `GivenStep` say what one more line does to that set, and
  `NewLargest` what it does to its largest element.
* `ValuesAreKept` (`ValueKept`): `PlainKept` for values without quotes, cut at the
  least `#` and then behind the last character that is not blank, `QuotedKept`
  for those in quotes.
* `AbortsAreExplained` (`AbortExplained`): which members can have which values
  when the objects are made from them, by `LastWins`, and how long the username
  and the password can be then (`LoginLine`).  What `Atoi` makes of digits stays
  as it is defined: it is a fold, whose value only the run works out.

With these, every invariant, action property and refinement that a passing run
checks is stated by a theorem.  Only model-checked are the liveness properties,
`EventuallySent`, `ExitEnds`, `RetryComes`, `StopReturns`, `SignalEndsRun`,
`SignalsObeyed` and `EndIsNoticed`: they rest on fairness, hence on `ENABLED`,
which is beyond the prover.

## 5. Not modelled, and why

* The text of frames, log lines and JSON: formatting (`Utils.cpp` is nothing
  else, but for the dump of a frame in debug mode).
* Windows: the models follow the POSIX branches.
* `lookup()`: it fills in an address or makes `open()` fail.
* The matching of topics in `onMessage()`: there is one subscription.
  `onSubscribe()` only prints.
* The two log levels, which leave lines out, and the `exit(1)` of a fatal line:
  nothing logs one.
* The command line: it is read before anything else runs.
* The width of the timer's counter: it would take 49 days to wrap and is set
  back within eleven minutes.
* The network behind the kernel's buffers: a frame `send()` has taken may be
  lost with its connection, and nothing in the program could tell.
* The supplementary groups of the process, which the daemon start keeps.
* The descriptors libmosquitto opens beside its connection: which they are is
  its own affair; `DescriptorsExplained` is about sockets of this program.
* `m_connected` as seen by `write()` when the thread has ended: the frames stay
  in the ring and vanish with it, and no caller looks at the result.

## 6. Plan

1. Done: ring, frame queue and its channel, writer thread with the main loop,
   gateway with its log and the daemon start, TCP socket with the delivery of
   messages, configuration; the proofs of all their safety properties and
   refinements.
2. Prove the safety facts that the liveness properties rest on: that `stop()`
   and the rounds of `entry()` are never all waiting for one another, and that
   the measure by which each loop ends goes down.
3. Put `FrameQueue` itself, in place of its channel, under `Delivery`: until a
   fault both have the same messages, which `FrameQueueImplementsChannel`
   already says; a run could show it for the two together.
