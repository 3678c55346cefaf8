---------------------------- MODULE WriterThread ----------------------------
(***************************************************************************)
(* The connection side of CAPRSWriterThread: entry(), on the writer's own  *)
(* thread, connects to the APRS-IS server, notices when the connection is  *)
(* lost and waits for m_reconnectTimer before it tries again; the main     *)
(* thread drives that timer through clock() and ends the thread through    *)
(* stop().  The frame queue, which the same loop empties, is module        *)
(* FrameQueue; here a frame may be there to be sent in any round.          *)
(*                                                                         *)
(* The two threads share m_timer without a lock.  clock() is a load, a     *)
(* test, an addition and a store, and the writer thread's stop() and       *)
(* start() can fall between the load and the store.                        *)
(***************************************************************************)
EXTENDS Integers

CONSTANTS
  Minute,      \* ticks in a minute (60000 of m_ticksPerSec in the code)
  MaxTicks     \* bound: the most ticks that pass between two clock() calls

ASSUME TimeAssumption == Minute \in Nat \ {0} /\ MaxTicks \in Nat \ {0}

VARIABLES
  connected,   \* m_connected
  exit,        \* m_exit
  tries,       \* m_tries
  timeout,     \* m_reconnectTimer.m_timeout
  timer,       \* m_reconnectTimer.m_timer, never counted beyond Cap
  socket,      \* m_socket.m_fd # -1
  \* the writer thread
  rpc,         \* where entry() is
  first,       \* entry() is in the connect() before its loop
  \* the main thread
  mpc,         \* where run() is
  seen,        \* the value of m_timer that clock() has loaded
  ticks,       \* the ticks it is going to add
  \* history
  waited,      \* ticks counted since the timer was last started, up to Cap
  raced,       \* a store of clock() undid the last start of the timer
  reached,     \* the server has been connected to before
  failures     \* failures since then, up to MaxTries

link    == <<connected, socket>>
clockIt == <<mpc, seen, ticks>>
backoff == <<tries, timeout>>
history == <<waited, raced, reached, failures>>
vars == <<connected, exit, tries, timeout, timer, socket, rpc, first, clockIt,
          history>>

MaxTries == 10

\* The largest timeout; counting further than this changes no comparison.
Cap == MaxTries * Minute + 1

AtMost(n, bound) == IF n <= bound THEN n ELSE bound

\* m_reconnectTimer.setTimeout(60 * n)
\* Mutant: without the added tick.
MutTimeoutOf(n) == n * Minute
TimeoutOf(n) == n * Minute + 1

-----------------------------------------------------------------------------
(* connect(): open the socket, read the banner, log in, read the response. *)

\* m_socket.open(), which has closed the socket again when it fails.
Open ==
  /\ rpc = "open"
  /\ \/ socket' = TRUE /\ rpc' = "banner"
     \/ ~socket /\ UNCHANGED socket /\ rpc' = "lost"
  /\ UNCHANGED <<connected, exit, backoff, timer, first, clockIt, history>>

\* Mutant: the socket is left open.
MutGiveUp ==
  /\ rpc \in {"banner", "login", "response"}
  /\ rpc' = "lost"
  /\ UNCHANGED <<link, exit, backoff, timer, first, clockIt, history>>

\* connect() closes the socket and returns false: the banner or the response
\* is not received in time, or a socket call fails.
GiveUp ==
  /\ rpc \in {"banner", "login", "response"}
  /\ socket' = FALSE
  /\ rpc' = "lost"
  /\ UNCHANGED <<connected, exit, backoff, timer, first, clockIt, history>>

\* The banner is read, the login line sent.
Progress ==
  /\ \/ rpc = "banner" /\ rpc' = "login"
     \/ rpc = "login"  /\ rpc' = "response"
  /\ UNCHANGED <<connected, exit, backoff, timer, socket, first, clockIt,
                 history>>

\* The response is read: connect() returns true, and entry() goes on behind
\* the call, to the loop or to the rest of the round.
Connected ==
  /\ rpc = "response"
  /\ connected' = TRUE
  /\ rpc' = IF first THEN "top" ELSE "serve"
  /\ first' = FALSE
  /\ reached' = TRUE /\ failures' = 0
  /\ UNCHANGED <<exit, backoff, timer, socket, clockIt, waited, raced>>

\* Mutant: the clamp is missing.
MutNextTries == tries + 1
NextTries == AtMost(tries + 1, MaxTries)

\* startReconnectionTimer(): the next timeout, then the start of the timer.
Reschedule ==
  /\ rpc = "lost"
  /\ tries' = NextTries
  /\ timeout' = TimeoutOf(tries')
  /\ failures' = AtMost(failures + 1, MaxTries)
  /\ rpc' = "arm"
  /\ UNCHANGED <<link, exit, timer, first, clockIt, waited, raced, reached>>

Arm ==
  /\ rpc = "arm"
  /\ timer' = 1
  /\ waited' = 0
  /\ raced' = FALSE
  /\ first' = FALSE
  /\ rpc' = "top"
  /\ UNCHANGED <<link, exit, backoff, clockIt, reached, failures>>

-----------------------------------------------------------------------------
(* entry()'s loop.                                                         *)

\* Mutant: a thread that waits does not look at m_exit.
MutTop ==
  /\ rpc = "top"
  /\ rpc' = IF connected THEN IF exit THEN "end" ELSE "serve" ELSE "wait"
  /\ UNCHANGED <<link, exit, backoff, timer, first, clockIt, history>>

\* while (!m_exit)
Top ==
  /\ rpc = "top"
  /\ rpc' = IF exit THEN "end" ELSE IF connected THEN "serve" ELSE "wait"
  /\ UNCHANGED <<link, exit, backoff, timer, first, clockIt, history>>

\* sleep(), then isRunning() and hasExpired().
Poll ==
  /\ rpc = "wait"
  /\ rpc' = IF timer > 0 /\ timeout > 0 /\ timer >= timeout
              THEN "retry" ELSE "top"
  /\ UNCHANGED <<link, exit, backoff, timer, first, clockIt, history>>

\* m_reconnectTimer.stop(), before the call of connect().
Retry ==
  /\ rpc = "retry"
  /\ timer' = 0
  /\ rpc' = "open"
  /\ UNCHANGED <<link, exit, backoff, first, clockIt, history>>

\* Mutant: without startReconnectionTimer().
MutDrop ==
  /\ connected' = FALSE
  /\ socket' = FALSE
  /\ rpc' = "top"

\* m_connected = false, m_socket.close()
Drop ==
  /\ connected' = FALSE
  /\ socket' = FALSE
  /\ rpc' = "lost"

\* Mutant: m_tries keeps counting.
MutServe ==
  /\ rpc = "serve"
  /\ rpc' \in {"send", "read"}
  /\ UNCHANGED <<link, exit, backoff, timer, first, clockIt, history>>

\* m_tries = 0; a frame may be waiting.
Serve ==
  /\ rpc = "serve"
  /\ tries' = 0
  /\ rpc' \in {"send", "read"}
  /\ UNCHANGED <<link, exit, timeout, timer, first, clockIt, history>>

\* m_socket.write()
Send ==
  /\ rpc = "send"
  /\ \/ rpc' = "read" /\ UNCHANGED link
     \/ Drop
  /\ UNCHANGED <<exit, backoff, timer, first, clockIt, history>>

\* m_socket.readLine()
Read ==
  /\ rpc = "read"
  /\ \/ rpc' = "top" /\ UNCHANGED link
     \/ Drop
  /\ UNCHANGED <<exit, backoff, timer, first, clockIt, history>>

\* Behind the loop: the socket is closed ...
End ==
  /\ rpc = "end"
  /\ socket' = (socket /\ ~connected)
  /\ rpc' = "drain"
  /\ UNCHANGED <<connected, exit, backoff, timer, first, clockIt, history>>

\* ... and the queue discarded, until it is found empty.
Drain ==
  /\ rpc = "drain"
  /\ rpc' = "done"
  /\ UNCHANGED <<link, exit, backoff, timer, first, clockIt, history>>

\* Where others can hold the thread for any time: in the calls of the socket,
\* because readLine() starts its timeout again with every byte and send() has
\* none, and in the drain, because m_connected can stay set behind the loop
\* and write() go on adding.
Held ==
  rpc \in {"open", "banner", "login", "response", "send", "read", "drain"}

Entry ==
  \/ Open \/ GiveUp \/ Progress \/ Connected \/ Reschedule \/ Arm
  \/ Top \/ Poll \/ Retry \/ Serve \/ Send \/ Read \/ End \/ Drain

-----------------------------------------------------------------------------
(* The main thread: clock() in every round of its loop, then stop().       *)

\* clock(n): the load and the tests.
ClockLoad(n) ==
  /\ mpc = "loop"
  /\ timer > 0 /\ timeout > 0
  /\ mpc' = "store"
  /\ seen' = timer
  /\ ticks' = n
  /\ UNCHANGED <<link, exit, backoff, timer, rpc, first, history>>

\* m_timer += ticks: the store.
ClockStore ==
  /\ mpc = "store"
  /\ timer' = AtMost(seen + ticks, Cap)
  /\ waited' = AtMost(waited + ticks, Cap)
  /\ raced' = (raced \/ timer # seen)
  /\ mpc' = "loop" /\ seen' = 0 /\ ticks' = 0
  /\ UNCHANGED <<link, exit, backoff, rpc, first, reached, failures>>

\* stop(): m_exit = true ...
Stop ==
  /\ mpc = "loop"
  /\ exit' = TRUE
  /\ mpc' = "join"
  /\ UNCHANGED <<link, backoff, timer, rpc, first, seen, ticks, history>>

\* ... and wait().
Join ==
  /\ mpc = "join"
  /\ rpc = "done"
  /\ mpc' = "gone"
  /\ UNCHANGED <<link, exit, backoff, timer, rpc, first, seen, ticks, history>>

Main ==
  \/ \E n \in 0 .. MaxTicks : ClockLoad(n)
  \/ ClockStore \/ Stop \/ Join

Init ==
  /\ connected = FALSE /\ exit = FALSE
  /\ tries = 1 /\ timeout = 0 /\ timer = 0
  /\ socket = FALSE
  /\ rpc = "open" /\ first = TRUE
  /\ mpc = "loop" /\ seen = 0 /\ ticks = 0
  /\ waited = 0 /\ raced = FALSE /\ reached = FALSE /\ failures = 0

Next == Entry \/ Main

Spec == Init /\ [][Next]_vars

-----------------------------------------------------------------------------

Connecting == {"open", "banner", "login", "response"}
Serving    == {"serve", "send", "read"}
Waiting    == rpc \in {"wait", "top"} /\ ~connected

(* Type invariant: m_tries stays within its clamp and m_timer within what  *)
(* the model counts (APRSWriterThread.cpp:248-259).                        *)
Modes ==
  /\ connected \in BOOLEAN /\ exit \in BOOLEAN /\ socket \in BOOLEAN
  /\ first \in BOOLEAN /\ raced \in BOOLEAN /\ reached \in BOOLEAN
  /\ rpc \in Connecting \cup Serving \cup
            {"lost", "arm", "top", "wait", "retry", "end", "drain",
             "done"}
  /\ mpc \in {"loop", "store", "join", "gone"}

Counts ==
  /\ tries \in 0 .. MaxTries /\ failures \in 0 .. MaxTries
  /\ timeout \in 0 .. Cap /\ timer \in 0 .. Cap
  /\ seen \in 0 .. Cap /\ waited \in 0 .. Cap
  /\ ticks \in 0 .. MaxTicks

TypeOK == Modes /\ Counts

(* The socket is open exactly while it is used.  Every way out of          *)
(* connect() and out of a round closes it, so that the next open() makes a *)
(* new connection and does not return at "if (m_fd != -1)", no descriptor  *)
(* is left behind when the thread ends, and read() and write() never meet  *)
(* their assert(m_fd != -1) (TCPSocket.cpp:99, 164, 244).                  *)
SocketInUse ==
  /\ rpc \in {"open", "lost", "arm", "wait", "retry", "drain", "done"} =>
       ~socket
  /\ rpc \in {"banner", "login", "response"} \cup Serving => socket
  /\ rpc \in {"top", "end"} => socket = connected
  /\ rpc \in Serving => connected

(* A thread without a connection always has its timer running, with a      *)
(* timeout that fits m_tries: whatever clock() does to the timer meanwhile *)
(* it cannot stop it, and the next attempt is never forgotten              *)
(* (APRSWriterThread.cpp:84-95).                                           *)
WaitIsTimed ==
  Waiting => timer > 0 /\ tries > 0 /\ timeout = TimeoutOf(tries)

(* A retry comes no earlier than the minutes announced, unless a clock()   *)
(* that had loaded the timer before it was started stored it afterwards.   *)
NotTooSoon ==
  (rpc = "retry" /\ ~raced) => waited >= tries * Minute

(* Without the exception: "Will attempt to reconnect in %u minutes"        *)
(* (APRSWriterThread.cpp:255).                                             *)
AsAnnounced == rpc = "retry" => waited >= tries * Minute

(* The waits grow by a minute with every failure in a row and stop growing *)
(* at ten; a connection starts them again at one minute, a server that was *)
(* never reached at two (APRSWriterThread.cpp:46, 98, 250-253).            *)
BackoffGrows ==
  Waiting => tries = AtMost(IF reached THEN failures ELSE failures + 1,
                            MaxTries)

(* A thread that waits tries again, or is told to end.                     *)
RetryComes == Waiting ~> (rpc = "open" \/ exit)

(* stop() returns wherever it finds the thread, unless a call of the       *)
(* socket never returns or write() never lets the drain find the queue     *)
(* empty: those are all that m_exit has to wait for                        *)
(* (APRSWriterThread.cpp:83-90, 139-145, 185-190).                         *)
StopReturns == []<>~Held => ((mpc = "join") ~> (mpc = "gone"))

=============================================================================
