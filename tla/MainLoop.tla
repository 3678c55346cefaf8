------------------------------ MODULE MainLoop ------------------------------
(***************************************************************************)
(* The loop of run() that drives the reconnect timer of WriterThread: each *)
(* round reads the stop watch, starts it again, hands the milliseconds to  *)
(* clock(), and sleeps if there were few of them.  Reading and starting    *)
(* are two looks at the clock, so the time between them is never counted,  *)
(* and what is counted in the first rounds of a wait is partly from before *)
(* the timer was started.                                                  *)
(***************************************************************************)
EXTENDS WriterThread

CONSTANT Nap   \* what the loop sleeps, in ticks (20 ms in the code)

ASSUME NapAssumption == Nap \in 1 .. MaxTicks

VARIABLES
  stage,     \* where the round is
  unread,    \* the time since stopWatch.start(); a round is MaxTicks at most
  ms,        \* what elapsed() has returned
  real       \* history: the time since the timer was started, up to Cap

watch == <<stage, unread, ms>>
loopVars == <<vars, watch, real>>

TimePasses ==
  /\ unread < MaxTicks
  /\ unread' = unread + 1
  /\ real' = IF Waiting THEN AtMost(real + 1, Cap) ELSE real
  /\ UNCHANGED <<vars, stage, ms>>

Elapsed ==
  /\ stage = "elapsed" /\ mpc = "loop"
  /\ ms' = unread
  /\ stage' = "start"
  /\ UNCHANGED <<vars, unread, real>>

\* Mutant: started again only when there was something to count.
MutRestart ==
  /\ stage = "start"
  /\ unread' = IF ms < Nap THEN 0 ELSE unread
  /\ stage' = "clock"
  /\ UNCHANGED <<vars, ms, real>>

Restart ==
  /\ stage = "start"
  /\ unread' = 0
  /\ stage' = "clock"
  /\ UNCHANGED <<vars, ms, real>>

\* m_writer->clock(ms), which does nothing while the timer is stopped.
Clock ==
  /\ stage = "clock"
  /\ \/ ClockLoad(ms) /\ stage' = "store"
     \/ ~(timer > 0 /\ timeout > 0) /\ stage' = "sleep" /\ UNCHANGED vars
  /\ UNCHANGED <<unread, ms, real>>

ClockEnds ==
  /\ stage = "store" /\ ClockStore
  /\ stage' = "sleep"
  /\ UNCHANGED <<unread, ms, real>>

\* Mutant: the loop never sleeps.
MutSleep ==
  /\ stage = "sleep"
  /\ stage' = "elapsed" /\ ms' = 0
  /\ UNCHANGED <<vars, unread, real>>

Sleep ==
  /\ stage = "sleep"
  /\ ms < Nap => unread >= Nap
  /\ stage' = "elapsed" /\ ms' = 0
  /\ UNCHANGED <<vars, unread, real>>

\* m_killed is set.
Leave ==
  /\ stage = "elapsed" /\ Stop
  /\ UNCHANGED <<watch, real>>

Round == Elapsed \/ Restart \/ Clock \/ ClockEnds \/ Sleep

Writer ==
  /\ Entry
  /\ real' = IF rpc \in {"arm", "retry"} THEN 0 ELSE real
  /\ UNCHANGED watch

LoopInit ==
  /\ Init
  /\ stage = "elapsed" /\ unread = 0 /\ ms = 0 /\ real = 0

LoopNext ==
  \/ TimePasses \/ Round \/ Leave \/ Writer
  \/ Join /\ UNCHANGED <<watch, real>>

LoopSpec == LoopInit /\ [][LoopNext]_loopVars

\* Time passes and both threads run.  Nothing says that a call of the socket
\* or the drain comes to an end.
LoopFairSpec ==
  /\ LoopSpec
  /\ WF_loopVars(TimePasses) /\ WF_loopVars(Round)
  /\ WF_loopVars(~Held /\ Writer)
  /\ WF_loopVars(Join /\ UNCHANGED <<watch, real>>)

-----------------------------------------------------------------------------

(* By the clock on the wall a retry comes at most two rounds of the main   *)
(* loop before the minutes announced, unless clock() has undone the start  *)
(* of the timer (APRSGateway.cpp:238-247, StopWatch.cpp:85-103,            *)
(* APRSWriterThread.cpp:248-259).                                          *)
NearlyInTime ==
  (rpc = "retry" /\ ~raced) => real + 2 * MaxTicks >= tries * Minute

=============================================================================
