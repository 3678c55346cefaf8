------------------------- MODULE WriterThreadProofs -------------------------
(***************************************************************************)
(* Proofs about the writer thread, for every length of a minute and every  *)
(* number of ticks that may pass in a round of the main loop.  TypeOK is   *)
(* split into its parts, which are inductive one after the other.  At the  *)
(* end the main loop is put above the thread: it drives the timer as       *)
(* WriterThread allows, so that the theorems hold under it, and by the     *)
(* clock on the wall a retry is at most two rounds early.                  *)
(***************************************************************************)
EXTENDS MainLoop, TLAPS

(* The timeouts m_tries can announce are all within the model's count.     *)
LEMMA TimeoutBound == \A n \in 0 .. MaxTries : TimeoutOf(n) \in 1 .. Cap
<1>1. SUFFICES ASSUME NEW n \in 0 .. 10
               PROVE  n * Minute + 1 \in 1 .. 10 * Minute + 1
  BY DEF TimeoutOf, Cap, MaxTries
<1>2. n \in {0, 1, 2, 3, 4, 5, 6, 7, 8, 9, 10}
  OBVIOUS
<1> QED
  BY <1>2, TimeAssumption

LEMMA CapPositive == Cap \in Nat /\ Cap >= 1 /\ MaxTries \in Nat
BY TimeAssumption DEF Cap, MaxTries

LEMMA AtMostRange ==
  ASSUME NEW n \in Nat, NEW bound \in Nat
  PROVE  AtMost(n, bound) \in 0 .. bound
BY DEF AtMost

-----------------------------------------------------------------------------

LEMMA TypeInit == Init => TypeOK
<1>1. Init => Modes
  BY DEF Init, Modes, Connecting
<1>2. Init => Counts
  BY CapPositive, TimeAssumption DEF Init, Counts, MaxTries
<1> QED
  BY <1>1, <1>2 DEF TypeOK

LEMMA ModesNext == Modes /\ [Next]_vars => Modes'
<1> SUFFICES ASSUME Modes, [Next]_vars
             PROVE  Modes'
  OBVIOUS
<1> USE DEF Modes, Connecting, Serving, link, backoff, clockIt, history
<1>1. CASE Open
  BY <1>1 DEF Open
<1>2. CASE GiveUp
  BY <1>2 DEF GiveUp
<1>3. CASE Progress
  BY <1>3 DEF Progress
<1>4. CASE Connected
  BY <1>4 DEF Connected
<1>5. CASE Reschedule
  BY <1>5 DEF Reschedule
<1>6. CASE Arm
  BY <1>6 DEF Arm
<1>7. CASE Top
  BY <1>7 DEF Top
<1>8. CASE Poll
  BY <1>8 DEF Poll
<1>9. CASE Retry
  BY <1>9 DEF Retry
<1>10. CASE Serve
  BY <1>10 DEF Serve
<1>11. CASE Read
  BY <1>11 DEF Read, Drop
<1>12. CASE End
  BY <1>12 DEF End
<1>13. CASE Send
  BY <1>13 DEF Send, Drop
<1>14. CASE Drain
  BY <1>14 DEF Drain
<1>15. ASSUME NEW n \in 0 .. MaxTicks, ClockLoad(n)
       PROVE  Modes'
  BY <1>15 DEF ClockLoad
<1>16. CASE ClockStore
  BY <1>16 DEF ClockStore
<1>17. CASE Stop
  BY <1>17 DEF Stop
<1>18. CASE Join
  BY <1>18 DEF Join
<1>19. CASE UNCHANGED vars
  BY <1>19 DEF vars
<1> QED
  BY <1>1, <1>2, <1>3, <1>4, <1>5, <1>6, <1>7, <1>8, <1>9, <1>10, <1>11,
     <1>12, <1>13, <1>14, <1>15, <1>16, <1>17, <1>18, <1>19
     DEF Next, Entry, Main

LEMMA CountsNext == Counts /\ [Next]_vars => Counts'
<1> SUFFICES ASSUME Counts, [Next]_vars
             PROVE  Counts'
  OBVIOUS
<1> USE DEF Counts, link, backoff, clockIt, history
<1>1. CASE Open
  BY <1>1 DEF Open
<1>2. CASE GiveUp
  BY <1>2 DEF GiveUp
<1>3. CASE Progress
  BY <1>3 DEF Progress
<1>4. CASE Connected
  BY <1>4, CapPositive DEF Connected
<1>5. CASE Reschedule
  <2>1. tries' \in 0 .. MaxTries /\ failures' \in 0 .. MaxTries
    BY <1>5, AtMostRange, CapPositive DEF Reschedule, NextTries
  <2>2. timeout' \in 0 .. Cap
    BY <1>5, <2>1, TimeoutBound, CapPositive DEF Reschedule
  <2> QED
    BY <1>5, <2>1, <2>2 DEF Reschedule
<1>6. CASE Arm
  BY <1>6, CapPositive DEF Arm
<1>7. CASE Top
  BY <1>7 DEF Top
<1>8. CASE Poll
  BY <1>8 DEF Poll
<1>9. CASE Retry
  BY <1>9, CapPositive DEF Retry
<1>10. CASE Serve
  BY <1>10, CapPositive DEF Serve
<1>11. CASE Read
  BY <1>11 DEF Read, Drop
<1>12. CASE End
  BY <1>12 DEF End
<1>13. CASE Send
  BY <1>13 DEF Send, Drop
<1>14. CASE Drain
  BY <1>14 DEF Drain
<1>15. ASSUME NEW n \in 0 .. MaxTicks, ClockLoad(n)
       PROVE  Counts'
  BY <1>15 DEF ClockLoad
<1>16. CASE ClockStore
  <2>1. timer' \in 0 .. Cap /\ waited' \in 0 .. Cap
    <3>1. seen + ticks \in Nat /\ waited + ticks \in Nat
      BY TimeAssumption, CapPositive
    <3>2. /\ timer' = AtMost(seen + ticks, Cap)
          /\ waited' = AtMost(waited + ticks, Cap)
      BY <1>16 DEF ClockStore
    <3> QED
      BY <3>1, <3>2, AtMostRange, CapPositive
  <2>2. seen' \in 0 .. Cap /\ ticks' \in 0 .. MaxTicks
    BY <1>16, CapPositive, TimeAssumption DEF ClockStore
  <2>3. UNCHANGED <<tries, timeout, failures>>
    BY <1>16 DEF ClockStore
  <2> QED
    BY <2>1, <2>2, <2>3
<1>17. CASE Stop
  BY <1>17 DEF Stop
<1>18. CASE Join
  BY <1>18 DEF Join
<1>19. CASE UNCHANGED vars
  BY <1>19 DEF vars
<1> QED
  BY <1>1, <1>2, <1>3, <1>4, <1>5, <1>6, <1>7, <1>8, <1>9, <1>10, <1>11,
     <1>12, <1>13, <1>14, <1>15, <1>16, <1>17, <1>18, <1>19
     DEF Next, Entry, Main

(* m_tries, the timer and every position in entry() and run() stay in      *)
(* their ranges.                                                           *)
THEOREM TypeCorrect == Spec => []TypeOK
BY TypeInit, ModesNext, CountsNext, PTL DEF Spec, TypeOK

-----------------------------------------------------------------------------
(* Where the socket is open.                                               *)

(* What is true of the connection at every position of entry().            *)
LinkInv ==
  /\ SocketInUse
  /\ rpc \in Connecting \cup {"lost", "arm", "wait", "retry"} => ~connected

LEMMA LinkInit == Init => LinkInv
BY DEF Init, LinkInv, SocketInUse, Connecting, Serving

LEMMA LinkNext == Modes /\ LinkInv /\ [Next]_vars => LinkInv'
<1> SUFFICES ASSUME Modes, LinkInv, [Next]_vars
             PROVE  LinkInv'
  OBVIOUS
<1> USE DEF Modes, LinkInv, SocketInUse, Connecting, Serving, link, backoff,
            clockIt, history
<1>1. CASE Open
  BY <1>1 DEF Open
<1>2. CASE GiveUp
  BY <1>2 DEF GiveUp
<1>3. CASE Progress
  BY <1>3 DEF Progress
<1>4. CASE Connected
  BY <1>4 DEF Connected
<1>5. CASE Reschedule
  BY <1>5 DEF Reschedule
<1>6. CASE Arm
  BY <1>6 DEF Arm
<1>7. CASE Top
  BY <1>7 DEF Top
<1>8. CASE Poll
  BY <1>8 DEF Poll
<1>9. CASE Retry
  BY <1>9 DEF Retry
<1>10. CASE Serve
  BY <1>10 DEF Serve
<1>11. CASE Read
  BY <1>11 DEF Read, Drop
<1>12. CASE End
  BY <1>12 DEF End
<1>13. CASE Send
  BY <1>13 DEF Send, Drop
<1>14. CASE Drain
  BY <1>14 DEF Drain
<1>15. ASSUME NEW n \in 0 .. MaxTicks, ClockLoad(n)
       PROVE  LinkInv'
  BY <1>15 DEF ClockLoad
<1>16. CASE ClockStore
  BY <1>16 DEF ClockStore
<1>17. CASE Stop
  BY <1>17 DEF Stop
<1>18. CASE Join
  BY <1>18 DEF Join
<1>19. CASE UNCHANGED vars
  BY <1>19 DEF vars
<1> QED
  BY <1>1, <1>2, <1>3, <1>4, <1>5, <1>6, <1>7, <1>8, <1>9, <1>10, <1>11,
     <1>12, <1>13, <1>14, <1>15, <1>16, <1>17, <1>18, <1>19
     DEF Next, Entry, Main

(* The socket is open exactly where entry() uses it, so that every open()  *)
(* makes a new connection and no descriptor is left behind                 *)
(* (APRSWriterThread.cpp:72-146, 197-246).                                 *)
THEOREM SocketSafe == Spec => []SocketInUse
<1>1. LinkInv => SocketInUse
  BY DEF LinkInv
<1> QED
  BY <1>1, LinkInit, LinkNext, TypeCorrect, PTL DEF Spec, TypeOK

-----------------------------------------------------------------------------
(* The reconnect timer.                                                    *)

(* The thread has started its timer and not stopped it since.              *)
Armed == rpc \in {"top", "wait", "retry"} /\ ~connected

TimerInv ==
  /\ rpc = "arm" => tries > 0 /\ timeout = TimeoutOf(tries)
  /\ Armed => timer > 0 /\ tries > 0 /\ timeout = TimeoutOf(tries)
  /\ mpc = "store" => seen > 0
  /\ (Armed /\ ~raced) => timer = AtMost(waited + 1, Cap)
  /\ (rpc = "retry" /\ ~raced) => timer >= timeout

LEMMA TimerInit == Init => TimerInv
BY DEF Init, TimerInv, Armed

LEMMA TimerNext == TypeOK /\ LinkInv /\ TimerInv /\ [Next]_vars => TimerInv'
<1> SUFFICES ASSUME TypeOK, LinkInv, TimerInv, [Next]_vars
             PROVE  TimerInv'
  OBVIOUS
<1> USE DEF TypeOK, Modes, Counts, LinkInv, TimerInv, Armed, SocketInUse,
            Connecting, Serving, link, backoff, clockIt, history
<1>1. CASE Open
  BY <1>1 DEF Open
<1>2. CASE GiveUp
  BY <1>2 DEF GiveUp
<1>3. CASE Progress
  BY <1>3 DEF Progress
<1>4. CASE Connected
  BY <1>4 DEF Connected
<1>5. CASE Reschedule
  <2>1. tries' > 0
    BY <1>5, CapPositive DEF Reschedule, NextTries, AtMost, MaxTries
  <2>2. rpc' = "arm" /\ timeout' = TimeoutOf(tries') /\ mpc' = mpc /\ seen' = seen
    BY <1>5 DEF Reschedule
  <2> QED
    BY <2>1, <2>2
<1>6. CASE Arm
  <2>1. timer' = 1 /\ waited' = 0 /\ rpc' = "top"
    BY <1>6 DEF Arm
  <2>2. timer' > 0 /\ timer' = AtMost(waited' + 1, Cap)
    BY <2>1, CapPositive DEF AtMost
  <2>3. tries' > 0 /\ timeout' = TimeoutOf(tries') /\ (mpc' = "store" => seen' > 0)
    BY <1>6 DEF Arm
  <2> QED
    BY <2>1, <2>2, <2>3
<1>7. CASE Top
  BY <1>7 DEF Top
<1>8. CASE Poll
  BY <1>8 DEF Poll
<1>9. CASE Retry
  BY <1>9 DEF Retry
<1>10. CASE Serve
  BY <1>10 DEF Serve
<1>11. CASE Read
  BY <1>11 DEF Read, Drop
<1>12. CASE End
  BY <1>12 DEF End
<1>13. CASE Send
  BY <1>13 DEF Send, Drop
<1>14. CASE Drain
  BY <1>14 DEF Drain
<1>15. ASSUME NEW n \in 0 .. MaxTicks, ClockLoad(n)
       PROVE  TimerInv'
  BY <1>15 DEF ClockLoad
<1>16. CASE ClockStore
  <2>1. /\ rpc' = rpc /\ mpc' = "loop" /\ tries' = tries /\ timeout' = timeout
        /\ connected' = connected
    BY <1>16 DEF ClockStore
  <2>2. /\ timer' = AtMost(seen + ticks, Cap)
        /\ waited' = AtMost(waited + ticks, Cap)
        /\ seen > 0
        /\ ~raced' => ~raced /\ timer = seen
    BY <1>16 DEF ClockStore
  <2>3. timer' > 0
    BY <2>2, CapPositive, TimeAssumption DEF AtMost
  <2>4. ASSUME Armed, ~raced'
        PROVE  timer' = AtMost(waited' + 1, Cap)
    <3>1. seen = AtMost(waited + 1, Cap)
      BY <2>2, <2>4
    <3> QED
      BY <2>2, <3>1, CapPositive, TimeAssumption DEF AtMost
  <2>5. ASSUME rpc = "retry", ~raced'
        PROVE  timer' >= timeout
    <3>1. seen >= timeout
      BY <2>2, <2>5
    <3> QED
      BY <2>2, <3>1, CapPositive, TimeAssumption DEF AtMost
  <2>6. (Armed /\ ~raced)' => timer' = AtMost(waited' + 1, Cap)
    BY <2>1, <2>4
  <2>7. (rpc = "retry" /\ ~raced)' => timer' >= timeout'
    BY <2>1, <2>5
  <2> QED
    BY <2>1, <2>3, <2>6, <2>7
<1>17. CASE Stop
  BY <1>17 DEF Stop
<1>18. CASE Join
  BY <1>18 DEF Join
<1>19. CASE UNCHANGED vars
  BY <1>19 DEF vars
<1> QED
  BY <1>1, <1>2, <1>3, <1>4, <1>5, <1>6, <1>7, <1>8, <1>9, <1>10, <1>11,
     <1>12, <1>13, <1>14, <1>15, <1>16, <1>17, <1>18, <1>19
     DEF Next, Entry, Main

(* A thread without a connection has its timer running, with the timeout   *)
(* that its number of tries asks for: it cannot wait for ever.             *)
THEOREM WaitsAreTimed == Spec => []WaitIsTimed
<1>1. TimerInv => WaitIsTimed
  BY DEF TimerInv, Armed, WaitIsTimed, Waiting
<1> QED
  BY <1>1, TypeInit, TypeCorrect, LinkInit, LinkNext, TimerInit, TimerNext, PTL
     DEF Spec, TypeOK

(* The lost update of clock() is the only way to a retry that comes before *)
(* the minutes announced have been counted.                                *)
THEOREM OnlyRacesAreEarly == Spec => []NotTooSoon
<1>1. TypeOK /\ LinkInv /\ TimerInv => NotTooSoon
  <2> SUFFICES ASSUME TypeOK, LinkInv, TimerInv, rpc = "retry", ~raced
               PROVE  waited >= tries * Minute
    BY DEF NotTooSoon
  <2>1. Armed
    BY DEF LinkInv, Armed
  <2>2. /\ timer = AtMost(waited + 1, Cap) /\ timer >= timeout
        /\ timeout = tries * Minute + 1
    BY <2>1 DEF TimerInv, TimeoutOf
  <2>3. tries * Minute \in Nat
    BY TimeAssumption, CapPositive DEF TypeOK, Counts
  <2> QED
    BY <2>2, <2>3, CapPositive DEF AtMost, TypeOK, Counts
<1> QED
  BY <1>1, TypeInit, TypeCorrect, LinkInit, LinkNext, TimerInit, TimerNext, PTL
     DEF Spec, TypeOK

-----------------------------------------------------------------------------
(* The growth of the waits.                                                *)

BackoffInv ==
  /\ ~connected => tries = AtMost(IF reached THEN failures ELSE failures + 1,
                                  MaxTries)
  /\ connected => reached /\ failures = 0
  /\ rpc \in {"send", "read"} => tries = 0

LEMMA BackoffInit == Init => BackoffInv
BY DEF Init, BackoffInv, AtMost, MaxTries

LEMMA BackoffNext ==
  TypeOK /\ LinkInv /\ BackoffInv /\ [Next]_vars => BackoffInv'
<1> SUFFICES ASSUME TypeOK, LinkInv, BackoffInv, [Next]_vars
             PROVE  BackoffInv'
  OBVIOUS
<1> USE DEF TypeOK, Modes, Counts, LinkInv, BackoffInv, SocketInUse,
            Connecting, Serving, link, backoff, clockIt, history
<1>1. CASE Open
  BY <1>1 DEF Open
<1>2. CASE GiveUp
  BY <1>2 DEF GiveUp
<1>3. CASE Progress
  BY <1>3 DEF Progress
<1>4. CASE Connected
  BY <1>4 DEF Connected
<1>5. CASE Reschedule
  <2>1. /\ tries' = AtMost(tries + 1, MaxTries)
        /\ failures' = AtMost(failures + 1, MaxTries)
        /\ connected' = connected /\ reached' = reached /\ rpc' = "arm"
    BY <1>5 DEF Reschedule, NextTries
  <2>2. ASSUME ~connected
        PROVE  tries' = AtMost(IF reached THEN failures' ELSE failures' + 1,
                               MaxTries)
    <3>1. tries = AtMost(IF reached THEN failures ELSE failures + 1, MaxTries)
      BY <2>2
    <3> QED
      BY <2>1, <3>1 DEF AtMost, MaxTries
  <2>3. ~connected
    BY <1>5 DEF Reschedule
  <2> QED
    BY <2>1, <2>2, <2>3
<1>6. CASE Arm
  BY <1>6 DEF Arm
<1>7. CASE Top
  BY <1>7 DEF Top
<1>8. CASE Poll
  BY <1>8 DEF Poll
<1>9. CASE Retry
  BY <1>9 DEF Retry
<1>10. CASE Serve
  <2>1. AtMost(0, MaxTries) = 0
    BY DEF AtMost, MaxTries
  <2> QED
    BY <1>10, <2>1 DEF Serve
<1>11. CASE Read
  <2>1. AtMost(0, MaxTries) = 0
    BY DEF AtMost, MaxTries
  <2> QED
    BY <1>11, <2>1 DEF Read, Drop
<1>12. CASE End
  BY <1>12 DEF End
<1>13. CASE Send
  <2>1. AtMost(0, MaxTries) = 0
    BY DEF AtMost, MaxTries
  <2> QED
    BY <1>13, <2>1 DEF Send, Drop
<1>14. CASE Drain
  BY <1>14 DEF Drain
<1>15. ASSUME NEW n \in 0 .. MaxTicks, ClockLoad(n)
       PROVE  BackoffInv'
  BY <1>15 DEF ClockLoad
<1>16. CASE ClockStore
  BY <1>16 DEF ClockStore
<1>17. CASE Stop
  BY <1>17 DEF Stop
<1>18. CASE Join
  BY <1>18 DEF Join
<1>19. CASE UNCHANGED vars
  BY <1>19 DEF vars
<1> QED
  BY <1>1, <1>2, <1>3, <1>4, <1>5, <1>6, <1>7, <1>8, <1>9, <1>10, <1>11,
     <1>12, <1>13, <1>14, <1>15, <1>16, <1>17, <1>18, <1>19
     DEF Next, Entry, Main

(* The waits grow by a minute with every failure in a row, up to ten.      *)
THEOREM BackoffIsBounded == Spec => []BackoffGrows
<1>1. BackoffInv => BackoffGrows
  BY DEF BackoffInv, BackoffGrows, Waiting
<1> QED
  BY <1>1, TypeInit, TypeCorrect, LinkInit, LinkNext, BackoffInit, BackoffNext,
     PTL DEF Spec, TypeOK

-----------------------------------------------------------------------------
(* The main loop above the thread.                                         *)

(* What the stop watch and the history of real time hold.                  *)
LoopType ==
  /\ stage \in {"elapsed", "start", "clock", "store", "sleep"}
  /\ unread \in 0 .. MaxTicks /\ ms \in 0 .. MaxTicks
  /\ real \in 0 .. Cap

LEMMA LoopStep == LoopType /\ [LoopNext]_loopVars => [Next]_vars
<1> SUFFICES ASSUME LoopType, [LoopNext]_loopVars
             PROVE  [Next]_vars
  OBVIOUS
<1>1. CASE Clock
  <2>1. ms \in 0 .. MaxTicks
    BY DEF LoopType
  <2> QED
    BY <1>1, <2>1 DEF Clock, Next, Main
<1>2. CASE ClockEnds
  BY <1>2 DEF ClockEnds, Next, Main
<1>3. CASE Leave
  BY <1>3 DEF Leave, Next, Main
<1>4. CASE Writer
  BY <1>4 DEF Writer, Next
<1>5. CASE Join
  BY <1>5 DEF Next, Main
<1>6. CASE UNCHANGED vars
  BY <1>6
<1> QED
  BY <1>1, <1>2, <1>3, <1>4, <1>5, <1>6
     DEF LoopNext, Round, TimePasses, Elapsed, Restart, Sleep, loopVars

LEMMA LoopTypeInit == LoopInit => LoopType
BY CapPositive, TimeAssumption DEF LoopInit, LoopType

LEMMA LoopTypeNext == LoopType /\ [LoopNext]_loopVars => LoopType'
<1> SUFFICES ASSUME LoopType, [LoopNext]_loopVars
             PROVE  LoopType'
  OBVIOUS
<1> USE TimeAssumption, CapPositive DEF LoopType
<1>1. CASE TimePasses
  <2>1. unread' \in 0 .. MaxTicks /\ UNCHANGED <<stage, ms>>
    BY <1>1 DEF TimePasses
  <2>2. real' \in 0 .. Cap
    <3>1. AtMost(real + 1, Cap) \in 0 .. Cap
      BY AtMostRange
    <3> QED
      BY <1>1, <3>1 DEF TimePasses
  <2> QED
    BY <2>1, <2>2
<1>2. CASE Elapsed
  BY <1>2 DEF Elapsed
<1>3. CASE Restart
  BY <1>3 DEF Restart
<1>4. CASE Clock
  BY <1>4 DEF Clock
<1>5. CASE ClockEnds
  BY <1>5 DEF ClockEnds
<1>6. CASE Sleep
  BY <1>6 DEF Sleep
<1>7. CASE UNCHANGED watch /\ real' \in {real, 0}
  BY <1>7 DEF watch
<1> QED
  BY <1>1, <1>2, <1>3, <1>4, <1>5, <1>6, <1>7
     DEF LoopNext, Round, Leave, Writer, loopVars

-----------------------------------------------------------------------------
(* What has been counted since the timer was started, and what is read and *)
(* not yet counted, cannot be ahead of real time by more than what the     *)
(* stop watch held in two rounds when the timer was started.               *)
Pending ==
  (IF stage \in {"start", "clock", "store"} THEN ms ELSE 0)
    + (IF stage = "start" THEN 0 ELSE unread)

AheadInv ==
  /\ stage = "store" => ticks = ms
  /\ Waiting => real = Cap \/ waited + Pending <= real + 2 * MaxTicks
  /\ NearlyInTime

LEMMA PendingBound == LoopType => Pending \in 0 .. 2 * MaxTicks
BY TimeAssumption DEF LoopType, Pending

LEMMA AheadInit == LoopInit => AheadInv
BY DEF LoopInit, Init, AheadInv, Waiting, NearlyInTime

(* The steps of the main loop and of time leave the writer thread where it *)
(* is.                                                                     *)
LEMMA AheadRound ==
  ASSUME TypeOK, LoopType, AheadInv, TimePasses \/ Round
  PROVE  AheadInv'
<1> USE TimeAssumption, CapPositive DEF LoopType
<1>1. waited \in Nat /\ ticks \in Nat /\ tries \in Nat
  BY DEF TypeOK, Counts
<1>2. /\ UNCHANGED <<rpc, tries, connected>>
      /\ raced => raced'
  <2>1. CASE ClockEnds
    BY <2>1 DEF ClockEnds, ClockStore, link, backoff
  <2>2. CASE UNCHANGED vars
    BY <2>2 DEF vars, history, link, backoff
  <2>3. CASE ClockLoad(ms)
    BY <2>3 DEF ClockLoad, vars, history, link, backoff
  <2> QED
    BY <2>1, <2>2, <2>3 DEF TimePasses, Round, Elapsed, Restart, Clock, Sleep
<1>3. rpc = "retry" => real' = real
  BY DEF TimePasses, Round, Elapsed, Restart, Clock, ClockEnds, Sleep, Waiting
<1>4. NearlyInTime'
  BY <1>2, <1>3 DEF AheadInv, NearlyInTime
<1>5. stage' = "store" => ticks' = ms'
  BY DEF AheadInv, TimePasses, Round, Elapsed, Restart, Clock, ClockEnds, Sleep,
         ClockLoad, vars, clockIt
<1>6. ASSUME Waiting
      PROVE  real' = Cap \/ waited' + Pending' <= real' + 2 * MaxTicks
  <2>1. real = Cap \/ waited + Pending <= real + 2 * MaxTicks
    BY <1>6 DEF AheadInv
  <2>2. CASE TimePasses
    <3>1. waited' = waited /\ Pending' <= Pending + 1
      BY <2>2 DEF TimePasses, Pending, vars, history
    <3>2. real' = AtMost(real + 1, Cap)
      BY <1>6, <2>2 DEF TimePasses
    <3>3. real' = Cap \/ real' = real + 1
      BY <3>2 DEF AtMost
    <3>4. real = Cap => real' = Cap
      BY <3>2 DEF AtMost
    <3>5. Pending \in Nat /\ Pending' \in Int
      <4>1. unread' = unread + 1 /\ ms' = ms /\ stage' = stage
        BY <2>2 DEF TimePasses
      <4> QED
        BY <4>1 DEF Pending
    <3> QED
      BY <1>1, <2>1, <3>1, <3>3, <3>4, <3>5
  <2>3. CASE Elapsed \/ Restart
    BY <1>1, <2>1, <2>3 DEF Elapsed, Restart, Pending, vars, history
  <2>4. CASE Clock
    <3>1. /\ waited' = waited /\ real' = real /\ ms' = ms /\ unread' = unread
          /\ stage = "clock" /\ stage' \in {"store", "sleep"}
      BY <2>4 DEF Clock, ClockLoad, vars, history
    <3> QED
      BY <1>1, <2>1, <3>1 DEF Pending
  <2>5. CASE ClockEnds
    <3>1. /\ waited' = AtMost(waited + ticks, Cap) /\ real' = real
          /\ ms' = ms /\ unread' = unread
          /\ stage = "store" /\ stage' = "sleep" /\ ticks = ms
      BY <2>5 DEF ClockEnds, ClockStore, AheadInv
    <3>2. waited' <= waited + ms /\ waited' \in Int
      BY <1>1, <3>1 DEF AtMost
    <3> QED
      BY <1>1, <2>1, <3>1, <3>2 DEF Pending
  <2>6. CASE Sleep
    BY <1>1, <2>1, <2>6 DEF Sleep, Pending, vars, history
  <2> QED
    BY <2>2, <2>3, <2>4, <2>5, <2>6 DEF Round
<1>7. Waiting' => Waiting
  BY <1>2 DEF Waiting
<1> QED
  BY <1>4, <1>5, <1>6, <1>7 DEF AheadInv

LEMMA AheadWriter ==
  ASSUME TypeOK, LoopType, LinkInv, NotTooSoon', AheadInv, Writer
  PROVE  AheadInv'
<1> USE TimeAssumption, CapPositive DEF LoopType
<1>1. waited \in Nat /\ tries \in 0 .. MaxTries /\ Pending \in 0 .. 2 * MaxTicks
  BY PendingBound DEF TypeOK, Counts
<1>2. Entry /\ UNCHANGED <<stage, unread, ms>> /\ Pending' = Pending
  BY DEF Writer, watch, Pending
<1>3. /\ real' = IF rpc \in {"arm", "retry"} THEN 0 ELSE real
      /\ ticks' = ticks
  BY DEF Writer, Entry, Open, GiveUp, Progress, Connected, Reschedule, Arm, Top,
         Poll, Retry, Serve, Send, Read, End, Drain, Drop, clockIt
<1>4. CASE Arm
  <2>1. waited' = 0 /\ real' = 0 /\ rpc' = "top"
    BY <1>3, <1>4 DEF Arm
  <2> QED
    BY <1>1, <1>2, <1>3, <2>1 DEF AheadInv, NearlyInTime
<1>5. CASE Poll
  <2>1. /\ UNCHANGED <<waited, tries, raced, connected>> /\ real' = real
        /\ rpc' \in {"retry", "top"} /\ Waiting
    BY <1>3, <1>5 DEF Poll, LinkInv, Waiting, history, link, backoff
  <2>2. real = Cap \/ waited + Pending <= real + 2 * MaxTicks
    BY <2>1 DEF AheadInv
  <2>3. tries * Minute \in Nat /\ tries * Minute <= Cap
    <3>1. tries \in {0, 1, 2, 3, 4, 5, 6, 7, 8, 9, 10}
      BY <1>1 DEF MaxTries
    <3> QED
      BY <3>1 DEF Cap, MaxTries
  <2>4. NearlyInTime'
    <3>1. rpc' = "retry" /\ ~raced' => waited >= tries * Minute
      BY <2>1 DEF NotTooSoon
    <3> QED
      BY <1>1, <2>1, <2>2, <2>3, <3>1 DEF NearlyInTime
  <2> QED
    BY <1>2, <1>3, <2>1, <2>2, <2>4 DEF AheadInv
<1>6. CASE Top
  <2>1. /\ UNCHANGED <<waited, connected>> /\ real' = real
        /\ rpc = "top" /\ rpc' # "retry"
    BY <1>3, <1>6 DEF Top, history, link
  <2> QED
    BY <1>2, <1>3, <2>1 DEF AheadInv, NearlyInTime, Waiting
<1>7. CASE Open \/ GiveUp \/ Progress \/ Connected \/ Reschedule \/ Retry \/ Serve
           \/ Send \/ Read \/ End \/ Drain
  <2>1. rpc' # "retry" /\ ~Waiting'
    BY <1>7 DEF Open, GiveUp, Progress, Connected, Reschedule, Retry, Serve, Send,
                Read, End, Drain, Drop, Waiting, LinkInv, SocketInUse, Serving, link, TypeOK, Modes
  <2> QED
    BY <1>2, <1>3, <2>1 DEF AheadInv, NearlyInTime
<1> QED
  BY <1>2, <1>4, <1>5, <1>6, <1>7 DEF Entry

LEMMA AheadNext ==
  TypeOK /\ LoopType /\ LinkInv /\ NotTooSoon' /\ AheadInv /\ [LoopNext]_loopVars
    => AheadInv'
<1> SUFFICES ASSUME TypeOK, LoopType, LinkInv, NotTooSoon', AheadInv,
                    [LoopNext]_loopVars
             PROVE  AheadInv'
  OBVIOUS
<1>1. CASE TimePasses \/ Round
  BY <1>1, AheadRound
<1>2. CASE Writer
  BY <1>2, AheadWriter
<1>3. CASE Leave \/ (Join /\ UNCHANGED <<watch, real>>) \/ UNCHANGED loopVars
  <2>1. UNCHANGED <<stage, unread, ms, real, ticks, rpc, tries, connected, waited,
                    raced>>
    BY <1>3 DEF Leave, Stop, Join, loopVars, vars, watch, history, link, backoff,
                clockIt
  <2> QED
    BY <2>1 DEF AheadInv, Pending, Waiting, NearlyInTime
<1> QED
  BY <1>1, <1>2, <1>3 DEF LoopNext

-----------------------------------------------------------------------------

(* The main loop calls clock() and stop() as WriterThread lets the main    *)
(* thread call them (APRSGateway.cpp:239-252).                             *)
THEOREM LoopKeepsThread == LoopSpec => Spec
<1>1. LoopInit => Init
  BY DEF LoopInit
<1> QED
  BY <1>1, LoopStep, LoopTypeInit, LoopTypeNext, PTL DEF LoopSpec, Spec

(* By the clock on the wall a retry comes at most two rounds early, but    *)
(* for a lost update of the timer (APRSGateway.cpp:239-247,                *)
(* APRSWriterThread.cpp:248-259).                                          *)
THEOREM AtMostTwoRoundsEarly == LoopSpec => []NearlyInTime
<1>1. AheadInv => NearlyInTime
  BY DEF AheadInv
<1>2. Spec => []TypeOK
  BY TypeCorrect
<1>3. Spec => []LinkInv
  BY LinkInit, LinkNext, TypeCorrect, PTL DEF Spec, TypeOK
<1> QED
  BY <1>1, <1>2, <1>3, OnlyRacesAreEarly, LoopKeepsThread, LoopTypeInit,
     LoopTypeNext, AheadInit, AheadNext, PTL DEF LoopSpec

=============================================================================
