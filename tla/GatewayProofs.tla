--------------------------- MODULE GatewayProofs ---------------------------
(***************************************************************************)
(* Proofs about the life of the program, for every number of runs and of   *)
(* signals.  TypeOK is inductive together with LifeInv only: that the      *)
(* broker serves no client yet to be made needs to know which clients      *)
(* there are.  The second part is about the composition with the log: it   *)
(* is still that life, so that the theorems of the first part hold of it,  *)
(* and publish() meets a deleted client only through one an earlier run    *)
(* left.                                                                   *)
(***************************************************************************)
EXTENDS GatewayLog, TLAPS

(* Where the writer and the gateway are alive, and which clients exist:    *)
(* a client that runs is the one of m_mqtt, or a later one was made.       *)
Serving == {"newMqtt", "open", "loop", "stopWriter", "deleteWriter"}
LifeInv ==
  /\ writer = "live" <=> pc \in Serving
  /\ pc \in Serving \cup {"conf", "newWriter"} => gateway = "live"
  /\ pc = "deleteWriter" => thread = "ended"
  /\ writer = "freed" => thread = "ended"
  /\ \A r \in Runs : r > run => client[r] = "none"
  /\ pc \in {"conf", "newWriter", "newMqtt"} =>
       mqtt < run /\ run > 0 /\ client[run] = "none"
  /\ pc = "open" => mqtt = run /\ run > 0
  /\ mqtt # 0 => client[mqtt] # "none"
  /\ \A r \in Runs : client[r] = "running" =>
       r = mqtt \/ \E s \in r + 1 .. run : client[s] # "none"
  /\ pc = "exited" => mqtt = 0

LEMMA TypeInit == Init => TypeOK
<1> SUFFICES ASSUME Init
             PROVE  TypeOK
  OBVIOUS
<1>1. pc \in Steps /\ gateway \in Pointers /\ writer \in Pointers
  BY DEF Init, Steps, Pointers
<1>2. /\ run \in 0 .. MaxRuns /\ mqtt \in 0 .. run /\ session \in 0 .. run
      /\ signals \in 0 .. MaxSignals
  BY BoundsAssumption DEF Init
<1>3. killed \in BOOLEAN /\ signal \in Signals \cup {"none"}
  BY DEF Init
<1>4. handling \in [Signals -> Nat] /\ thread \in {"none", "running", "failed", "ended"}
  BY DEF Init
<1>5. client \in [Runs -> {"none", "new", "running", "ended", "closed"}]
  BY DEF Init
<1>6. call \in [Runs -> {"none", "onAPRS", "write"}]
  BY DEF Init
<1>7. holds \in [Runs -> 0 .. MaxRuns]
  BY BoundsAssumption DEF Init
<1>8. /\ fault \in {"none", "nullWriter", "freedWriter", "freedGateway", "noThread"}
      /\ session = 0
  BY DEF Init
<1> QED
  BY <1>1, <1>2, <1>3, <1>4, <1>5, <1>6, <1>7, <1>8 DEF TypeOK

LEMMA TypeNext == TypeOK /\ LifeInv /\ [Next]_vars => TypeOK'
<1> SUFFICES ASSUME TypeOK, LifeInv, [Next]_vars
             PROVE  TypeOK'
  OBVIOUS
<1> USE BoundsAssumption
    DEF TypeOK, Steps, Runs, Signals, Pointers, objects, broker, calls, caught
<1>1. CASE ResetSignal /\ UNCHANGED <<calls, fault>>
  BY <1>1 DEF ResetSignal
<1>2. CASE ResetKilled /\ UNCHANGED <<calls, fault>>
  BY <1>2 DEF ResetKilled
<1>3. CASE NewGateway /\ UNCHANGED <<calls, fault>>
  BY <1>3 DEF NewGateway
<1>4. CASE ReadConf /\ UNCHANGED <<calls, fault>>
  BY <1>4 DEF ReadConf
<1>5. CASE NewWriter /\ UNCHANGED <<calls, fault>>
  BY <1>5 DEF NewWriter
<1>6. CASE NewMqtt /\ UNCHANGED <<calls, fault>>
  <2>1. session # run
    BY <1>6 DEF NewMqtt, LifeInv
  <2>2. session # 0 => client'[session'] = "running"
    BY <1>6, <2>1 DEF NewMqtt
  <2>3. client' \in [Runs -> {"none", "new", "running", "ended", "closed"}]
    BY <1>6 DEF NewMqtt
  <2>4. run' \in 0 .. MaxRuns /\ mqtt' \in 0 .. run' /\ session' \in 0 .. run'
    BY <1>6 DEF NewMqtt
  <2> QED
    BY <1>6, <2>2, <2>3, <2>4 DEF NewMqtt
<1>7. CASE OpenMqtt /\ UNCHANGED <<calls, fault>>
  BY <1>7 DEF OpenMqtt
<1>8. CASE Leave /\ UNCHANGED <<calls, fault>>
  BY <1>8 DEF Leave
<1>9. CASE StopWriter /\ UNCHANGED <<calls, fault>>
  BY <1>9 DEF StopWriter
<1>10. CASE DeleteWriter /\ UNCHANGED <<calls, fault>>
  BY <1>10 DEF DeleteWriter
<1>11. CASE DeleteGateway /\ UNCHANGED <<calls, fault>>
  BY <1>11 DEF DeleteGateway
<1>12. CASE Again /\ UNCHANGED <<calls, fault>>
  BY <1>12 DEF Again
<1>13. CASE Finalise /\ UNCHANGED <<calls, fault>>
  BY <1>13 DEF Finalise
<1>14. ASSUME NEW s \in Signals, SignalArrives(s),
             UNCHANGED <<pc, run, objects, mqtt, broker, calls, fault>>
      PROVE  TypeOK'
  BY <1>14 DEF SignalArrives
<1>15. ASSUME NEW s \in Signals, SignalNoted(s),
             UNCHANGED <<pc, run, objects, mqtt, broker, calls, fault>>
      PROVE  TypeOK'
  BY <1>15 DEF SignalNoted
<1>16. ASSUME NEW r \in Runs, Subscribe(r),
             UNCHANGED <<pc, run, caught, objects, mqtt>>
      PROVE  TypeOK'
  <2>1. r <= run
    BY <1>16 DEF Subscribe, LifeInv
  <2> QED
    BY <1>16, <2>1 DEF Subscribe
<1>17. ASSUME NEW r \in Runs, Refuse(r),
             UNCHANGED <<pc, run, caught, objects, mqtt>>
      PROVE  TypeOK'
  BY <1>17 DEF Refuse
<1>18. ASSUME NEW r \in Runs, Deliver(r),
             UNCHANGED <<pc, run, caught, objects, mqtt>>
      PROVE  TypeOK'
  BY <1>18 DEF Deliver
<1>19. ASSUME NEW r \in Runs, FindWriter(r),
             UNCHANGED <<pc, run, caught, objects, mqtt>>
      PROVE  TypeOK'
  <2>1. call' \in [Runs -> {"none", "onAPRS", "write"}]
    BY <1>19 DEF FindWriter
  <2>2. holds' \in [Runs -> 0 .. MaxRuns]
    BY <1>19 DEF FindWriter
  <2>3. fault' \in {"none", "nullWriter", "freedWriter", "freedGateway", "noThread"}
    BY <1>19 DEF FindWriter
  <2> QED
    BY <1>19, <2>1, <2>2, <2>3 DEF FindWriter
<1>20. ASSUME NEW r \in Runs, UseWriter(r),
             UNCHANGED <<pc, run, caught, objects, mqtt>>
      PROVE  TypeOK'
  <2>1. call' \in [Runs -> {"none", "onAPRS", "write"}]
    BY <1>20 DEF UseWriter
  <2>2. holds' \in [Runs -> 0 .. MaxRuns]
    <3>1. 0 \in 0 .. MaxRuns /\ holds \in [Runs -> 0 .. MaxRuns]
      OBVIOUS
    <3>2. holds' = [holds EXCEPT ![r] = 0] \/ holds' = holds
      BY <1>20 DEF UseWriter
    <3> QED
      BY <3>1, <3>2
  <2>3. fault' \in {"none", "nullWriter", "freedWriter", "freedGateway", "noThread"}
    BY <1>20 DEF UseWriter
  <2> QED
    BY <1>20, <2>1, <2>2, <2>3 DEF UseWriter
<1>21. CASE UNCHANGED vars
  BY <1>21 DEF vars
<1>22. CASE JoinNothing
  BY <1>22 DEF JoinNothing
<1>23. ASSUME NEW r \in Runs, Lose(r),
             UNCHANGED <<pc, run, caught, objects, mqtt>>
      PROVE  TypeOK'
  BY <1>23 DEF Lose
<1> QED
  BY <1>1, <1>2, <1>3, <1>4, <1>5, <1>6, <1>7, <1>8, <1>9, <1>10, <1>11,
     <1>12, <1>13, <1>14, <1>15, <1>16, <1>17, <1>18, <1>19, <1>20, <1>21,
     <1>22, <1>23
     DEF Next, Main, Handler, Client

-----------------------------------------------------------------------------
(* Lifetimes.                                                              *)

LEMMA LifeInit == Init => LifeInv
BY DEF Init, LifeInv, Serving

LEMMA LifeNext == TypeOK /\ LifeInv /\ [Next]_vars => LifeInv'
<1> SUFFICES ASSUME TypeOK, LifeInv, [Next]_vars
             PROVE  LifeInv'
  OBVIOUS
<1> USE BoundsAssumption
    DEF TypeOK, LifeInv, Serving, Runs, objects, broker, calls, caught
<1>1. CASE ResetSignal /\ UNCHANGED <<calls, fault>>
  BY <1>1 DEF ResetSignal
<1>2. CASE ResetKilled /\ UNCHANGED <<calls, fault>>
  BY <1>2 DEF ResetKilled
<1>3. CASE NewGateway /\ UNCHANGED <<calls, fault>>
  BY <1>3 DEF NewGateway
<1>4. CASE ReadConf /\ UNCHANGED <<calls, fault>>
  BY <1>4 DEF ReadConf
<1>5. CASE NewWriter /\ UNCHANGED <<calls, fault>>
  BY <1>5 DEF NewWriter
<1>6. CASE NewMqtt /\ UNCHANGED <<calls, fault>>
  BY <1>6 DEF NewMqtt
<1>7. CASE OpenMqtt /\ UNCHANGED <<calls, fault>>
  BY <1>7 DEF OpenMqtt
<1>8. CASE Leave /\ UNCHANGED <<calls, fault>>
  BY <1>8 DEF Leave
<1>9. CASE StopWriter /\ UNCHANGED <<calls, fault>>
  BY <1>9 DEF StopWriter
<1>10. CASE DeleteWriter /\ UNCHANGED <<calls, fault>>
  BY <1>10 DEF DeleteWriter
<1>11. CASE DeleteGateway /\ UNCHANGED <<calls, fault>>
  BY <1>11 DEF DeleteGateway
<1>12. CASE Again /\ UNCHANGED <<calls, fault>>
  BY <1>12 DEF Again
<1>13. CASE Finalise /\ UNCHANGED <<calls, fault>>
  <2>1. ASSUME NEW r \in Runs, client'[r] = "running"
        PROVE  \E s \in r + 1 .. run : client'[s] # "none"
    <3>1. client[r] = "running" /\ r # mqtt
      BY <1>13, <2>1 DEF Finalise
    <3>2. PICK s \in r + 1 .. run : client[s] # "none"
      BY <3>1
    <3>3. client'[s] # "none"
      BY <1>13, <3>2 DEF Finalise
    <3> QED
      BY <3>2, <3>3
  <2>2. \A r \in Runs : r > run => client'[r] = "none"
    BY <1>13 DEF Finalise
  <2> QED
    BY <1>13, <2>1, <2>2 DEF Finalise
<1>14. ASSUME NEW s \in Signals, SignalArrives(s),
             UNCHANGED <<pc, run, objects, mqtt, broker, calls, fault>>
      PROVE  LifeInv'
  BY <1>14 DEF SignalArrives
<1>15. ASSUME NEW s \in Signals, SignalNoted(s),
             UNCHANGED <<pc, run, objects, mqtt, broker, calls, fault>>
      PROVE  LifeInv'
  BY <1>15 DEF SignalNoted
<1>16. ASSUME NEW r \in Runs, Subscribe(r),
             UNCHANGED <<pc, run, caught, objects, mqtt>>
      PROVE  LifeInv'
  BY <1>16 DEF Subscribe
<1>17. ASSUME NEW r \in Runs, Refuse(r),
             UNCHANGED <<pc, run, caught, objects, mqtt>>
      PROVE  LifeInv'
  BY <1>17 DEF Refuse
<1>18. ASSUME NEW r \in Runs, Deliver(r),
             UNCHANGED <<pc, run, caught, objects, mqtt>>
      PROVE  LifeInv'
  BY <1>18 DEF Deliver
<1>19. ASSUME NEW r \in Runs, FindWriter(r),
             UNCHANGED <<pc, run, caught, objects, mqtt>>
      PROVE  LifeInv'
  BY <1>19 DEF FindWriter
<1>20. ASSUME NEW r \in Runs, UseWriter(r),
             UNCHANGED <<pc, run, caught, objects, mqtt>>
      PROVE  LifeInv'
  BY <1>20 DEF UseWriter
<1>21. CASE UNCHANGED vars
  BY <1>21 DEF vars
<1>22. CASE JoinNothing
  BY <1>22 DEF JoinNothing
<1>23. ASSUME NEW r \in Runs, Lose(r),
             UNCHANGED <<pc, run, caught, objects, mqtt>>
      PROVE  LifeInv'
  BY <1>23 DEF Lose
<1> QED
  BY <1>1, <1>2, <1>3, <1>4, <1>5, <1>6, <1>7, <1>8, <1>9, <1>10, <1>11,
     <1>12, <1>13, <1>14, <1>15, <1>16, <1>17, <1>18, <1>19, <1>20, <1>21,
     <1>22, <1>23
     DEF Next, Main, Handler, Client

(* The state stays in its ranges, m_mqtt is never the client of a run to   *)
(* come, and the broker serves no client that has ended.                   *)
THEOREM TypeCorrect == Spec => []TypeOK
BY TypeInit, TypeNext, LifeInit, LifeNext, PTL DEF Spec

(* Every way out of run() stops the writer thread, then deletes the        *)
(* writer, then the gateway; at exit no client is left running but those   *)
(* whose m_mqtt a restart has overwritten.                                 *)
THEOREM SafeTakedown == Spec => []Lifetimes
<1>1. TypeOK /\ LifeInv => Lifetimes
  <2> SUFFICES ASSUME TypeOK, LifeInv
               PROVE  Lifetimes
    OBVIOUS
  <2>1. writer = "freed" => thread = "ended"
    BY DEF LifeInv
  <2>2. gateway = "freed" => writer # "live"
    BY DEF LifeInv, Serving
  <2>3. ASSUME pc = "exited", NEW r \in Runs, client[r] = "running"
        PROVE  \E s \in r + 1 .. run : client[s] # "none"
    BY <2>3, BoundsAssumption DEF LifeInv, Runs
  <2> QED
    BY <2>1, <2>2, <2>3 DEF Lifetimes
<1> QED
  BY <1>1, TypeCorrect, LifeInit, LifeNext, PTL DEF Spec

-----------------------------------------------------------------------------
(* Messages.                                                               *)

(* The client of the current run exists only behind the writer; a message  *)
(* on its way holds a writer no older than its client.                     *)
CallInv ==
  /\ gateway = "null" => run = 0
  /\ \A r \in Runs : client[r] # "none" /\ r = run => writer # "null"
  /\ \A r \in Runs : call[r] = "write" => holds[r] \in r .. run
  /\ gateway = "freed" => writer # "live"

LEMMA CallInit == Init => CallInv
BY DEF Init, CallInv

LEMMA CallNext ==
  TypeOK /\ LifeInv /\ CallInv /\ [Next]_vars => CallInv'
<1> SUFFICES ASSUME TypeOK, LifeInv, CallInv, [Next]_vars
             PROVE  CallInv'
  OBVIOUS
<1> USE BoundsAssumption
    DEF TypeOK, LifeInv, CallInv, Serving, Runs, objects, broker, calls, caught
<1>1. CASE ResetSignal /\ UNCHANGED <<calls, fault>>
  BY <1>1 DEF ResetSignal
<1>2. CASE ResetKilled /\ UNCHANGED <<calls, fault>>
  BY <1>2 DEF ResetKilled
<1>3. CASE NewGateway /\ UNCHANGED <<calls, fault>>
  BY <1>3 DEF NewGateway
<1>4. CASE ReadConf /\ UNCHANGED <<calls, fault>>
  BY <1>4 DEF ReadConf
<1>5. CASE NewWriter /\ UNCHANGED <<calls, fault>>
  BY <1>5 DEF NewWriter
<1>6. CASE NewMqtt /\ UNCHANGED <<calls, fault>>
  BY <1>6 DEF NewMqtt
<1>7. CASE OpenMqtt /\ UNCHANGED <<calls, fault>>
  BY <1>7 DEF OpenMqtt
<1>8. CASE Leave /\ UNCHANGED <<calls, fault>>
  BY <1>8 DEF Leave
<1>9. CASE StopWriter /\ UNCHANGED <<calls, fault>>
  BY <1>9 DEF StopWriter
<1>10. CASE DeleteWriter /\ UNCHANGED <<calls, fault>>
  BY <1>10 DEF DeleteWriter
<1>11. CASE DeleteGateway /\ UNCHANGED <<calls, fault>>
  BY <1>11 DEF DeleteGateway
<1>12. CASE Again /\ UNCHANGED <<calls, fault>>
  BY <1>12 DEF Again
<1>13. CASE Finalise /\ UNCHANGED <<calls, fault>>
  BY <1>13 DEF Finalise
<1>14. ASSUME NEW s \in Signals, SignalArrives(s),
             UNCHANGED <<pc, run, objects, mqtt, broker, calls, fault>>
      PROVE  CallInv'
  BY <1>14 DEF SignalArrives
<1>15. ASSUME NEW s \in Signals, SignalNoted(s),
             UNCHANGED <<pc, run, objects, mqtt, broker, calls, fault>>
      PROVE  CallInv'
  BY <1>15 DEF SignalNoted
<1>16. ASSUME NEW r \in Runs, Subscribe(r),
             UNCHANGED <<pc, run, caught, objects, mqtt>>
      PROVE  CallInv'
  BY <1>16 DEF Subscribe
<1>17. ASSUME NEW r \in Runs, Refuse(r),
             UNCHANGED <<pc, run, caught, objects, mqtt>>
      PROVE  CallInv'
  BY <1>17 DEF Refuse
<1>18. ASSUME NEW r \in Runs, Deliver(r),
             UNCHANGED <<pc, run, caught, objects, mqtt>>
      PROVE  CallInv'
  BY <1>18 DEF Deliver
<1>19. ASSUME NEW r \in Runs, FindWriter(r),
             UNCHANGED <<pc, run, caught, objects, mqtt>>
      PROVE  CallInv'
  BY <1>19 DEF FindWriter
<1>20. ASSUME NEW r \in Runs, UseWriter(r),
             UNCHANGED <<pc, run, caught, objects, mqtt>>
      PROVE  CallInv'
  BY <1>20 DEF UseWriter
<1>21. CASE UNCHANGED vars
  BY <1>21 DEF vars
<1>22. CASE JoinNothing
  BY <1>22 DEF JoinNothing
<1>23. ASSUME NEW r \in Runs, Lose(r),
             UNCHANGED <<pc, run, caught, objects, mqtt>>
      PROVE  CallInv'
  BY <1>23 DEF Lose
<1> QED
  BY <1>1, <1>2, <1>3, <1>4, <1>5, <1>6, <1>7, <1>8, <1>9, <1>10, <1>11,
     <1>12, <1>13, <1>14, <1>15, <1>16, <1>17, <1>18, <1>19, <1>20, <1>21,
     <1>22, <1>23
     DEF Next, Main, Handler, Client

LEMMA FaultNext ==
  TypeOK /\ LifeInv /\ CallInv /\ FaultsExplained /\ [Next]_vars
    => FaultsExplained'
<1> SUFFICES ASSUME TypeOK, LifeInv, CallInv, FaultsExplained, [Next]_vars
             PROVE  FaultsExplained'
  OBVIOUS
<1>1. CASE UNCHANGED vars
  BY <1>1 DEF vars, objects, broker, FaultsExplained
<1>2. CASE Next /\ UNCHANGED fault
  BY <1>2 DEF Next, Running, FaultsExplained
<1>3. ASSUME NEW r \in Runs, Client(r), Running
      PROVE  FaultsExplained'
  <2>0. fault' # "noThread"
    BY <1>3 DEF Client, Running, Subscribe, Refuse, Lose, Deliver, FindWriter,
                UseWriter
  <2>1. CASE client[r] = "running" /\ r < run /\ UNCHANGED client
    BY <1>3, <2>0, <2>1 DEF Client, FaultsExplained, TypeOK, Runs
  <2>2. CASE client[r] = "running" /\ r = run
    <3>1. writer # "null" /\ (gateway # "live" => writer = "freed")
      BY <2>2, BoundsAssumption DEF CallInv, TypeOK, Pointers, Runs
    <3>2. call[r] = "write" => holds[r] = run
      BY <2>2, BoundsAssumption DEF CallInv, TypeOK, Runs
    <3>3. CASE FindWriter(r)
      <4>1. CASE gateway = "live"
        BY <1>2, <1>3, <3>1, <3>3, <4>1 DEF FindWriter, Next
      <4>2. CASE gateway # "live"
        BY <1>3, <2>0, <3>1, <4>2 DEF Client, objects, FaultsExplained
      <4> QED
        BY <4>1, <4>2
    <3>4. CASE UseWriter(r)
      <4>1. CASE writer = "live"
        BY <1>2, <1>3, <3>2, <3>4, <4>1 DEF UseWriter, Next
      <4>2. CASE writer # "live"
        BY <1>3, <2>0, <3>1, <4>2
           DEF Client, objects, FaultsExplained, TypeOK, Pointers
      <4> QED
        BY <4>1, <4>2
    <3> QED
      BY <1>2, <1>3, <3>3, <3>4
         DEF Next, Client, Subscribe, Refuse, Lose, Deliver
  <2> QED
    <3>1. CASE Subscribe(r) \/ Refuse(r) \/ Lose(r) \/ Deliver(r)
      BY <1>2, <1>3, <3>1 DEF Subscribe, Refuse, Lose, Deliver, Next
    <3>2. CASE FindWriter(r) \/ UseWriter(r)
      <4>1. client[r] = "running" /\ UNCHANGED client
        BY <3>2 DEF FindWriter, UseWriter, broker
      <4>2. r <= run
        BY <4>1, BoundsAssumption DEF LifeInv, TypeOK, Runs
      <4> QED
        BY <2>1, <2>2, <4>1, <4>2, BoundsAssumption DEF TypeOK, Runs
    <3> QED
      BY <1>3, <3>1, <3>2 DEF Client
<1>4. CASE JoinNothing
  BY <1>4 DEF JoinNothing, objects, FaultsExplained
<1> QED
  BY <1>1, <1>2, <1>3, <1>4 DEF Next, Main, Handler

(* A message finds no writer in two cases only: behind the deletion of the *)
(* writer, and through a client an earlier run has left; stop() finds no   *)
(* thread only when it could not be made.                                  *)
THEOREM OnlyTakedownAndRestart == Spec => []FaultsExplained
<1>1. Init => FaultsExplained
  BY DEF Init, FaultsExplained
<1> QED
  BY <1>1, FaultNext, CallInit, CallNext, LifeInit, LifeNext, TypeInit,
     TypeNext, PTL DEF Spec

-----------------------------------------------------------------------------
(* The composition with the log.                                           *)

LEMMA LogStep == [LogNext]_logVars => [Next]_vars
<1> SUFFICES ASSUME [LogNext]_logVars
             PROVE  [Next]_vars
  OBVIOUS
<1>1. CASE Running /\ MainSteps
  BY <1>1 DEF MainSteps, Next
<1>2. CASE Running /\ Handler
  BY <1>2 DEF Next
<1>3. ASSUME Running, NEW r \in Runs, ClientSteps(r)
      PROVE  [Next]_vars
  BY <1>3 DEF ClientSteps, Next
<1>4. ASSUME NEW r \in Runs, Disconnected(r)
      PROVE  [Next]_vars
  BY <1>4 DEF Disconnected
<1>5. ASSUME NEW t \in Threads, Log(t)
      PROVE  [Next]_vars
  BY <1>5 DEF Log
<1>6. CASE UNCHANGED logVars
  BY <1>6 DEF logVars
<1> QED
  BY <1>1, <1>2, <1>3, <1>4, <1>5, <1>6 DEF LogNext

(* The composition adds nothing to what the program does with its objects: *)
(* every behaviour of it is one of module Gateway.                         *)
THEOREM LogKeepsLife == LogSpec => Spec
<1>1. LogInit => Init
  BY DEF LogInit
<1> QED
  BY <1>1, LogStep, PTL DEF LogSpec, Spec

-----------------------------------------------------------------------------
(* Where a thread is that is in Log(), and what client it can have: the    *)
(* writer thread ends before run() returns, a client is closed by the last *)
(* step of the program, and only one that was opened is ever connected.    *)
LogType == log \in [Threads -> 0 .. MaxRuns] /\ tested \subseteq Threads
ConnectedType == connected \in [Runs -> BOOLEAN]
Opened == {"running", "ended", "closed"}
LogInv ==
  /\ thread = "running" => pc \in {"newMqtt", "open", "loop", "stopWriter"}
  /\ log[0] # 0 => thread = "running"
  /\ \A t \in Runs : log[t] # 0 => client[t] = "running"
  /\ \A c \in Runs : connected[c] => client[c] \in Opened
  /\ \A c \in Runs : client[c] = "closed" => pc = "exited"
  /\ \A t \in Threads :
       log[t] # 0 => client[log[t]] # "none" /\ (mqtt # 0 \/ pc = "exited")
  /\ \A t \in tested : log[t] # 0 /\ client[log[t]] \in Opened

LEMMA LogInitial == LogInit => LogType /\ ConnectedType /\ LogInv
<1> SUFFICES ASSUME LogInit
             PROVE  LogType /\ ConnectedType /\ LogInv
  OBVIOUS
<1> USE BoundsAssumption DEF LogInit, Init, Runs, Threads
<1>1. LogType
  BY DEF LogType
<1>2. LogInv
  BY DEF LogInv
<1>3. ConnectedType
  BY DEF ConnectedType
<1> QED
  BY <1>1, <1>2, <1>3

(* What a step of main() does to the log.                                  *)
LEMMA LogEffect ==
  ASSUME TypeOK, LogType, MainSteps
  PROVE  /\ LogType' /\ connected' = connected
         /\ \A t \in Threads : log'[t] \in {log[t], 0}
         /\ \A t \in tested' : t \in tested /\ (log'[t] = log[t] \/ t = mqtt)
         /\ mqtt \notin tested' \/ tested' = tested
         /\ pc = "finalise" /\ mqtt # 0 =>
              mqtt \notin tested' /\ (mqtt \in Threads => log'[mqtt] = 0)
<1> USE BoundsAssumption DEF LogType, Threads, Runs
<1>1. CASE pc = "finalise" /\ mqtt # 0
  <2>1. /\ log' = [log EXCEPT ![mqtt] = 0] /\ tested' = tested \ {mqtt}
        /\ connected' = connected
    BY <1>1 DEF MainSteps
  <2>2. LogType'
    <3>1. tested' \subseteq Threads
      BY <2>1
    <3>2. mqtt \in Threads /\ 0 \in 0 .. MaxRuns
      BY DEF TypeOK
    <3>3. log' \in [Threads -> 0 .. MaxRuns]
      BY <2>1, <3>2
    <3> QED
      BY <3>1, <3>3
  <2>3. \A t \in Threads : log'[t] \in {log[t], 0}
    BY <2>1
  <2>4. \A t \in tested' : t \in tested /\ (log'[t] = log[t] \/ t = mqtt)
    BY <2>1
  <2>5. mqtt \notin tested' /\ (mqtt \in Threads => log'[mqtt] = 0)
    BY <2>1
  <2> QED
    BY <2>1, <2>2, <2>3, <2>4, <2>5
<1>2. CASE ~(pc = "finalise" /\ mqtt # 0)
  <2>1. log' = log /\ tested' = tested /\ connected' = connected
    BY <1>2 DEF MainSteps, logging
  <2> QED
    BY <1>2, <2>1
<1> QED
  BY <1>1, <1>2

(* What a step of main() does to the writer thread and to the clients.     *)
Threaded == {"newMqtt", "open", "loop", "stopWriter"}
LEMMA MainEffect ==
  ASSUME TypeOK, LifeInv, Main
  PROVE  /\ pc # "exited"
         /\ thread = "running" /\ pc \in Threaded =>
              \/ thread' = "running" /\ pc' \in Threaded
              \/ thread' # "running" /\ pc = "stopWriter" /\ fault' = fault
         /\ thread' = "running" => thread = "running" \/ pc' = "newMqtt"
         /\ mqtt' # 0 \/ mqtt' = mqtt \/ pc' = "exited"
         /\ \A c \in Runs :
              \/ client'[c] = client[c]
              \/ client[c] = "none" /\ client'[c] = "new"
              \/ client'[c] = "running"
              \/ /\ client'[c] = "closed" /\ pc' = "exited"
                 /\ c = mqtt /\ pc = "finalise" /\ client[c] # "none"
<1> USE BoundsAssumption DEF TypeOK, Threaded, Runs, objects, broker
<1>1. CASE ResetSignal /\ UNCHANGED <<calls, fault>>
  BY <1>1 DEF ResetSignal
<1>2. CASE ResetKilled /\ UNCHANGED <<calls, fault>>
  BY <1>2 DEF ResetKilled
<1>3. CASE NewGateway /\ UNCHANGED <<calls, fault>>
  BY <1>3 DEF NewGateway
<1>4. CASE ReadConf /\ UNCHANGED <<calls, fault>>
  BY <1>4 DEF ReadConf
<1>5. CASE NewWriter /\ UNCHANGED <<calls, fault>>
  BY <1>5 DEF NewWriter
<1>6. CASE NewMqtt /\ UNCHANGED <<calls, fault>>
  BY <1>6 DEF NewMqtt, LifeInv
<1>7. CASE OpenMqtt /\ UNCHANGED <<calls, fault>>
  BY <1>7 DEF OpenMqtt
<1>8. CASE Leave /\ UNCHANGED <<calls, fault>>
  BY <1>8 DEF Leave
<1>9. CASE StopWriter /\ UNCHANGED <<calls, fault>>
  BY <1>9 DEF StopWriter
<1>10. CASE DeleteWriter /\ UNCHANGED <<calls, fault>>
  BY <1>10 DEF DeleteWriter
<1>11. CASE DeleteGateway /\ UNCHANGED <<calls, fault>>
  BY <1>11 DEF DeleteGateway
<1>12. CASE Again /\ UNCHANGED <<calls, fault>>
  BY <1>12 DEF Again
<1>13. CASE Finalise /\ UNCHANGED <<calls, fault>>
  BY <1>13 DEF Finalise, LifeInv
<1>14. CASE JoinNothing
  BY <1>14 DEF JoinNothing
<1> QED
  BY <1>1, <1>2, <1>3, <1>4, <1>5, <1>6, <1>7,
     <1>8, <1>9, <1>10, <1>11, <1>12, <1>13, <1>14 DEF Main

LEMMA ConnectedStep == ConnectedType /\ [LogNext]_logVars => ConnectedType'
<1> SUFFICES ASSUME ConnectedType, [LogNext]_logVars
             PROVE  ConnectedType'
  OBVIOUS
<1>1. CASE UNCHANGED connected
  BY <1>1 DEF ConnectedType
<1>2. ASSUME NEW r \in Runs, ClientSteps(r)
      PROVE  ConnectedType'
  BY <1>1, <1>2 DEF ClientSteps, ConnectedType
<1>3. ASSUME NEW r \in Runs, Disconnected(r)
      PROVE  ConnectedType'
  BY <1>3 DEF Disconnected, ConnectedType
<1> QED
  BY <1>1, <1>2, <1>3 DEF LogNext, MainSteps, Log, logVars

LEMMA LogTypeStep == TypeOK /\ LogType /\ [LogNext]_logVars => LogType'
<1> SUFFICES ASSUME TypeOK, LogType, [LogNext]_logVars
             PROVE  LogType'
  OBVIOUS
<1> USE BoundsAssumption DEF Threads, Runs
<1>1. CASE MainSteps
  BY <1>1, LogEffect
<1>2. CASE Handler /\ UNCHANGED <<connected, logging, gone>>
  BY <1>2 DEF LogType, logging
<1>3. ASSUME NEW r \in Runs, ClientSteps(r)
      PROVE  LogType'
  BY <1>3 DEF ClientSteps, LogType, logging
<1>4. ASSUME NEW r \in Runs, Disconnected(r)
      PROVE  LogType'
  BY <1>4 DEF Disconnected, LogType, logging
<1>5. ASSUME NEW t \in Threads, Log(t)
      PROVE  LogType'
  <2>1. mqtt \in 0 .. MaxRuns /\ connected' = connected
    BY <1>5 DEF Log, TypeOK
  <2>2. CASE LogBegin(t)
    <3>1. log' = [log EXCEPT ![t] = mqtt] /\ tested' = tested
      BY <2>2 DEF LogBegin
    <3> QED
      BY <2>1, <3>1 DEF LogType
  <2>3. CASE LogTest(t)
    <3>1. PICK c \in {log[t], mqtt} :
            \/ log' = [log EXCEPT ![t] = c] /\ tested' = tested \cup {t}
            \/ log' = [log EXCEPT ![t] = 0] /\ tested' = tested
            \/ log' = log /\ tested' = tested
      BY <2>3 DEF LogTest, logging
    <3>2. c \in 0 .. MaxRuns
      BY <2>1, <3>1 DEF LogType
    <3>3. tested' \subseteq Threads
      BY <3>1 DEF LogType
    <3>4. log' \in [Threads -> 0 .. MaxRuns]
      <4>1. CASE log' = [log EXCEPT ![t] = c]
        BY <3>2, <4>1 DEF LogType
      <4>2. CASE log' = [log EXCEPT ![t] = 0]
        BY <4>2 DEF LogType
      <4> QED
        BY <3>1, <4>1, <4>2 DEF LogType
    <3> QED
      BY <3>3, <3>4 DEF LogType
  <2>4. CASE LogPublish(t)
    BY <2>1, <2>4 DEF LogPublish, LogType
  <2> QED
    BY <1>5, <2>2, <2>3, <2>4 DEF Log
<1>6. CASE UNCHANGED logVars
  BY <1>6 DEF logVars, LogType, logging
<1> QED
  BY <1>1, <1>2, <1>3, <1>4, <1>5, <1>6 DEF LogNext

LEMMA LogInvMain ==
  ASSUME TypeOK, LifeInv, LogType, ConnectedType, LogInv, Running, MainSteps
  PROVE  LogInv'
<1>1. Main /\ (pc = "stopWriter" => log[0] = 0 \/ fault' # "none") /\ fault = "none"
  BY DEF MainSteps, Running
<1>2. mqtt \in Threads /\ mqtt \in 0 .. MaxRuns /\ 0 \in Threads
  BY BoundsAssumption DEF TypeOK, Threads
<1>3. thread' = "running" => pc' \in Threaded
  BY <1>1, MainEffect DEF LogInv, Threaded
<1>4. log'[0] # 0 => thread' = "running"
  BY <1>1, <1>2, MainEffect, LogEffect DEF LogInv, Threaded
<1>5. ASSUME NEW t \in Runs, log'[t] # 0
      PROVE  client'[t] = "running"
  <2>1. t \in Threads
    BY BoundsAssumption DEF Runs, Threads
  <2>2. client[t] = "running" /\ log'[t] = log[t]
    BY <1>5, <2>1, LogEffect DEF LogInv
  <2>3. ~(pc = "finalise" /\ t = mqtt)
    BY <1>5, <1>2, LogEffect, BoundsAssumption DEF Runs
  <2> QED
    BY <1>1, <2>2, <2>3, MainEffect
<1>6. ASSUME NEW c \in Runs, connected'[c]
      PROVE  client'[c] \in Opened
  BY <1>1, <1>6, MainEffect, LogEffect DEF LogInv, Opened
<1>7. ASSUME NEW c \in Runs, client'[c] = "closed"
      PROVE  pc' = "exited"
  BY <1>1, <1>7, MainEffect DEF LogInv
<1>8. ASSUME NEW t \in Threads, log'[t] # 0
      PROVE  client'[log'[t]] # "none" /\ (mqtt' # 0 \/ pc' = "exited")
  <2>1. log'[t] = log[t] /\ log[t] \in Runs
    <3>1. log'[t] \in {log[t], 0}
      BY LogEffect
    <3> QED
      BY <1>8, <3>1, BoundsAssumption DEF LogType, Threads, Runs
  <2>2. client[log[t]] # "none" /\ mqtt # 0
    BY <1>1, <1>8, <2>1, MainEffect DEF LogInv
  <2> QED
    BY <1>1, <2>1, <2>2, MainEffect
<1>9. ASSUME NEW t \in tested'
      PROVE  log'[t] # 0 /\ client'[log'[t]] \in Opened
  <2>1. t \in tested /\ t \in Threads
    BY <1>9, LogEffect DEF LogType
  <2>2. log'[t] = log[t]
    BY <1>9, <2>1, LogEffect DEF MainSteps, logging
  <2>3. log[t] # 0 /\ client[log[t]] \in Opened /\ log[t] \in Runs
    BY <2>1, BoundsAssumption DEF LogInv, LogType, Threads, Runs
  <2> QED
    BY <1>1, <2>2, <2>3, MainEffect DEF Opened
<1> QED
  BY <1>3, <1>4, <1>5, <1>6, <1>7, <1>8, <1>9 DEF LogInv, Threaded

LEMMA LogInvStep ==
  TypeOK /\ LifeInv /\ LogType /\ ConnectedType /\ LogInv /\ [LogNext]_logVars => LogInv'
<1> SUFFICES ASSUME TypeOK, LifeInv, LogType, ConnectedType, LogInv, [LogNext]_logVars
             PROVE  LogInv'
  OBVIOUS
<1>1. CASE Running /\ MainSteps
  BY <1>1, LogInvMain
<1>2. CASE Handler /\ UNCHANGED <<connected, logging, gone>>
  <2>1. UNCHANGED <<pc, thread, client, mqtt, connected, log, tested>>
    BY <1>2 DEF Handler, objects, broker, logging
  <2> QED
    BY <2>1 DEF LogInv
<1>3. ASSUME NEW r \in Runs, ClientSteps(r)
      PROVE  LogInv'
  <2>1. UNCHANGED <<pc, thread, mqtt, log, tested>> /\ log[r] = 0
    BY <1>3 DEF ClientSteps, Client, objects, logging
  <2>2. \A c \in Runs : \/ client'[c] = client[c]
                        \/ c = r /\ client[c] = "running" /\ client'[c] = "ended"
    <3>1. CASE Refuse(r)
      BY <3>1 DEF Refuse, TypeOK
    <3>2. CASE client' = client
      BY <3>2
    <3> QED
      BY <1>3, <3>1, <3>2 DEF ClientSteps, Client, Subscribe, Lose, Deliver,
                              FindWriter, UseWriter, broker
  <2>3. \A c \in Runs : connected'[c] => connected[c] \/ client'[c] = "running"
    <3>1. CASE Subscribe(r)
      BY <1>3, <3>1 DEF ClientSteps, Subscribe, ConnectedType
    <3>2. CASE ~Subscribe(r)
      BY <1>3, <3>2 DEF ClientSteps
    <3> QED
      BY <3>1, <3>2
  <2>4. \A t \in Threads : log[t] # 0 => log[t] \in Runs
    BY BoundsAssumption DEF LogType, Threads, Runs
  <2>5. \A c \in Runs : connected'[c] => client'[c] \in Opened
    BY <2>2, <2>3 DEF LogInv, Opened
  <2>6. tested \subseteq Threads /\ 0 \in Threads
    BY BoundsAssumption DEF LogType, Threads
  <2>7. \A t \in tested' : log'[t] # 0 /\ client'[log'[t]] \in Opened
    BY <2>1, <2>2, <2>4, <2>6 DEF LogInv, Opened
  <2>8. \A t \in Threads :
          log'[t] # 0 => client'[log'[t]] # "none" /\ (mqtt' # 0 \/ pc' = "exited")
    BY <2>1, <2>2, <2>4 DEF LogInv
  <2> QED
    BY <2>1, <2>2, <2>5, <2>7, <2>8 DEF LogInv
<1>4. ASSUME NEW r \in Runs, Disconnected(r)
      PROVE  LogInv'
  <2>1. UNCHANGED <<pc, thread, client, mqtt, log, tested>>
    BY <1>4 DEF Disconnected, vars, objects, broker, logging
  <2>2. \A c \in Runs : connected'[c] => connected[c]
    BY <1>4 DEF Disconnected, ConnectedType
  <2> QED
    BY <2>1, <2>2 DEF LogInv
<1>5. ASSUME NEW t \in Threads, Log(t)
      PROVE  LogInv'
  <2>1. UNCHANGED <<pc, thread, client, mqtt, connected>>
    BY <1>5 DEF Log, vars, objects, broker
  <2>2. /\ mqtt \in 0 .. MaxRuns /\ tested \subseteq Threads
        /\ Runs \subseteq Threads /\ 0 \in Threads
        /\ \A u \in Threads : u = 0 \/ u \in Runs
    <3>1. mqtt \in 0 .. MaxRuns
      BY BoundsAssumption DEF TypeOK
    <3>2. \A u \in Threads : u = 0 \/ u \in Runs
      BY BoundsAssumption DEF Threads, Runs
    <3>3. Runs \subseteq Threads /\ 0 \in Threads
      BY BoundsAssumption DEF Threads, Runs
    <3> QED
      BY <3>1, <3>2, <3>3 DEF LogType
  <2>3. CASE LogBegin(t)
    <3>1. log' = [log EXCEPT ![t] = mqtt] /\ tested' = tested /\ mqtt # 0 /\ log[t] = 0
      BY <2>3 DEF LogBegin
    <3>2. client[mqtt] # "none"
      BY <3>1 DEF LifeInv
    <3>3. t = 0 => thread = "running"
      BY <2>3 DEF LogBegin
    <3>4. t # 0 => client[t] = "running"
      BY <2>3 DEF LogBegin
    <3>5. \A u \in Threads : log'[u] = IF u = t THEN mqtt ELSE log[u]
      BY <3>1 DEF LogType
    <3>6. t \notin tested
      BY <3>1 DEF LogInv
    <3>7. \A u \in tested' : log'[u] # 0 /\ client'[log'[u]] \in Opened
      BY <2>1, <2>2, <3>1, <3>5, <3>6 DEF LogInv
    <3>8. \A u \in Runs : log'[u] # 0 => client[u] = "running"
      BY <2>2, <3>4, <3>5, BoundsAssumption DEF LogInv, Runs
    <3>9. log'[0] # 0 => thread = "running"
      BY <2>2, <3>3, <3>5 DEF LogInv
    <3>10. \A u \in Threads :
             log'[u] # 0 => client[log'[u]] # "none" /\ (mqtt # 0 \/ pc = "exited")
      BY <3>1, <3>2, <3>5 DEF LogInv
    <3> QED
      BY <2>1, <3>7, <3>8, <3>9, <3>10 DEF LogInv
  <2>4. CASE LogTest(t)
    <3>1. log[t] # 0 /\ t \notin tested
      BY <2>4 DEF LogTest
    <3>2. PICK c \in {log[t], mqtt} :
            \/ /\ log' = [log EXCEPT ![t] = c] /\ tested' = tested \cup {t}
               /\ c # 0 /\ connected[c]
            \/ log' = [log EXCEPT ![t] = 0] /\ tested' = tested
            \/ log' = log /\ tested' = tested
      BY <2>4 DEF LogTest, logging
    <3>3. c \in 0 .. MaxRuns
      BY <2>2, <3>2 DEF LogType
    <3>4. \/ /\ c \in Runs /\ connected[c] /\ tested' = tested \cup {t}
             /\ \A u \in Threads : log'[u] = IF u = t THEN c ELSE log[u]
          \/ /\ tested' = tested
             /\ \A u \in Threads : log'[u] = IF u = t THEN 0 ELSE log[u]
          \/ tested' = tested /\ log' = log
      BY <3>2, <3>3, BoundsAssumption DEF LogType, Runs
    <3>5. \A u \in Threads : log'[u] # 0 => log[u] # 0
      BY <3>1, <3>4
    <3>6. \A u \in Threads : log'[u] # 0 => client[log'[u]] # "none"
      BY <3>4 DEF LogInv, Opened
    <3>7. \A u \in tested' : log'[u] # 0 /\ client[log'[u]] \in Opened
      <4>1. CASE /\ c \in Runs /\ connected[c] /\ tested' = tested \cup {t}
                 /\ \A u \in Threads : log'[u] = IF u = t THEN c ELSE log[u]
        <5>1. c # 0 /\ client[c] \in Opened
          BY <4>1, BoundsAssumption DEF LogInv, Runs
        <5> QED
          BY <2>2, <4>1, <5>1 DEF LogInv
      <4>2. CASE /\ tested' = tested
                 /\ \A u \in Threads : log'[u] = IF u = t THEN 0 ELSE log[u]
        BY <2>2, <3>1, <4>2 DEF LogInv
      <4>3. CASE tested' = tested /\ log' = log
        BY <4>3 DEF LogInv
      <4> QED
        BY <3>4, <4>1, <4>2, <4>3
    <3> QED
      BY <2>1, <2>2, <3>5, <3>6, <3>7 DEF LogInv
  <2>5. CASE LogPublish(t)
    <3>1. log' = [log EXCEPT ![t] = 0] /\ tested' = tested \ {t}
      BY <2>5 DEF LogPublish
    <3>2. \A u \in Threads : log'[u] = IF u = t THEN 0 ELSE log[u]
      BY <3>1 DEF LogType
    <3> QED
      BY <2>1, <2>2, <3>1, <3>2 DEF LogInv
  <2> QED
    BY <1>5, <2>3, <2>4, <2>5 DEF Log
<1>6. CASE UNCHANGED logVars
  <2>1. UNCHANGED <<pc, thread, client, mqtt, connected, log, tested>>
    BY <1>6 DEF logVars, vars, objects, broker, logging
  <2> QED
    BY <2>1 DEF LogInv
<1> QED
  BY <1>1, <1>2, <1>3, <1>4, <1>5, <1>6 DEF LogNext

LEMMA PublishStep ==
  TypeOK /\ LifeInv /\ LogType /\ ConnectedType /\ LogInv
  /\ PublishExplained /\ [LogNext]_logVars
    => PublishExplained'
<1> SUFFICES ASSUME TypeOK, LifeInv, LogType, ConnectedType, LogInv, PublishExplained,
                    [LogNext]_logVars
             PROVE  PublishExplained'
  OBVIOUS
<1> USE BoundsAssumption DEF Threads, Runs
<1>2. ASSUME NEW t \in Threads, Log(t), gone'
      PROVE  PublishExplained'
  <2>1. UNCHANGED <<run, client>> /\ ~gone /\ log[t] # 0
    BY <1>2 DEF Log, LogBegin, LogTest, LogPublish, vars, broker, LogInv
  <2>2. pc = "exited"
    <3>1. CASE LogTest(t)
      <4>1. PICK c \in {log[t], mqtt} : c = 0 \/ client[c] = "closed"
        BY <1>2, <2>1, <3>1 DEF LogTest
      <4>2. c \in 0 .. MaxRuns
        <5>1. mqtt \in 0 .. MaxRuns
          BY DEF TypeOK
        <5>2. log[t] \in 0 .. MaxRuns
          BY <1>2 DEF LogType
        <5> QED
          BY <4>1, <5>1, <5>2
      <4>3. CASE c # 0
        BY <4>1, <4>2, <4>3 DEF LogInv
      <4>4. CASE c = 0
        BY <2>1, <4>1, <4>4 DEF LogInv
      <4> QED
        BY <4>3, <4>4
    <3>2. CASE LogPublish(t)
      <4>1. t \in tested /\ ~Usable(log[t])
        BY <1>2, <2>1, <3>2 DEF LogPublish
      <4>2. log[t] \in Runs /\ client[log[t]] \in Opened
        <5>1. log[t] # 0 /\ client[log[t]] \in Opened
          BY <4>1 DEF LogInv
        <5>2. log[t] \in 0 .. MaxRuns
          BY <1>2 DEF LogType
        <5> QED
          BY <5>1, <5>2
      <4> QED
        BY <4>1, <4>2 DEF Usable, Opened, LogInv
    <3> QED
      BY <1>2, <3>1, <3>2 DEF Log, LogBegin
  <2>3. t # 0 /\ client[t] = "running"
    BY <2>1, <2>2 DEF LogInv
  <2>4. t \in Runs /\ run \in Nat
    BY <2>3 DEF TypeOK
  <2>5. PICK s \in t + 1 .. run : TRUE
    BY <2>2, <2>3, <2>4 DEF LifeInv
  <2>6. t \in 1 .. run - 1
    BY <2>4, <2>5
  <2> QED
    BY <2>1, <2>3, <2>6 DEF PublishExplained
<1>3. CASE Running /\ ~gone /\ MainSteps /\ gone'
  <2>1. MainPublishes \/ gone' = gone
    BY <1>3 DEF MainSteps
  <2>2. mqtt \in 0 .. MaxRuns
    BY DEF TypeOK
  <2>3. ~MainPublishes
    <3>1. SUFFICES ASSUME mqtt # 0, connected[mqtt], ~Usable(mqtt)
                   PROVE  FALSE
      BY <1>3 DEF MainPublishes
    <3>2. mqtt \in Runs
      BY <2>2, <3>1
    <3>3. client[mqtt] \in Opened
      BY <3>1, <3>2 DEF LogInv
    <3> QED
      BY <1>3, <3>1, <3>2, <3>3 DEF LogInv, Opened, Usable, Running
  <2> QED
    BY <1>3, <2>1, <2>3
<1>4. CASE UNCHANGED gone
  <2>1. ASSUME gone
        PROVE  UNCHANGED <<run, client>>
    <3>1. UNCHANGED logVars
      BY <2>1 DEF LogNext, Log
    <3> QED
      BY <3>1 DEF logVars, vars, broker
  <2> QED
    BY <1>4, <2>1 DEF PublishExplained
<1>5. CASE ~gone'
  BY <1>5 DEF PublishExplained
<1> QED
  BY <1>2, <1>3, <1>4, <1>5 DEF LogNext, ClientSteps, Disconnected, logVars

(* Without an earlier run's client publish() never meets a deleted client, *)
(* however main(), the writer thread and the clients interleave.           *)
THEOREM OnlyOldClientsPublishLate == LogSpec => []PublishExplained
<1>1. LogInit => PublishExplained
  BY DEF LogInit, PublishExplained
<1>2. LogInit => Init
  BY DEF LogInit
<1> QED
  BY <1>1, <1>2, LogInitial, LogStep, LogTypeStep, ConnectedStep,
     LogInvStep, PublishStep,
     LifeInit, LifeNext, TypeInit, TypeNext, PTL DEF LogSpec

=============================================================================
