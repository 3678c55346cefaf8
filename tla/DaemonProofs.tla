---------------------------- MODULE DaemonProofs ----------------------------
(***************************************************************************)
(* Proofs about the start as a daemon: what a fork, a new directory and    *)
(* user and the closed descriptors mean to later runs, for any number of   *)
(* runs.                                                                   *)
(***************************************************************************)
EXTENDS Daemon, TLAPS

(* The parts of the inductive invariant.  ClientInv and TypeOK need each   *)
(* other: a client about to be opened has no descriptor yet because the    *)
(* client of the current run is not among those opened before.             *)

\* Where m_mqtt and the opened clients are in the order of the runs.
ClientInv ==
  /\ opened \subseteq 1 .. run
  /\ \A r \in Runs : Holds(Broker(r)) => r \in opened
  /\ pc \in {"conf", "fork", "setsid", "chdir", "drop", "close", "writer", "mqtt"} =>
       mqtt < run /\ run \notin opened
  /\ run \in opened => run \in alive /\ (pc # "exited" => mqtt = run)
  /\ fault # "none" => pc = "again" /\ mqtt \in opened \ alive

\* What a fork leaves: no client opened before it has its thread, and the
\* client of m_mqtt has none only if it is older than a daemon.
ForkInv ==
  /\ pc = "fork" => daemon
  /\ pc \in {"setsid", "chdir", "drop", "close"} => alive = {} /\ daemon
  /\ daemon /\ pc \in {"setsid", "chdir", "drop", "close", "writer", "mqtt", "serve"} =>
       run \in daemons /\ alive \subseteq {run}
  /\ mqtt \in opened \ alive => \E r \in daemons : mqtt < r

\* Root becomes mmdvm, group first, only in a daemon, and nothing is undone.
UserInv ==
  /\ user.id # "root" => user.group = user.id
  /\ user.id = "mmdvm" \/ cwd = "root" => daemons # {}
  /\ pc \in {"drop", "close"} => cwd = "root"
  /\ pc = "close" => user.id # "root"
  /\ daemon /\ pc \in {"writer", "mqtt", "serve"} => cwd = "root" /\ user.id # "root"

\* Nothing but a daemon gives up 0, 1 and 2.
TextInv ==
  /\ daemons = {} => \A d \in 0 .. 2 : fds[d] = Std
  /\ TextExplained

IInv ==
  /\ TypeOK /\ ClientInv /\ ForkInv /\ UserInv /\ TextInv
  /\ ClosesNothingInUse


-----------------------------------------------------------------------------
(* Descriptors.                                                            *)

FdsOK ==
  /\ fds \in [Descriptors -> Sockets \cup {Free, Std}]
  /\ \A d, e \in Descriptors : fds[d] \in Sockets /\ fds[e] = fds[d] => d = e

LEMMA Owners ==
  ASSUME NEW r \in Runs
  PROVE  /\ Server(r) \in Sockets /\ Broker(r) \in Sockets
         /\ Free \notin Sockets /\ Std \notin Sockets
         /\ \A q \in Runs : Server(q) # Broker(r) /\ (Broker(q) = Broker(r) => q = r)
BY DEF Server, Broker, Sockets, Free, Std

LEMMA LowestFits == {0, 1, 2} \subseteq Descriptors
BY RunsAssumption DEF Descriptors

(* A socket gets a descriptor nothing had.                                 *)
LEMMA OpeningIsSafe ==
  ASSUME NEW owner \in Sockets, FdsOK, ~Holds(owner), Opening(owner)
  PROVE  /\ FdsOK'
         /\ \A o : Holds(o)' => o = owner \/ Holds(o)
         /\ (\A d \in 0 .. 2 : fds[d] = Std) => \A d \in 0 .. 2 : fds'[d] = Std
<1>1. PICK d \in Descriptors : fds[d] = Free /\ fds' = [fds EXCEPT ![d] = owner]
  BY DEF Opening, Lowest
<1>2. \A e \in Descriptors : fds'[e] = IF e = d THEN owner ELSE fds[e]
  BY <1>1 DEF FdsOK
<1>3. \A e \in Descriptors : fds[e] # owner
  BY DEF Holds
<1>4. FdsOK'
  <2>1. fds' \in [Descriptors -> Sockets \cup {Free, Std}]
    BY <1>1 DEF FdsOK
  <2>2. ASSUME NEW a \in Descriptors, NEW b \in Descriptors,
               fds'[a] \in Sockets, fds'[b] = fds'[a]
        PROVE  a = b
    BY <1>2, <1>3, <2>2 DEF FdsOK
  <2> QED
    BY <2>1, <2>2 DEF FdsOK
<1>5. \A o : Holds(o)' => o = owner \/ Holds(o)
  BY <1>2 DEF Holds
<1>6. Free # Std
  BY DEF Free, Std
<1> QED
  BY <1>1, <1>2, <1>4, <1>5, <1>6, LowestFits

LEMMA ClosingIsSafe ==
  ASSUME NEW owner, owner # Std, FdsOK, Closing(owner)
  PROVE  /\ FdsOK'
         /\ \A o \in Sockets : Holds(o)' => Holds(o)
         /\ (\A d \in 0 .. 2 : fds[d] = Std) => \A d \in 0 .. 2 : fds'[d] = Std
<1>1. \A d \in Descriptors : fds'[d] = IF fds[d] = owner THEN Free ELSE fds[d]
  BY DEF Closing
<1>2. Free \notin Sockets
  BY DEF Free, Sockets, Server, Broker
<1>3. FdsOK'
  <2>1. fds' \in [Descriptors -> Sockets \cup {Free, Std}]
    BY DEF FdsOK, Closing
  <2> QED
    BY <1>1, <1>2, <2>1 DEF FdsOK
<1>4. \A o \in Sockets : Holds(o)' => Holds(o)
  BY <1>1, <1>2 DEF Holds
<1> QED
  BY <1>1, <1>3, <1>4, LowestFits


StdKept == (\A d \in 0 .. 2 : fds[d] = Std) => \A d \in 0 .. 2 : fds'[d] = Std

(* The descriptors of every step.                                          *)
LEMMA FdsStep ==
  ASSUME TypeOK, ClientInv, Next
  PROVE  /\ FdsOK'
         /\ \A r \in Runs : Holds(Broker(r))' => r \in opened'
         /\ pc # "close" => StdKept
<1>1. FdsOK /\ run \in Runs /\ \A r \in Runs : Holds(Broker(r)) => r \in opened
  BY DEF TypeOK, FdsOK, ClientInv
<1>2. \A r \in Runs :
        /\ Server(r) \in Sockets /\ Broker(r) \in Sockets
        /\ Server(r) # Std /\ Broker(r) # Std
        /\ \A q \in Runs : Server(q) # Broker(r) /\ (Broker(q) = Broker(r) => q = r)
  BY Owners
<1>3. CASE UNCHANGED fds /\ opened' = opened
  BY <1>1, <1>3 DEF FdsOK, Holds, StdKept
<1>4. CASE Close
  <2>1. /\ \A d \in Descriptors : fds'[d] \in {fds[d], Free}
        /\ fds' \in [Descriptors -> Sockets \cup {Free, Std}] /\ opened' = opened
    BY <1>1, <1>4 DEF Close, clients, FdsOK
  <2>2. Free \notin Sockets
    BY <1>1, Owners
  <2> QED
    BY <1>1, <1>2, <1>4, <2>1, <2>2 DEF Close, FdsOK, Holds
<1>5. CASE OpenMqtt
  <2>1. CASE Opening(Broker(run)) /\ opened' = opened \cup {run}
    <3>1. ~Holds(Broker(run))
      BY <1>1, <1>5 DEF OpenMqtt, ClientInv
    <3> QED
      BY <1>1, <1>2, <2>1, <3>1, OpeningIsSafe DEF StdKept
  <2> QED
    BY <1>3, <1>5, <2>1 DEF OpenMqtt
<1>6. CASE StopWriter
  BY <1>1, <1>2, <1>6, ClosingIsSafe DEF StopWriter, clients, StdKept
<1>7. CASE Again
  <2>1. CASE Closing(Broker(mqtt)) /\ opened' = opened
    <3>1. Broker(mqtt) # Std
      BY DEF Broker, Std
    <3> QED
      BY <1>1, <1>2, <2>1, <3>1, ClosingIsSafe DEF StdKept
  <2> QED
    BY <1>3, <1>7, <2>1 DEF Again
<1>8. CASE Connect
  <2>1. opened' = opened
    BY <1>8 DEF Connect, clients
  <2>2. CASE WriterOpens
    BY <1>1, <1>2, <2>1, <2>2, OpeningIsSafe DEF WriterOpens, StdKept
  <2>3. CASE WriterCloses
    BY <1>1, <1>2, <2>1, <2>3, ClosingIsSafe DEF WriterCloses, StdKept
  <2>4. ASSUME NEW r \in Runs, ClientOpens(r)
        PROVE  /\ FdsOK' /\ StdKept
               /\ \A q \in Runs : Holds(Broker(q))' => q \in opened'
    <3>1. r \in opened /\ ~Holds(Broker(r)) /\ Opening(Broker(r))
      BY <2>4 DEF ClientOpens, TypeOK
    <3> QED
      BY <1>1, <1>2, <2>1, <3>1, OpeningIsSafe DEF StdKept
  <2>5. ASSUME NEW r \in Runs, ClientCloses(r)
        PROVE  /\ FdsOK' /\ StdKept
               /\ \A q \in Runs : Holds(Broker(q))' => q \in opened'
    BY <1>1, <1>2, <2>1, <2>5, ClosingIsSafe DEF ClientCloses, StdKept
  <2> QED
    BY <1>8, <2>2, <2>3, <2>4, <2>5 DEF Connect
<1>9. CASE ReadConf \/ Fork \/ Setsid \/ Chdir \/ Drop \/ NewWriter \/ Leave \/ Say
  <2>1. UNCHANGED fds /\ opened' = opened
    BY <1>9 DEF ReadConf, Fork, Setsid, Chdir, Drop, NewWriter, Leave, Say, clients
  <2> QED
    BY <1>3, <2>1
<1> QED
  BY <1>4, <1>5, <1>6, <1>7, <1>8, <1>9 DEF Next, Main

LEMMA InitInv == Init => IInv
<1> SUFFICES ASSUME Init
             PROVE  IInv
  OBVIOUS
<1>1. 1 \in Runs
  BY RunsAssumption DEF Runs
<1>2. Std \notin Sockets /\ Free \notin Sockets
  BY <1>1, Owners
<1>3. \A d \in Descriptors : fds[d] \in {Std, Free}
  BY DEF Init
<1>4. \A d \in 0 .. 2 : fds[d] = Std
  BY LowestFits DEF Init
<1>5. \A r \in Runs : ~Holds(Broker(r))
  BY <1>2, <1>3, Owners DEF Holds
<1>6. TypeOK
  <2>1. fds \in [Descriptors -> Sockets \cup {Free, Std}]
    BY DEF Init
  <2>2. user \in [id : {"root", "other", "mmdvm"}, group : {"root", "other", "mmdvm"}]
    BY DEF Init
  <2>3. \A d, e \in Descriptors : fds[d] \in Sockets /\ fds[e] = fds[d] => d = e
    BY <1>2, <1>3
  <2>4. run \in Runs /\ mqtt \in 0 .. run /\ pc \in Steps
    BY <1>1 DEF Init, Steps
  <2> QED
    BY <2>1, <2>2, <2>3, <2>4 DEF Init, TypeOK
<1> QED
  BY <1>1, <1>4, <1>5, <1>6
     DEF Init, IInv, ClientInv, ForkInv, UserInv, TextInv, TextExplained,
         ClosesNothingInUse

(* What the main thread keeps to itself.                                   *)
LEMMA OthersStep ==
  ASSUME Connect \/ Say
  PROVE  /\ UNCHANGED <<pc, run, file, daemon, process, thread, clients, closed,
                        daemons, fault>>
         /\ Say => UNCHANGED fds
         /\ Connect => UNCHANGED stray
BY DEF Connect, Say, history

LEMMA TypeNext ==
  ASSUME TypeOK, ClientInv, Next
  PROVE  TypeOK'
<1>1. FdsOK' /\ FdsOK /\ run \in Runs
  BY FdsStep DEF TypeOK, FdsOK
<1>2. /\ stray' \subseteq Sockets /\ closed' \subseteq Sockets
      /\ daemons' \subseteq Runs
  <2>1. \A d : stray \cup ({fds[d]} \cap Sockets) \subseteq Sockets
    BY DEF TypeOK
  <2>2. \A r \in Runs : Broker(r) \in Sockets
    BY Owners
  <2>3. {Broker(r) : r \in alive} \subseteq Sockets
    BY <2>2 DEF TypeOK
  <2> QED
    BY <1>1, <2>1, <2>3
       DEF TypeOK, Next, Main, Connect, Say, ReadConf, Fork, Setsid, Chdir, Drop,
           Close, NewWriter, OpenMqtt, Leave, StopWriter, Again, Fail, Text, history
<1>3. /\ pc' \in Steps /\ run' \in Runs /\ file' = file
      /\ daemon' \in BOOLEAN /\ thread' \in BOOLEAN
      /\ cwd' \in {"start", "root"} /\ fault' \in {"none", "lostThread"}
  <2>1. CASE Connect \/ Say
    BY <2>1, OthersStep DEF TypeOK, Connect, Say, process
  <2>2. CASE Again /\ UNCHANGED file
    BY <1>1, <2>2, RunsAssumption DEF TypeOK, Again, Steps, process, Runs
  <2>3. CASE Main /\ UNCHANGED <<file, run>> /\ ~Again
    <3>1. pc' \in Steps
      BY <2>3 DEF Main, ReadConf, Fork, Setsid, Chdir, Drop, Close, NewWriter,
                  OpenMqtt, Leave, StopWriter, Fail, Steps
    <3>2. daemon' \in BOOLEAN
      BY <2>3 DEF TypeOK, Main, ReadConf, Fork, Setsid, Chdir, Drop, Close, NewWriter,
                  OpenMqtt, Leave, StopWriter
    <3>3. thread' \in BOOLEAN
      BY <2>3 DEF TypeOK, Main, ReadConf, Fork, Setsid, Chdir, Drop, Close, NewWriter,
                  OpenMqtt, Leave, StopWriter
    <3>4. cwd' \in {"start", "root"} /\ fault' = fault
      BY <2>3 DEF TypeOK, Main, ReadConf, Fork, Setsid, Chdir, Drop, Close, NewWriter,
                  OpenMqtt, Leave, StopWriter, process
    <3> QED
      BY <1>1, <2>3, <3>1, <3>2, <3>3, <3>4 DEF TypeOK
  <2> QED
    BY <2>1, <2>2, <2>3 DEF Next, Main
<1>4. user' \in [id : {"root", "other", "mmdvm"}, group : {"root", "other", "mmdvm"}]
  <2>1. CASE Drop
    BY <2>1 DEF TypeOK, Drop
  <2>2. CASE user' = user
    BY <2>2 DEF TypeOK
  <2> QED
    BY <2>1, <2>2
       DEF Next, Main, Connect, Say, ReadConf, Fork, Setsid, Chdir, Close, NewWriter,
           OpenMqtt, Leave, StopWriter, Again, process
<1>5. /\ alive' \subseteq opened' /\ opened' \subseteq Runs /\ mqtt' \in 0 .. run'
  BY <1>1, RunsAssumption
     DEF TypeOK, Next, Main, Connect, Say, ReadConf, Fork, Setsid, Chdir, Drop,
         Close, NewWriter, OpenMqtt, Leave, StopWriter, Again, Fail, clients, Runs
<1> QED
  BY <1>1, <1>2, <1>3, <1>4, <1>5 DEF TypeOK, FdsOK


LEMMA ClientNext ==
  ASSUME TypeOK, ClientInv, Next
  PROVE  ClientInv'
<1>1. run \in Runs /\ Runs = 1 .. MaxRuns /\ MaxRuns \in Nat
  BY RunsAssumption DEF TypeOK, Runs
<1>2. \A r \in Runs : Holds(Broker(r))' => r \in opened'
  BY FdsStep
<1>3. fault = "none"
  BY DEF Next
<1>4. CASE Fork /\ UNCHANGED run
  BY <1>1, <1>2, <1>3, <1>4 DEF Fork, Fail, ClientInv
<1>5. CASE OpenMqtt /\ UNCHANGED run
  <2>1. /\ run \notin opened /\ opened \subseteq 1 .. run /\ fault' = "none"
        /\ mqtt' = run /\ pc' \in {"serve", "stop"}
        /\ \/ opened' = opened \cup {run} /\ alive' = alive \cup {run}
           \/ UNCHANGED <<opened, alive>>
    BY <1>3, <1>5 DEF OpenMqtt, ClientInv
  <2>2. opened' \subseteq 1 .. run
    <3>1. run \in 1 .. run
      BY <1>1
    <3> QED
      BY <2>1, <3>1
  <2>3. run \in opened' => run \in alive' /\ mqtt' = run
    BY <2>1
  <2>4. pc' \notin {"conf", "fork", "setsid", "chdir", "drop", "close", "writer", "mqtt"}
    BY <2>1
  <2>5. run' = run
    BY <1>5
  <2> QED
    BY <1>2, <2>1, <2>2, <2>3, <2>4, <2>5 DEF ClientInv
<1>6. CASE Again
  BY <1>1, <1>2, <1>3, <1>6 DEF Again, ClientInv, TypeOK
<1>7. CASE Connect \/ Say
  BY <1>2, <1>7, OthersStep DEF ClientInv, clients
<1>8. CASE /\ ReadConf \/ Setsid \/ Chdir \/ Drop \/ Close \/ NewWriter \/ Leave
              \/ StopWriter
           /\ UNCHANGED run
  <2>1. UNCHANGED <<run, opened, alive, mqtt, fault>>
    BY <1>8 DEF ReadConf, Setsid, Chdir, Drop, Close, NewWriter, Leave, StopWriter,
                clients
  <2>2. /\ pc' \in {"conf", "fork", "setsid", "chdir", "drop", "close", "writer",
                    "mqtt"} =>
             pc \in {"conf", "fork", "setsid", "chdir", "drop", "close", "writer"}
        /\ pc # "exited"
    BY <1>8 DEF ReadConf, Setsid, Chdir, Drop, Close, NewWriter, Leave, StopWriter, Fail
  <2> QED
    BY <1>2, <1>3, <2>1, <2>2 DEF ClientInv
<1> QED
  BY <1>4, <1>5, <1>6, <1>7, <1>8 DEF Next, Main


LEMMA ForkNext ==
  ASSUME TypeOK, ClientInv, ForkInv, Next
  PROVE  ForkInv'
<1>1. CASE Connect \/ Say
  BY <1>1, OthersStep DEF ForkInv, clients
<1>2. CASE Again
  <2>1. 0 \notin opened
    BY DEF TypeOK, Runs
  <2>2. pc' \in {"conf", "exited", "again"} /\ mqtt' \in {mqtt, 0}
        /\ UNCHANGED <<opened, alive, daemons>>
    BY <1>2 DEF Again, history
  <2> QED
    BY <2>1, <2>2 DEF ForkInv
<1>3. CASE Fork /\ UNCHANGED run
  <2>1. CASE pc' = "setsid" /\ daemons' = daemons \cup {run} /\ alive' = {}
    BY <1>3, <2>1 DEF Fork, ForkInv, ClientInv
  <2>2. CASE Fail /\ UNCHANGED alive
    BY <1>3, <2>2 DEF Fork, Fail, ForkInv
  <2> QED
    BY <1>3, <2>1, <2>2 DEF Fork
<1>4. CASE OpenMqtt /\ UNCHANGED run
  BY <1>4 DEF OpenMqtt, ForkInv, ClientInv
<1>5. CASE ReadConf /\ UNCHANGED run
  BY <1>5 DEF ReadConf, Fail, ForkInv, clients, history
<1>6. CASE (Setsid \/ Chdir \/ Drop \/ Close \/ NewWriter \/ Leave \/ StopWriter)
             /\ UNCHANGED run
  <2>1. UNCHANGED <<opened, alive, mqtt, daemons, daemon>>
    BY <1>6 DEF Setsid, Chdir, Drop, Close, NewWriter, Leave, StopWriter, Fail,
                clients, history
  <2>2. pc' # "fork" /\ (pc' \in {"setsid", "chdir", "drop", "close"} =>
                           pc \in {"setsid", "chdir", "drop"})
    BY <1>6 DEF Setsid, Chdir, Drop, Close, NewWriter, Leave, StopWriter, Fail
  <2>3. pc' \in {"writer", "mqtt", "serve"} => pc \in {"close", "writer"}
    BY <1>6 DEF Setsid, Chdir, Drop, Close, NewWriter, Leave, StopWriter, Fail
  <2> QED
    BY <1>6, <2>1, <2>2, <2>3 DEF ForkInv
<1> QED
  BY <1>1, <1>2, <1>3, <1>4, <1>5, <1>6 DEF Next, Main

LEMMA UserNext ==
  ASSUME TypeOK, ForkInv, UserInv, Next
  PROVE  UserInv'
<1>1. CASE Connect \/ Say
  BY <1>1, OthersStep DEF UserInv, process
<1>2. CASE Again
  BY <1>2 DEF Again, UserInv, process, history
<1>3. CASE Drop
  <2>1. UNCHANGED <<daemon, daemons, cwd>> /\ cwd = "root" /\ daemons # {}
    BY <1>3 DEF Drop, Fail, UserInv, history
  <2>2. user' \in [id : {"root", "other", "mmdvm"}, group : {"root", "other", "mmdvm"}]
    BY <1>3 DEF Drop, TypeOK
  <2>3. user'.id # "root" => user'.group = user'.id
    BY <1>3 DEF Drop, TypeOK, UserInv
  <2>4. pc' = "close" => user'.id # "root"
    BY <1>3 DEF Drop, Fail
  <2>5. pc' \in {"close", "again"}
    BY <1>3 DEF Drop, Fail
  <2> QED
    BY <2>1, <2>3, <2>4, <2>5 DEF UserInv
<1>4. CASE Fork
  BY <1>4 DEF Fork, Fail, UserInv, process
<1>5. CASE Chdir
  BY <1>5 DEF Chdir, Fail, UserInv, ForkInv, history
<1>6. CASE ReadConf \/ Setsid
  BY <1>6 DEF ReadConf, Setsid, Fail, UserInv, process, history
<1>7. CASE Close \/ NewWriter \/ OpenMqtt \/ Leave \/ StopWriter
  <2>1. UNCHANGED <<user, cwd, daemon, daemons>>
    BY <1>7 DEF Close, NewWriter, OpenMqtt, Leave, StopWriter, process, history
  <2>2. /\ pc' \in {"writer", "mqtt", "serve"} => pc \in {"close", "writer", "mqtt"}
        /\ pc' \notin {"drop", "close"}
    BY <1>7 DEF Close, NewWriter, OpenMqtt, Leave, StopWriter
  <2> QED
    BY <2>1, <2>2 DEF UserInv
<1> QED
  BY <1>1, <1>2, <1>3, <1>4, <1>5, <1>6, <1>7 DEF Next, Main

LEMMA TextNext ==
  ASSUME TypeOK, ClientInv, ForkInv, TextInv, Next
  PROVE  TextInv'
<1> SUFFICES ASSUME daemons' = {}
             PROVE  (\A d \in 0 .. 2 : fds'[d] = Std) /\ stray' = {}
  BY DEF TextInv, TextExplained
<1>1. daemons = {}
  BY DEF Next, Main, ReadConf, Fork, Setsid, Chdir, Drop, Close, NewWriter, OpenMqtt,
         Leave, StopWriter, Again, Connect, Say, Fail, history
<1>2. \A d \in 0 .. 2 : fds[d] = Std
  BY <1>1 DEF TextInv
<1>3. pc # "close"
  BY <1>1 DEF ForkInv
<1>4. Std \notin Sockets
  BY DEF Std, Sockets, Server, Broker
<1>5. \A d \in {1, 2} : stray \cup ({fds[d]} \cap Sockets) = {}
  BY <1>1, <1>2, <1>4 DEF TextInv, TextExplained
<1>6. stray = {}
  BY <1>1 DEF TextInv, TextExplained
<1>7. stray' = {}
  BY <1>5, <1>6
     DEF Next, Main, ReadConf, Fork, Setsid, Chdir, Drop, Close, NewWriter, OpenMqtt,
         Leave, StopWriter, Again, Connect, Say, Fail, Text, history
<1> QED
  BY <1>2, <1>3, <1>7, FdsStep DEF StdKept

LEMMA ClosedNext ==
  ASSUME ForkInv, ClosesNothingInUse, Next
  PROVE  ClosesNothingInUse'
<1>1. CASE Close
  BY <1>1 DEF Close, ForkInv, ClosesNothingInUse
<1>2. CASE closed' = closed
  BY <1>2 DEF ClosesNothingInUse
<1> QED
  BY <1>1, <1>2
     DEF Next, Main, ReadConf, Fork, Setsid, Chdir, Drop, NewWriter, OpenMqtt, Leave,
         StopWriter, Again, Connect, Say, Fail, history

LEMMA StutterStep == IInv /\ UNCHANGED vars => IInv'
BY DEF IInv, TypeOK, ClientInv, ForkInv, UserInv, TextInv, TextExplained,
       ClosesNothingInUse, Holds, vars, process, clients, history

LEMMA Invariance == Spec => []IInv
<1>1. IInv /\ Next => IInv'
  BY TypeNext, ClientNext, ForkNext, UserNext, TextNext, ClosedNext DEF IInv
<1> QED
  BY <1>1, InitInv, StutterStep, PTL DEF Spec

-----------------------------------------------------------------------------

(* A socket never has two descriptors, and m_mqtt is never the client of a *)
(* run to come (TCPSocket.cpp:93-119, APRSGateway.cpp:220-223).            *)
THEOREM TypeCorrect == Spec => []TypeOK
BY Invariance, PTL DEF IInv

(* A daemon serves as mmdvm, or the user who started it, from /            *)
(* (APRSGateway.cpp:151-212).                                              *)
THEOREM DaemonsServeDropped == Spec => []DaemonServes
<1>1. IInv => DaemonServes
  BY DEF IInv, ForkInv, UserInv, DaemonServes
<1> QED
  BY <1>1, Invariance, PTL

(* Only daemons write text to sockets, and the descriptors a later daemon  *)
(* start closes again are no connection in use (APRSGateway.cpp:151-211,   *)
(* Log.cpp:88-91).                                                         *)
THEOREM OnlyDaemonsStray == Spec => []DescriptorsExplained
<1>1. IInv => DescriptorsExplained
  BY DEF IInv, TextInv, DescriptorsExplained
<1> QED
  BY <1>1, Invariance, PTL

(* LogFinalise() joins a thread that is gone only behind a daemon start    *)
(* without a client behind it (Log.cpp:50-57, APRSGateway.cpp:151-223).    *)
THEOREM OnlyForksLoseThreads == Spec => []LostThreadExplained
<1>1. IInv => LostThreadExplained
  BY DEF IInv, TypeOK, ClientInv, ForkInv, LostThreadExplained
<1> QED
  BY <1>1, Invariance, PTL

(* A restart fails to read the file only behind a daemon start             *)
(* (APRSGateway.cpp:141-145, 170-195).                                     *)
THEOREM OnlyDaemonsLoseTheFile == Spec => RestartReads
<1> DEFINE Reads == pc = "conf" /\ pc' = "again" =>
                      /\ daemons # {}
                      /\ file.relative \/ (file.private /\ user.id = "mmdvm")
<1>1. IInv /\ [Next]_vars => [Reads]_vars
  <2> SUFFICES ASSUME IInv, Next, pc = "conf", pc' = "again"
               PROVE  /\ daemons # {}
                      /\ file.relative \/ (file.private /\ user.id = "mmdvm")
    BY DEF vars
  <2>1. ~Readable
    BY OthersStep DEF Next, Main, ReadConf, Fork, Setsid, Chdir, Drop, Close,
       NewWriter, OpenMqtt, Leave, StopWriter, Again
  <2> QED
    BY <2>1 DEF Readable, IInv, TypeOK, UserInv
<1> QED
  BY <1>1, Invariance, PTL DEF Spec, RestartReads

=============================================================================
