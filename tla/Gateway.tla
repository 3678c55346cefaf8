------------------------------ MODULE Gateway ------------------------------
(***************************************************************************)
(* The life of the program (APRSGateway.cpp): main() runs the gateway, and *)
(* runs it again after a SIGHUP; run() creates the writer and the MQTT     *)
(* client, serves until a signal comes, and takes the writer down.  Two    *)
(* kinds of event come in between at any moment: signals, whose handler    *)
(* sets m_killed and m_signal, and messages, which the thread of an MQTT   *)
(* client hands to onAPRS().                                               *)
(*                                                                         *)
(* Every run has an MQTT client of its own, numbered like the run.  Only   *)
(* the one m_mqtt points to is ever closed, in LogFinalise(); all of them  *)
(* have the same client name, so the broker serves the one that connected  *)
(* last.  The program is modelled in the foreground (Daemon=0).            *)
(***************************************************************************)
EXTENDS Integers

CONSTANTS
  MaxRuns,     \* bound: the number of times main() runs the gateway
  MaxSignals   \* bound: the number of signals the program receives

ASSUME BoundsAssumption == MaxRuns \in Nat \ {0} /\ MaxSignals \in Nat

VARIABLES
  pc,          \* where main() and run() are
  run,         \* the number of the current run
  killed,      \* m_killed
  signal,      \* m_signal
  handling,    \* for each signal, its handlers that have set m_killed only
  signals,     \* the number of signals so far
  gateway,     \* what the pointer gateway points to
  writer,      \* what its m_writer points to
  thread,      \* the writer thread, "failed" when there is none
  mqtt,        \* m_mqtt: the run its client belongs to, or 0
  client,      \* the state of the client of each run
  session,     \* the client the broker serves, or 0
  call,        \* where each client's thread is in onAPRS()
  holds,       \* the run whose writer that onAPRS() is about to use
  fault        \* what onAPRS() met in place of a writer, or stop() in place
               \* of a thread

objects == <<gateway, writer, thread>>
broker  == <<client, session>>
calls   == <<call, holds>>
caught  == <<killed, signal, handling, signals>>
vars == <<pc, run, caught, objects, mqtt, broker, calls, fault>>

Runs == 1 .. MaxRuns
Signals == {"HUP", "TERM"}
Pointers == {"null", "live", "freed"}
Steps ==
  {"resetSignal", "resetKilled", "new", "conf", "newWriter", "newMqtt", "open",
   "loop", "stopWriter", "deleteWriter", "deleteGateway", "again", "finalise",
   "exited"}

-----------------------------------------------------------------------------
(* main() and run().                                                       *)

\* m_signal = 0; m_killed = false;
ResetSignal ==
  /\ pc = "resetSignal"
  /\ signal' = "none"
  /\ pc' = "resetKilled"
  /\ UNCHANGED <<run, killed, handling, signals, objects, mqtt, broker>>

ResetKilled ==
  /\ pc = "resetKilled"
  /\ killed' = FALSE
  /\ pc' = "new"
  /\ UNCHANGED <<run, signal, handling, signals, objects, mqtt, broker>>

\* gateway = new CAPRSGateway(iniFile)
NewGateway ==
  /\ pc = "new"
  /\ run < MaxRuns
  /\ run' = run + 1
  /\ gateway' = "live" /\ writer' = "null" /\ thread' = "none"
  /\ pc' = "conf"
  /\ UNCHANGED <<caught, mqtt, broker>>

\* Mutant: the client before the writer.
MutReadConf ==
  /\ pc = "conf"
  /\ pc' \in {"newMqtt", "deleteGateway"}
  /\ UNCHANGED <<run, caught, objects, mqtt, broker>>

\* m_conf.read()
ReadConf ==
  /\ pc = "conf"
  /\ pc' \in {"newWriter", "deleteGateway"}
  /\ UNCHANGED <<run, caught, objects, mqtt, broker>>

\* Mutant: m_killed is cleared during the set-up.
MutNewWriter ==
  /\ pc = "newWriter"
  /\ writer' = "live" /\ thread' \in {"running", "failed"}
  /\ killed' = FALSE
  /\ pc' = "newMqtt"
  /\ UNCHANGED <<run, signal, handling, signals, gateway, mqtt, broker>>

\* m_writer = new CAPRSWriterThread(...), m_writer->start(), which returns
\* true even when pthread_create() has failed.
NewWriter ==
  /\ pc = "newWriter"
  /\ writer' = "live" /\ thread' \in {"running", "failed"}
  /\ pc' = "newMqtt"
  /\ UNCHANGED <<run, caught, gateway, mqtt, broker>>

\* m_mqtt = new CMQTTConnection(...): the client of the last run is forgotten.
NewMqtt ==
  /\ pc = "newMqtt"
  /\ mqtt' = run
  /\ client' = [client EXCEPT ![run] = "new"]
  /\ pc' = "open"
  /\ UNCHANGED <<run, caught, objects, session>>

\* Mutant: the way out that does not stop the writer.
MutOpenMqtt ==
  /\ pc = "open"
  /\ \/ client' = [client EXCEPT ![run] = "running"] /\ pc' = "loop"
     \/ UNCHANGED client /\ pc' = "deleteWriter"
  /\ UNCHANGED <<run, caught, objects, mqtt, session>>

\* m_mqtt->open() starts the client's thread, or fails and leaves none.
OpenMqtt ==
  /\ pc = "open"
  /\ \/ client' = [client EXCEPT ![run] = "running"] /\ pc' = "loop"
     \/ UNCHANGED client /\ pc' = "stopWriter"
  /\ UNCHANGED <<run, caught, objects, mqtt, session>>

\* while (!m_killed)
Leave ==
  /\ pc = "loop"
  /\ killed
  /\ pc' = "stopWriter"
  /\ UNCHANGED <<run, caught, objects, mqtt, broker>>

\* Mutant: stop() does not wait.
MutStopWriter ==
  /\ pc = "stopWriter" /\ thread = "running"
  /\ pc' = "deleteWriter"
  /\ UNCHANGED <<run, caught, objects, mqtt, broker>>

\* m_writer->stop() returns when the thread has ended.
StopWriter ==
  /\ pc = "stopWriter" /\ thread = "running"
  /\ thread' = "ended"
  /\ pc' = "deleteWriter"
  /\ UNCHANGED <<run, caught, gateway, writer, mqtt, broker>>

\* What pthread_join() does without a thread to join is not defined.
JoinNothing ==
  /\ pc = "stopWriter" /\ thread = "failed"
  /\ fault' = "noThread"
  /\ UNCHANGED <<pc, run, caught, objects, mqtt, broker, calls>>

\* delete m_writer, and run() returns.
DeleteWriter ==
  /\ pc = "deleteWriter"
  /\ writer' = "freed"
  /\ pc' = "deleteGateway"
  /\ UNCHANGED <<run, caught, gateway, thread, mqtt, broker>>

DeleteGateway ==
  /\ pc = "deleteGateway"
  /\ gateway' = "freed"
  /\ pc' = "again"
  /\ UNCHANGED <<run, caught, writer, thread, mqtt, broker>>

\* Mutant: every signal restarts.
MutAgain ==
  /\ pc = "again"
  /\ pc' = IF signal # "none" THEN "resetSignal" ELSE "finalise"
  /\ UNCHANGED <<run, caught, objects, mqtt, broker>>

\* while (m_signal == 1)
Again ==
  /\ pc = "again"
  /\ pc' = IF signal = "HUP" THEN "resetSignal" ELSE "finalise"
  /\ UNCHANGED <<run, caught, objects, mqtt, broker>>

\* LogFinalise() closes the client m_mqtt points to; main() returns, and
\* whatever threads there are end with the program.
Finalise ==
  /\ pc = "finalise"
  /\ client' = IF mqtt = 0 THEN client ELSE [client EXCEPT ![mqtt] = "closed"]
  /\ session' = IF session = mqtt THEN 0 ELSE session
  /\ mqtt' = 0
  /\ pc' = "exited"
  /\ UNCHANGED <<run, caught, objects>>

Main ==
  \/ /\ \/ ResetSignal \/ ResetKilled \/ NewGateway \/ ReadConf \/ NewWriter
        \/ NewMqtt \/ OpenMqtt \/ Leave \/ StopWriter \/ DeleteWriter
        \/ DeleteGateway \/ Again \/ Finalise
     /\ UNCHANGED <<calls, fault>>
  \/ JoinNothing

-----------------------------------------------------------------------------
(* sigHandler(), on whichever thread the signal finds.  The same signal is *)
(* held back on that thread only while its handler runs.                   *)

SignalArrives(s) ==
  /\ signals < MaxSignals
  /\ signals' = signals + 1
  /\ killed' = TRUE
  /\ handling' = [handling EXCEPT ![s] = @ + 1]
  /\ UNCHANGED signal

SignalNoted(s) ==
  /\ handling[s] > 0
  /\ signal' = s
  /\ handling' = [handling EXCEPT ![s] = @ - 1]
  /\ UNCHANGED <<killed, signals>>

Handler ==
  /\ \E s \in Signals : SignalArrives(s) \/ SignalNoted(s)
  /\ UNCHANGED <<pc, run, objects, mqtt, broker, calls, fault>>

-----------------------------------------------------------------------------
(* The thread of the client of run r, and the broker.                      *)

\* onConnect() without an error: the broker drops the client that was
\* connected under the same name before.
Subscribe(r) ==
  /\ client[r] = "running" /\ call[r] = "none"
  /\ session # r
  /\ session' = r
  /\ UNCHANGED <<client, calls, fault>>

\* Mutant: a client that ends and stays subscribed.
MutRefuse(r) ==
  /\ client[r] = "running" /\ call[r] = "none"
  /\ client' = [client EXCEPT ![r] = "ended"]
  /\ UNCHANGED <<session, calls, fault>>

\* onConnect() with an error, or a subscription that fails: the client
\* disconnects, and its thread ends.
Refuse(r) ==
  /\ client[r] = "running" /\ call[r] = "none"
  /\ client' = [client EXCEPT ![r] = "ended"]
  /\ session' = IF session = r THEN 0 ELSE session
  /\ UNCHANGED <<calls, fault>>

\* The connection is lost, whatever the client's thread is doing; it connects
\* again by itself.
Lose(r) ==
  /\ client[r] = "running" /\ session = r
  /\ session' = 0
  /\ UNCHANGED <<client, calls, fault>>

\* onMessage() calls onAPRS().
Deliver(r) ==
  /\ client[r] = "running" /\ call[r] = "none"
  /\ session = r
  /\ call' = [call EXCEPT ![r] = "onAPRS"]
  /\ UNCHANGED <<broker, holds, fault>>

\* onAPRS() and writeAPRS(): gateway and m_writer are loaded, the latter
\* asserted not to be null.
FindWriter(r) ==
  /\ call[r] = "onAPRS" /\ client[r] = "running"
  /\ IF gateway = "live" /\ writer # "null"
       THEN /\ call' = [call EXCEPT ![r] = "write"]
            /\ holds' = [holds EXCEPT ![r] = run]
            /\ UNCHANGED fault
       ELSE /\ fault' = IF gateway = "live" THEN "nullWriter" ELSE "freedGateway"
            /\ UNCHANGED calls
  /\ UNCHANGED broker

\* m_writer->write()
UseWriter(r) ==
  /\ call[r] = "write" /\ client[r] = "running"
  /\ IF holds[r] = run /\ writer = "live"
       THEN /\ call' = [call EXCEPT ![r] = "none"]
            /\ holds' = [holds EXCEPT ![r] = 0]
            /\ UNCHANGED fault
       ELSE fault' = "freedWriter" /\ UNCHANGED calls
  /\ UNCHANGED broker

Client(r) ==
  /\ \/ Subscribe(r) \/ Refuse(r) \/ Lose(r)
     \/ Deliver(r) \/ FindWriter(r) \/ UseWriter(r)
  /\ UNCHANGED <<pc, run, caught, objects, mqtt>>

-----------------------------------------------------------------------------

Init ==
  /\ pc = "resetSignal" /\ run = 0
  /\ killed = FALSE /\ signal = "none" /\ signals = 0
  /\ handling = [s \in Signals |-> 0]
  /\ gateway = "null" /\ writer = "null" /\ thread = "none"
  /\ mqtt = 0
  /\ client = [r \in Runs |-> "none"] /\ session = 0
  /\ call = [r \in Runs |-> "none"] /\ holds = [r \in Runs |-> 0]
  /\ fault = "none"

\* Behind a fault the program is undefined, or has aborted.
Running == pc # "exited" /\ fault = "none"

Next ==
  /\ Running
  /\ Main \/ Handler \/ \E r \in Runs : Client(r)

Spec == Init /\ [][Next]_vars

-----------------------------------------------------------------------------
(* Properties.                                                             *)

\* Types; m_mqtt is never the client of a run to come, and the broker never
\* serves a client whose thread has ended.
TypeOK ==
  /\ pc \in Steps
  /\ run \in 0 .. MaxRuns /\ mqtt \in 0 .. run /\ session \in 0 .. run
  /\ killed \in BOOLEAN /\ signal \in Signals \cup {"none"}
  /\ handling \in [Signals -> Nat] /\ signals \in 0 .. MaxSignals
  /\ gateway \in Pointers /\ writer \in Pointers
  /\ thread \in {"none", "running", "failed", "ended"}
  /\ client \in [Runs -> {"none", "new", "running", "ended", "closed"}]
  /\ call \in [Runs -> {"none", "onAPRS", "write"}]
  /\ holds \in [Runs -> 0 .. MaxRuns]
  /\ fault \in {"none", "nullWriter", "freedWriter", "freedGateway", "noThread"}
  /\ session # 0 => client[session] = "running"

\* run() takes things down in a safe order on every way out: the writer is
\* deleted behind the join of its thread only, and before the gateway that
\* holds it; at exit no client is left running but those whose m_mqtt a
\* restart has overwritten.
Lifetimes ==
  /\ writer = "freed" => thread = "ended"
  /\ gateway = "freed" => writer # "live"
  /\ pc = "exited" =>
       \A r \in Runs : client[r] = "running" =>
                        \E s \in r + 1 .. run : client[s] # "none"

\* A message finds no writer, or one that is gone, in two cases only: after
\* run() has deleted the writer while the client stays open, and after a
\* restart, through the client that an earlier run has left running.  stop()
\* finds no thread only when it could not be made.
FaultsExplained ==
  CASE fault = "none"     -> TRUE
    [] fault = "noThread" -> thread = "failed"
    [] OTHER -> writer = "freed" \/ \E r \in 1 .. run - 1 : client[r] = "running"

\* stop() returns whenever run() calls it, as far as a server lets it: what
\* that takes is StopReturns of module WriterThread.
StopsReturn == []<>(pc # "stopWriter")

\* A signal that comes after m_killed was cleared, even while run() is still
\* setting up, ends that run (APRSGateway.cpp:101, 239).
SignalEndsRun ==
  StopsReturn =>
    ((killed /\ pc \notin {"resetSignal", "resetKilled"})
       ~> (pc \in {"resetSignal", "exited"} \/ fault # "none"))

\* From the first line of its handler on, a signal that m_killed tells of
\* behind the resets is obeyed: SIGINT and SIGTERM end the program, SIGHUP
\* runs the gateway again (APRSGateway.cpp:65-69, 108-126, 239).  There are
\* two exceptions.  m_signal holds one signal, and the last handler to store
\* it wins.  And main() may come to look at it while the handler of a SIGHUP
\* is still between its two stores: it reads 0, and the program ends.
Caught(s) ==
  /\ killed
  /\ handling[s] > 0 \/ signal = s
  /\ pc \notin {"resetSignal", "resetKilled", "new", "finalise", "exited"}
TermEnds ==
  Caught("TERM") ~> (pc = "exited" \/ signal = "HUP" \/ fault # "none")
HupRestarts ==
  \A r \in 1 .. MaxRuns - 1 :
    (run = r /\ Caught("HUP"))
      ~> \/ run = r + 1 \/ signal = "TERM" \/ fault # "none"
         \/ pc = "finalise" /\ handling["HUP"] > 0
SignalsObeyed == StopsReturn => TermEnds /\ HupRestarts

\* assert(m_writer != nullptr) in writeAPRS().
WriterKnown == fault # "nullWriter"

=============================================================================
