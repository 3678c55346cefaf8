----------------------------- MODULE GatewayLog -----------------------------
(***************************************************************************)
(* The log of the program, composed with its life (module Gateway): Log()  *)
(* and WriteJSON() hand their text to publish() of the client m_mqtt       *)
(* points to.  They are called by main(), by the writer thread and, when   *)
(* the ring buffer refuses a frame, by the thread of an MQTT client in     *)
(* writeAPRS().  Nothing keeps m_mqtt from changing meanwhile: run()       *)
(* overwrites it and LogFinalise() deletes what it points to.              *)
(***************************************************************************)
EXTENDS Gateway

VARIABLES
  connected,   \* m_connected of the client of each run
  log,         \* for each thread, the client it is publishing with, or 0
  tested,      \* the threads that have found m_connected set
  gone         \* a thread has met no client, a deleted one, or no m_mosq

logging == <<log, tested>>
logVars == <<vars, connected, logging, gone>>

\* The writer thread is 0, the thread of the client of run r is r.
Threads == 0 .. MaxRuns

\* m_mosq is there from the end of open() to close().
Usable(c) == client[c] \in {"running", "ended"}

-----------------------------------------------------------------------------
(* Log() and WriteJSON() on the writer thread and on those of the clients. *)

\* m_mqtt is not null, and the level of the text is high enough.
LogBegin(t) ==
  /\ log[t] = 0 /\ mqtt # 0 /\ pc # "exited"
  /\ IF t = 0 THEN thread = "running"
     ELSE client[t] = "running" /\ call[t] = "write" /\ writer = "live"
  /\ log' = [log EXCEPT ![t] = mqtt]
  /\ UNCHANGED <<tested, gone>>

\* m_mqtt, which may be loaded a second time, and its m_connected.
LogTest(t) ==
  /\ log[t] # 0 /\ t \notin tested
  /\ \E c \in {log[t], mqtt} :
       IF c # 0 /\ client[c] # "closed"
         THEN /\ log' = [log EXCEPT ![t] = IF connected[c] THEN c ELSE 0]
              /\ tested' = IF connected[c] THEN tested \cup {t} ELSE tested
              /\ UNCHANGED gone
         ELSE gone' = TRUE /\ UNCHANGED logging

\* mosquitto_publish(m_mosq)
LogPublish(t) ==
  /\ t \in tested
  /\ gone' = (gone \/ ~Usable(log[t]))
  /\ log' = [log EXCEPT ![t] = 0]
  /\ tested' = tested \ {t}

\* They go on while the program is coming to its end.
Log(t) ==
  /\ fault = "none" /\ ~gone
  /\ LogBegin(t) \/ LogTest(t) \/ LogPublish(t)
  /\ UNCHANGED <<vars, connected>>

-----------------------------------------------------------------------------
(* The steps of Gateway, with what they mean to the log.                   *)

\* What main() logs itself: nothing can delete the client meanwhile.
MainPublishes ==
  gone' = (mqtt # 0 /\ connected[mqtt] /\ ~Usable(mqtt))

\* main() logs when its loop begins and ends, and what the signal was.
MainSteps ==
  /\ Main
  /\ IF pc \in {"open", "loop", "again"} THEN MainPublishes ELSE UNCHANGED gone
  /\ pc = "stopWriter" => log[0] = 0 \/ fault' # "none"
  /\ UNCHANGED connected
  /\ IF pc = "finalise" /\ mqtt # 0
       THEN \* mosquitto_loop_stop() ends the thread wherever it is.
            /\ log' = [log EXCEPT ![mqtt] = 0]
            /\ tested' = tested \ {mqtt}
       ELSE UNCHANGED logging

\* onConnect() sets m_connected before it subscribes.  The callbacks of a
\* client run on its thread, one behind the other.
ClientSteps(r) ==
  /\ log[r] = 0
  /\ Client(r)
  /\ IF Subscribe(r)
       THEN ~connected[r] /\ connected' = [connected EXCEPT ![r] = TRUE]
       ELSE UNCHANGED connected
  /\ UNCHANGED <<logging, gone>>

\* onDisconnect(), some time after the broker or the network has dropped the
\* client.
Disconnected(r) ==
  /\ connected[r] /\ session # r /\ Usable(r) /\ call[r] = "none"
  /\ connected' = [connected EXCEPT ![r] = FALSE]
  /\ UNCHANGED <<vars, logging, gone>>

-----------------------------------------------------------------------------

LogInit ==
  /\ Init
  /\ connected = [r \in Runs |-> FALSE]
  /\ log = [t \in Threads |-> 0] /\ tested = {} /\ gone = FALSE

LogNext ==
  \/ /\ Running /\ ~gone
     /\ \/ MainSteps
        \/ Handler /\ UNCHANGED <<connected, logging, gone>>
        \/ \E r \in Runs : ClientSteps(r) \/ Disconnected(r)
  \/ \E t \in Threads : Log(t)

LogSpec == LogInit /\ [][LogNext]_logVars

\* main() and the handlers run.  Nothing says that stop(), once called,
\* returns: the writer thread may be held, or go on logging.
LogFairSpec ==
  /\ LogSpec
  /\ WF_logVars(Running /\ ~gone /\ pc # "stopWriter" /\ MainSteps)
  /\ \A s \in Signals :
       WF_logVars(Running /\ ~gone /\ SignalNoted(s) /\ Handler
                    /\ UNCHANGED <<connected, logging, gone>>)

-----------------------------------------------------------------------------
(* Properties.                                                             *)

\* Only after a restart, through the client an earlier run has left running,
\* can publish() meet a client that LogFinalise() has deleted: run() joins
\* the writer thread, and close() the thread of its client, before that, and
\* a client that was never opened is not taken for a connected one
\* (Log.cpp:50-57, 85-106, MQTTConnection.cpp:117-153).
PublishExplained ==
  gone => \E r \in 1 .. run - 1 : client[r] = "running"

=============================================================================
