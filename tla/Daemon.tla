------------------------------- MODULE Daemon -------------------------------
(***************************************************************************)
(* What run() of APRSGateway.cpp does to the process when the              *)
(* configuration says Daemon=1, and what becomes of that in the runs a     *)
(* SIGHUP leads to: the fork leaves only the main thread, the working      *)
(* directory and the user change for good, and the descriptors 0 to 2 are  *)
(* closed and opened by nothing but the next sockets, although the program *)
(* goes on writing text to stdout and stderr.                              *)
(*                                                                         *)
(* The life of the writer and of the MQTT client is that of module         *)
(* Gateway, with the descriptors they hold; a client has one, its other    *)
(* ones are left out.  Nothing else changes the file or its rights.        *)
(***************************************************************************)
EXTENDS Integers

CONSTANT MaxRuns   \* bound: the number of times main() runs the gateway

ASSUME RunsAssumption == MaxRuns \in Nat \ {0}

VARIABLES
  pc,        \* where main() and run() are
  run,       \* the number of the current run
  file,      \* [relative, private]: the name of the .ini file and its rights
  daemon,    \* m_daemon
  user,      \* the user and the group of the process
  cwd,       \* its working directory
  fds,       \* what each descriptor belongs to
  thread,    \* whether there is a writer thread
  opened,    \* the runs whose client has been opened
  alive,     \* those of them whose client has its thread
  mqtt,      \* m_mqtt: the run its client belongs to, or 0
  stray,     \* the sockets text for stdout or stderr has gone to
  closed,    \* the sockets in use that were closed in place of 0, 1 or 2
  daemons,   \* the runs that have been daemons
  fault      \* what close() met in place of a thread

process == <<user, cwd>>
clients == <<opened, alive, mqtt>>
history == <<stray, closed, daemons>>
vars == <<pc, run, file, daemon, process, fds, thread, clients, history, fault>>

Runs == 1 .. MaxRuns
Descriptors == 0 .. MaxRuns + 3
Free == <<"free", 0>>
Std == <<"std", 0>>
Server(r) == <<"server", r>>
Broker(r) == <<"broker", r>>
Sockets == {Server(r) : r \in Runs} \cup {Broker(r) : r \in Runs}
Steps ==
  {"conf", "fork", "setsid", "chdir", "drop", "close", "writer", "mqtt",
   "serve", "stop", "again", "exited"}

\* The system gives out the lowest descriptor that is free.
Lowest(d) ==
  fds[d] = Free /\ \A e \in Descriptors : fds[e] = Free => d <= e
Holds(owner) == \E d \in Descriptors : fds[d] = owner
Opening(owner) ==
  \E d \in Descriptors : Lowest(d) /\ fds' = [fds EXCEPT ![d] = owner]
Closing(owner) == fds' = [d \in Descriptors |-> IF fds[d] = owner THEN Free ELSE fds[d]]

\* Text for stdout or stderr.
Text(d) == stray' = stray \cup ({fds[d]} \cap Sockets)

-----------------------------------------------------------------------------
(* run() up to the writer.                                                 *)

\* Every way out with an error says so on stderr.
Fail ==
  /\ pc' = "again"
  /\ Text(2)
  /\ UNCHANGED <<closed, daemons>>

Readable ==
  /\ file.relative => cwd = "start"
  /\ file.private => user.id # "mmdvm"

\* Mutant: half of a daemon.
MutReadConf ==
  /\ pc = "conf"
  /\ daemon' \in BOOLEAN
  /\ IF Readable
       THEN pc' = (IF daemon' THEN "fork" ELSE "chdir") /\ UNCHANGED history
       ELSE Fail
  /\ UNCHANGED <<process, fds, thread, clients, fault>>

\* m_conf.read(); the file can say something else than the last time.
ReadConf ==
  /\ pc = "conf"
  /\ daemon' \in BOOLEAN
  /\ IF Readable
       THEN pc' = (IF daemon' THEN "fork" ELSE "writer") /\ UNCHANGED history
       ELSE Fail
  /\ UNCHANGED <<process, fds, thread, clients, fault>>

\* Mutant: a process that is a daemon already does not fork.
MutFork ==
  /\ pc = "fork"
  /\ pc' = "setsid"
  /\ daemons' = daemons \cup {run}
  /\ alive' = IF daemons = {} THEN {} ELSE alive
  /\ UNCHANGED <<daemon, process, fds, thread, opened, mqtt, stray, closed, fault>>

\* The parent exits.  The child has its memory and its descriptors, but none
\* of its other threads.
Fork ==
  /\ pc = "fork"
  /\ \/ /\ pc' = "setsid"
        /\ daemons' = daemons \cup {run}
        /\ alive' = {}
        /\ UNCHANGED <<stray, closed>>
     \/ Fail /\ UNCHANGED alive
  /\ UNCHANGED <<daemon, process, fds, thread, opened, mqtt, fault>>

Setsid ==
  /\ pc = "setsid"
  /\ (pc' = "chdir" /\ UNCHANGED history) \/ Fail
  /\ UNCHANGED <<daemon, process, fds, thread, clients, fault>>

Chdir ==
  /\ pc = "chdir"
  /\ \/ cwd' = "root" /\ pc' = "drop" /\ UNCHANGED history
     \/ UNCHANGED cwd /\ Fail
  /\ UNCHANGED <<daemon, user, fds, thread, clients, fault>>

\* Mutant: a setuid() that fails is passed over.
MutDrop ==
  /\ pc = "drop"
  /\ pc' = "close"
  /\ user' \in {[user EXCEPT !.id = "mmdvm", !.group = "mmdvm"], user}
  /\ UNCHANGED <<daemon, cwd, fds, thread, clients, history, fault>>

\* Root becomes mmdvm: getpwnam() or setgid() fails, setuid() fails, root can
\* be had back, or all is well.
Drop ==
  /\ pc = "drop"
  /\ IF user.id # "root"
       THEN pc' = "close" /\ UNCHANGED <<user, history>>
       ELSE \/ UNCHANGED user /\ Fail
            \/ user' = [user EXCEPT !.group = "mmdvm"] /\ Fail
            \/ /\ user' = [id |-> "mmdvm", group |-> "mmdvm"]
               /\ pc' = "close" /\ UNCHANGED history
  /\ UNCHANGED <<daemon, cwd, fds, thread, clients, fault>>

\* The descriptors 0, 1 and 2, whatever they have become.
Close ==
  /\ pc = "close"
  /\ fds' = [d \in Descriptors |-> IF d \in 0 .. 2 THEN Free ELSE fds[d]]
  /\ closed' = closed \cup ({fds[d] : d \in 0 .. 2} \cap
                              {Broker(r) : r \in alive})
  /\ pc' = "writer"
  /\ UNCHANGED <<daemon, process, thread, clients, stray, daemons, fault>>

-----------------------------------------------------------------------------
(* The writer, the client, and the rest of run() and main().               *)

NewWriter ==
  /\ pc = "writer"
  /\ thread' = TRUE
  /\ pc' = "mqtt"
  /\ UNCHANGED <<daemon, process, fds, clients, history, fault>>

\* Mutant: m_mqtt is set by the first run only.
MutOpenMqtt ==
  /\ pc = "mqtt"
  /\ mqtt' = IF mqtt = 0 THEN run ELSE mqtt
  /\ opened' = opened \cup {run} /\ alive' = alive \cup {run}
  /\ Opening(Broker(run))
  /\ pc' = "serve"
  /\ Text(1)
  /\ UNCHANGED <<daemon, process, thread, closed, daemons, fault>>

\* m_mqtt = new CMQTTConnection(...), m_mqtt->open()
OpenMqtt ==
  /\ pc = "mqtt"
  /\ mqtt' = run
  /\ \/ /\ opened' = opened \cup {run} /\ alive' = alive \cup {run}
        /\ Opening(Broker(run))
        /\ pc' = "serve"
     \/ pc' = "stop" /\ UNCHANGED <<fds, opened, alive>>
  /\ Text(1)
  /\ UNCHANGED <<daemon, process, thread, closed, daemons, fault>>

Leave ==
  /\ pc = "serve"
  /\ pc' = "stop"
  /\ UNCHANGED <<daemon, process, fds, thread, clients, history, fault>>

\* m_writer->stop(): the thread closes its socket before it ends.
StopWriter ==
  /\ pc = "stop"
  /\ thread' = FALSE
  /\ Closing(Server(run))
  /\ pc' = "again"
  /\ UNCHANGED <<daemon, process, clients, history, fault>>

\* A SIGHUP was noted, or not; LogFinalise() closes the client m_mqtt points
\* to and waits for its thread.
Again ==
  /\ pc = "again"
  /\ \/ /\ run < MaxRuns
        /\ run' = run + 1 /\ pc' = "conf"
        /\ UNCHANGED <<fds, mqtt, fault>>
     \/ /\ IF mqtt \in opened \ alive
             THEN fault' = "lostThread" /\ UNCHANGED <<pc, fds, mqtt>>
             ELSE /\ Closing(Broker(mqtt))
                  /\ mqtt' = 0 /\ pc' = "exited" /\ UNCHANGED fault
        /\ UNCHANGED run
  /\ UNCHANGED <<daemon, process, thread, opened, alive, history>>

Main ==
  /\ \/ /\ \/ ReadConf \/ Fork \/ Setsid \/ Chdir \/ Drop \/ Close
           \/ NewWriter \/ OpenMqtt \/ Leave \/ StopWriter
        /\ UNCHANGED run
     \/ Again
  /\ UNCHANGED file

-----------------------------------------------------------------------------
(* The other threads.                                                      *)

\* Mutant: open() does not ask whether there is a socket.
MutWriterOpens == thread /\ Opening(Server(run))

\* The socket of the writer thread, opened, lost and opened again.
WriterOpens == thread /\ ~Holds(Server(run)) /\ Opening(Server(run))
WriterCloses == thread /\ Closing(Server(run))

\* A client that loses its connection opens another one.
ClientOpens(r) == r \in alive /\ ~Holds(Broker(r)) /\ Opening(Broker(r))
ClientCloses(r) == r \in alive /\ Closing(Broker(r))

Connect ==
  /\ \/ WriterOpens \/ WriterCloses
     \/ \E r \in Runs : ClientOpens(r) \/ ClientCloses(r)
  /\ UNCHANGED <<pc, run, file, daemon, process, thread, clients, history, fault>>

\* Log() and the callbacks of the client write to stdout, errors go to stderr.
Say ==
  /\ pc \in {"serve", "again"} \/ thread \/ alive # {}
  /\ \E d \in {1, 2} : Text(d)
  /\ UNCHANGED <<pc, run, file, daemon, process, fds, thread, clients, closed,
                 daemons, fault>>

-----------------------------------------------------------------------------

Init ==
  /\ pc = "conf" /\ run = 1 /\ daemon = FALSE
  /\ file \in [relative : BOOLEAN, private : BOOLEAN]
  /\ user \in {[id |-> u, group |-> u] : u \in {"root", "other"}}
  /\ cwd = "start"
  /\ fds = [d \in Descriptors |-> IF d \in 0 .. 2 THEN Std ELSE Free]
  /\ thread = FALSE /\ opened = {} /\ alive = {} /\ mqtt = 0
  /\ stray = {} /\ closed = {} /\ daemons = {} /\ fault = "none"

Next ==
  /\ pc # "exited" /\ fault = "none"
  /\ Main \/ Connect \/ Say

Spec == Init /\ [][Next]_vars

-----------------------------------------------------------------------------
(* Properties.                                                             *)

\* Types; a socket never has two descriptors.
TypeOK ==
  /\ pc \in Steps /\ run \in Runs
  /\ file \in [relative : BOOLEAN, private : BOOLEAN] /\ daemon \in BOOLEAN
  /\ user \in [id : {"root", "other", "mmdvm"}, group : {"root", "other", "mmdvm"}]
  /\ cwd \in {"start", "root"}
  /\ fds \in [Descriptors -> Sockets \cup {Free, Std}]
  /\ \A d, e \in Descriptors : fds[d] \in Sockets /\ fds[e] = fds[d] => d = e
  /\ thread \in BOOLEAN /\ alive \subseteq opened /\ opened \subseteq Runs
  /\ mqtt \in 0 .. run
  /\ stray \subseteq Sockets /\ closed \subseteq Sockets
  /\ daemons \subseteq Runs /\ fault \in {"none", "lostThread"}

\* Whatever the configuration says in the runs before, a daemon serves as its
\* user and group, those of mmdvm if it was started by root.  The supplementary
\* groups it was started with are never dropped, and are not in the model
\* (APRSGateway.cpp:176-204).
DaemonServes ==
  daemon /\ pc \in {"close", "writer", "mqtt", "serve"} =>
    /\ cwd = "root" /\ user.id # "root" /\ user.group = user.id
    /\ run \in daemons /\ alive \subseteq {run}

\* What becomes of 0, 1 and 2: text goes to a socket in their place only when
\* the process is, or was in an earlier run, a daemon, and when a later run
\* closes them again it closes no connection anyone still uses, because the
\* fork has left the earlier clients without their threads
\* (APRSGateway.cpp:151-211, Log.cpp:88-91).
TextExplained == stray # {} => daemons # {}
ClosesNothingInUse == closed = {}
DescriptorsExplained == TextExplained /\ ClosesNothingInUse

\* A run does not find its file only after one that was a daemon, which has
\* left the directory the name was given for, or become a user who may not
\* read it (APRSGateway.cpp:141-145, 170-195).
RestartReads ==
  [][pc = "conf" /\ pc' = "again" =>
       /\ daemons # {}
       /\ file.relative \/ (file.private /\ user.id = "mmdvm")]_vars

\* LogFinalise() waits for a thread the fork has taken away only when neither
\* the run that forked nor one behind it came as far as a client of its own
\* (Log.cpp:50-57).
LostThreadExplained ==
  fault # "none" =>
    /\ run \notin opened
    /\ \E r \in daemons : mqtt < r

=============================================================================
