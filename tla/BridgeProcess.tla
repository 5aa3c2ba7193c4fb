----------------------------- MODULE BridgeProcess -----------------------------
(***************************************************************************)
(* The process: main loads the configuration, Bridge.run gathers the IRC   *)
(* supervisor, the mesh supervisor and the queue drain, a signal starts    *)
(* Bridge.stop, and the process exits when all three have returned.        *)
(*                                                                         *)
(* The two supervisors are the modules IrcClient and MeshSupervisor, which *)
(* share _stopping and the one call of stop(): it stops the IRC client     *)
(* first, and looks at the mesh client when that has returned.             *)
(***************************************************************************)
EXTENDS Config

CONSTANTS NoConfig, \* the configuration is built, and the raw one gone
          Raw,      \* the raw configurations to start from
          Client, NoClient, InitialDelay, MaxDelay, BuiltinTimeout

ASSUME RawAssumption == NoConfig \notin Raw

\* What MeshSupervisor asks of its constants.
ASSUME ClientAssumption == NoClient \notin Client
ASSUME DelayAssumption ==
  InitialDelay \in Nat /\ MaxDelay \in Nat /\ InitialDelay <= MaxDelay
ASSUME TimeoutAssumption == BuiltinTimeout \in BOOLEAN

VARIABLES
  main,     \* how far main() is
  raw,      \* the configuration to load
  exitCode, \* what main returns, once it has; "traceback" if it raises (status 1, too)
  handled,  \* _handle_signal's stop_requested
  drain,    \* whether _run_queue_drain has returned
  stopping, \* Bridge._stopping
  nickserv, ircRun, ircConnect, conn, link, paused, ready, joined, lock, sender,
  clientStopping, ircStop, missed,             \* as in IrcClient
  meshRun, meshConnect, session, radio, watching, listening, signalled, abandoned,
  delay, meshStop                              \* as in MeshSupervisor

mainVars == <<main, raw, exitCode, handled, drain>>
ircVars == <<nickserv, ircRun, ircConnect, conn, link, paused, ready, joined, lock,
             sender, clientStopping, ircStop, missed>>
meshVars == <<meshRun, meshConnect, session, radio, watching, listening, signalled,
              abandoned, delay, meshStop>>
vars == <<mainVars, stopping, ircVars, meshVars>>

Irc == INSTANCE IrcClient
         WITH run <- ircRun, connect <- ircConnect, stopTask <- ircStop
Mesh == INSTANCE MeshSupervisor
          WITH run <- meshRun, connect <- meshConnect, stopTask <- meshStop

\* Nothing of the bridge runs before main has built it.
Init ==
  /\ main = "loading" /\ raw \in Raw /\ exitCode = "none" /\ handled = FALSE
  /\ drain = "looping"
  /\ Irc!Init /\ nickserv = (raw["mode"] = "nickserv")
  /\ Mesh!Init

-----------------------------------------------------------------------------
(* main and Bridge.run. *)

\* A ConfigError is reported; any other exception of load_config leaves main.
LoadFails ==
  /\ main = "loading" /\ Load(raw) # "ok"
  /\ main' = "exited" /\ raw' = NoConfig
  /\ exitCode' = IF Load(raw) = "ConfigError" THEN "1" ELSE "traceback"
  /\ UNCHANGED <<handled, drain, stopping, ircVars, meshVars>>

LoadSucceeds ==
  /\ main = "loading" /\ Load(raw) = "ok"
  /\ main' = "loaded"
  /\ UNCHANGED <<raw, exitCode, handled, drain, stopping, ircVars, meshVars>>

\* Mutation: main ends without a status of its own.
BridgeFailsWithoutStatus ==
  /\ main = "loaded" /\ ~BridgeBuilds(raw)
  /\ main' = "exited" /\ raw' = NoConfig
  /\ UNCHANGED <<exitCode, handled, drain, stopping, ircVars, meshVars>>

\* Bridge(config) raises, before the try that would have logged it.
BridgeFails ==
  /\ main = "loaded" /\ ~BridgeBuilds(raw)
  /\ main' = "exited" /\ exitCode' = "traceback" /\ raw' = NoConfig
  /\ UNCHANGED <<handled, drain, stopping, ircVars, meshVars>>

\* The bridge is built, the signal handlers are set and the three tasks created.
StartBridge ==
  /\ main = "loaded" /\ BridgeBuilds(raw)
  /\ main' = "running" /\ raw' = NoConfig
  /\ UNCHANGED <<exitCode, handled, drain, stopping, ircVars, meshVars>>

\* Mutation: run() returns with the first supervisor, and not with the last.
ExitWithFirst ==
  /\ main = "running" /\ drain = "done" /\ (ircRun = "done" \/ meshRun = "done")
  /\ main' = "exited" /\ exitCode' = "0"
  /\ UNCHANGED <<raw, handled, drain, stopping, ircVars, meshVars>>

\* gather() returns when the three have; a stop() that is still in one of its
\* awaits goes no further.
Exit ==
  /\ main = "running" /\ drain = "done" /\ ircRun = "done" /\ meshRun = "done"
  /\ main' = "exited" /\ exitCode' = "0"
  /\ UNCHANGED <<raw, handled, drain, stopping, ircVars, meshVars>>

\* _stopping is the drain's loop condition; a send in progress is ended first.
DrainExits ==
  /\ main = "running" /\ drain = "looping" /\ stopping /\ sender = "idle"
  /\ drain' = "done"
  /\ UNCHANGED <<main, raw, exitCode, handled, stopping, ircVars, meshVars>>

-----------------------------------------------------------------------------
(* Signals and stop(). *)

\* The first signal schedules stop(); those after it do nothing.
Signal ==
  /\ main = "running" /\ ~handled
  /\ handled' = TRUE
  /\ UNCHANGED <<main, raw, exitCode, drain, stopping, ircVars, meshVars>>

\* stop() up to its first await.
StopBegins ==
  /\ main = "running" /\ handled
  /\ Irc!Stop /\ Mesh!Stop
  /\ UNCHANGED mainVars

\* The rest of stop(): the IRC client's close(), then the mesh client's
\* disconnect().
StopContinues ==
  /\ main = "running"
  /\ \/ Irc!StopReturns /\ UNCHANGED meshVars
     \/ ircStop = "done" /\ Mesh!StopReachesMesh /\ UNCHANGED ircVars
     \/ Mesh!StopDisconnected /\ UNCHANGED ircVars
  /\ UNCHANGED mainVars

-----------------------------------------------------------------------------
(* The supervisors, the drain's sends, and what goes on around them. *)

\* What the IRC supervisor does when it can: all but giving a session up, and
\* the answers it owes.
IrcRuns ==
  /\ main = "running"
  /\ \/ Irc!StartConnect \/ Irc!SupervisorExits
     \/ Irc!ConnectSucceeded \/ Irc!ConnectEnded
     \/ Irc!Registered \/ Irc!NickWaitEnds \/ Irc!NickWaitStopped \/ Irc!JoinDone
     \/ Irc!SessionFails \/ Irc!RunGetsLock \/ Irc!AnswerSent \/ Irc!AnswerFails
     \/ Irc!CloseDone \/ Irc!BackoffEnds
  /\ UNCHANGED <<mainVars, meshVars>>

IrcMay ==
  /\ main = "running"
  /\ Irc!GivesUpSession \/ Irc!StartAnswer \/ Irc!StartSend
  /\ UNCHANGED <<mainVars, meshVars>>

SendRuns ==
  /\ main = "running"
  /\ Irc!SenderGetsLock \/ Irc!SendDone \/ Irc!SendFails
  /\ UNCHANGED <<mainVars, meshVars>>

SocketCloses == main = "running" /\ Irc!ConnectionLost /\ UNCHANGED <<mainVars, meshVars>>

NetworkMay ==
  /\ main = "running"
  /\ Irc!ConnectResolves \/ Irc!LinkDies \/ Irc!PeerPauses \/ Irc!PeerResumes
  /\ UNCHANGED <<mainVars, meshVars>>

MeshRuns ==
  /\ main = "running"
  /\ \/ Mesh!StartConnect \/ Mesh!SupervisorExits \/ Mesh!ConnectEnded
     \/ Mesh!Subscribe \/ Mesh!QueriesDone \/ Mesh!FetchingStarted
     \/ Mesh!PollingEnds \/ Mesh!Disconnected \/ Mesh!BackoffEnds
  /\ UNCHANGED <<mainVars, ircVars>>

RadioMay ==
  /\ main = "running"
  /\ Mesh!ConnectResolves \/ \E c \in Client : Mesh!RadioDrops(c) \/ Mesh!Notify(c)
  /\ UNCHANGED <<mainVars, ircVars>>

Next ==
  \/ LoadFails \/ LoadSucceeds \/ BridgeFails \/ StartBridge \/ Exit \/ DrainExits
  \/ Signal \/ StopBegins \/ StopContinues
  \/ IrcRuns \/ IrcMay \/ SendRuns \/ SocketCloses \/ NetworkMay
  \/ MeshRuns \/ RadioMay

Spec == Init /\ [][Next]_vars

\* The tasks run when they can, and a closed socket goes away once its buffer is
\* empty.  Nothing is asked of the IRC server, the network or the radio beyond
\* what MeshSupervisor asks: that a call of the library returns or raises.
FairSpec ==
  /\ Spec
  /\ WF_vars(Exit) /\ WF_vars(DrainExits)
  /\ WF_vars(StopBegins) /\ WF_vars(StopContinues)
  /\ SF_vars(IrcRuns) /\ SF_vars(SendRuns) /\ SF_vars(SocketCloses) /\ WF_vars(MeshRuns)

-----------------------------------------------------------------------------
(* Properties. *)

MainTypeOK ==
  /\ main \in {"loading", "loaded", "running", "exited"}
  /\ raw # NoConfig <=> main \in {"loading", "loaded"}
  /\ exitCode \in {"none", "0", "1", "traceback"} /\ (exitCode # "none" <=> main = "exited")
  /\ handled \in BOOLEAN /\ drain \in {"looping", "done"}
TypeOK == MainTypeOK /\ Irc!TypeOK /\ Mesh!TypeOK

\* The assertions that the bridge makes of its configuration hold of each one that
\* loads ("guaranteed by MeshConnectionConfig.__post_init__", and those of
\* _run_session and _send_sasl_response).
AssertionsGuaranteed == main = "loaded" => AssertionsHold(raw)

\* What the docstring of ConfigError and the comment in main say: whatever is wrong
\* with a configuration, load_config says so with a ConfigError, and main ends with
\* a message and status 1.
ConfigProblemsReported == exitCode # "traceback"

\* When the process exits by itself nothing is left behind: no socket, no send,
\* no connect in progress, and no radio but those whose disconnect() raised.
NothingLeftBehind ==
  exitCode = "0" =>
    /\ ~conn /\ link = "none" /\ ircConnect = "none" /\ sender = "idle" /\ lock = "free"
    /\ session = NoClient /\ meshConnect = "none"
    /\ \A c \in Client : radio[c] = "free" \/ c \in abandoned

\* How far main and the drain are, and what that says of the supervisors.
MainInStep ==
  /\ MainTypeOK
  /\ main = "loaded" => Load(raw) = "ok"
  /\ exitCode = "0" => drain = "done" /\ ircRun = "done" /\ meshRun = "done"
  /\ drain = "done" => stopping /\ sender = "idle"

\* A signal ends the mesh side whatever becomes of the IRC side: stop() may be
\* waiting for the IRC client for ever, and the radio is released all the same.
RadioReleasedOnSignal == handled ~> (meshRun = "done")

\* A signal ends the process with status 0, in every phase of both sides, unless
\* the IRC peer stops reading for good, or stop() came in the instant after the
\* connect succeeded and no wait for NickServ follows.
SignalEndsProcess ==
  []<>~paused => (handled ~> (exitCode = "0" \/ (missed /\ ~nickserv)))

===============================================================================
