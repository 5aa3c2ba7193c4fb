---------------------------- MODULE MeshSupervisor ----------------------------
(***************************************************************************)
(* Bridge._run_mesh_supervisor: connect to the radio, subscribe, query,    *)
(* poll, disconnect, sleep, again, with Bridge.stop() in another task.     *)
(*                                                                         *)
(* A client is an object of the meshcore library.  The library is modelled *)
(* by what the bridge relies on: connecting succeeds or fails, any call    *)
(* may raise, a disconnect() that raises may leave the client as it was,   *)
(* and a client whose radio is gone sends DISCONNECTED, once, to those who *)
(* had subscribed by then.                                                 *)
(***************************************************************************)
EXTENDS Naturals, FiniteSets

CONSTANTS Client,         \* clients of the library (a disconnected one is reused)
          NoClient,
          InitialDelay,   \* mesh_reconnect_initial_delay
          MaxDelay,       \* mesh_reconnect_max_delay
          BuiltinTimeout  \* asyncio.TimeoutError is TimeoutError (Python 3.11 on)

ASSUME ClientAssumption == NoClient \notin Client
ASSUME DelayAssumption ==
  InitialDelay \in Nat /\ MaxDelay \in Nat /\ InitialDelay <= MaxDelay
ASSUME TimeoutAssumption == BuiltinTimeout \in BOOLEAN

VARIABLES
  run,       \* where the supervisor is
  connect,   \* _mesh_connect_task, once resolved: its outcome
  session,   \* the client of the current session (the local variable client)
  radio,     \* what became of each client's radio
  watching,  \* clients with our DISCONNECTED handler
  listening, \* clients with our CHANNEL_MSG_RECV handler
  signalled, \* clients whose session's needs_reconnect is set
  abandoned, \* history: clients whose disconnect() raised in the supervisor
  delay,
  stopping,  \* Bridge._stopping
  stopTask   \* where the caller of Bridge.stop() is

vars == <<run, connect, session, radio, watching, listening, signalled, abandoned,
          delay, stopping, stopTask>>

Init ==
  /\ run = "top" /\ connect = "none" /\ session = NoClient
  /\ radio = [c \in Client |-> "free"]
  /\ watching = {} /\ listening = {} /\ signalled = {} /\ abandoned = {}
  /\ delay = InitialDelay
  /\ stopping = FALSE /\ stopTask = "none"

\* Bridge._mesh_client is set for as long as the session's try block runs.
InSession == run \in {"querying", "starting", "polling"}

\* Mutation: the delay grows without limit.
DoubledForever == delay * 2

\* delay = min(delay * 2, max)
Doubled == IF delay * 2 < MaxDelay THEN delay * 2 ELSE MaxDelay

-----------------------------------------------------------------------------
(* Connecting. *)

StartConnect ==
  /\ run = "top" /\ ~stopping
  /\ run' = "connecting" /\ connect' = "pending"
  /\ UNCHANGED <<session, radio, watching, listening, signalled, abandoned, delay,
                 stopping, stopTask>>

SupervisorExits ==
  /\ run = "top" /\ stopping
  /\ run' = "done"
  /\ UNCHANGED <<connect, session, radio, watching, listening, signalled, abandoned,
                 delay, stopping, stopTask>>

\* mesh_connection.connect finishes: a client, or a MeshConnectError, which is
\* also what becomes of None.  The supervisor is woken, but does not run yet.
ConnectResolves ==
  /\ connect = "pending"
  /\ \/ \E c \in Client :
          /\ radio[c] = "free"
          /\ connect' = "ok" /\ session' = c
          /\ radio' = [radio EXCEPT ![c] = "up"]
     \/ connect' = "failed" /\ UNCHANGED <<session, radio>>
  /\ UNCHANGED <<run, watching, listening, signalled, abandoned, delay, stopping,
                 stopTask>>

\* A failed connect is followed by the backoff, a cancelled one (by stop()) or
\* one that failed while stopping by the return.
ConnectEnded ==
  /\ run = "connecting" /\ connect \in {"failed", "cancelled"}
  /\ connect' = "none"
  /\ run' = IF stopping THEN "done" ELSE "backoff"
  /\ UNCHANGED <<session, radio, watching, listening, signalled, abandoned, delay,
                 stopping, stopTask>>

-----------------------------------------------------------------------------
(* A session. *)

\* Both handlers are subscribed without an await in between; either call may
\* raise, which ends the session.
Subscribe ==
  /\ run = "connecting" /\ connect = "ok"
  /\ connect' = "none"
  /\ \/ /\ run' = "querying"
        /\ watching' = watching \cup {session}
        /\ listening' = listening \cup {session}
     \/ /\ run' = "disconnecting"
        /\ watching' \in {watching, watching \cup {session}}
        /\ UNCHANGED listening
  /\ UNCHANGED <<session, radio, signalled, abandoned, delay, stopping, stopTask>>

\* _log_channel_mappings swallows what the queries raise.
QueriesDone ==
  /\ run = "querying"
  /\ run' = "starting"
  /\ UNCHANGED <<connect, session, radio, watching, listening, signalled, abandoned,
                 delay, stopping, stopTask>>

\* start_auto_message_fetching returns or raises.
FetchingStarted ==
  /\ run = "starting"
  /\ \/ run' = "polling"
     \/ run' = "disconnecting"
  /\ UNCHANGED <<connect, session, radio, watching, listening, signalled, abandoned,
                 delay, stopping, stopTask>>

\* Mutation: a radio that is lost is noticed only by a stop.
LeavesLoopOnStop == stopping \/ ~BuiltinTimeout

\* Mutation: the loop trusts the DISCONNECTED event of stop()'s disconnect().
LeavesLoopOnEvent == session \in signalled \/ ~BuiltinTimeout

\* The polling loop is left at a stop, at a DISCONNECTED event, and, where the
\* TimeoutError that wait_for raises is not the one suppressed, at its first
\* timeout.
LeavesLoop == stopping \/ session \in signalled \/ ~BuiltinTimeout

PollingEnds ==
  /\ run = "polling" /\ LeavesLoop
  /\ run' = "disconnecting"
  /\ UNCHANGED <<connect, session, radio, watching, listening, signalled, abandoned,
                 delay, stopping, stopTask>>

\* What disconnect() does to client c when it succeeds.
Release(c) ==
  /\ radio' = [radio EXCEPT ![c] = "free"]
  /\ watching' = watching \ {c} /\ listening' = listening \ {c}

\* Mutation: the client is not disconnected when the session failed.
DisconnectedOnlyAfterLoss ==
  /\ run = "disconnecting"
  /\ \/ session \in signalled /\ Release(session) /\ abandoned' = abandoned
     \/ session \notin signalled /\ UNCHANGED <<radio, watching, listening, abandoned>>
  /\ signalled' = signalled \ {session}
  /\ session' = NoClient
  /\ run' = IF stopping THEN "done" ELSE "backoff"
  /\ delay' = delay
  /\ UNCHANGED <<connect, stopping, stopTask>>

\* The finally clause: disconnect() returns or raises.  Then the supervisor
\* returns if it is stopping, or sleeps; a session that lasted as long as the
\* longest delay starts the delays anew.
Disconnected ==
  /\ run = "disconnecting"
  /\ \/ Release(session) /\ abandoned' = abandoned
     \/ /\ abandoned' = abandoned \cup {session}
        /\ UNCHANGED <<radio, watching, listening>>
  /\ signalled' = signalled \ {session}
  /\ session' = NoClient
  /\ \/ stopping /\ run' = "done" /\ delay' = delay
     \/ ~stopping /\ run' = "backoff" /\ delay' \in {delay, InitialDelay}
  /\ UNCHANGED <<connect, stopping, stopTask>>

BackoffEnds ==
  /\ run = "backoff"
  /\ run' = "top"
  /\ delay' = Doubled
  /\ UNCHANGED <<connect, session, radio, watching, listening, signalled, abandoned,
                 stopping, stopTask>>

-----------------------------------------------------------------------------
(* The library's events. *)

\* A client's radio goes away.  The event reaches those who have subscribed.
RadioDrops(c) ==
  /\ radio[c] = "up"
  /\ radio' = [radio EXCEPT ![c] = IF c \in watching THEN "dropped" ELSE "silent"]
  /\ UNCHANGED <<run, connect, session, watching, listening, signalled, abandoned,
                 delay, stopping, stopTask>>

\* Mutation: the handler sets the variable needs_reconnect, not the event it
\* was bound to, so that it sets the newest session's.
NotifyNewest(c) ==
  /\ radio[c] = "dropped"
  /\ radio' = [radio EXCEPT ![c] = "silent"]
  /\ signalled' = IF session # NoClient THEN signalled \cup {session} ELSE signalled
  /\ UNCHANGED <<run, connect, session, watching, listening, abandoned, delay,
                 stopping, stopTask>>

\* DISCONNECTED is dispatched: the handler sets the event of the session that
\* subscribed it, which nobody looks at once that session is over.
Notify(c) ==
  /\ radio[c] = "dropped"
  /\ radio' = [radio EXCEPT ![c] = "silent"]
  /\ signalled' = IF c = session THEN signalled \cup {c} ELSE signalled
  /\ UNCHANGED <<run, connect, session, watching, listening, abandoned, delay,
                 stopping, stopTask>>

-----------------------------------------------------------------------------
(* Bridge.stop(). *)

\* Up to its first await: a connect in progress is cancelled.
Stop ==
  /\ ~stopping
  /\ stopping' = TRUE /\ stopTask' = "stoppingIrc"
  /\ connect' = IF connect = "pending" THEN "cancelled" ELSE connect
  /\ UNCHANGED <<run, session, radio, watching, listening, signalled, abandoned,
                 delay>>

\* The IRC client has stopped; only now is _mesh_client looked at.
StopReachesMesh ==
  /\ stopTask = "stoppingIrc"
  /\ stopTask' = IF InSession THEN "disconnecting" ELSE "done"
  /\ UNCHANGED <<run, connect, session, radio, watching, listening, signalled,
                 abandoned, delay, stopping>>

\* Its disconnect() ends: with the event, if the session still wants it, or by
\* raising; or the supervisor's own disconnect() was there first.
StopDisconnected ==
  /\ stopTask = "disconnecting"
  /\ stopTask' = "done"
  /\ \/ /\ session # NoClient
        /\ radio' = [radio EXCEPT ![session] = "silent"]
        /\ signalled' = IF session \in watching THEN signalled \cup {session}
                                                ELSE signalled
     \/ UNCHANGED <<radio, signalled>>
  /\ UNCHANGED <<run, connect, session, watching, listening, abandoned, delay,
                 stopping>>

Next ==
  \/ StartConnect \/ SupervisorExits \/ ConnectResolves \/ ConnectEnded
  \/ Subscribe \/ QueriesDone \/ FetchingStarted \/ PollingEnds \/ Disconnected
  \/ BackoffEnds
  \/ \E c \in Client : RadioDrops(c) \/ Notify(c)
  \/ Stop \/ StopReachesMesh \/ StopDisconnected

Spec == Init /\ [][Next]_vars

\* The supervisor runs when it can, and the library answers: its calls return
\* or raise, its events are dispatched.  Connecting alone is not trusted to end
\* ("unbounded TCP retries, BLE scanning").
Fairness ==
  /\ WF_vars(StartConnect) /\ WF_vars(SupervisorExits) /\ WF_vars(ConnectEnded)
  /\ WF_vars(Subscribe) /\ WF_vars(QueriesDone) /\ WF_vars(FetchingStarted)
  /\ WF_vars(PollingEnds) /\ WF_vars(Disconnected) /\ WF_vars(BackoffEnds)
  /\ \A c \in Client : WF_vars(Notify(c))
  /\ WF_vars(StopReachesMesh) /\ WF_vars(StopDisconnected)

FairSpec == Spec /\ Fairness

-----------------------------------------------------------------------------
(* Properties. *)

\* The delay stays within the two that are configured; there is a client
\* exactly while one is connected or being used.
TypeOK ==
  /\ run \in {"top", "connecting", "querying", "starting", "polling",
              "disconnecting", "backoff", "done"}
  /\ connect \in {"none", "pending", "ok", "failed", "cancelled"}
  /\ session \in Client \cup {NoClient}
  /\ radio \in [Client -> {"free", "up", "dropped", "silent"}]
  /\ watching \subseteq Client /\ listening \subseteq Client
  /\ signalled \subseteq Client /\ abandoned \subseteq Client
  /\ delay \in InitialDelay..MaxDelay
  /\ stopping \in BOOLEAN
  /\ stopTask \in {"none", "stoppingIrc", "disconnecting", "done"}
  /\ session # NoClient <=> (connect = "ok" \/ InSession \/ run = "disconnecting")
  /\ connect # "none" <=> run = "connecting"

\* Every client the supervisor was given is disconnected before it goes on to
\* the next or returns, unless disconnect() itself raised: only then can two
\* radios feed the queue, and a message be relayed twice.
EveryClientReleased ==
  \A c \in Client : radio[c] # "free" => c = session \/ c \in abandoned

\* The event the session waits for is set by its own client alone, whose radio
\* is gone.
SignalsAreOwn ==
  /\ signalled \subseteq {session}
  /\ session \in signalled => radio[session] = "silent"
  /\ session # NoClient => radio[session] # "free"

\* The invariant that explains the others; it is inductive
\* (MeshSupervisorProofs).
IInv == TypeOK /\ EveryClientReleased /\ SignalsAreOwn

\* A session that was polling ends because of a stop or because its own radio
\* is gone, not because of an old client's event or a timeout that was meant
\* to be suppressed.
EndsForAReason ==
  [][run = "polling" /\ run' = "disconnecting"
       => stopping \/ radio[session] = "silent"]_vars

\* A radio lost after the handlers were subscribed is followed by a new attempt
\* to connect, or by the supervisor's return.
LossLeadsToReconnect ==
  (session # NoClient /\ session \in watching /\ radio[session] = "dropped")
     ~> (run \in {"connecting", "done"})

==============================================================================
