------------------------- MODULE MeshSupervisorProofs -------------------------
(***************************************************************************)
(* The invariant of MeshSupervisor, for any set of clients and any delays, *)
(* and the safety properties that follow.                                  *)
(***************************************************************************)
EXTENDS MeshSupervisor, TLAPS

LEMMA InitIInv == Init => IInv
<1> SUFFICES ASSUME Init PROVE IInv
  OBVIOUS
<1>1. delay \in InitialDelay..MaxDelay
  BY DelayAssumption DEF Init
<1>2. radio \in [Client -> {"free", "up", "dropped", "silent"}]
  BY DEF Init
<1>3. TypeOK
  BY <1>1, <1>2 DEF Init, TypeOK, InSession
<1>4. EveryClientReleased /\ SignalsAreOwn
  BY DEF Init, EveryClientReleased, SignalsAreOwn
<1> QED
  BY <1>3, <1>4 DEF IInv

LEMMA ConnectingKeepsIInv ==
  ASSUME IInv, StartConnect \/ SupervisorExits \/ ConnectEnded \/ BackoffEnds
  PROVE  IInv'
<1> USE DEF IInv, TypeOK, EveryClientReleased, SignalsAreOwn, InSession
<1>1. CASE StartConnect
  BY <1>1 DEF StartConnect
<1>2. CASE SupervisorExits
  BY <1>2 DEF SupervisorExits
<1>3. CASE ConnectEnded
  BY <1>3 DEF ConnectEnded
<1>4. CASE BackoffEnds
  <2>1. delay' \in InitialDelay..MaxDelay
    BY <1>4, DelayAssumption DEF BackoffEnds, Doubled
  <2> QED
    BY <1>4, <2>1 DEF BackoffEnds
<1> QED
  BY <1>1, <1>2, <1>3, <1>4

\* The client of a new session is none of those that could not be disconnected.
LEMMA ConnectResolvesKeepsIInv ==
  ASSUME IInv, ConnectResolves
  PROVE  IInv'
<1>1. session = NoClient /\ connect = "pending" /\ run = "connecting"
  BY DEF ConnectResolves, IInv, TypeOK, InSession
<1>2. signalled = {}
  BY <1>1, ClientAssumption DEF IInv, TypeOK, SignalsAreOwn
<1>3. ASSUME NEW c \in Client,
             radio[c] = "free", connect' = "ok", session' = c,
             radio' = [radio EXCEPT ![c] = "up"],
             UNCHANGED <<run, watching, listening, signalled, abandoned, delay,
                         stopping, stopTask>>
      PROVE  IInv'
  <2>1. TypeOK'
    BY <1>1, <1>3, ClientAssumption DEF IInv, TypeOK, InSession
  <2>2. EveryClientReleased'
    BY <1>1, <1>3, ClientAssumption DEF IInv, TypeOK, EveryClientReleased
  <2>3. SignalsAreOwn'
    BY <1>2, <1>3 DEF IInv, TypeOK, SignalsAreOwn
  <2> QED
    BY <2>1, <2>2, <2>3 DEF IInv
<1>4. CASE /\ connect' = "failed"
           /\ UNCHANGED <<session, radio, run, watching, listening, signalled,
                          abandoned, delay, stopping, stopTask>>
  BY <1>1, <1>4 DEF IInv, TypeOK, EveryClientReleased, SignalsAreOwn, InSession
<1> QED
  BY <1>3, <1>4 DEF ConnectResolves

LEMMA SessionKeepsIInv ==
  ASSUME IInv, Subscribe \/ QueriesDone \/ FetchingStarted \/ PollingEnds
  PROVE  IInv'
<1> USE DEF IInv, TypeOK, EveryClientReleased, SignalsAreOwn, InSession
<1>1. CASE Subscribe
  <2>1. session \in Client
    BY <1>1, ClientAssumption DEF Subscribe
  <2>2. watching' \subseteq Client /\ listening' \subseteq Client
    BY <1>1, <2>1 DEF Subscribe
  <2> QED
    BY <1>1, <2>2 DEF Subscribe
<1>2. CASE QueriesDone
  BY <1>2 DEF QueriesDone
<1>3. CASE FetchingStarted
  BY <1>3 DEF FetchingStarted
<1>4. CASE PollingEnds
  BY <1>4 DEF PollingEnds
<1> QED
  BY <1>1, <1>2, <1>3, <1>4

\* The end of a session: its client is free, or is on record as abandoned.
LEMMA DisconnectedKeepsIInv ==
  ASSUME IInv, Disconnected
  PROVE  IInv'
<1>1. /\ run = "disconnecting" /\ session \in Client
      /\ session' = NoClient /\ signalled' = signalled \ {session}
      /\ UNCHANGED <<connect, stopping, stopTask>>
  BY ClientAssumption DEF Disconnected, IInv, TypeOK, InSession
<1>2. \/ /\ radio' = [radio EXCEPT ![session] = "free"]
         /\ watching' = watching \ {session} /\ listening' = listening \ {session}
         /\ abandoned' = abandoned
      \/ /\ abandoned' = abandoned \cup {session}
         /\ UNCHANGED <<radio, watching, listening>>
  BY DEF Disconnected, Release
<1>3. run' \in {"done", "backoff"} /\ delay' \in InitialDelay..MaxDelay
  BY DelayAssumption DEF Disconnected, IInv, TypeOK
<1>4. TypeOK'
  BY <1>1, <1>2, <1>3, ClientAssumption DEF IInv, TypeOK, InSession
<1>5. EveryClientReleased'
  BY <1>1, <1>2 DEF IInv, TypeOK, EveryClientReleased
<1>6. SignalsAreOwn'
  BY <1>1, ClientAssumption DEF IInv, TypeOK, SignalsAreOwn
<1> QED
  BY <1>4, <1>5, <1>6 DEF IInv

LEMMA EventsKeepIInv ==
  ASSUME IInv, NEW c \in Client, RadioDrops(c) \/ Notify(c)
  PROVE  IInv'
<1> USE DEF IInv, TypeOK, EveryClientReleased, SignalsAreOwn, InSession
<1>1. CASE RadioDrops(c)
  <2>1. radio' \in [Client -> {"free", "up", "dropped", "silent"}]
    BY <1>1 DEF RadioDrops
  <2>2. \A d \in Client : radio'[d] = IF d = c /\ c \in watching THEN "dropped"
                                      ELSE IF d = c THEN "silent" ELSE radio[d]
    BY <1>1 DEF RadioDrops
  <2>3. radio[c] = "up"
    BY <1>1 DEF RadioDrops
  <2>4. UNCHANGED <<run, connect, session, watching, listening, signalled, abandoned,
                    delay, stopping, stopTask>>
    BY <1>1 DEF RadioDrops
  <2> QED
    BY <2>1, <2>2, <2>3, <2>4, ClientAssumption
<1>2. CASE Notify(c)
  <2>1. radio' \in [Client -> {"free", "up", "dropped", "silent"}]
    BY <1>2 DEF Notify
  <2>2. \A d \in Client : radio'[d] = IF d = c THEN "silent" ELSE radio[d]
    BY <1>2 DEF Notify
  <2>3. /\ radio[c] = "dropped"
        /\ signalled' = IF c = session THEN signalled \cup {c} ELSE signalled
    BY <1>2 DEF Notify
  <2>4. UNCHANGED <<run, connect, session, watching, listening, abandoned, delay,
                    stopping, stopTask>>
    BY <1>2 DEF Notify
  <2> QED
    BY <2>1, <2>2, <2>3, <2>4, ClientAssumption
<1> QED
  BY <1>1, <1>2

LEMMA StopKeepsIInv ==
  ASSUME IInv, Stop \/ StopReachesMesh \/ StopDisconnected \/ UNCHANGED vars
  PROVE  IInv'
<1> USE DEF IInv, TypeOK, EveryClientReleased, SignalsAreOwn, InSession
<1>1. CASE Stop
  BY <1>1 DEF Stop
<1>2. CASE StopReachesMesh
  BY <1>2 DEF StopReachesMesh
<1>3. CASE StopDisconnected
  BY <1>3, ClientAssumption DEF StopDisconnected
<1>4. CASE UNCHANGED vars
  BY <1>4 DEF vars
<1> QED
  BY <1>1, <1>2, <1>3, <1>4

LEMMA NextKeepsIInv == IInv /\ [Next]_vars => IInv'
<1> SUFFICES ASSUME IInv, [Next]_vars PROVE IInv'
  OBVIOUS
<1> QED
  BY ConnectingKeepsIInv, ConnectResolvesKeepsIInv, SessionKeepsIInv,
     DisconnectedKeepsIInv, EventsKeepIInv, StopKeepsIInv
  DEF Next

\* Phases, clients and signals stay in step, for any number of clients.
THEOREM Invariant == Spec => []IInv
BY InitIInv, NextKeepsIInv, PTL DEF Spec

\* Type correctness, for every number of sessions and every delay.
THEOREM TypeCorrect == Spec => []TypeOK
<1>1. IInv => TypeOK
  BY DEF IInv
<1> QED
  BY <1>1, Invariant, PTL

\* No client is forgotten: it is free, in use, or its disconnect() raised.
THEOREM Released == Spec => []EveryClientReleased
<1>1. IInv => EveryClientReleased
  BY DEF IInv
<1> QED
  BY <1>1, Invariant, PTL

\* Where wait_for raises the TimeoutError that is suppressed, a polling session
\* ends only because of a stop or because its own radio is gone.
THEOREM ReasonedEnd == ASSUME BuiltinTimeout PROVE Spec => EndsForAReason
<1>1. IInv /\ [Next]_vars =>
        [run = "polling" /\ run' = "disconnecting"
           => stopping \/ radio[session] = "silent"]_vars
  <2> SUFFICES ASSUME IInv, [Next]_vars, run = "polling", run' = "disconnecting"
               PROVE  stopping \/ radio[session] = "silent"
    OBVIOUS
  <2>1. CASE PollingEnds
    BY <2>1 DEF PollingEnds, LeavesLoop, IInv, SignalsAreOwn
  <2>2. CASE StartConnect \/ SupervisorExits \/ ConnectResolves \/ ConnectEnded
               \/ Subscribe \/ QueriesDone \/ FetchingStarted \/ Disconnected
               \/ BackoffEnds
    BY <2>2
    DEF StartConnect, SupervisorExits, ConnectResolves, ConnectEnded, Subscribe,
        QueriesDone, FetchingStarted, Disconnected, BackoffEnds
  <2>3. CASE \/ \E c \in Client : RadioDrops(c) \/ Notify(c)
             \/ Stop \/ StopReachesMesh \/ StopDisconnected \/ UNCHANGED vars
    BY <2>3 DEF RadioDrops, Notify, Stop, StopReachesMesh, StopDisconnected, vars
  <2> QED
    BY <2>1, <2>2, <2>3 DEF Next
<1> QED
  BY <1>1, Invariant, PTL DEF Spec, EndsForAReason

==============================================================================
