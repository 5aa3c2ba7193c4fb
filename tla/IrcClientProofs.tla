--------------------------- MODULE IrcClientProofs ---------------------------
(***************************************************************************)
(* The invariant of IrcClient, and the safety properties that follow.      *)
(***************************************************************************)
EXTENDS IrcClient, TLAPS

LEMMA InitIInv == Init => IInv
BY DEF Init, IInv, TypeOK, Phases, ReadyIsCurrent, LockDiscipline, NoSenderLeftOver,
       StopRemembered, ReleasedAtExit

\* Connecting: nothing is left of the last connection when the next begins.
LEMMA ConnectingKeepsIInv ==
  ASSUME IInv,
         \/ StartConnect \/ SupervisorExits \/ ConnectResolves
         \/ ConnectSucceeded \/ ConnectEnded \/ BackoffEnds
  PROVE  IInv'
<1> USE DEF IInv, TypeOK, Phases, ReadyIsCurrent, LockDiscipline, NoSenderLeftOver,
            StopRemembered, ReleasedAtExit
<1>1. CASE StartConnect
  BY <1>1 DEF StartConnect
<1>2. CASE SupervisorExits
  BY <1>2 DEF SupervisorExits
<1>3. CASE ConnectResolves
  BY <1>3 DEF ConnectResolves
<1>4. CASE ConnectSucceeded
  BY <1>4 DEF ConnectSucceeded
<1>5. CASE ConnectEnded
  BY <1>5 DEF ConnectEnded
<1>6. CASE BackoffEnds
  BY <1>6 DEF BackoffEnds, SenderRunnable
<1> QED
  BY <1>1, <1>2, <1>3, <1>4, <1>5, <1>6

\* A session, and every way out of it.
LEMMA SessionKeepsIInv ==
  ASSUME IInv,
         \/ Registered \/ NickWaitEnds \/ NickWaitStopped \/ JoinDone
         \/ GivesUpSession \/ SessionFails
         \/ StartAnswer \/ RunGetsLock \/ AnswerSent \/ AnswerFails
         \/ CloseDone
  PROVE  IInv'
<1> USE DEF IInv, TypeOK, Phases, ReadyIsCurrent, LockDiscipline, NoSenderLeftOver,
            StopRemembered, ReleasedAtExit
<1>1. CASE Registered
  BY <1>1 DEF Registered
<1>2. CASE NickWaitEnds
  BY <1>2 DEF NickWaitEnds
<1>3. CASE NickWaitStopped
  BY <1>3 DEF NickWaitStopped, EndSession
<1>4. CASE JoinDone
  BY <1>4 DEF JoinDone
<1>5. CASE GivesUpSession
  <2> USE <1>5 DEF GivesUpSession, EndSession
  <2>1. link' \in {"closing", "lost"}
    OBVIOUS
  <2>2. TypeOK' /\ Phases'
    BY <2>1
  <2>3. ReadyIsCurrent' /\ LockDiscipline' /\ NoSenderLeftOver'
    OBVIOUS
  <2> QED
    BY <2>2, <2>3
<1>6. CASE SessionFails
  BY <1>6 DEF SessionFails, EndSession
<1>7. CASE StartAnswer
  BY <1>7 DEF StartAnswer
<1>8. CASE RunGetsLock
  BY <1>8 DEF RunGetsLock
<1>9. CASE AnswerSent
  BY <1>9 DEF AnswerSent, LockAfterRun
<1>10. CASE AnswerFails
  BY <1>10 DEF AnswerFails, EndSession, LockAfterRun
<1>11. CASE CloseDone
  BY <1>11 DEF CloseDone
<1> QED
  BY <1>1, <1>2, <1>3, <1>4, <1>5, <1>6, <1>7, <1>8, <1>9, <1>10, <1>11

\* The drain, the caller of stop(), and the network.
LEMMA OthersKeepIInv ==
  ASSUME IInv,
         \/ SenderNext \/ StopNext
         \/ ConnectionLost \/ LinkDies \/ PeerPauses \/ PeerResumes
         \/ UNCHANGED vars
  PROVE  IInv'
<1> USE DEF IInv, TypeOK, Phases, ReadyIsCurrent, LockDiscipline, NoSenderLeftOver,
            StopRemembered, ReleasedAtExit
<1>1. CASE StartSend
  BY <1>1 DEF StartSend
<1>2. CASE SenderGetsLock
  BY <1>2 DEF SenderGetsLock, LockAfterSender
<1>3. CASE SendDone
  BY <1>3 DEF SendDone, LockAfterSender
<1>4. CASE SendFails
  BY <1>4 DEF SendFails, LockAfterSender
<1>5. CASE Stop
  BY <1>5 DEF Stop
<1>6. CASE StopReturns
  BY <1>6 DEF StopReturns
<1>7. CASE ConnectionLost
  BY <1>7 DEF ConnectionLost
<1>8. CASE LinkDies
  <2> USE <1>8 DEF LinkDies
  <2>1. /\ run \notin {"top", "backoff", "done"}
        /\ run = "connecting" => connect = "ok"
    OBVIOUS
  <2>2. TypeOK' /\ Phases'
    BY <2>1
  <2> QED
    BY <2>2
<1>9. CASE PeerPauses \/ PeerResumes
  <2>1. paused' \in BOOLEAN
    BY <1>9 DEF PeerPauses, PeerResumes
  <2>2. /\ UNCHANGED <<nickserv, run, connect, conn, link, ready, joined, lock>>
        /\ UNCHANGED <<sender, clientStopping, stopping, stopTask, missed>>
    BY <1>9 DEF PeerPauses, PeerResumes
  <2> QED
    BY <2>1, <2>2
<1>10. CASE UNCHANGED vars
  BY <1>10 DEF vars
<1> QED
  BY <1>1, <1>2, <1>3, <1>4, <1>5, <1>6, <1>7, <1>8, <1>9, <1>10
  DEF SenderNext, StopNext

LEMMA NextKeepsIInv == IInv /\ [Next]_vars => IInv'
<1> SUFFICES ASSUME IInv, [Next]_vars PROVE IInv'
  OBVIOUS
<1> QED
  BY ConnectingKeepsIInv, SessionKeepsIInv, OthersKeepIInv
  DEF Next, RunNext, NetworkNext

\* The phases of the connection, the lock and the drain stay in step.
THEOREM Invariant == Spec => []IInv
BY InitIInv, NextKeepsIInv, PTL DEF Spec

\* Ready means joined and reading, on the connection there is now.
THEOREM Readiness == Spec => []ReadyIsCurrent
<1>1. IInv => ReadyIsCurrent
  BY DEF IInv
<1> QED
  BY <1>1, Invariant, PTL

\* The write lock has one user, is given back by every path out of a send, and
\* is never free while someone waits for it.
THEOREM MutualExclusion == Spec => []LockDiscipline
<1>1. IInv => LockDiscipline
  BY DEF IInv
<1> QED
  BY <1>1, Invariant, PTL

\* No send outlives its connection into the next one.
THEOREM SendersGone == Spec => []NoSenderLeftOver
<1>1. IInv => NoSenderLeftOver
  BY DEF IInv
<1> QED
  BY <1>1, Invariant, PTL

\* A supervisor that returned left neither a socket nor a connect behind.
THEOREM ExitReleases == Spec => []ReleasedAtExit
<1>1. IInv => ReleasedAtExit
  BY DEF IInv
<1> QED
  BY <1>1, Invariant, PTL

\* No run that begins forgets a stop.
THEOREM StopsRemembered == Spec => []StopRemembered
<1>1. IInv => StopRemembered
  BY DEF IInv
<1> QED
  BY <1>1, Invariant, PTL

\* A line is written to a connection that has joined, even by a task that had to
\* wait for the lock: while it waits, the session ends or goes on, but no other
\* one begins.
THEOREM WritesAfterJoin == Spec => PrivmsgAfterJoin
<1>1. IInv /\ [Next]_vars =>
        [sender # "draining" /\ sender' = "draining" => conn /\ joined]_vars
  <2> SUFFICES ASSUME IInv, [Next]_vars, sender # "draining", sender' = "draining"
               PROVE  conn /\ joined
    OBVIOUS
  <2>1. CASE StartSend
    BY <2>1 DEF StartSend, IInv, ReadyIsCurrent
  <2>2. CASE SenderGetsLock
    <3>1. conn /\ sender = "waitingForLock"
      BY <2>2 DEF SenderGetsLock
    <3> QED
      BY <3>1 DEF IInv, Phases
  <2>3. CASE RunNext
    BY <2>3
    DEF RunNext, StartConnect, SupervisorExits, ConnectSucceeded, ConnectEnded,
        Registered, NickWaitEnds, NickWaitStopped, JoinDone, GivesUpSession,
        SessionFails, EndSession, StartAnswer, RunGetsLock, AnswerSent, AnswerFails,
        CloseDone, BackoffEnds
  <2>4. CASE NetworkNext \/ StopNext \/ SendDone \/ SendFails \/ UNCHANGED vars
    BY <2>4
    DEF NetworkNext, ConnectResolves, ConnectionLost, LinkDies, PeerPauses,
        PeerResumes, StopNext, Stop, StopReturns, SendDone, SendFails, vars
  <2> QED
    BY <2>1, <2>2, <2>3, <2>4 DEF Next, SenderNext
<1> QED
  BY <1>1, Invariant, PTL DEF Spec, PrivmsgAfterJoin

\* The type invariant, on its own.
THEOREM TypeCorrect == Spec => []TypeOK
<1>1. IInv => TypeOK
  BY DEF IInv
<1> QED
  BY <1>1, Invariant, PTL

\* The client is the service the drain relies on: each of its steps is one of
\* SendService's, or none (that sends end is left to the model checker).
THEOREM ProvidesService == Spec => Service!Safe
<1>1. Init => Service!Init
  BY DEF Init, Service!Init
<1>2. IInv /\ [Next]_vars => [Service!Next]_(Service!vars)
  <2> SUFFICES ASSUME IInv, [Next]_vars PROVE [Service!Next]_(Service!vars)
    OBVIOUS
  <2> USE DEF Service!Next, Service!vars
  <2>1. CASE JoinDone
    BY <2>1 DEF JoinDone, Service!BecomesReady, IInv, TypeOK
  <2>2. CASE RunNext /\ ~JoinDone
    BY <2>2
    DEF RunNext, StartConnect, SupervisorExits, ConnectSucceeded, ConnectEnded,
        Registered, NickWaitEnds, NickWaitStopped, GivesUpSession,
        SessionFails, EndSession, StartAnswer, RunGetsLock, AnswerSent, AnswerFails,
        CloseDone, BackoffEnds, IInv, TypeOK, Service!LosesReady
  <2>3. CASE StartSend
    BY <2>3 DEF StartSend, Service!Begin
  <2>4. CASE SenderGetsLock \/ SendDone \/ SendFails
    BY <2>4 DEF SenderGetsLock, SendDone, SendFails, Service!End
  <2>5. CASE StopNext
    BY <2>5 DEF StopNext, Stop, StopReturns, Service!Stop
  <2>6. CASE NetworkNext \/ UNCHANGED vars
    BY <2>6 DEF NetworkNext, ConnectResolves, ConnectionLost, LinkDies, PeerPauses,
        PeerResumes, vars
  <2> QED
    BY <2>1, <2>2, <2>3, <2>4, <2>5, <2>6 DEF Next, SenderNext
<1> QED
  BY <1>1, <1>2, Invariant, PTL DEF Spec, Service!Safe

==============================================================================
