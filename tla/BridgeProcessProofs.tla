------------------------ MODULE BridgeProcessProofs ------------------------
(***************************************************************************)
(* The process is its two halves run side by side: whatever they share,    *)
(* and however their steps interleave, each of them behaves as IrcClient   *)
(* and MeshSupervisor say.  What was proved about the halves holds for the *)
(* process, and with it that nothing is left behind at its end.            *)
(***************************************************************************)
EXTENDS BridgeProcess, ConfigProofs

IrcProofs == INSTANCE IrcClientProofs
               WITH run <- ircRun, connect <- ircConnect, stopTask <- ircStop
MeshProofs == INSTANCE MeshSupervisorProofs
                WITH run <- meshRun, connect <- meshConnect, stopTask <- meshStop

-----------------------------------------------------------------------------
(* The halves. *)

\* No step of the mesh side touches what it shares with the IRC side, but Stop.
LEMMA MeshLeavesStopping ==
  ASSUME \/ MeshRuns \/ RadioMay
         \/ Mesh!StopReachesMesh \/ Mesh!StopDisconnected
  PROVE  UNCHANGED stopping
BY DEF MeshRuns, RadioMay, Mesh!StartConnect, Mesh!SupervisorExits,
  Mesh!ConnectResolves, Mesh!ConnectEnded, Mesh!Subscribe, Mesh!QueriesDone,
  Mesh!FetchingStarted, Mesh!PollingEnds, Mesh!Disconnected, Mesh!BackoffEnds,
  Mesh!RadioDrops, Mesh!Notify, Mesh!StopReachesMesh, Mesh!StopDisconnected

LEMMA IrcLeavesStopping ==
  ASSUME \/ IrcRuns \/ IrcMay \/ SendRuns \/ SocketCloses \/ NetworkMay \/ Irc!StopReturns
  PROVE  UNCHANGED stopping
BY DEF IrcRuns, IrcMay, SendRuns, SocketCloses, NetworkMay, Irc!StartConnect,
  Irc!SupervisorExits, Irc!ConnectResolves, Irc!ConnectSucceeded,
  Irc!ConnectEnded, Irc!Registered, Irc!NickWaitEnds, Irc!NickWaitStopped,
  Irc!JoinDone, Irc!GivesUpSession, Irc!SessionFails, Irc!EndSession,
  Irc!StartAnswer, Irc!RunGetsLock, Irc!AnswerSent, Irc!AnswerFails,
  Irc!CloseDone, Irc!BackoffEnds, Irc!StartSend, Irc!SenderGetsLock, Irc!SendDone,
  Irc!SendFails, Irc!StopReturns, Irc!ConnectionLost, Irc!LinkDies,
  Irc!PeerPauses, Irc!PeerResumes

LEMMA MainSteps ==
  ASSUME \/ LoadFails \/ LoadSucceeds \/ BridgeFails \/ StartBridge
         \/ Exit \/ DrainExits \/ Signal \/ UNCHANGED vars
  PROVE  UNCHANGED <<stopping, ircVars, meshVars>>
BY DEF LoadFails, LoadSucceeds, BridgeFails, StartBridge, Exit, DrainExits, Signal, vars

LEMMA IrcStep == [Next]_vars => [Irc!Next]_(Irc!vars)
<1> SUFFICES ASSUME [Next]_vars PROVE [Irc!Next]_(Irc!vars)
  OBVIOUS
<1>1. CASE IrcRuns \/ IrcMay \/ SendRuns \/ SocketCloses \/ NetworkMay
  BY <1>1 DEF IrcRuns, IrcMay, SendRuns, SocketCloses, NetworkMay, Irc!Next, Irc!RunNext,
     Irc!SenderNext, Irc!NetworkNext
<1>2. CASE MeshRuns \/ RadioMay
  BY <1>2, MeshLeavesStopping DEF MeshRuns, RadioMay, ircVars, Irc!vars
<1>3. CASE StopBegins
  BY <1>3 DEF StopBegins, Irc!Next, Irc!StopNext
<1>4. CASE StopContinues
  BY <1>4, MeshLeavesStopping DEF StopContinues, Irc!Next, Irc!StopNext, ircVars, Irc!vars
<1>5. CASE \/ LoadFails \/ LoadSucceeds \/ BridgeFails \/ StartBridge
           \/ Exit \/ DrainExits \/ Signal \/ UNCHANGED vars
  BY <1>5, MainSteps DEF ircVars, Irc!vars
<1> QED
  BY <1>1, <1>2, <1>3, <1>4, <1>5 DEF Next

LEMMA MeshStep == [Next]_vars => [Mesh!Next]_(Mesh!vars)
<1> SUFFICES ASSUME [Next]_vars PROVE [Mesh!Next]_(Mesh!vars)
  OBVIOUS
<1>1. CASE IrcRuns \/ IrcMay \/ SendRuns \/ SocketCloses \/ NetworkMay
  BY <1>1, IrcLeavesStopping
  DEF IrcRuns, IrcMay, SendRuns, SocketCloses, NetworkMay, meshVars, Mesh!vars
<1>2. CASE MeshRuns \/ RadioMay
  BY <1>2 DEF MeshRuns, RadioMay, Mesh!Next
<1>3. CASE StopBegins
  BY <1>3 DEF StopBegins, Mesh!Next
<1>4. CASE StopContinues
  BY <1>4, IrcLeavesStopping DEF StopContinues, Mesh!Next, meshVars, Mesh!vars
<1>5. CASE \/ LoadFails \/ LoadSucceeds \/ BridgeFails \/ StartBridge
           \/ Exit \/ DrainExits \/ Signal \/ UNCHANGED vars
  BY <1>5, MainSteps DEF meshVars, Mesh!vars
<1> QED
  BY <1>1, <1>2, <1>3, <1>4, <1>5 DEF Next

\* In the process the IRC side behaves as IrcClient, and the mesh side as
\* MeshSupervisor, although one call of stop() serves both.
THEOREM Composition == Spec => Irc!Spec /\ Mesh!Spec
<1>1. Init => Irc!Init /\ Mesh!Init
  BY DEF Init
<1> QED
  BY <1>1, IrcStep, MeshStep, PTL DEF Spec, Irc!Spec, Mesh!Spec

-----------------------------------------------------------------------------
(* What was proved about the halves. *)

LEMMA SameIrc ==
  /\ Irc!Init => IrcProofs!Init
  /\ [Irc!Next]_(Irc!vars) => [IrcProofs!Next]_(IrcProofs!vars)
BY DEF Irc!Init, IrcProofs!Init, Irc!vars, IrcProofs!vars, Irc!Next,
  IrcProofs!Next, Irc!RunNext, IrcProofs!RunNext, Irc!SenderNext,
  IrcProofs!SenderNext, Irc!StopNext, IrcProofs!StopNext, Irc!NetworkNext,
  IrcProofs!NetworkNext, Irc!StartConnect, IrcProofs!StartConnect,
  Irc!SupervisorExits, IrcProofs!SupervisorExits, Irc!ConnectResolves,
  IrcProofs!ConnectResolves, Irc!ConnectSucceeded, IrcProofs!ConnectSucceeded,
  Irc!ConnectEnded, IrcProofs!ConnectEnded, Irc!Registered, IrcProofs!Registered,
  Irc!NickWaitEnds, IrcProofs!NickWaitEnds, Irc!NickWaitStopped,
  IrcProofs!NickWaitStopped, Irc!JoinDone, IrcProofs!JoinDone, Irc!GivesUpSession,
  IrcProofs!GivesUpSession, Irc!SessionFails, IrcProofs!SessionFails,
  Irc!EndSession, IrcProofs!EndSession, Irc!StartAnswer, IrcProofs!StartAnswer,
  Irc!RunGetsLock, IrcProofs!RunGetsLock, Irc!AnswerSent, IrcProofs!AnswerSent,
  Irc!AnswerFails, IrcProofs!AnswerFails, Irc!CloseDone, IrcProofs!CloseDone,
  Irc!BackoffEnds, IrcProofs!BackoffEnds, Irc!SenderRunnable,
  IrcProofs!SenderRunnable, Irc!StartSend, IrcProofs!StartSend,
  Irc!SenderGetsLock, IrcProofs!SenderGetsLock, Irc!SendDone, IrcProofs!SendDone,
  Irc!SendFails, IrcProofs!SendFails, Irc!LockAfterRun, IrcProofs!LockAfterRun,
  Irc!LockAfterSender, IrcProofs!LockAfterSender, Irc!Stop, IrcProofs!Stop,
  Irc!StopReturns, IrcProofs!StopReturns, Irc!ConnectionLost,
  IrcProofs!ConnectionLost, Irc!LinkDies, IrcProofs!LinkDies, Irc!PeerPauses,
  IrcProofs!PeerPauses, Irc!PeerResumes, IrcProofs!PeerResumes

LEMMA SameMesh ==
  /\ Mesh!Init => MeshProofs!Init
  /\ [Mesh!Next]_(Mesh!vars) => [MeshProofs!Next]_(MeshProofs!vars)
BY DEF Mesh!Init, MeshProofs!Init, Mesh!vars, MeshProofs!vars, Mesh!Next,
  MeshProofs!Next, Mesh!StartConnect, MeshProofs!StartConnect,
  Mesh!SupervisorExits, MeshProofs!SupervisorExits, Mesh!ConnectResolves,
  MeshProofs!ConnectResolves, Mesh!ConnectEnded, MeshProofs!ConnectEnded,
  Mesh!Subscribe, MeshProofs!Subscribe, Mesh!QueriesDone, MeshProofs!QueriesDone,
  Mesh!FetchingStarted, MeshProofs!FetchingStarted, Mesh!LeavesLoop,
  MeshProofs!LeavesLoop, Mesh!PollingEnds, MeshProofs!PollingEnds, Mesh!Release,
  MeshProofs!Release, Mesh!Disconnected, MeshProofs!Disconnected,
  Mesh!BackoffEnds, MeshProofs!BackoffEnds, Mesh!RadioDrops,
  MeshProofs!RadioDrops, Mesh!Notify, MeshProofs!Notify, Mesh!Stop,
  MeshProofs!Stop, Mesh!StopReachesMesh, MeshProofs!StopReachesMesh,
  Mesh!StopDisconnected, MeshProofs!StopDisconnected, Mesh!InSession,
  MeshProofs!InSession, Mesh!Doubled, MeshProofs!Doubled

Halves == IrcProofs!IInv /\ MeshProofs!IInv

LEMMA InitHalves == Init => Halves
<1> USE ClientAssumption, DelayAssumption, TimeoutAssumption
<1>1. Init => IrcProofs!IInv
  BY SameIrc, IrcProofs!InitIInv DEF Init
<1>2. Init => MeshProofs!IInv
  BY SameMesh, MeshProofs!InitIInv DEF Init
<1> QED
  BY <1>1, <1>2 DEF Halves

LEMMA NextKeepsHalves == Halves /\ [Next]_vars => Halves'
<1> USE ClientAssumption, DelayAssumption, TimeoutAssumption
<1>1. IrcProofs!IInv /\ [Next]_vars => IrcProofs!IInv'
  BY IrcStep, SameIrc, IrcProofs!NextKeepsIInv
<1>2. MeshProofs!IInv /\ [Next]_vars => MeshProofs!IInv'
  BY MeshStep, SameMesh, MeshProofs!NextKeepsIInv
<1> QED
  BY <1>1, <1>2 DEF Halves

-----------------------------------------------------------------------------
(* The end of the process. *)

\* Once the drain has returned nothing sends any more.
LEMMA NoNewSend ==
  ASSUME stopping, sender = "idle",
         \/ IrcRuns \/ IrcMay \/ SendRuns \/ SocketCloses \/ NetworkMay \/ Irc!StopReturns
  PROVE  stopping' /\ sender' = "idle"
<1>1. stopping'
  BY IrcLeavesStopping
<1>2. sender' = "idle"
  BY DEF IrcRuns, IrcMay, SendRuns, SocketCloses, NetworkMay,
     Irc!StartConnect, Irc!SupervisorExits, Irc!ConnectResolves,
     Irc!ConnectSucceeded, Irc!ConnectEnded, Irc!Registered, Irc!NickWaitEnds,
     Irc!NickWaitStopped, Irc!JoinDone, Irc!GivesUpSession, Irc!SessionFails,
     Irc!EndSession, Irc!StartAnswer, Irc!RunGetsLock, Irc!AnswerSent,
     Irc!AnswerFails, Irc!CloseDone, Irc!BackoffEnds, Irc!StartSend,
     Irc!SenderGetsLock, Irc!SendDone, Irc!SendFails, Irc!StopReturns,
     Irc!ConnectionLost, Irc!LinkDies, Irc!PeerPauses, Irc!PeerResumes
<1> QED
  BY <1>1, <1>2

\* main and the drain stay in step with the supervisors.
LEMMA NextKeepsMainInStep == MainInStep /\ [Next]_vars => MainInStep'
<1> SUFFICES ASSUME MainInStep, [Next]_vars PROVE MainInStep'
  OBVIOUS
<1> USE DEF MainInStep, MainTypeOK
<1>1. CASE LoadFails
  BY <1>1, RawAssumption DEF LoadFails, ircVars, meshVars
<1>2. CASE StartBridge
  BY <1>2 DEF StartBridge, ircVars, meshVars
<1>3. CASE Exit
  BY <1>3 DEF Exit, ircVars, meshVars
<1>4. CASE DrainExits
  BY <1>4 DEF DrainExits, ircVars, meshVars
<1>5. CASE Signal
  BY <1>5 DEF Signal, ircVars, meshVars
<1>6. CASE StopBegins
  <2>1. main = "running" /\ ~stopping /\ UNCHANGED mainVars
    BY <1>6 DEF StopBegins, Irc!Stop
  <2> QED
    BY <2>1 DEF mainVars
<1>7. CASE \/ IrcRuns \/ IrcMay \/ SendRuns \/ SocketCloses \/ NetworkMay
           \/ StopContinues /\ Irc!StopReturns
  <2>1. main = "running" /\ UNCHANGED mainVars
    BY <1>7 DEF IrcRuns, IrcMay, SendRuns, SocketCloses, NetworkMay, StopContinues
  <2>2. drain = "done" => stopping' /\ sender' = "idle"
    BY <1>7, NoNewSend
  <2> QED
    BY <2>1, <2>2 DEF mainVars
<1>8. CASE \/ MeshRuns \/ RadioMay
           \/ StopContinues /\ UNCHANGED ircVars /\ (Mesh!StopReachesMesh \/ Mesh!StopDisconnected)
  <2>1. main = "running" /\ UNCHANGED mainVars /\ UNCHANGED ircVars
    BY <1>8 DEF MeshRuns, RadioMay, StopContinues
  <2>2. UNCHANGED stopping
    BY <1>8, MeshLeavesStopping
  <2> QED
    BY <2>1, <2>2 DEF mainVars, ircVars
<1>9. CASE UNCHANGED vars
  BY <1>9 DEF vars, mainVars, ircVars, meshVars
<1>10. CASE LoadSucceeds
  BY <1>10 DEF LoadSucceeds, ircVars, meshVars
<1>11. CASE BridgeFails
  BY <1>11, RawAssumption DEF BridgeFails, ircVars, meshVars
<1> QED
  BY <1>1, <1>2, <1>3, <1>4, <1>5, <1>6, <1>7, <1>8, <1>9, <1>10, <1>11 DEF Next, StopContinues

LEMMA InitMainInStep == Init => MainInStep
BY RawAssumption DEF Init, Irc!Init, MainInStep, MainTypeOK

\* main, the drain and both supervisors are in step.
THEOREM Invariant == Spec => [](MainInStep /\ Halves)
BY InitMainInStep, InitHalves, NextKeepsMainInStep, NextKeepsHalves, PTL DEF Spec

\* The process's variables, and those of its halves, keep their types.
THEOREM TypeCorrect == Spec => []TypeOK
<1>1. MainInStep /\ Halves => TypeOK
  <2>1. IrcProofs!TypeOK => Irc!TypeOK
    BY DEF IrcProofs!TypeOK, Irc!TypeOK
  <2>2. MeshProofs!TypeOK => Mesh!TypeOK
    BY DEF MeshProofs!TypeOK, Mesh!TypeOK, MeshProofs!InSession, Mesh!InSession
  <2> QED
    BY <2>1, <2>2 DEF MainInStep, Halves, TypeOK, IrcProofs!IInv, MeshProofs!IInv
<1> QED
  BY <1>1, Invariant, PTL

\* However the process came to its normal end, no socket, send or connect, and
\* no radio but those whose disconnect() raised, is left.
THEOREM CleanExit == Spec => []NothingLeftBehind
<1>1. MainInStep /\ Halves => NothingLeftBehind
  <2> SUFFICES ASSUME MainInStep, Halves, exitCode = "0" PROVE NothingLeftBehind
    BY DEF NothingLeftBehind
  <2>1. ircRun = "done" /\ meshRun = "done" /\ sender = "idle"
    BY DEF MainInStep, MainTypeOK
  <2>2. ~conn /\ link = "none" /\ ircConnect = "none"
    BY <2>1 DEF Halves, IrcProofs!IInv, IrcProofs!ReleasedAtExit
  <2>3. lock = "free"
    BY <2>1 DEF Halves, IrcProofs!IInv, IrcProofs!TypeOK, IrcProofs!LockDiscipline
  <2>4. session = NoClient /\ meshConnect = "none"
    BY <2>1 DEF Halves, MeshProofs!IInv, MeshProofs!TypeOK, MeshProofs!InSession
  <2>5. \A c \in Client : radio[c] = "free" \/ c \in abandoned
    BY <2>4, ClientAssumption DEF Halves, MeshProofs!IInv, MeshProofs!EveryClientReleased
  <2> QED
    BY <2>1, <2>2, <2>3, <2>4, <2>5 DEF NothingLeftBehind
<1> QED
  BY <1>1, Invariant, PTL

\* What main hands to the bridge, whatever configurations there are, satisfies the
\* assertions of connect, _run_session and _send_sasl_response: main keeps what
\* load_config accepted, and load_config accepts nothing else.
THEOREM AssertionsKeptByMain == Spec => []AssertionsGuaranteed
<1>1. MainInStep => AssertionsGuaranteed
  BY AssertionsKept DEF MainInStep, AssertionsGuaranteed
<1> QED
  BY <1>1, Invariant, PTL

============================================================================
