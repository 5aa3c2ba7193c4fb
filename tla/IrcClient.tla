------------------------------ MODULE IrcClient ------------------------------
(***************************************************************************)
(* The life of the IRC connection: IRCClient.run_until_disconnected under  *)
(* Bridge._run_irc_supervisor, the queue drain calling send_privmsg from   *)
(* another task through the same write lock, and stop() from a third.      *)
(*                                                                         *)
(* asyncio runs one task at a time, so what stands between two awaits is   *)
(* one action; a task that awaits is a program counter.  Registration and  *)
(* the wait for NickServ are phases here, with the ways in which they end; *)
(* the messages of the handshake are not told apart.                       *)
(***************************************************************************)
EXTENDS Naturals

VARIABLES
  nickserv,       \* irc.auth.mode = "nickserv" (never changes)
  run,            \* where the supervisor, and the client under it, is
  connect,        \* IRCClient._connect_task, once resolved: its outcome
  conn,           \* IRCClient._conn is not None
  link,           \* the socket of the connection last opened
  paused,         \* its peer does not read, and the write buffer is full
  ready,          \* IRCClient._ready
  joined,         \* history: every JOIN was sent on this connection
  lock,           \* who holds IRCClient._write_lock, or was handed it
  sender,         \* where the drain is in send_privmsg
  clientStopping, \* IRCClient._stopping
  stopping,       \* Bridge._stopping
  stopTask,       \* where the caller of stop() is
  missed          \* history: stop() came when the connect had just succeeded

vars == <<nickserv, run, connect, conn, link, paused, ready, joined, lock, sender,
          clientStopping, stopping, stopTask, missed>>

TypeOK ==
  /\ nickserv \in BOOLEAN
  /\ run \in {"top", "connecting", "registering", "nickWait", "joining", "reading",
              "waitingForLock", "answering", "closing", "backoff", "done"}
  /\ connect \in {"none", "pending", "ok", "failed", "cancelled"}
  /\ conn \in BOOLEAN
  /\ link \in {"none", "open", "closing", "lost"}
  /\ paused \in BOOLEAN /\ ready \in BOOLEAN /\ joined \in BOOLEAN
  /\ lock \in {"free", "run", "sender"}
  /\ sender \in {"idle", "waitingForLock", "draining"}
  /\ clientStopping \in BOOLEAN /\ stopping \in BOOLEAN
  /\ stopTask \in {"none", "closing", "done"}
  /\ missed \in BOOLEAN
  /\ connect # "none" <=> run = "connecting"
  /\ conn => link # "none"

Init ==
  /\ nickserv \in BOOLEAN
  /\ run = "top" /\ connect = "none" /\ conn = FALSE
  /\ link = "none" /\ paused = FALSE
  /\ ready = FALSE /\ joined = FALSE
  /\ lock = "free" /\ sender = "idle"
  /\ clientStopping = FALSE /\ stopping = FALSE /\ stopTask = "none" /\ missed = FALSE

\* An asyncio.Lock is handed to the first task that waits for it.
LockAfterRun == IF sender = "waitingForLock" THEN "sender" ELSE "free"
LockAfterSender == IF run = "waitingForLock" THEN "run" ELSE "free"

\* The drain has been woken, by the lock or by the loss of the connection, and
\* runs before any task that still sleeps or waits for the network.
SenderRunnable ==
  \/ sender = "waitingForLock" /\ lock = "sender"
  \/ sender = "draining" /\ link \in {"lost", "none"}

-----------------------------------------------------------------------------
(* Connecting. *)

\* _stopping is tested and the next run begins without an await in between.
StartConnect ==
  /\ run = "top" /\ ~stopping
  /\ run' = "connecting" /\ connect' = "pending"
  /\ clientStopping' = FALSE
  /\ UNCHANGED <<nickserv, conn, link, paused, ready, joined, lock, sender,
                 stopping, stopTask, missed>>

SupervisorExits ==
  /\ run = "top" /\ stopping
  /\ run' = "done"
  /\ UNCHANGED <<nickserv, connect, conn, link, paused, ready, joined, lock, sender,
                 clientStopping, stopping, stopTask, missed>>

\* The task of IRCConnection.open() finishes.  Whoever awaits it is woken, but
\* does not run yet.
ConnectResolves ==
  /\ connect = "pending"
  /\ \/ connect' = "ok" /\ link' = "open"
     \/ connect' = "failed" /\ link' = link
  /\ UNCHANGED <<nickserv, run, conn, paused, ready, joined, lock, sender,
                 clientStopping, stopping, stopTask, missed>>

\* _conn is set, _connect_task cleared, and registration begins.
ConnectSucceeded ==
  /\ run = "connecting" /\ connect = "ok"
  /\ run' = "registering" /\ connect' = "none"
  /\ conn' = TRUE /\ joined' = FALSE
  /\ UNCHANGED <<nickserv, link, paused, ready, lock, sender, clientStopping,
                 stopping, stopTask, missed>>

\* An OSError goes to the supervisor, which returns if it is stopping and
\* sleeps otherwise; a cancellation by stop() is a return.
ConnectEnded ==
  /\ run = "connecting" /\ connect \in {"failed", "cancelled"}
  /\ connect' = "none"
  /\ run' = IF stopping THEN "done" ELSE "backoff"
  /\ UNCHANGED <<nickserv, conn, link, paused, ready, joined, lock, sender,
                 clientStopping, stopping, stopTask, missed>>

-----------------------------------------------------------------------------
(* A session: register, wait for NickServ, join, read. *)

\* 001 arrived; what was received before a disconnection is still read.
Registered ==
  /\ run = "registering"
  /\ run' = IF nickserv THEN "nickWait" ELSE "joining"
  /\ UNCHANGED <<nickserv, connect, conn, link, paused, ready, joined, lock, sender,
                 clientStopping, stopping, stopTask, missed>>

\* join_wait_seconds have passed, or _stopping was seen.
NickWaitEnds ==
  /\ run = "nickWait" /\ ~clientStopping
  /\ run' = "joining"
  /\ UNCHANGED <<nickserv, connect, conn, link, paused, ready, joined, lock, sender,
                 clientStopping, stopping, stopTask, missed>>

\* Every JOIN went out.
JoinDone ==
  /\ run = "joining" /\ link \in {"open", "closing"} /\ ~paused
  /\ run' = "reading" /\ ready' = TRUE /\ joined' = TRUE
  /\ UNCHANGED <<nickserv, connect, conn, link, paused, lock, sender, clientStopping,
                 stopping, stopTask, missed>>

\* Mutation: _ready is not reset when a session ends.
EndSessionStillReady ==
  /\ run' = "closing"
  /\ conn' = FALSE
  /\ link' = IF link = "open" THEN "closing" ELSE link
  /\ UNCHANGED <<nickserv, connect, paused, ready, joined, sender, clientStopping,
                 stopping, stopTask, missed>>

\* The finally clause of run_until_disconnected, up to its await.  (Not an action
\* of its own: those that end a session include it.)
EndSession ==
  /\ run' = "closing"
  /\ ready' = FALSE /\ conn' = FALSE
  /\ link' = IF link = "open" THEN "closing" ELSE link
  /\ UNCHANGED <<nickserv, connect, paused, joined, sender, clientStopping, stopping,
                 stopTask, missed>>

\* A session ends while nothing is wrong with the socket on our side: refused
\* authentication, the registration timeout, an ERROR, end of file, or the
\* watchdog's verdict.
GivesUpSession ==
  /\ run \in {"registering", "nickWait", "reading"}
  /\ EndSession
  /\ UNCHANGED lock

\* The socket is gone: the read or the JOIN in progress fails.
SessionFails ==
  /\ run \in {"registering", "nickWait", "joining", "reading"}
  /\ link = "lost"
  /\ EndSession
  /\ UNCHANGED lock

\* The wait for NickServ returns because of _stopping.
NickWaitStopped ==
  /\ run = "nickWait" /\ clientStopping
  /\ EndSession
  /\ UNCHANGED lock

\* The read loop owes the server a PONG, or sends its own PING.
StartAnswer ==
  /\ run = "reading"
  /\ \/ lock = "free" /\ lock' = "run" /\ run' = "answering"
     \/ lock # "free" /\ lock' = lock /\ run' = "waitingForLock"
  /\ UNCHANGED <<nickserv, connect, conn, link, paused, ready, joined, sender,
                 clientStopping, stopping, stopTask, missed>>

RunGetsLock ==
  /\ run = "waitingForLock" /\ lock = "run"
  /\ run' = "answering"
  /\ UNCHANGED <<nickserv, connect, conn, link, paused, ready, joined, lock, sender,
                 clientStopping, stopping, stopTask, missed>>

AnswerSent ==
  /\ run = "answering" /\ link \in {"open", "closing"} /\ ~paused
  /\ run' = "reading" /\ lock' = LockAfterRun
  /\ UNCHANGED <<nickserv, connect, conn, link, paused, ready, joined, sender,
                 clientStopping, stopping, stopTask, missed>>

\* Mutation: the lock is not released when drain() raises.
AnswerFailsHoldingLock ==
  /\ run = "answering" /\ link = "lost"
  /\ EndSession
  /\ UNCHANGED lock

\* drain() raises; the lock is released on the way out.
AnswerFails ==
  /\ run = "answering" /\ link = "lost"
  /\ EndSession
  /\ lock' = LockAfterRun

\* Mutation: the end of close() is not awaited.
CloseDoneAtOnce ==
  /\ run = "closing"
  /\ run' = IF stopping THEN "done" ELSE "backoff"
  /\ UNCHANGED <<nickserv, connect, conn, link, paused, ready, joined, lock, sender,
                 clientStopping, stopping, stopTask, missed>>

\* close() returns once the socket is gone, and with it the run, normally or
\* not: the supervisor sees no difference.
CloseDone ==
  /\ run = "closing" /\ link = "lost"
  /\ link' = "none"
  /\ run' = IF stopping THEN "done" ELSE "backoff"
  /\ UNCHANGED <<nickserv, connect, conn, paused, ready, joined, lock, sender,
                 clientStopping, stopping, stopTask, missed>>

BackoffEnds ==
  /\ run = "backoff" /\ ~SenderRunnable
  /\ run' = "top"
  /\ UNCHANGED <<nickserv, connect, conn, link, paused, ready, joined, lock, sender,
                 clientStopping, stopping, stopTask, missed>>

-----------------------------------------------------------------------------
(* The drain's side of send_privmsg. *)

\* Mutation: send_privmsg tests the connection only.
StartSendUnready ==
  /\ sender = "idle" /\ conn /\ ~stopping
  /\ \/ lock = "free" /\ lock' = "sender" /\ sender' = "draining"
     \/ lock # "free" /\ lock' = lock /\ sender' = "waitingForLock"
  /\ UNCHANGED <<nickserv, run, connect, conn, link, paused, ready, joined,
                 clientStopping, stopping, stopTask, missed>>

\* The drain saw is_ready, and send_privmsg sees it again.
StartSend ==
  /\ sender = "idle" /\ ready /\ conn /\ ~stopping
  /\ \/ lock = "free" /\ lock' = "sender" /\ sender' = "draining"
     \/ lock # "free" /\ lock' = lock /\ sender' = "waitingForLock"
  /\ UNCHANGED <<nickserv, run, connect, conn, link, paused, ready, joined,
                 clientStopping, stopping, stopTask, missed>>

\* Woken with the lock, it writes to whatever _conn is by now; None makes it
\* raise an AttributeError, one more failed send for the drain.
SenderGetsLock ==
  /\ sender = "waitingForLock" /\ lock = "sender"
  /\ \/ conn /\ sender' = "draining" /\ lock' = lock
     \/ ~conn /\ sender' = "idle" /\ lock' = LockAfterSender
  /\ UNCHANGED <<nickserv, run, connect, conn, link, paused, ready, joined,
                 clientStopping, stopping, stopTask, missed>>

SendDone ==
  /\ sender = "draining" /\ link \in {"open", "closing"} /\ ~paused
  /\ sender' = "idle" /\ lock' = LockAfterSender
  /\ UNCHANGED <<nickserv, run, connect, conn, link, paused, ready, joined,
                 clientStopping, stopping, stopTask, missed>>

\* Mutation: the lock is not released when drain() raises.
SendFailsHoldingLock ==
  /\ sender = "draining" /\ link \in {"lost", "none"}
  /\ sender' = "idle"
  /\ UNCHANGED <<nickserv, run, connect, conn, link, paused, ready, joined, lock,
                 clientStopping, stopping, stopTask, missed>>

\* drain() raises; the lock is released on the way out.
SendFails ==
  /\ sender = "draining" /\ link \in {"lost", "none"}
  /\ sender' = "idle" /\ lock' = LockAfterSender
  /\ UNCHANGED <<nickserv, run, connect, conn, link, paused, ready, joined,
                 clientStopping, stopping, stopTask, missed>>

-----------------------------------------------------------------------------
(* stop(), and the network. *)

\* Mutation: stop() before there is a connection only sets the flags.
StopWithoutCancel ==
  /\ ~stopping
  /\ stopping' = TRUE /\ clientStopping' = TRUE
  /\ missed' = (connect = "ok")
  /\ link' = IF conn /\ link = "open" THEN "closing" ELSE link
  /\ stopTask' = IF conn THEN "closing" ELSE "done"
  /\ UNCHANGED <<nickserv, run, connect, conn, paused, ready, joined, lock, sender>>

\* Bridge.stop() up to the await in IRCClient.stop(): a connect in progress is
\* cancelled, a connection there is is closed, and a connect whose task has
\* finished, with the supervisor still to run, is neither.
Stop ==
  /\ ~stopping
  /\ stopping' = TRUE /\ clientStopping' = TRUE
  /\ connect' = IF connect = "pending" THEN "cancelled" ELSE connect
  /\ missed' = (connect = "ok")
  /\ link' = IF conn /\ link = "open" THEN "closing" ELSE link
  /\ stopTask' = IF conn THEN "closing" ELSE "done"
  /\ UNCHANGED <<nickserv, run, conn, paused, ready, joined, lock, sender>>

StopReturns ==
  /\ stopTask = "closing" /\ link \in {"lost", "none"}
  /\ stopTask' = "done"
  /\ UNCHANGED <<nickserv, run, connect, conn, link, paused, ready, joined, lock,
                 sender, clientStopping, stopping, missed>>

\* A closed transport is gone once its write buffer is empty.
ConnectionLost ==
  /\ link = "closing" /\ ~paused
  /\ link' = "lost"
  /\ UNCHANGED <<nickserv, run, connect, conn, paused, ready, joined, lock, sender,
                 clientStopping, stopping, stopTask, missed>>

\* A reset, or an error of the transport.
LinkDies ==
  /\ link \in {"open", "closing"}
  /\ link' = "lost" /\ paused' = FALSE
  /\ UNCHANGED <<nickserv, run, connect, conn, ready, joined, lock, sender,
                 clientStopping, stopping, stopTask, missed>>

PeerPauses ==
  /\ link = "open" /\ conn /\ ~paused
  /\ paused' = TRUE
  /\ UNCHANGED <<nickserv, run, connect, conn, link, ready, joined, lock, sender,
                 clientStopping, stopping, stopTask, missed>>

PeerResumes ==
  /\ paused
  /\ paused' = FALSE
  /\ UNCHANGED <<nickserv, run, connect, conn, link, ready, joined, lock, sender,
                 clientStopping, stopping, stopTask, missed>>

RunNext ==
  \/ StartConnect \/ SupervisorExits \/ ConnectSucceeded \/ ConnectEnded
  \/ Registered \/ NickWaitEnds \/ NickWaitStopped \/ JoinDone
  \/ GivesUpSession \/ SessionFails
  \/ StartAnswer \/ RunGetsLock \/ AnswerSent \/ AnswerFails
  \/ CloseDone \/ BackoffEnds
SenderNext == StartSend \/ SenderGetsLock \/ SendDone \/ SendFails
StopNext == Stop \/ StopReturns
NetworkNext == ConnectResolves \/ ConnectionLost \/ LinkDies \/ PeerPauses \/ PeerResumes

Next == RunNext \/ SenderNext \/ StopNext \/ NetworkNext

Spec == Init /\ [][Next]_vars

\* A task that can run does; a phase with a deadline ends; a connect resolves
\* and a peer that stopped reading resumes or goes away (neither has a timeout
\* in the code: this is what the operating system is trusted with).  A resume
\* wakes a blocked write for good, however short it is, hence the strong
\* fairness.
Fairness ==
  /\ WF_vars(StartConnect) /\ WF_vars(SupervisorExits)
  /\ WF_vars(ConnectSucceeded) /\ WF_vars(ConnectEnded)
  /\ WF_vars(Registered \/ (run = "registering" /\ (GivesUpSession \/ SessionFails)))
  /\ WF_vars(NickWaitEnds) /\ WF_vars(NickWaitStopped) /\ WF_vars(SessionFails)
  /\ WF_vars(RunGetsLock) /\ WF_vars(AnswerFails)
  /\ WF_vars(CloseDone) /\ WF_vars(BackoffEnds)
  /\ SF_vars(JoinDone) /\ SF_vars(AnswerSent) /\ SF_vars(SendDone)
  /\ WF_vars(SenderGetsLock) /\ WF_vars(SendFails)
  /\ WF_vars(StopReturns)
  /\ WF_vars(ConnectResolves) /\ SF_vars(ConnectionLost) /\ WF_vars(PeerResumes)

FairSpec == Spec /\ Fairness

-----------------------------------------------------------------------------
(* Properties. *)

\* The client calls itself ready only while it has a connection on which every
\* JOIN was sent, and is reading from it: no path out of a session, whichever
\* await it leaves from, keeps the flag.
ReadyIsCurrent ==
  ready => conn /\ joined /\ run \in {"reading", "waitingForLock", "answering"}

\* (Registration and the JOINs take the lock too; NoSenderLeftOver is why they
\* never wait for it.)
\* The write lock is held by a task that is using it or was just handed it, is
\* not free while a task waits for it, and never has two users.
LockDiscipline ==
  /\ lock = "run" => run \in {"waitingForLock", "answering"}
  /\ lock = "sender" => sender \in {"waitingForLock", "draining"}
  /\ run = "answering" => lock = "run"
  /\ sender = "draining" => lock = "sender"
  /\ lock = "free" => run # "waitingForLock" /\ sender # "waitingForLock"

\* Whatever a sender of the last connection was doing, it is out of the way, and
\* has given the lock back, before the next connection is opened.
NoSenderLeftOver ==
  run \in {"connecting", "registering", "nickWait", "joining"} =>
    sender = "idle" /\ lock = "free"

\* A line is written only to a connection that has joined its channels, although
\* the task may have waited for the lock since it tested is_ready.
PrivmsgAfterJoin ==
  [][sender # "draining" /\ sender' = "draining" => conn /\ joined]_vars

\* The start of a run resets the client's flag, and still no stop is forgotten.
StopRemembered == stopping => clientStopping

\* When the supervisor has returned, the socket is closed and no connect is
\* left running.
ReleasedAtExit == run = "done" => ~conn /\ link = "none" /\ connect = "none"

\* In which phases there is a connection, a socket, and a drain in the middle
\* of a send.
Phases ==
  /\ conn <=> run \in {"registering", "nickWait", "joining", "reading",
                       "waitingForLock", "answering"}
  /\ run \in {"reading", "waitingForLock", "answering"} => ready /\ joined
  /\ run \in {"top", "backoff", "done"} => link = "none"
  /\ run = "connecting" => link \in IF connect = "ok" THEN {"open", "lost"} ELSE {"none"}
  /\ run = "closing" => link \in {"closing", "lost"}
  /\ sender # "idle" => run \in {"reading", "waitingForLock", "answering", "closing",
                                "backoff", "done"}

\* The invariant that explains the others; it is inductive (IrcClientProofs).
IInv == /\ TypeOK
        /\ Phases
        /\ ReadyIsCurrent
        /\ LockDiscipline
        /\ NoSenderLeftOver
        /\ StopRemembered
        /\ ReleasedAtExit

\* A session whose socket is gone ends in a new attempt to connect, or in the
\* return of the supervisor, whoever holds the lock or waits for it.
LossLeadsToReconnect == (conn /\ link = "lost") ~> (run \in {"connecting", "done"})

\* To the drain the client is the service of SendService: a send begins at a ready
\* client only, and ends, whoever holds the write lock and whatever becomes of
\* the connection.
Service == INSTANCE SendService WITH sending <- sender # "idle"
ImplementsService == Service!Spec

\* What the docstrings of stop() and Bridge.run() say, without the exception.
StopAlwaysEndsRun == stopping ~> (run = "done")

==============================================================================
