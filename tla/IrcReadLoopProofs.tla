-------------------------- MODULE IrcReadLoopProofs --------------------------
(***************************************************************************)
(* The clocks of IrcReadLoop, for any lines, any limits of the inbox and   *)
(* any ping_idle_seconds and ping_timeout_seconds.                         *)
(***************************************************************************)
EXTENDS IrcReadLoop, TLAPS

\* What happens to the inbox.
LEMMA NothingUnread == inbox = <<>> => ~Unread
BY DEF Unread

LEMMA HeadUnread ==
  ASSUME TypeOK, inbox # <<>>, IsMessage(Head(inbox))
  PROVE  Unread
<1>1. 1 \in 1..Len(inbox) /\ Head(inbox) = inbox[1]
  BY DEF TypeOK
<1> QED
  BY <1>1 DEF Unread

LEMMA TailUnread ==
  ASSUME TypeOK, inbox # <<>>, inbox' = Tail(inbox)
  PROVE  /\ inbox' \in Seq(Line \cup {Oversized}) /\ Len(inbox') <= MaxInbox
         /\ Len(inbox') < MaxInbox /\ (Unread' => Unread)
<1>1. /\ inbox' \in Seq(Line \cup {Oversized}) /\ Len(inbox') = Len(inbox) - 1
      /\ Len(inbox) \in Nat
      /\ \A i \in 1..Len(inbox') : inbox'[i] = inbox[i + 1] /\ i + 1 \in 1..Len(inbox)
  BY DEF TypeOK
<1>2. Unread' => Unread
  BY <1>1 DEF Unread
<1> QED
  BY <1>1, <1>2, InboxAssumption DEF TypeOK

LEMMA AppendUnread ==
  ASSUME TypeOK, NEW line \in Line \cup {Oversized}, inbox' = Append(inbox, line)
  PROVE  Unread' => Unread \/ IsMessage(line)
<1>1. /\ Len(inbox') = Len(inbox) + 1 /\ Len(inbox) \in Nat
      /\ \A i \in 1..Len(inbox) : inbox'[i] = inbox[i]
      /\ inbox'[Len(inbox) + 1] = line
  BY DEF TypeOK
<1> QED
  BY <1>1 DEF Unread

LEMMA SameUnread == UNCHANGED inbox => (Unread' <=> Unread)
BY DEF Unread

LEMMA InitIInv == Init => IInv
<1> SUFFICES ASSUME Init PROVE IInv
  OBVIOUS
<1>1. ~Unread
  BY NothingUnread DEF Init
<1>2. inbox \in Seq(Line \cup {Oversized}) /\ Len(inbox) <= MaxInbox
  BY InboxAssumption DEF Init
<1>3. /\ rx \in 0..Idle /\ silence \in 0..(Idle + Timeout + 1) /\ listened = silence
      /\ unheard \in 0..Timeout
  BY TimeAssumption DEF Init
<1>4. TypeOK
  BY <1>2, <1>3 DEF Init, TypeOK
<1> QED
  BY <1>1, <1>4, TimeAssumption DEF Init, IInv, OwesPing, ClocksAgree, AnswerAwaited

\* The loop, but for what it does with a line.
LEMMA LoopKeepsIInv ==
  ASSUME IInv,
         \/ DeclareDead \/ SendPing \/ StartRead \/ ReadTimesOut \/ ReadGone
         \/ GetLock \/ WriteDone \/ WriteRaises
  PROVE  IInv'
<1> USE TimeAssumption DEF IInv
<1>0. Unread' <=> Unread
  BY SameUnread DEF DeclareDead, SendPing, StartRead, ReadTimesOut, ReadGone, GetLock,
                    WriteDone, WriteRaises
<1>1. CASE DeclareDead
  BY <1>0, <1>1 DEF DeclareDead, TypeOK, OwesPing, ClocksAgree, AnswerAwaited
<1>2. CASE SendPing
  <2>0. ping' \in 0..Timeout \cup {NoPing}
    BY <1>2 DEF SendPing
  <2>1. TypeOK'
    BY <1>2, <2>0 DEF SendPing, Send, TypeOK
  <2>2. rx = Idle
    BY <1>2 DEF SendPing, Deadline
  <2>3. OwesPing' /\ ClocksAgree' /\ AnswerAwaited'
    BY <1>0, <1>2, <2>2 DEF SendPing, Send, TypeOK, OwesPing, ClocksAgree, AnswerAwaited
  <2> QED
    BY <2>1, <2>3
<1>3. CASE StartRead
  BY <1>0, <1>3 DEF StartRead, Deadline, TypeOK, OwesPing, ClocksAgree, AnswerAwaited
<1>4. CASE ReadTimesOut
  BY <1>0, <1>4 DEF ReadTimesOut, TypeOK, OwesPing, ClocksAgree, AnswerAwaited
<1>5. CASE ReadGone
  BY <1>0, <1>5 DEF ReadGone, TypeOK, OwesPing, ClocksAgree, AnswerAwaited
<1>6. CASE GetLock
  BY <1>0, <1>6 DEF GetLock, TypeOK, OwesPing, ClocksAgree, AnswerAwaited
<1>7. CASE WriteDone
  <2>1. TypeOK'
    BY <1>7 DEF WriteDone, Release, TypeOK
  <2>2. ping' = Timeout => late'
    BY <1>7 DEF WriteDone, Deadline, OwesPing, TypeOK
  <2>3. OwesPing' /\ ClocksAgree' /\ AnswerAwaited'
    BY <1>0, <1>7, <2>2 DEF WriteDone, TypeOK, OwesPing, ClocksAgree, AnswerAwaited
  <2> QED
    BY <2>1, <2>3
<1>8. CASE WriteRaises
  BY <1>0, <1>8 DEF WriteRaises, Release, TypeOK, OwesPing, ClocksAgree, AnswerAwaited
<1> QED
  BY <1>1, <1>2, <1>3, <1>4, <1>5, <1>6, <1>7, <1>8

\* A line is read: the clocks start again with a message, and with nothing else.
LEMMA ReadKeepsIInv ==
  ASSUME IInv, SkipLine \/ ReadPing \/ ReadOther \/ ReadBareFailure
  PROVE  IInv'
<1> USE TimeAssumption DEF IInv
<1>0. /\ inbox # <<>> /\ run = "reading"
      /\ inbox' \in Seq(Line \cup {Oversized}) /\ Len(inbox') <= MaxInbox
      /\ Len(inbox') < MaxInbox /\ (Unread' => Unread)
  BY TailUnread DEF SkipLine, ReadPing, ReadOther, ReadBareFailure, Readable, Heard
<1>1. CASE SkipLine
  <2>1. UNCHANGED <<run, owed, rx, ping, partial, link, paused, lock, sender,
                   silence, listened, unheard, late>>
    BY <1>1 DEF SkipLine
  <2>2. TypeOK'
    BY <1>0, <2>1 DEF TypeOK
  <2>3. OwesPing' /\ ClocksAgree'
    BY <1>0, <2>1 DEF OwesPing, ClocksAgree
  <2>4. Unread => Unread'
    <3>1. ~IsMessage(inbox[1]) /\ Len(inbox) \in Nat
      BY <1>0, <1>1 DEF SkipLine, TypeOK
    <3>2. \A i \in 2..Len(inbox) : i - 1 \in 1..Len(inbox') /\ inbox'[i - 1] = inbox[i]
      BY <1>0, <1>1 DEF SkipLine, TypeOK
    <3> QED
      BY <3>1, <3>2 DEF Unread
  <2>5. AnswerAwaited'
    BY <1>0, <2>1, <2>4 DEF AnswerAwaited
  <2> QED
    BY <2>2, <2>3, <2>5
<1>2. ASSUME IsMessage(Head(inbox)), Heard, UNCHANGED <<silence, listened, unheard, late>>,
             run' \in {"writing", "waitingForLock"} => owed' \in {"PONG", "longPONG"}
      PROVE  OwesPing' /\ ClocksAgree' /\ AnswerAwaited'
  <2>1. listened = 0 /\ rx' = 0 /\ ping' = NoPing
    BY <1>0, <1>2, HeadUnread DEF ClocksAgree, Heard
  <2> QED
    BY <1>2, <2>1 DEF OwesPing, ClocksAgree, AnswerAwaited
<1>3. CASE ReadPing
  <2>1. owed' \in {"PONG", "longPONG"}
    BY <1>3 DEF ReadPing, Send, Answer
  <2>2. TypeOK'
    BY <1>0, <1>3, <2>1 DEF ReadPing, Send, Heard, TypeOK
  <2> QED
    BY <1>2, <1>3, <2>1, <2>2 DEF ReadPing
<1>4. CASE ReadOther
  BY <1>0, <1>2, <1>4 DEF ReadOther, Heard, TypeOK
<1>5. CASE ReadBareFailure
  BY <1>0, <1>2, <1>5 DEF ReadBareFailure, Heard, TypeOK
<1> QED
  BY <1>1, <1>3, <1>4, <1>5

LEMMA OthersKeepIInv ==
  ASSUME IInv, DrainNext \/ PeerNext
  PROVE  IInv'
<1> USE TimeAssumption DEF IInv
<1>1. CASE DrainNext
  <2>1. Unread' <=> Unread
    BY <1>1, SameUnread DEF DrainNext, StartPrivmsg, PrivmsgGetsLock, PrivmsgEnds
  <2>2. /\ UNCHANGED <<run, owed, rx, ping, inbox, partial, link, paused,
                      silence, listened, unheard, late>>
        /\ lock' \in {"free", "run", "sender"}
        /\ sender' \in {"idle", "waitingForLock", "draining"}
    BY <1>1 DEF DrainNext, StartPrivmsg, PrivmsgGetsLock, PrivmsgEnds, Release, TypeOK
  <2> QED
    BY <2>1, <2>2 DEF TypeOK, OwesPing, ClocksAgree, AnswerAwaited
<1>2. ASSUME NEW line \in Line \cup {Oversized}, Len(inbox) < MaxInbox,
             inbox' = Append(inbox, line), partial' = FALSE,
             silence' = 0, listened' = 0,
             unheard' = IF IsMessage(line) THEN 0 ELSE unheard,
             UNCHANGED <<run, owed, rx, ping, paused, lock, sender, late>>,
             link' \in {"up", "eof"}
      PROVE  IInv'
  <2>1. Unread' => Unread \/ IsMessage(line)
    BY <1>2, AppendUnread
  <2>2. inbox' \in Seq(Line \cup {Oversized}) /\ Len(inbox') <= MaxInbox
    BY <1>2, InboxAssumption DEF TypeOK
  <2>3. Unread => Unread'
    <3>1. \A i \in 1..Len(inbox) : i \in 1..Len(inbox') /\ inbox'[i] = inbox[i]
      BY <1>2 DEF TypeOK
    <3> QED
      BY <3>1 DEF Unread
  <2>4. IsMessage(line) => Unread'
    <3>1. Len(inbox') \in 1..Len(inbox') /\ inbox'[Len(inbox')] = line
      BY <1>2 DEF TypeOK
    <3> QED
      BY <3>1 DEF Unread
  <2>5. unheard' \in 0..Timeout
    BY <1>2 DEF TypeOK
  <2>6. TypeOK'
    <3>1. partial' \in BOOLEAN /\ ~partial'
      BY <1>2
    <3>2. silence' \in 0..(Idle + Timeout + 1) /\ listened' \in 0..(Idle + Timeout + 1)
      BY <1>2
    <3>3. /\ UNCHANGED <<run, owed, rx, ping, paused, lock, sender, late>>
          /\ link' \in {"up", "silent", "eof", "reset"}
      BY <1>2
    <3> QED
      BY <2>2, <2>5, <3>1, <3>2, <3>3 DEF TypeOK
  <2>7. OwesPing' /\ ClocksAgree'
    BY <1>2, <2>5 DEF TypeOK, OwesPing, ClocksAgree
  <2>8. AnswerAwaited'
    <3>1. CASE IsMessage(line)
      BY <1>2, <2>4, <3>1 DEF AnswerAwaited
    <3>2. CASE ~IsMessage(line)
      BY <1>2, <2>1, <2>3, <3>2 DEF AnswerAwaited
    <3> QED
      BY <3>1, <3>2
  <2> QED
    BY <2>6, <2>7, <2>8
<1>3. ASSUME NEW line \in Line \cup {Oversized}, Arrive(line)
      PROVE  IInv'
  <2>1. link' \in {"up", "eof"}
    BY <1>3 DEF Arrive
  <2> QED
    BY <1>2, <1>3, <2>1 DEF Arrive
<1>4. CASE ArriveInPart
  <2>1. Unread' <=> Unread
    BY <1>4, SameUnread DEF ArriveInPart
  <2> QED
    BY <1>4, <2>1 DEF ArriveInPart, TypeOK, OwesPing, ClocksAgree, AnswerAwaited
<1>5. CASE PeerCloses
  <2>1. CASE partial
    <3>1. PICK line \in Line : /\ inbox' = Append(inbox, line)
                              /\ unheard' = IF IsMessage(line) THEN 0 ELSE unheard
      BY <1>5, <2>1 DEF PeerCloses
    <3>2. partial' = FALSE /\ Len(inbox) < MaxInbox /\ link' \in {"up", "eof"}
      BY <1>5, <2>1 DEF PeerCloses, TypeOK
    <3> QED
      BY <1>2, <1>5, <3>1, <3>2 DEF PeerCloses
  <2>2. CASE ~partial
    <3>1. UNCHANGED <<inbox, partial, unheard>>
      BY <1>5, <2>2 DEF PeerCloses
    <3>2. Unread' <=> Unread
      BY <3>1, SameUnread
    <3> QED
      BY <1>5, <3>1, <3>2 DEF PeerCloses, TypeOK, OwesPing, ClocksAgree, AnswerAwaited
  <2> QED
    BY <2>1, <2>2
<1>6. CASE PeerVanishes \/ PeerStopsReading \/ PeerReadsOn
  <2>1. Unread' <=> Unread
    BY <1>6, SameUnread DEF PeerVanishes, PeerStopsReading, PeerReadsOn
  <2>2. /\ UNCHANGED <<run, owed, rx, ping, inbox, partial, lock, sender,
                      silence, listened, unheard, late>>
        /\ link' \in {"up", "silent", "eof", "reset"} /\ paused' \in BOOLEAN
    BY <1>6 DEF PeerVanishes, PeerStopsReading, PeerReadsOn, TypeOK
  <2> QED
    BY <2>1, <2>2 DEF TypeOK, OwesPing, ClocksAgree, AnswerAwaited
<1> QED
  BY <1>1, <1>3, <1>4, <1>5, <1>6 DEF PeerNext

\* Time does not pass between a line's arrival and its being read, nor at a
\* deadline.
LEMMA TickKeepsIInv ==
  ASSUME IInv, Tick
  PROVE  IInv'
<1> USE TimeAssumption DEF IInv
<1>1. Unread' <=> Unread
  BY SameUnread DEF Tick
<1>2. run = "reading" => ~Unread /\ ~Deadline
  BY NothingUnread DEF Tick, Busy
<1>3. run # "top"
  BY DEF Tick, Busy
<1>4. TypeOK'
  BY DEF Tick, Later, TypeOK
<1>5. OwesPing'
  BY DEF Tick, OwesPing, TypeOK, Later
<1>6. ClocksAgree'
  <2>1. CASE run = "reading"
    BY <1>1, <1>2, <2>1 DEF Tick, Later, Deadline, TypeOK, ClocksAgree
  <2>2. CASE run # "reading"
    BY <1>1, <2>2 DEF Tick, Later, TypeOK, ClocksAgree
  <2> QED
    BY <2>1, <2>2
<1>7. AnswerAwaited'
  BY <1>1, <1>2, <1>3 DEF Tick, Later, TypeOK, AnswerAwaited
<1> QED
  BY <1>4, <1>5, <1>6, <1>7

LEMMA StutterKeepsIInv == IInv /\ UNCHANGED vars => IInv'
BY SameUnread DEF vars, IInv, TypeOK, OwesPing, ClocksAgree, AnswerAwaited

\* The invariant holds in every reachable state.
THEOREM Invariance == Spec => []IInv
<1>1. IInv /\ [Next]_vars => IInv'
  BY LoopKeepsIInv, ReadKeepsIInv, OthersKeepIInv, TickKeepsIInv, StutterKeepsIInv
  DEF Next, LoopNext
<1> QED
  BY InitIInv, <1>1, PTL DEF Spec

\* Every variable keeps its type, and every clock its limit.
THEOREM TypeCorrect == Spec => []TypeOK
BY Invariance, PTL DEF IInv

\* The loop never listens to nothing for longer than ping_idle_seconds +
\* ping_timeout_seconds, whatever those are (_read_loop).
THEOREM SilenceIsBounded == Spec => []DetectedInTime
<1>1. IInv => DetectedInTime
  BY TimeAssumption DEF IInv, TypeOK, ClocksAgree, DetectedInTime
<1> QED
  BY <1>1, Invariance, PTL

\* The verdict of the watchdog is never passed on a link on which a message
\* arrived in time, but for the two exceptions that the property names.
THEOREM VerdictIsJust == Spec => AnswerKeepsAlive
<1>1. ASSUME IInv, [Next]_vars, run = "top", run' = "ended"
      PROVE  unheard >= Timeout \/ unheard = 0 \/ late
  <2>1. DeclareDead
    BY <1>1 DEF vars, Next, LoopNext, DrainNext, PeerNext, DeclareDead, SendPing, Send,
       StartRead, ReadTimesOut, SkipLine, ReadPing, ReadOther, ReadBareFailure, ReadGone,
       Readable, GetLock, WriteDone, WriteRaises, StartPrivmsg, PrivmsgGetsLock,
       PrivmsgEnds, Arrive, ArriveInPart, PeerVanishes, PeerCloses,
       PeerStopsReading, PeerReadsOn, Tick
  <2>2. ping = Timeout /\ run = "top"
    BY <2>1 DEF DeclareDead, Deadline
  <2> QED
    BY <1>1, <2>2, TimeAssumption DEF IInv, AnswerAwaited
<1> QED
  BY <1>1, Invariance, PTL DEF Spec, AnswerKeepsAlive

\* No line costs the session but those that OnlyTheseEndIt names.
THEOREM MalformedLinesAreHarmless == Spec => OnlyTheseEndIt
<1> DEFINE Cause == \/ link \in {"eof", "reset"}
                    \/ ping = Timeout
                    \/ owed = "longPONG"
                    \/ inbox # <<>> /\ Head(inbox) = Oversized
                    \/ inbox # <<>> /\ IsMessage(Head(inbox)) /\ BareFailure(Head(inbox))
<1>1. ASSUME [Next]_vars, run # "ended", run' = "ended"
      PROVE  Cause
  <2>1. DeclareDead \/ ReadGone \/ ReadBareFailure \/ WriteRaises
    BY <1>1 DEF vars, Next, LoopNext, DrainNext, PeerNext, SendPing, Send,
       StartRead, ReadTimesOut, SkipLine, ReadPing, ReadOther,
       GetLock, WriteDone, StartPrivmsg, PrivmsgGetsLock,
       PrivmsgEnds, Arrive, ArriveInPart, PeerVanishes, PeerCloses,
       PeerStopsReading, PeerReadsOn, Tick
  <2> QED
    BY <2>1 DEF DeclareDead, ReadGone, ReadBareFailure, WriteRaises, Readable, Deadline
<1> QED
  BY <1>1, PTL DEF Spec, OnlyTheseEndIt

==============================================================================
