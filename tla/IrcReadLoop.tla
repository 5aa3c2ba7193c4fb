----------------------------- MODULE IrcReadLoop -----------------------------
(***************************************************************************)
(* IRCClient._read_loop in discrete time: it reads lines (IRCConnection.   *)
(* read_message, Message.parse), answers PINGs, and watches for silence    *)
(* with a PING of its own.  It shares the write lock with the drain.       *)
(*                                                                         *)
(* A line is a record of what parse tells apart: what it leads with, its   *)
(* words up to the first " :", and what follows that.                      *)
(***************************************************************************)
EXTENDS Naturals, Sequences

CONSTANTS Line,        \* the lines the server may send
          Oversized,   \* more than the reader's buffer without an end of line
          NoPing,      \* ping_sent_at is None
          Idle,        \* ping_idle_seconds
          Timeout,     \* ping_timeout_seconds
          MaxInbox     \* bound: lines received and not yet read

ASSUME LineAssumption ==
  /\ Line \subseteq [lead : {"nothing", "tags", "prefix"},
                     words : Seq(STRING), trailing : Seq(STRING)]
  /\ Oversized \notin Line
ASSUME TimeAssumption == Idle \in Nat \ {0} /\ Timeout \in Nat \ {0} /\ NoPing \notin Nat
ASSUME InboxAssumption == MaxInbox \in Nat

VARIABLES
  run,      \* where the loop is
  owed,     \* the message of the send in progress
  rx,       \* time since last_rx, up to Idle
  ping,     \* time since ping_sent_at, up to Timeout, or NoPing
  inbox,    \* lines received and not yet read
  partial,  \* the beginning of a line has come, and not yet its end
  link,     \* what became of the connection
  paused,   \* the write buffer is full and the peer does not read
  lock,     \* who holds IRCClient._write_lock, or was handed it
  sender,   \* where the drain is in send_privmsg
  silence,  \* history: time since anything arrived, up to Idle + Timeout + 1
  listened, \* history: how much of that time the loop has spent reading
  unheard,  \* history: time since the end of a message arrived, up to Timeout
  late      \* history: the PING took ping_timeout_seconds or more to write

vars == <<run, owed, rx, ping, inbox, partial, link, paused, lock, sender,
          silence, listened, unheard, late>>

TypeOK ==
  /\ run \in {"top", "reading", "waitingForLock", "writing", "ended"}
  /\ owed \in {"nothing", "PING", "PONG", "longPONG"}
  /\ rx \in 0..Idle
  /\ ping \in 0..Timeout \cup {NoPing}
  /\ inbox \in Seq(Line \cup {Oversized}) /\ Len(inbox) <= MaxInbox
  /\ partial \in BOOLEAN /\ (partial => Len(inbox) < MaxInbox)
  /\ link \in {"up", "silent", "eof", "reset"}
  /\ paused \in BOOLEAN
  /\ lock \in {"free", "run", "sender"}
  /\ sender \in {"idle", "waitingForLock", "draining"}
  /\ silence \in 0..(Idle + Timeout + 1) /\ listened \in 0..(Idle + Timeout + 1)
  /\ unheard \in 0..Timeout
  /\ late \in BOOLEAN

Init ==
  /\ run = "top" /\ owed = "nothing" /\ rx = 0 /\ ping = NoPing
  /\ inbox = <<>> /\ partial = FALSE /\ link = "up" /\ paused = FALSE
  /\ lock = "free" /\ sender = "idle"
  /\ silence = 0 /\ listened = 0 /\ unheard = 0 /\ late = FALSE

-----------------------------------------------------------------------------
(* Message.parse and Message.param. *)

\* Command and parameters; <<>> is what a ValueError says, and a blank line too.
\* Without words, a ":text" is a prefix of its own, with nothing after it, except
\* behind a prefix: there it is the command, and one that nobody knows.
Parse(line) ==
  IF line.words # <<>> THEN line.words \o line.trailing
  ELSE IF line.lead = "prefix" /\ line.trailing # <<>> THEN <<"unknown">>
  ELSE <<>>

IsMessage(line) == line # Oversized /\ Parse(line) # <<>>
Command(line) == Head(Parse(line))
Params(line) == Tail(Parse(line))

\* The answer to a PING is its token behind a colon, which format_line refuses
\* if it makes the line too long, as it may be if the token came without one.
Answer(line) ==
  IF Params(line) # <<>> /\ Head(Params(line)) = "long" THEN "longPONG" ELSE "PONG"

\* param(-1) is params[-1]: with no parameters at all it is an IndexError.
BareFailure(line) == Command(line) = "joinFailure" /\ Params(line) = <<>>

-----------------------------------------------------------------------------
(* The loop. *)

\* Mutation: only the wait for an answer to our PING is bounded.
DeadlineOfPingOnly == ping # NoPing /\ ping = Timeout

\* The deadline of the wait: the PING's, if one is out.
Deadline == IF ping # NoPing THEN ping = Timeout ELSE rx = Idle

\* _send up to its first await: the write lock is taken, or waited for.
Send(message) ==
  /\ owed' = message
  /\ \/ lock = "free" /\ lock' = "run" /\ run' = "writing"
     \/ lock # "free" /\ lock' = lock /\ run' = "waitingForLock"

\* Mutation: the verdict comes a moment early.
DeclareDeadEarly ==
  /\ run = "top" /\ ping # NoPing /\ ping + 1 >= Timeout
  /\ run' = "ended"
  /\ UNCHANGED <<owed, rx, ping, inbox, partial, link, paused, lock, sender,
                 silence, listened, unheard, late>>

\* No answer in time: the link is dead.
DeclareDead ==
  /\ run = "top" /\ ping # NoPing /\ Deadline
  /\ run' = "ended"
  /\ UNCHANGED <<owed, rx, ping, inbox, partial, link, paused, lock, sender,
                 silence, listened, unheard, late>>

\* Silence for too long.  ping_sent_at is the time at which the send began, and
\* nobody reads it before the send has ended.
SendPing ==
  /\ run = "top" /\ ping = NoPing /\ Deadline
  /\ Send("PING")
  /\ ping' = 0 /\ late' = FALSE
  /\ UNCHANGED <<rx, inbox, partial, link, paused, sender, silence, listened, unheard>>

StartRead ==
  /\ run = "top" /\ ~Deadline
  /\ run' = "reading"
  /\ UNCHANGED <<owed, rx, ping, inbox, partial, link, paused, lock, sender,
                 silence, listened, unheard, late>>

\* Mutation: a read that times out starts the clocks again, like one that returns.
ReadTimesOutAsTraffic ==
  /\ run = "reading" /\ Deadline
  /\ run' = "top" /\ rx' = 0 /\ ping' = NoPing
  /\ UNCHANGED <<owed, inbox, partial, link, paused, lock, sender,
                 silence, listened, unheard, late>>

\* wait_for gives the read up, and what it had not returned stays in the buffer;
\* a line that came at this very moment is not seen.
ReadTimesOut ==
  /\ run = "reading" /\ Deadline
  /\ run' = "top"
  /\ UNCHANGED <<owed, rx, ping, inbox, partial, link, paused, lock, sender,
                 silence, listened, unheard, late>>

\* A line can be read: the buffer is dropped with a transport that failed, and
\* still read when the peer has closed its side.
Readable == run = "reading" /\ inbox # <<>> /\ link # "reset"

\* Mutation: the ValueError of parse leaves read_message.
SkipLineRaising ==
  /\ Readable /\ Head(inbox) # Oversized /\ ~IsMessage(Head(inbox))
  /\ inbox' = Tail(inbox) /\ run' = "ended"
  /\ UNCHANGED <<owed, rx, ping, partial, link, paused, lock, sender,
                 silence, listened, unheard, late>>

\* A blank line, or one that does not parse, is skipped inside read_message: the
\* loop does not know of it, and its clocks run on (AnyByteKeepsAlive).
SkipLine ==
  /\ Readable /\ Head(inbox) # Oversized /\ ~IsMessage(Head(inbox))
  /\ inbox' = Tail(inbox)
  /\ UNCHANGED <<run, owed, rx, ping, partial, link, paused, lock, sender,
                 silence, listened, unheard, late>>

\* A message arrived, whatever it is: the clocks start again.
Heard == inbox' = Tail(inbox) /\ rx' = 0 /\ ping' = NoPing

ReadPing ==
  /\ Readable /\ IsMessage(Head(inbox)) /\ Command(Head(inbox)) = "PING"
  /\ Heard /\ Send(Answer(Head(inbox)))
  /\ UNCHANGED <<partial, link, paused, sender, silence, listened, unheard, late>>

\* A refused JOIN is logged, anything else dropped.
ReadOther ==
  /\ Readable /\ IsMessage(Head(inbox)) /\ Command(Head(inbox)) # "PING"
  /\ ~BareFailure(Head(inbox))
  /\ Heard /\ run' = "top"
  /\ UNCHANGED <<owed, partial, link, paused, lock, sender,
                 silence, listened, unheard, late>>

\* The warning about a refused JOIN cannot be worded: the IndexError ends the
\* session.
ReadBareFailure ==
  /\ Readable /\ IsMessage(Head(inbox)) /\ BareFailure(Head(inbox))
  /\ Heard /\ run' = "ended"
  /\ UNCHANGED <<owed, partial, link, paused, lock, sender,
                 silence, listened, unheard, late>>

\* read_message returns None: the end of the stream, a transport error, or a
\* line that outgrows the buffer.
ReadGone ==
  /\ run = "reading"
  /\ \/ link = "reset"
     \/ link = "eof" /\ inbox = <<>>
     \/ Readable /\ Head(inbox) = Oversized
  /\ run' = "ended"
  /\ UNCHANGED <<owed, rx, ping, inbox, partial, link, paused, lock, sender,
                 silence, listened, unheard, late>>

GetLock ==
  /\ run = "waitingForLock" /\ lock = "run"
  /\ run' = "writing"
  /\ UNCHANGED <<owed, rx, ping, inbox, partial, link, paused, lock, sender,
                 silence, listened, unheard, late>>

Release(waits) == lock' = IF waits THEN (IF lock = "run" THEN "sender" ELSE "run") ELSE "free"

\* drain() returns, at once if the buffer is not full.
WriteDone ==
  /\ run = "writing" /\ ~paused /\ link # "reset" /\ owed # "longPONG"
  /\ run' = "top" /\ owed' = "nothing"
  /\ Release(sender = "waitingForLock")
  /\ late' = (owed = "PING" /\ Deadline)
  /\ UNCHANGED <<rx, ping, inbox, partial, link, paused, sender,
                 silence, listened, unheard>>

\* format_line refuses the message, or the transport has failed.
WriteRaises ==
  /\ run = "writing" /\ (owed = "longPONG" \/ link = "reset")
  /\ run' = "ended"
  /\ Release(sender = "waitingForLock")
  /\ UNCHANGED <<owed, rx, ping, inbox, partial, link, paused, sender,
                 silence, listened, unheard, late>>

-----------------------------------------------------------------------------
(* The drain, for as long as it shares the lock with this loop. *)

StartPrivmsg ==
  /\ run # "ended" /\ sender = "idle"
  /\ \/ lock = "free" /\ lock' = "sender" /\ sender' = "draining"
     \/ lock # "free" /\ lock' = lock /\ sender' = "waitingForLock"
  /\ UNCHANGED <<run, owed, rx, ping, inbox, partial, link, paused,
                 silence, listened, unheard, late>>

PrivmsgGetsLock ==
  /\ sender = "waitingForLock" /\ lock = "sender"
  /\ sender' = "draining"
  /\ UNCHANGED <<run, owed, rx, ping, inbox, partial, link, paused, lock,
                 silence, listened, unheard, late>>

\* drain() returns or raises; either way the lock is passed on.
PrivmsgEnds ==
  /\ sender = "draining" /\ (~paused \/ link = "reset")
  /\ sender' = "idle"
  /\ Release(run = "waitingForLock")
  /\ UNCHANGED <<run, owed, rx, ping, inbox, partial, link, paused,
                 silence, listened, unheard, late>>

-----------------------------------------------------------------------------
(* The peer, and time. *)

\* The end of a line arrives, or more of one than the buffer holds.
Arrive(line) ==
  /\ run # "ended" /\ link = "up" /\ Len(inbox) < MaxInbox
  /\ inbox' = Append(inbox, line) /\ partial' = FALSE
  /\ silence' = 0 /\ listened' = 0
  /\ unheard' = IF IsMessage(line) THEN 0 ELSE unheard
  /\ UNCHANGED <<run, owed, rx, ping, link, paused, lock, sender, late>>

\* Bytes of a line arrive, and not its end: readuntil goes on waiting.
ArriveInPart ==
  /\ run # "ended" /\ link = "up" /\ Len(inbox) < MaxInbox
  /\ partial' = TRUE
  /\ silence' = 0 /\ listened' = 0
  /\ UNCHANGED <<run, owed, rx, ping, inbox, link, paused, lock, sender, unheard, late>>

\* The peer goes away without a word, or resets the connection.
PeerVanishes ==
  /\ run # "ended" /\ link # "reset"
  /\ link' \in IF link = "up" THEN {"silent", "reset"} ELSE {"reset"}
  /\ UNCHANGED <<run, owed, rx, ping, inbox, partial, paused, lock, sender,
                 silence, listened, unheard, late>>

\* The peer closes its side: what it had sent of a line is read as a line.
PeerCloses ==
  /\ run # "ended" /\ link = "up"
  /\ link' = "eof" /\ silence' = 0 /\ listened' = 0
  /\ \/ ~partial /\ UNCHANGED <<inbox, partial, unheard>>
     \/ /\ partial /\ partial' = FALSE
        /\ \E line \in Line :
             /\ inbox' = Append(inbox, line)
             /\ unheard' = IF IsMessage(line) THEN 0 ELSE unheard
  /\ UNCHANGED <<run, owed, rx, ping, paused, lock, sender, late>>

PeerStopsReading ==
  /\ run # "ended" /\ ~paused /\ link # "reset"
  /\ paused' = TRUE
  /\ UNCHANGED <<run, owed, rx, ping, inbox, partial, link, lock, sender,
                 silence, listened, unheard, late>>

PeerReadsOn ==
  /\ run # "ended" /\ paused /\ link \in {"up", "eof"}
  /\ paused' = FALSE
  /\ UNCHANGED <<run, owed, rx, ping, inbox, partial, link, lock, sender,
                 silence, listened, unheard, late>>

\* Some task can run: it does so before time goes on.
Busy ==
  \/ run = "top"
  \/ run = "reading" /\ (Deadline \/ inbox # <<>> \/ link \in {"eof", "reset"})
  \/ run = "waitingForLock" /\ lock = "run"
  \/ run = "writing" /\ (~paused \/ link = "reset" \/ owed = "longPONG")
  \/ sender = "waitingForLock" /\ lock = "sender"
  \/ sender = "draining" /\ (~paused \/ link = "reset")

\* Mutation: a clock that nothing stops.
LaterForever(clock, limit) == clock + 1

\* A clock that stops at its limit, past which nobody looks at it.
Later(clock, limit) == IF clock < limit THEN clock + 1 ELSE limit

Tick ==
  /\ run # "ended" /\ ~Busy
  /\ rx' = Later(rx, Idle)
  /\ ping' = IF ping = NoPing THEN NoPing ELSE Later(ping, Timeout)
  /\ silence' = Later(silence, Idle + Timeout + 1)
  /\ unheard' = Later(unheard, Timeout)
  /\ listened' = IF run = "reading" THEN Later(listened, Idle + Timeout + 1) ELSE listened
  /\ UNCHANGED <<run, owed, inbox, partial, link, paused, lock, sender, late>>

LoopNext ==
  \/ DeclareDead \/ SendPing \/ StartRead \/ ReadTimesOut
  \/ SkipLine \/ ReadPing \/ ReadOther \/ ReadBareFailure \/ ReadGone
  \/ GetLock \/ WriteDone \/ WriteRaises
DrainNext == StartPrivmsg \/ PrivmsgGetsLock \/ PrivmsgEnds
PeerNext ==
  \/ \E line \in Line \cup {Oversized} : Arrive(line)
  \/ ArriveInPart \/ PeerVanishes \/ PeerCloses \/ PeerStopsReading \/ PeerReadsOn

Next == LoopNext \/ DrainNext \/ PeerNext \/ Tick

Spec == Init /\ [][Next]_vars

\* A task that can run does, and time goes on, however many sends the drain
\* makes in between.  Nothing is asked of the peer.
FairSpec ==
  /\ Spec
  /\ WF_vars(LoopNext) /\ WF_vars(PrivmsgGetsLock \/ PrivmsgEnds)
  /\ SF_vars(Tick)

-----------------------------------------------------------------------------
(* Properties. *)

\* A session is not kept longer than ping_idle_seconds + ping_timeout_seconds of
\* listening to nothing at all: only the time the loop spends in a write of its own
\* is not counted (_read_loop).
DetectedInTime == run # "ended" => listened <= Idle + Timeout

\* What the comment in IrcConfig says, without the exception.
DetectedAsDocumented ==
  link = "silent" /\ run # "ended" => silence <= Idle + Timeout

\* A message keeps a session alive: the link is declared dead only after a whole
\* ping_timeout_seconds without one, those that arrive while the PING waits for the
\* lock or the socket included.  But a message at the very moment of the deadline
\* may be missed, and so are all that arrive while the PING takes that long to
\* write.
AnswerKeepsAlive ==
  [][run = "top" /\ run' = "ended" => unheard >= Timeout \/ unheard = 0 \/ late]_vars

\* What the comments in IrcConfig and _read_loop say: so does any byte, be it of a
\* line that is blank, does not parse, or has not ended.  (The two exceptions are
\* those of AnswerKeepsAlive.)
AnyByteKeepsAlive ==
  [][run = "top" /\ run' = "ended" => silence >= Timeout \/ silence = 0 \/ late]_vars

\* What ends a session: the connection's end, the verdict, a line without an
\* end, a PING whose answer is too long, or the refusal of a JOIN without a
\* parameter.  No other line does, blank, malformed or unknown.
OnlyTheseEndIt ==
  [][run # "ended" /\ run' = "ended" =>
       \/ link \in {"eof", "reset"}
       \/ ping = Timeout
       \/ owed = "longPONG"
       \/ inbox # <<>> /\ Head(inbox) = Oversized
       \/ inbox # <<>> /\ IsMessage(Head(inbox)) /\ BareFailure(Head(inbox))]_vars

\* A message has arrived that the loop has not read.
Unread == \E i \in 1..Len(inbox) : IsMessage(inbox[i])

\* Our PING is the send in progress for as long as its time is being taken.
OwesPing == run \in {"waitingForLock", "writing"} =>
  owed # "nothing" /\ (owed = "PING" <=> ping # NoPing)

\* The loop's own clocks run no slower than the time it has listened to nothing.
ClocksAgree ==
  /\ Unread => listened = 0
  /\ listened <= IF ping = NoPing THEN rx ELSE Idle + ping

\* No message has arrived since the PING, or it is still to be read; and it is read
\* before the deadline, unless it came with it or the PING took too long.
AnswerAwaited ==
  /\ ping # NoPing /\ ~Unread => unheard >= ping
  /\ ping = Timeout /\ run \in {"top", "reading"} /\ Unread => unheard = 0 \/ late

\* Inductive (IrcReadLoopProofs).
IInv == TypeOK /\ OwesPing /\ ClocksAgree /\ AnswerAwaited

\* A peer that went away without a word is found out, however busy the drain
\* keeps the lock, unless the writes to it do not end.
SilentPeerFound == (link = "silent") ~> (run = "ended" \/ paused)

==============================================================================
