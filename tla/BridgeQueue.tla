----------------------------- MODULE BridgeQueue -----------------------------
(***************************************************************************)
(* The bounded queue between the mesh and IRC (bridge.py): the mesh event  *)
(* handler _on_channel_message/_enqueue at one end, the task               *)
(* _run_queue_drain at the other, and the IRC client reduced to what the   *)
(* drain sees of it, is_ready and the outcome of send_privmsg.             *)
(*                                                                         *)
(* asyncio runs one task at a time, so what stands between two awaits is   *)
(* one action.  The drain awaits in send_privmsg and in its sleeps; the    *)
(* handler, which has no await, may run in any of those places.            *)
(***************************************************************************)
EXTENDS Naturals, Sequences

CONSTANTS MeshChannels,       \* the mesh channel indices the config maps
          IrcChannels,        \* IRC channel names
          ChannelMap,         \* the config's mapping
          MaxQueued,          \* _MAX_QUEUED_LINES
          MaxSendAttempts,    \* _MAX_SEND_ATTEMPTS
          MaxLinesPerMessage, \* bound: lines one mesh message is split into
          MaxAccepted,        \* bound: lines accepted in a behaviour
          NoLine              \* no send is in flight

ASSUME ConfigAssumption == ChannelMap \in [MeshChannels -> IrcChannels]

ASSUME LimitsAssumption ==
  /\ MaxQueued \in Nat \ {0}
  /\ MaxSendAttempts \in Nat \ {0}
  /\ MaxLinesPerMessage \in Nat
  /\ MaxAccepted \in Nat

Line == [seq    : Nat \ {0},     \* arrival number
         mesh   : MeshChannels,  \* where it came from (not sent to IRC)
         dest   : IrcChannels,
         tagged : BOOLEAN]       \* it starts with "[<mesh channel>] "

ASSUME NoLineAssumption == NoLine \notin Line

VARIABLES
  queue,     \* Bridge._queue
  accepted,  \* how many lines _enqueue has appended
  overflows, \* how many "IRC send queue full" warnings were logged
  giveUps,   \* how many "dropping message to ..." errors were logged
  acked,     \* the lines send_privmsg returned for, in order
  written,   \* arrival number of the last line handed to the socket
  drain,     \* where _run_queue_drain is
  inFlight,  \* the line send_privmsg is at work on
  fate,      \* how that call will end
  failures,  \* consecutive_failures
  headFails, \* history: failed attempts of the line now at the head
  paced,     \* last_sent_at is less than min_send_interval_seconds ago
  ready,     \* IRCClient.is_ready
  stopping   \* Bridge._stopping

vars == <<queue, accepted, overflows, giveUps, acked, written, drain, inFlight,
          fate, failures, headFails, paced, ready, stopping>>

Init ==
  /\ queue = <<>> /\ accepted = 0 /\ overflows = 0 /\ giveUps = 0
  /\ acked = <<>> /\ written = 0
  /\ drain = "polling" /\ inFlight = NoLine /\ fate = "none"
  /\ failures = 0 /\ headFails = 0
  /\ paced = FALSE /\ ready = FALSE /\ stopping = FALSE

-----------------------------------------------------------------------------
(* The mesh side. *)

\* Mutation: only channels fed by more than two mesh channels count as shared.
SharedByThree ==
  {d \in IrcChannels : \E c1, c2, c3 \in MeshChannels :
     /\ c1 # c2 /\ c2 # c3 /\ c1 # c3
     /\ \A c \in {c1, c2, c3} : ChannelMap[c] = d}

\* IRC channels fed by more than one mesh channel.
SharedIrcChannels ==
  {ChannelMap[c] : c \in {c1 \in MeshChannels :
                     \E c2 \in MeshChannels : c1 # c2 /\ ChannelMap[c1] = ChannelMap[c2]}}

\* The n lines of a message that arrived on mesh channel ch.
LinesOf(ch, n) ==
  [i \in 1..n |-> [seq    |-> accepted + i,
                   mesh   |-> ch,
                   dest   |-> ChannelMap[ch],
                   tagged |-> ChannelMap[ch] \in SharedIrcChannels]]

\* How many lines a bounded deque throws out, from the left, to hold those of s.
Excess(s) == IF Len(s) > MaxQueued THEN Len(s) - MaxQueued ELSE 0

\* Mutation: a deque created without maxlen.
BoundedByNothing(s) == s

\* What the deque then holds.
Bounded(s) == SubSeq(s, Excess(s) + 1, Len(s))

\* Mutation: the warning looks at the queue after the append, when it is never
\* longer than its limit.
OnChannelMessageSilently(ch, n) ==
  /\ accepted + n <= MaxAccepted
  /\ LET all == queue \o LinesOf(ch, n) IN
       /\ queue' = Bounded(all)
       /\ headFails' = IF Excess(all) > 0 THEN 0 ELSE headFails
  /\ accepted' = accepted + n
  /\ UNCHANGED <<overflows, giveUps, acked, written, drain, inFlight, fate,
                 failures, paced, ready, stopping>>

\* A message on a mapped channel: every line is enqueued before anything else
\* runs.  (One on an unmapped channel, or without printable text, changes
\* nothing.)
OnChannelMessage(ch, n) ==
  /\ accepted + n <= MaxAccepted
  /\ LET all == queue \o LinesOf(ch, n) IN
       /\ queue' = Bounded(all)
       /\ overflows' = overflows + Excess(all)
       /\ headFails' = IF Excess(all) > 0 THEN 0 ELSE headFails
  /\ accepted' = accepted + n
  /\ UNCHANGED <<giveUps, acked, written, drain, inFlight, fate, failures,
                 paced, ready, stopping>>

-----------------------------------------------------------------------------
(* The drain. *)

\* The passing of min_send_interval_seconds since the last acknowledged send.
PaceElapses ==
  /\ paced
  /\ paced' = FALSE
  /\ UNCHANGED <<queue, accepted, overflows, giveUps, acked, written, drain,
                 inFlight, fate, failures, headFails, ready, stopping>>

\* All the checks of one iteration pass and send_privmsg is called with the
\* line at the head, which stays in the queue.  The call ends in one of three
\* ways: it returns; it raises before the line reaches the socket's buffer
\* (the lock's previous holder lost the connection, or the line is rejected);
\* or the line is in the buffer and drain() raises.
BeginSend ==
  /\ drain = "polling" /\ ~stopping
  /\ queue # <<>> /\ ready /\ ~paced
  /\ drain' = "sending"
  /\ inFlight' = Head(queue)
  /\ \/ fate' = "returns" /\ written' = Head(queue).seq
     \/ fate' = "raises" /\ written' = Head(queue).seq
     \/ fate' = "raises" /\ written' = written
  /\ UNCHANGED <<queue, accepted, overflows, giveUps, acked, failures, headFails,
                 paced, ready, stopping>>

\* Mutation: the line sent stays in the queue.
SendReturnsKeepingLine ==
  /\ drain = "sending" /\ fate = "returns"
  /\ acked' = Append(acked, inFlight)
  /\ failures' = 0 /\ headFails' = 0 /\ paced' = TRUE
  /\ drain' = "polling" /\ inFlight' = NoLine /\ fate' = "none"
  /\ UNCHANGED <<queue, accepted, overflows, giveUps, written, ready, stopping>>

\* Mutation: consecutive_failures is not reset by a success.
SendReturnsCountingOn ==
  /\ drain = "sending" /\ fate = "returns"
  /\ acked' = Append(acked, inFlight)
  /\ queue' = Tail(queue)
  /\ headFails' = 0 /\ paced' = TRUE
  /\ drain' = "polling" /\ inFlight' = NoLine /\ fate' = "none"
  /\ UNCHANGED <<accepted, overflows, giveUps, failures, written, ready, stopping>>

\* send_privmsg returns; whatever is at the head by now is removed.
SendReturns ==
  /\ drain = "sending" /\ fate = "returns"
  /\ acked' = Append(acked, inFlight)
  /\ queue' = Tail(queue)
  /\ failures' = 0 /\ headFails' = 0 /\ paced' = TRUE
  /\ drain' = "polling" /\ inFlight' = NoLine /\ fate' = "none"
  /\ UNCHANGED <<accepted, overflows, giveUps, written, ready, stopping>>

\* Mutation: a line that failed goes to the back of the queue.
SendRaisesRotating ==
  /\ drain = "sending" /\ fate = "raises"
  /\ queue' = Append(Tail(queue), Head(queue))
  /\ drain' = "polling" /\ inFlight' = NoLine /\ fate' = "none"
  /\ UNCHANGED <<accepted, overflows, giveUps, acked, written, failures, headFails,
                 paced, ready, stopping>>

\* Mutation: ">" for ">=" in the comparison with the limit.
SendRaisesOnceMore ==
  /\ drain = "sending" /\ fate = "raises"
  /\ drain' = "polling" /\ inFlight' = NoLine /\ fate' = "none"
  /\ \/ /\ failures + 1 > MaxSendAttempts
        /\ giveUps' = giveUps + 1
        /\ queue' = Tail(queue)
        /\ failures' = 0 /\ headFails' = 0
     \/ /\ failures + 1 <= MaxSendAttempts
        /\ failures' = failures + 1
        /\ headFails' = IF inFlight = Head(queue) THEN headFails + 1 ELSE headFails
        /\ UNCHANGED <<queue, giveUps>>
  /\ UNCHANGED <<accepted, overflows, acked, written, paced, ready, stopping>>

\* Mutation: failures are not counted.
SendRaisesForever ==
  /\ drain = "sending" /\ fate = "raises"
  /\ drain' = "polling" /\ inFlight' = NoLine /\ fate' = "none"
  /\ UNCHANGED <<queue, accepted, overflows, giveUps, acked, written, failures,
                 headFails, paced, ready, stopping>>

\* send_privmsg raises; the last tolerated failure removes whatever is at the
\* head by now, any other one is followed by a short sleep.
SendRaises ==
  /\ drain = "sending" /\ fate = "raises"
  /\ drain' = "polling" /\ inFlight' = NoLine /\ fate' = "none"
  /\ \/ /\ failures + 1 >= MaxSendAttempts
        /\ giveUps' = giveUps + 1
        /\ queue' = Tail(queue)
        /\ failures' = 0 /\ headFails' = 0
     \/ /\ failures + 1 < MaxSendAttempts
        /\ failures' = failures + 1
        /\ headFails' = IF inFlight = Head(queue) THEN headFails + 1 ELSE headFails
        /\ UNCHANGED <<queue, giveUps>>
  /\ UNCHANGED <<accepted, overflows, acked, written, paced, ready, stopping>>

\* The loop's condition: what is still queued at a stop is left there.
DrainExits ==
  /\ drain = "polling" /\ stopping
  /\ drain' = "done"
  /\ UNCHANGED <<queue, accepted, overflows, giveUps, acked, written, inFlight,
                 fate, failures, headFails, paced, ready, stopping>>

-----------------------------------------------------------------------------
(* What the drain sees of the IRC client, and stop(). *)

IrcBecomesReady ==
  /\ ~ready /\ ready' = TRUE
  /\ UNCHANGED <<queue, accepted, overflows, giveUps, acked, written, drain,
                 inFlight, fate, failures, headFails, paced, stopping>>

IrcLosesReady ==
  /\ ready /\ ready' = FALSE
  /\ UNCHANGED <<queue, accepted, overflows, giveUps, acked, written, drain,
                 inFlight, fate, failures, headFails, paced, stopping>>

Stop ==
  /\ ~stopping /\ stopping' = TRUE
  /\ UNCHANGED <<queue, accepted, overflows, giveUps, acked, written, drain,
                 inFlight, fate, failures, headFails, paced, ready>>

Next ==
  \/ \E ch \in MeshChannels, n \in 1..MaxLinesPerMessage : OnChannelMessage(ch, n)
  \/ PaceElapses
  \/ BeginSend
  \/ SendReturns
  \/ SendRaises
  \/ DrainExits
  \/ IrcBecomesReady
  \/ IrcLosesReady
  \/ Stop

Spec == Init /\ [][Next]_vars

\* The drain is never far from its next poll, a send ends (the socket drains,
\* or the connection is torn down), IRC comes back, and a connection that
\* keeps coming back is found ready by some poll.
Fairness ==
  /\ WF_vars(PaceElapses)
  /\ WF_vars(SendReturns)
  /\ WF_vars(SendRaises)
  /\ WF_vars(DrainExits)
  /\ WF_vars(IrcBecomesReady)
  /\ SF_vars(BeginSend)

FairSpec == Spec /\ Fairness

-----------------------------------------------------------------------------
(* Properties. *)

TypeOK ==
  /\ queue \in Seq(Line) /\ Len(queue) <= MaxQueued
  /\ accepted \in Nat /\ overflows \in Nat /\ giveUps \in Nat
  /\ acked \in Seq(Line) /\ written \in Nat
  /\ drain \in {"polling", "sending", "done"}
  /\ inFlight \in Line \cup {NoLine}
  /\ fate \in {"none", "returns", "raises"}
  /\ failures \in Nat /\ headFails \in Nat
  /\ paced \in BOOLEAN /\ ready \in BOOLEAN /\ stopping \in BOOLEAN

\* No line disappears without a trace: each one accepted is waiting, was
\* acknowledged by a send, or was counted in the log as dropped, although the
\* line removed after a send need not be the one that was sent.
EveryLossLogged == accepted = Len(queue) + Len(acked) + overflows + giveUps

\* Lines are acknowledged in the order in which the mesh delivered them, none
\* twice, and a line acknowledged is never still waiting to be sent again,
\* whatever evictions happened while it was in flight.
FifoDelivery ==
  /\ \A i, j \in 1..Len(acked) : i < j => acked[i].seq < acked[j].seq
  /\ \A i \in 1..Len(acked), j \in 1..Len(queue) : acked[i].seq < queue[j].seq

\* What is handed to the socket never goes back in time: retries may repeat the
\* line at the head, but an older line never follows a younger one.
WrittenInOrder == [][written' >= written]_vars

\* A line is not tried more often than the limit allows: the counter the drain
\* keeps never forgets an attempt at the line now at the head.
BoundedRetries == headFails <= failures /\ failures < MaxSendAttempts

\* Two lines that look alike on an IRC channel, one prefix or none, come from
\* the same mesh channel ("so they stay attributable").
Prefix(l) == IF l.tagged THEN <<l.mesh>> ELSE <<>>
Attributable ==
  \A i, j \in 1..Len(acked) :
    acked[i].dest = acked[j].dest /\ Prefix(acked[i]) = Prefix(acked[j])
      => acked[i].mesh = acked[j].mesh

\* The lines that left the queue, by whatever way, are the oldest ones.
Gone == accepted - Len(queue)

\* The queue holds the youngest lines, without a gap.
Contiguous == \A i \in 1..Len(queue) : queue[i].seq = Gone + i

\* The line in flight is the head, or was before it was evicted, and it is
\* younger than every line acknowledged.
InFlightOK ==
  /\ drain = "sending" =>
       /\ inFlight \in Line /\ fate # "none" /\ queue # <<>>
       /\ inFlight.seq <= Gone + 1
       /\ \A i \in 1..Len(acked) : acked[i].seq < inFlight.seq
  /\ drain # "sending" => inFlight = NoLine /\ fate = "none"

AckedInOrder ==
  /\ \A i, j \in 1..Len(acked) : i < j => acked[i].seq < acked[j].seq
  /\ \A i \in 1..Len(acked) : acked[i].seq <= Gone

WrittenBehindQueue == written <= IF queue = <<>> THEN accepted ELSE Gone + 1

\* Lines carry the destination and the prefix the config gives their channel.
WellRouted(l) == /\ l.dest = ChannelMap[l.mesh]
                 /\ l.tagged <=> l.dest \in SharedIrcChannels
Routed == /\ \A i \in 1..Len(queue) : WellRouted(queue[i])
          /\ \A i \in 1..Len(acked) : WellRouted(acked[i])
          /\ inFlight # NoLine => WellRouted(inFlight)

\* The invariant that explains the others: where in the arrival order the
\* queue, the line in flight, the lines acknowledged and the last line written
\* stand, and how they were routed.  It is inductive (BridgeQueueProofs).
IInv == /\ TypeOK
        /\ Contiguous
        /\ InFlightOK
        /\ AckedInOrder
        /\ WrittenBehindQueue
        /\ Routed
        /\ EveryLossLogged
        /\ BoundedRetries

\* The queue implements the promise of LineRelay.  A line whose send will
\* return counts as the front line until it is acknowledged, even when it was
\* evicted meanwhile: the line the drain then removes in its place is the one
\* that was lost.
Relay == INSTANCE LineRelay WITH
           Capacity  <- MaxQueued,
           Patience  <- MaxSendAttempts,
           pending   <- IF fate = "returns" THEN <<inFlight>> \o Tail(queue) ELSE queue,
           delivered <- acked,
           losses    <- overflows + giveUps
\* One step of the queue is a step of the promise or changes nothing in it.
\* (Accept is checked against the lines of one message; Relay!Next, which
\* ranges over Seq(Line), is what the proof module uses.)
RelayStep ==
  \/ \E ch \in MeshChannels, n \in 1..MaxLinesPerMessage : Relay!Accept(LinesOf(ch, n))
  \/ Relay!Deliver \/ Relay!Fail \/ Relay!GiveUp
ImplementsRelay == Relay!Init /\ [][RelayStep]_(Relay!vars)

\* The drain asks of the IRC client what SendService offers, and no more (its
\* liveness is the fairness of SendReturns and SendRaises).
Service == INSTANCE SendService WITH sending <- drain = "sending"

\* The head of the queue, deliverable or not, gives way: it is sent, given up
\* or evicted, unless the bridge is stopped first.
HeadNeverWedges ==
  \A s \in 1..MaxAccepted :
    (queue # <<>> /\ Head(queue).seq = s)
      ~> (stopping \/ queue = <<>> \/ Head(queue).seq > s)

\* What the comment above _MAX_SEND_ATTEMPTS says: a message is given up when
\* it failed that many times in a row.
GiveUpAfterOwnFailures ==
  [][giveUps' # giveUps => /\ inFlight = Head(queue)
                           /\ headFails + 1 = MaxSendAttempts]_vars

==============================================================================
