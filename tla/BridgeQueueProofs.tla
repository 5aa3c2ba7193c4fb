-------------------------- MODULE BridgeQueueProofs --------------------------
(***************************************************************************)
(* BridgeQueue for every configuration: the inductive invariant, the       *)
(* safety properties that follow from it, and the refinement of LineRelay. *)
(***************************************************************************)
EXTENDS BridgeQueue, SequenceTheorems, TLAPS

-----------------------------------------------------------------------------
(* The deque. *)

\* The lines of a message are lines, as many as announced.
LEMMA LinesOfType ==
  ASSUME NEW ch \in MeshChannels, NEW n \in Nat, accepted \in Nat
  PROVE  /\ LinesOf(ch, n) \in Seq(Line)
         /\ Len(LinesOf(ch, n)) = n
         /\ \A i \in 1..n : /\ LinesOf(ch, n)[i].seq = accepted + i
                            /\ WellRouted(LinesOf(ch, n)[i])
<1> DEFINE e(i) == [seq    |-> accepted + i,
                    mesh   |-> ch,
                    dest   |-> ChannelMap[ch],
                    tagged |-> ChannelMap[ch] \in SharedIrcChannels]
<1>1. \A i \in 1..n : e(i) \in Line
  BY ConfigAssumption DEF Line
<1>2. LinesOf(ch, n) = [i \in 1..n |-> e(i)]
  BY DEF LinesOf
<1>3. \A i \in 1..n : WellRouted(e(i))
  BY DEF WellRouted
<1> HIDE DEF e
<1>4. LinesOf(ch, n) \in [1..n -> Line]
  BY <1>1, <1>2
<1>5. LinesOf(ch, n) \in Seq(Line) /\ Len(LinesOf(ch, n)) = n
  BY <1>4
<1>6. \A i \in 1..n : e(i).seq = accepted + i
  BY DEF e
<1> QED
  BY <1>2, <1>3, <1>5, <1>6

\* A bounded deque keeps the last MaxQueued elements, in order.
LEMMA BoundedKeepsYoungest ==
  ASSUME NEW s \in Seq(Line)
  PROVE  /\ Excess(s) \in Nat
         /\ Bounded(s) \in Seq(Line)
         /\ Len(Bounded(s)) = Len(s) - Excess(s)
         /\ Len(Bounded(s)) <= MaxQueued
         /\ s # <<>> => Len(Bounded(s)) > 0
         /\ \A i \in 1..Len(Bounded(s)) : Bounded(s)[i] = s[Excess(s) + i]
<1>1. Len(s) \in Nat /\ \A i \in 1..Len(s) : s[i] \in Line
  BY ElementOfSeq
<1>2. Excess(s) \in Nat /\ Excess(s) <= Len(s) /\ Len(s) - Excess(s) <= MaxQueued
  BY <1>1, LimitsAssumption DEF Excess
<1>3. s # <<>> => Excess(s) < Len(s)
  BY <1>1, LimitsAssumption, EmptySeq DEF Excess
<1>4. /\ SubSeq(s, Excess(s) + 1, Len(s)) \in Seq(Line)
      /\ Len(SubSeq(s, Excess(s) + 1, Len(s))) =
           IF Excess(s) + 1 <= Len(s) THEN Len(s) - (Excess(s) + 1) + 1 ELSE 0
      /\ \A i \in 1..(Len(s) - (Excess(s) + 1) + 1) :
           SubSeq(s, Excess(s) + 1, Len(s))[i] = s[(Excess(s) + 1) + i - 1]
  <2>1. \A i \in (Excess(s) + 1)..Len(s) : s[i] \in Line
    BY <1>1, <1>2
  <2> QED
    BY <2>1, <1>1, <1>2, SubSeqProperties
<1>5. Len(Bounded(s)) = Len(s) - Excess(s)
  BY <1>1, <1>2, <1>4 DEF Bounded
<1>6. \A i \in 1..Len(Bounded(s)) : Bounded(s)[i] = s[Excess(s) + i]
  BY <1>1, <1>2, <1>4, <1>5 DEF Bounded
<1> QED
  BY <1>1, <1>2, <1>3, <1>4, <1>5, <1>6 DEF Bounded

\* What popleft takes and leaves.
LEMMA HeadAndTail ==
  ASSUME NEW s \in Seq(Line), s # <<>>
  PROVE  /\ Len(s) \in Nat \ {0}
         /\ Head(s) = s[1] /\ Head(s) \in Line
         /\ Tail(s) \in Seq(Line) /\ Len(Tail(s)) = Len(s) - 1
         /\ \A i \in 1..Len(Tail(s)) : Tail(s)[i] = s[i + 1]
<1>1. Len(s) \in Nat \ {0}
  BY EmptySeq
<1>2. Head(s) = s[1]
  OBVIOUS
<1> QED
  BY <1>1, <1>2, HeadTailProperties

\* The fields of a line that the invariant speaks of.
LEMMA LineFields ==
  ASSUME NEW l \in Line
  PROVE  l.seq \in Nat \ {0} /\ l.mesh \in MeshChannels /\ l.tagged \in BOOLEAN
BY DEF Line

-----------------------------------------------------------------------------
(* The invariant. *)

LEMMA InitIInv == Init => IInv
<1> SUFFICES ASSUME Init PROVE IInv
  OBVIOUS
<1>1. Len(queue) = 0 /\ Len(acked) = 0 /\ queue \in Seq(Line) /\ acked \in Seq(Line)
  BY EmptySeq DEF Init
<1>2. TypeOK
  <2>1. Len(queue) <= MaxQueued
    BY <1>1, LimitsAssumption
  <2>2. /\ accepted \in Nat /\ overflows \in Nat /\ giveUps \in Nat /\ written \in Nat
        /\ failures \in Nat /\ headFails \in Nat
    BY DEF Init
  <2>3. /\ drain \in {"polling", "sending", "done"} /\ inFlight \in Line \cup {NoLine}
        /\ fate \in {"none", "returns", "raises"}
        /\ paced \in BOOLEAN /\ ready \in BOOLEAN /\ stopping \in BOOLEAN
    BY DEF Init
  <2> QED
    BY <1>1, <2>1, <2>2, <2>3 DEF TypeOK
<1>3. Contiguous /\ AckedInOrder /\ WrittenBehindQueue
  BY <1>1 DEF Init, Contiguous, AckedInOrder, WrittenBehindQueue
<1>4. InFlightOK /\ EveryLossLogged /\ BoundedRetries
  BY <1>1, LimitsAssumption DEF Init, InFlightOK, EveryLossLogged, BoundedRetries
<1>5. Routed
  BY <1>1 DEF Init, Routed
<1> QED
  BY <1>2, <1>3, <1>4, <1>5 DEF IInv

LEMMA MessageKeepsIInv ==
  ASSUME IInv, NEW ch \in MeshChannels, NEW n \in 1..MaxLinesPerMessage,
         OnChannelMessage(ch, n)
  PROVE  IInv'
<1> DEFINE new == LinesOf(ch, n)
           all == queue \o new
<1>1. /\ queue \in Seq(Line) /\ Len(queue) \in Nat /\ accepted \in Nat /\ n \in Nat \ {0}
      /\ acked \in Seq(Line) /\ Len(acked) \in Nat
      /\ overflows \in Nat /\ giveUps \in Nat /\ written \in Nat
  BY LimitsAssumption DEF IInv, TypeOK
<1>0. Gone \in Nat /\ Gone = accepted - Len(queue)
  BY <1>1 DEF IInv, EveryLossLogged, Gone
<1>2. /\ new \in Seq(Line) /\ Len(new) = n
      /\ \A i \in 1..n : new[i].seq = accepted + i /\ WellRouted(new[i])
  BY <1>1, LinesOfType
<1>3. /\ queue' = Bounded(all) /\ accepted' = accepted + n
      /\ overflows' = overflows + Excess(all)
      /\ headFails' = IF Excess(all) > 0 THEN 0 ELSE headFails
      /\ UNCHANGED <<giveUps, acked, written, drain, inFlight, fate, failures,
                     paced, ready, stopping>>
  BY DEF OnChannelMessage
<1> HIDE DEF new
<1>4. /\ all \in Seq(Line) /\ Len(all) = Len(queue) + n
      /\ \A i \in 1..Len(all) : all[i] = IF i <= Len(queue) THEN queue[i]
                                         ELSE new[i - Len(queue)]
  BY <1>1, <1>2, ConcatProperties
<1>5. all # <<>>
  BY <1>1, <1>4, EmptySeq
<1> HIDE DEF all
<1>6. \A i \in 1..Len(all) : all[i].seq = Gone + i /\ WellRouted(all[i])
  <2> SUFFICES ASSUME NEW i \in 1..Len(all)
               PROVE  all[i].seq = Gone + i /\ WellRouted(all[i])
    OBVIOUS
  <2>1. CASE i <= Len(queue)
    BY <1>1, <1>4, <2>1 DEF IInv, Contiguous, Routed, Gone
  <2>2. CASE i > Len(queue)
    <3>1. i - Len(queue) \in 1..n /\ all[i] = new[i - Len(queue)]
      BY <1>1, <1>4, <2>2
    <3>2. new[i - Len(queue)].seq = accepted + (i - Len(queue))
      BY <1>2, <3>1
    <3>3. WellRouted(new[i - Len(queue)])
      BY <1>2, <3>1
    <3> QED
      BY <1>0, <1>1, <3>1, <3>2, <3>3
  <2> QED
    BY <1>1, <1>4, <2>1, <2>2
<1>7. /\ Excess(all) \in Nat /\ queue' \in Seq(Line)
      /\ Len(queue') = Len(all) - Excess(all) /\ Len(queue') <= MaxQueued
      /\ Len(queue') > 0
      /\ \A i \in 1..Len(queue') : queue'[i] = all[Excess(all) + i]
  BY <1>3, <1>4, <1>5, BoundedKeepsYoungest
<1>8. Gone' = Gone + Excess(all)
  BY <1>1, <1>3, <1>4, <1>7 DEF Gone
<1>9. queue' # <<>>
  BY <1>7, EmptySeq
<1>10. TypeOK'
  BY <1>1, <1>3, <1>7 DEF IInv, TypeOK
<1>11. Contiguous'
  <2> SUFFICES ASSUME NEW i \in 1..Len(queue') PROVE queue'[i].seq = Gone' + i
    BY DEF Contiguous
  <2>1. Excess(all) + i \in 1..Len(all) /\ queue'[i] = all[Excess(all) + i]
    BY <1>1, <1>4, <1>7
  <2>2. queue'[i].seq = Gone + (Excess(all) + i)
    BY <1>6, <2>1
  <2> QED
    BY <1>0, <1>7, <1>8, <2>2
<1>12. InFlightOK'
  <2>2. ASSUME drain = "sending"
        PROVE  /\ inFlight \in Line /\ fate # "none"
               /\ inFlight.seq <= Gone + Excess(all) + 1
               /\ \A i \in 1..Len(acked) : acked[i].seq < inFlight.seq
    BY <1>0, <1>7, <2>2, LineFields DEF IInv, InFlightOK
  <2> QED
    BY <1>3, <1>8, <1>9, <2>2 DEF IInv, InFlightOK
<1>13. AckedInOrder'
  <2>2. \A i \in 1..Len(acked) : acked[i].seq \in Nat
    BY <1>1, ElementOfSeq, LineFields
  <2> QED
    BY <1>0, <1>3, <1>7, <1>8, <2>2 DEF IInv, AckedInOrder
<1>14. WrittenBehindQueue'
  <2>1. written <= Gone + 1
    BY <1>0, <1>1, EmptySeq DEF IInv, WrittenBehindQueue
  <2>2. written <= Gone' + 1
    BY <1>0, <1>1, <1>7, <1>8, <2>1
  <2> QED
    BY <1>3, <1>9, <2>2 DEF WrittenBehindQueue
<1>15. Routed'
  <2>1. ASSUME NEW i \in 1..Len(queue')
        PROVE  WellRouted(queue'[i])
    <3>1. Excess(all) + i \in 1..Len(all) /\ queue'[i] = all[Excess(all) + i]
      BY <1>1, <1>4, <1>7
    <3>2. WellRouted(all[Excess(all) + i])
      BY <1>6, <3>1
    <3> QED
      BY <3>1, <3>2
  <2> QED
    BY <1>3, <2>1 DEF IInv, Routed, WellRouted, SharedIrcChannels
<1>16. EveryLossLogged'
  <2>1. accepted = Len(queue) + Len(acked) + overflows + giveUps
    BY DEF IInv, EveryLossLogged
  <2>2. Len(queue') = Len(queue) + n - Excess(all)
    BY <1>4, <1>7
  <2>3. /\ accepted \in Nat /\ Len(queue) \in Nat /\ Len(acked) \in Nat /\ n \in Nat
        /\ overflows \in Nat /\ giveUps \in Nat /\ Excess(all) \in Nat
    BY <1>1, <1>7
  <2>4. accepted + n = (Len(queue) + n - Excess(all)) + Len(acked)
                         + (overflows + Excess(all)) + giveUps
    BY <2>1, <2>3
  <2> QED
    BY <1>3, <2>2, <2>4 DEF EveryLossLogged
<1>17. BoundedRetries'
  BY <1>1, <1>3, <1>7 DEF IInv, TypeOK, BoundedRetries
<1> QED
  BY <1>10, <1>11, <1>12, <1>13, <1>14, <1>15, <1>16, <1>17 DEF IInv

\* What every step of the drain starts from.
LEMMA Typed ==
  ASSUME IInv
  PROVE  /\ queue \in Seq(Line) /\ Len(queue) \in Nat /\ Len(queue) <= MaxQueued
         /\ acked \in Seq(Line) /\ Len(acked) \in Nat
         /\ accepted \in Nat /\ overflows \in Nat /\ giveUps \in Nat /\ written \in Nat
         /\ failures \in Nat /\ headFails \in Nat
         /\ Gone \in Nat /\ Gone = accepted - Len(queue)
<1>1. TypeOK /\ EveryLossLogged
  BY DEF IInv
<1>2. Len(queue) \in Nat /\ Len(acked) \in Nat
  BY <1>1 DEF TypeOK
<1> QED
  BY <1>1, <1>2 DEF TypeOK, EveryLossLogged, Gone

\* A popleft keeps what the invariant says of the queue.
LEMMA PopKeepsQueue ==
  ASSUME IInv, queue # <<>>, queue' = Tail(queue), accepted' = accepted
  PROVE  /\ queue' \in Seq(Line) /\ Len(queue') = Len(queue) - 1
         /\ Gone' = Gone + 1
         /\ Contiguous'
         /\ \A i \in 1..Len(queue') : WellRouted(queue'[i])
<1>1. /\ Len(queue) \in Nat \ {0}
      /\ queue' \in Seq(Line) /\ Len(queue') = Len(queue) - 1
      /\ \A i \in 1..Len(queue') : queue'[i] = queue[i + 1]
  BY Typed, HeadAndTail
<1>2. Gone' = Gone + 1
  BY Typed, <1>1 DEF Gone
<1>3. ASSUME NEW i \in 1..Len(queue')
      PROVE  queue'[i].seq = Gone' + i /\ WellRouted(queue'[i])
  <2>1. i + 1 \in 1..Len(queue) /\ queue'[i] = queue[i + 1]
    BY <1>1
  <2>2. queue[i + 1].seq = Gone + (i + 1) /\ WellRouted(queue[i + 1])
    BY <2>1 DEF IInv, Contiguous, Routed
  <2> QED
    BY <1>2, <2>1, <2>2, Typed
<1> QED
  BY <1>1, <1>2, <1>3 DEF Contiguous

LEMMA BeginSendKeepsIInv ==
  ASSUME IInv, BeginSend
  PROVE  IInv'
<1>1. /\ drain = "polling" /\ queue # <<>>
      /\ drain' = "sending" /\ inFlight' = Head(queue)
      /\ fate' \in {"returns", "raises"}
      /\ written' = Head(queue).seq \/ written' = written
      /\ UNCHANGED <<queue, accepted, overflows, giveUps, acked, failures, headFails,
                     paced, ready, stopping>>
  BY DEF BeginSend
<1>2. /\ Len(queue) \in Nat \ {0} /\ Head(queue) = queue[1] /\ Head(queue) \in Line
  BY <1>1, Typed, HeadAndTail
<1>3. Head(queue).seq = Gone + 1 /\ WellRouted(Head(queue))
  BY <1>2 DEF IInv, Contiguous, Routed
<1>4. Gone' = Gone
  BY <1>1 DEF Gone
<1>5. TypeOK'
  <2>1. written' \in Nat
    BY <1>1, <1>3, Typed
  <2> QED
    BY <1>1, <1>2, <2>1 DEF IInv, TypeOK
<1>6. Contiguous'
  BY <1>1, <1>4 DEF IInv, Contiguous
<1>7. InFlightOK'
  <2>1. ASSUME NEW i \in 1..Len(acked)
        PROVE  acked[i].seq < Gone + 1
    <3>1. acked[i].seq \in Nat
      BY Typed, ElementOfSeq, LineFields
    <3>2. acked[i].seq <= Gone
      BY DEF IInv, AckedInOrder
    <3> QED
      BY <3>1, <3>2, Typed
  <2>2. inFlight'.seq <= Gone' + 1
    BY <1>1, <1>3, <1>4, Typed
  <2> QED
    BY <1>1, <1>2, <1>3, <2>1, <2>2 DEF InFlightOK
<1>8. AckedInOrder'
  BY <1>1, <1>4 DEF IInv, AckedInOrder
<1>9. WrittenBehindQueue'
  BY <1>1, <1>3, <1>4, Typed DEF IInv, WrittenBehindQueue
<1>10. Routed'
  BY <1>1, <1>3 DEF IInv, Routed, WellRouted, SharedIrcChannels
<1>11. EveryLossLogged' /\ BoundedRetries'
  BY <1>1 DEF IInv, EveryLossLogged, BoundedRetries
<1> QED
  BY <1>5, <1>6, <1>7, <1>8, <1>9, <1>10, <1>11 DEF IInv

LEMMA SendReturnsKeepsIInv ==
  ASSUME IInv, SendReturns
  PROVE  IInv'
<1>1. /\ drain = "sending" /\ fate = "returns"
      /\ acked' = Append(acked, inFlight)
      /\ queue' = Tail(queue)
      /\ failures' = 0 /\ headFails' = 0 /\ paced' = TRUE
      /\ drain' = "polling" /\ inFlight' = NoLine /\ fate' = "none"
      /\ UNCHANGED <<accepted, overflows, giveUps, written, ready, stopping>>
  BY DEF SendReturns
<1>2. /\ inFlight \in Line /\ queue # <<>>
      /\ inFlight.seq <= Gone + 1
      /\ \A i \in 1..Len(acked) : acked[i].seq < inFlight.seq
  BY <1>1 DEF IInv, InFlightOK
<1>3. /\ queue' \in Seq(Line) /\ Len(queue') = Len(queue) - 1
      /\ Gone' = Gone + 1
      /\ Contiguous'
      /\ \A i \in 1..Len(queue') : WellRouted(queue'[i])
  BY <1>1, <1>2, PopKeepsQueue
<1>4. Len(queue) \in Nat \ {0}
  BY <1>2, Typed, HeadAndTail
<1>5. /\ acked' \in Seq(Line) /\ Len(acked') = Len(acked) + 1
      /\ \A i \in 1..Len(acked) : acked'[i] = acked[i]
      /\ acked'[Len(acked) + 1] = inFlight
  BY <1>1, <1>2, Typed, AppendProperties
<1>6. TypeOK'
  <2>1. Len(queue') <= MaxQueued
    BY <1>3, <1>4, Typed, LimitsAssumption
  <2> QED
    BY <1>1, <1>3, <1>5, <2>1 DEF IInv, TypeOK
<1>7. InFlightOK'
  BY <1>1 DEF InFlightOK
<1>8. AckedInOrder'
  <2>1. ASSUME NEW i \in 1..Len(acked')
        PROVE  /\ acked'[i].seq <= Gone'
               /\ \A j \in 1..Len(acked') : i < j => acked'[i].seq < acked'[j].seq
    <3>1. CASE i = Len(acked) + 1
      BY <1>2, <1>3, <1>5, <3>1, Typed
    <3>2. CASE i # Len(acked) + 1
      <4>1. i \in 1..Len(acked) /\ acked'[i] = acked[i]
        BY <1>5, <3>2, Typed
      <4>2. acked[i].seq \in Nat /\ acked[i].seq <= Gone /\ acked[i].seq < inFlight.seq
        BY <1>2, <4>1, Typed, ElementOfSeq, LineFields DEF IInv, AckedInOrder
      <4>3. acked'[i].seq <= Gone'
        <5>1. Gone' = Gone + 1 /\ Gone \in Nat
          BY <1>3, Typed
        <5> QED
          BY <4>1, <4>2, <5>1
      <4>4. ASSUME NEW j \in 1..Len(acked'), i < j
            PROVE  acked'[i].seq < acked'[j].seq
        <5>1. CASE j = Len(acked) + 1
          BY <1>5, <4>1, <4>2, <5>1
        <5>2. CASE j # Len(acked) + 1
          <6>1. j \in 1..Len(acked) /\ acked'[j] = acked[j]
            BY <1>5, <5>2, Typed
          <6> QED
            BY <4>1, <4>4, <6>1 DEF IInv, AckedInOrder
        <5> QED
          BY <5>1, <5>2
      <4> QED
        BY <4>3, <4>4
    <3> QED
      BY <3>1, <3>2
  <2> QED
    BY <2>1 DEF AckedInOrder
<1>9. WrittenBehindQueue'
  <2>1. written <= Gone + 1
    BY <1>2 DEF IInv, WrittenBehindQueue
  <2>2. queue' = <<>> => Gone' = accepted
    <3>1. queue' = <<>> => Len(queue') = 0
      OBVIOUS
    <3>2. Gone' = accepted - Len(queue')
      BY <1>1 DEF Gone
    <3> QED
      BY <3>1, <3>2, Typed
  <2> QED
    BY <1>1, <1>3, <2>1, <2>2, Typed DEF WrittenBehindQueue
<1>10. Routed'
  <2>1. ASSUME NEW i \in 1..Len(acked')
        PROVE  WellRouted(acked'[i])
    <3>1. CASE i = Len(acked) + 1
      BY <1>1, <1>2, <1>5, <3>1, NoLineAssumption DEF IInv, Routed
    <3>2. CASE i # Len(acked) + 1
      <4>1. i \in 1..Len(acked) /\ acked'[i] = acked[i]
        BY <1>5, <3>2, Typed
      <4> QED
        BY <4>1 DEF IInv, Routed
    <3> QED
      BY <3>1, <3>2
  <2> QED
    BY <1>1, <1>3, <2>1 DEF Routed, WellRouted, SharedIrcChannels
<1>11. EveryLossLogged'
  <2>1. accepted = Len(queue) + Len(acked) + overflows + giveUps
    BY DEF IInv, EveryLossLogged
  <2>2. accepted = (Len(queue) - 1) + (Len(acked) + 1) + overflows + giveUps
    BY <2>1, Typed
  <2> QED
    BY <1>1, <1>3, <1>5, <2>2 DEF EveryLossLogged
<1>12. BoundedRetries'
  BY <1>1, LimitsAssumption DEF BoundedRetries
<1> QED
  BY <1>3, <1>6, <1>7, <1>8, <1>9, <1>10, <1>11, <1>12 DEF IInv

LEMMA SendRaisesKeepsIInv ==
  ASSUME IInv, SendRaises
  PROVE  IInv'
<1>1. /\ drain = "sending" /\ fate = "raises"
      /\ drain' = "polling" /\ inFlight' = NoLine /\ fate' = "none"
      /\ UNCHANGED <<accepted, overflows, acked, written, paced, ready, stopping>>
  BY DEF SendRaises
<1>2. queue # <<>>
  BY <1>1 DEF IInv, InFlightOK
<1>3. Len(queue) \in Nat \ {0}
  BY <1>2, Typed, HeadAndTail
<1>4. InFlightOK'
  BY <1>1 DEF InFlightOK
<1>5. CASE /\ failures + 1 >= MaxSendAttempts
           /\ giveUps' = giveUps + 1
           /\ queue' = Tail(queue)
           /\ failures' = 0 /\ headFails' = 0
  <2>1. /\ queue' \in Seq(Line) /\ Len(queue') = Len(queue) - 1
        /\ Gone' = Gone + 1
        /\ Contiguous'
        /\ \A i \in 1..Len(queue') : WellRouted(queue'[i])
    BY <1>1, <1>2, <1>5, PopKeepsQueue
  <2>2. TypeOK'
    <3>1. Len(queue) \in Nat /\ Len(queue) <= MaxQueued /\ giveUps \in Nat
      BY Typed
    <3>2. Len(queue') = Len(queue) - 1
      BY <2>1
    <3>3. Len(queue') <= MaxQueued
      BY <3>1, <3>2, LimitsAssumption
    <3>4. giveUps' \in Nat
      BY <1>5, <3>1
    <3> QED
      BY <1>1, <1>5, <2>1, <3>3, <3>4 DEF IInv, TypeOK
  <2>3. AckedInOrder'
    <3>1. Gone \in Nat /\ Gone' = Gone + 1
      BY <2>1, Typed
    <3>2. \A i \in 1..Len(acked) : acked[i].seq \in Nat
      BY Typed, ElementOfSeq, LineFields
    <3> QED
      BY <1>1, <3>1, <3>2 DEF IInv, AckedInOrder
  <2>4. WrittenBehindQueue'
    <3>1. written <= Gone + 1
      BY <1>2 DEF IInv, WrittenBehindQueue
    <3>2. queue' = <<>> => Gone' = accepted
      <4>1. queue' = <<>> => Len(queue') = 0
        OBVIOUS
      <4>2. Gone' = accepted - Len(queue')
        BY <1>1 DEF Gone
      <4> QED
        BY <4>1, <4>2, Typed
    <3> QED
      BY <1>1, <2>1, <3>1, <3>2, Typed DEF WrittenBehindQueue
  <2>5. Routed'
    BY <1>1, <2>1 DEF IInv, Routed, WellRouted, SharedIrcChannels
  <2>6. EveryLossLogged'
    <3>1. accepted = Len(queue) + Len(acked) + overflows + giveUps
      BY DEF IInv, EveryLossLogged
    <3>2. accepted = (Len(queue) - 1) + Len(acked) + overflows + (giveUps + 1)
      BY <3>1, Typed
    <3> QED
      BY <1>1, <1>5, <2>1, <3>2 DEF EveryLossLogged
  <2>7. BoundedRetries'
    BY <1>5, LimitsAssumption DEF BoundedRetries
  <2> QED
    BY <1>4, <2>1, <2>2, <2>3, <2>4, <2>5, <2>6, <2>7 DEF IInv
<1>6. CASE /\ failures + 1 < MaxSendAttempts
           /\ failures' = failures + 1
           /\ headFails' = IF inFlight = Head(queue) THEN headFails + 1 ELSE headFails
           /\ UNCHANGED <<queue, giveUps>>
  <2>1. Gone' = Gone
    BY <1>1, <1>6 DEF Gone
  <2>2. TypeOK'
    BY <1>1, <1>6 DEF IInv, TypeOK
  <2>3. Contiguous' /\ AckedInOrder' /\ WrittenBehindQueue' /\ EveryLossLogged'
    BY <1>1, <1>6, <2>1
    DEF IInv, Contiguous, AckedInOrder, WrittenBehindQueue, EveryLossLogged
  <2>4. Routed'
    BY <1>1, <1>6 DEF IInv, Routed, WellRouted, SharedIrcChannels
  <2>5. BoundedRetries'
    <3>1. headFails <= failures
      BY DEF IInv, BoundedRetries
    <3> QED
      BY <1>6, <3>1, Typed, LimitsAssumption DEF BoundedRetries
  <2> QED
    BY <1>4, <2>2, <2>3, <2>4, <2>5 DEF IInv
<1> QED
  BY <1>5, <1>6 DEF SendRaises

\* A step that leaves the lines alone keeps the invariant.
LEMMA OthersKeepIInv ==
  ASSUME IInv,
         UNCHANGED <<queue, accepted, overflows, giveUps, acked, written, inFlight,
                     fate, failures, headFails>>,
         \/ drain' = drain
         \/ drain = "polling" /\ drain' = "done",
         paced' \in BOOLEAN, ready' \in BOOLEAN, stopping' \in BOOLEAN
  PROVE  IInv'
<1>1. Gone' = Gone
  BY DEF Gone
<1>2. TypeOK'
  BY DEF IInv, TypeOK
<1>3. Contiguous' /\ AckedInOrder' /\ WrittenBehindQueue' /\ EveryLossLogged' /\ BoundedRetries'
  BY <1>1
  DEF IInv, Contiguous, AckedInOrder, WrittenBehindQueue, EveryLossLogged, BoundedRetries
<1>4. InFlightOK'
  BY <1>1 DEF IInv, InFlightOK
<1>5. Routed'
  BY DEF IInv, Routed, WellRouted, SharedIrcChannels
<1> QED
  BY <1>2, <1>3, <1>4, <1>5 DEF IInv

LEMMA NextKeepsIInv == IInv /\ [Next]_vars => IInv'
<1> SUFFICES ASSUME IInv, [Next]_vars PROVE IInv'
  OBVIOUS
<1>1. ASSUME NEW ch \in MeshChannels, NEW n \in 1..MaxLinesPerMessage,
             OnChannelMessage(ch, n)
      PROVE  IInv'
  BY <1>1, MessageKeepsIInv
<1>2. CASE BeginSend
  BY <1>2, BeginSendKeepsIInv
<1>3. CASE SendReturns
  BY <1>3, SendReturnsKeepsIInv
<1>4. CASE SendRaises
  BY <1>4, SendRaisesKeepsIInv
<1>5. paced \in BOOLEAN /\ ready \in BOOLEAN /\ stopping \in BOOLEAN
  BY DEF IInv, TypeOK
<1>6. CASE PaceElapses \/ IrcBecomesReady \/ IrcLosesReady \/ Stop
  BY <1>5, <1>6, OthersKeepIInv DEF PaceElapses, IrcBecomesReady, IrcLosesReady, Stop
<1>7. CASE DrainExits
  BY <1>5, <1>7, OthersKeepIInv DEF DrainExits
<1>8. CASE UNCHANGED vars
  BY <1>5, <1>8, OthersKeepIInv DEF vars
<1> QED
  BY <1>1, <1>2, <1>3, <1>4, <1>6, <1>7, <1>8 DEF Next

\* The invariant holds in every reachable state, for every configuration.
THEOREM Invariant == Spec => []IInv
BY InitIInv, NextKeepsIInv, PTL DEF Spec

-----------------------------------------------------------------------------
(* What follows from the invariant. *)

\* The queue never holds more than its limit, and every variable has its type.
THEOREM TypeCorrect == Spec => []TypeOK
<1>1. IInv => TypeOK
  BY DEF IInv
<1> QED
  BY <1>1, Invariant, PTL

\* A line is waiting, acknowledged, or counted in the log: none vanishes.
THEOREM Accounting == Spec => []EveryLossLogged
<1>1. IInv => EveryLossLogged
  BY DEF IInv
<1> QED
  BY <1>1, Invariant, PTL

\* Acknowledged lines are in mesh order, without repetition, and older than
\* everything that waits.
THEOREM Fifo == Spec => []FifoDelivery
<1>1. IInv => FifoDelivery
  <2> SUFFICES ASSUME IInv PROVE FifoDelivery
    OBVIOUS
  <2>1. ASSUME NEW i \in 1..Len(acked), NEW j \in 1..Len(queue)
        PROVE  acked[i].seq < queue[j].seq
    <3>1. acked[i].seq \in Nat
      BY Typed, ElementOfSeq, LineFields
    <3>2. acked[i].seq <= Gone /\ queue[j].seq = Gone + j
      BY DEF IInv, AckedInOrder, Contiguous
    <3>3. Gone \in Nat /\ j \in Nat \ {0}
      BY Typed
    <3> QED
      BY <3>1, <3>2, <3>3
  <2> QED
    BY <2>1 DEF IInv, AckedInOrder, FifoDelivery
<1> QED
  BY <1>1, Invariant, PTL

\* No line stays at the head through more failures than the limit allows.
THEOREM RetriesBounded == Spec => []BoundedRetries
<1>1. IInv => BoundedRetries
  BY DEF IInv
<1> QED
  BY <1>1, Invariant, PTL

\* The prefix tells apart the mesh channels that share an IRC channel: two
\* lines without one on the same channel can only come from one mesh channel,
\* otherwise the channel would be shared.
THEOREM Attribution == Spec => []Attributable
<1>1. IInv => Attributable
  <2> SUFFICES ASSUME IInv,
                      NEW i \in 1..Len(acked), NEW j \in 1..Len(acked),
                      acked[i].dest = acked[j].dest,
                      Prefix(acked[i]) = Prefix(acked[j])
               PROVE  acked[i].mesh = acked[j].mesh
    BY DEF Attributable
  <2>1. acked[i] \in Line /\ acked[j] \in Line
    BY Typed, ElementOfSeq
  <2>2. /\ acked[i].mesh \in MeshChannels /\ acked[i].tagged \in BOOLEAN
        /\ acked[j].mesh \in MeshChannels /\ acked[j].tagged \in BOOLEAN
    BY <2>1, LineFields
  <2>3. WellRouted(acked[i]) /\ WellRouted(acked[j])
    BY DEF IInv, Routed
  <2>4. CASE acked[i].tagged
    <3>1. Prefix(acked[j]) = <<acked[i].mesh>>
      BY <2>4 DEF Prefix
    <3> QED
      BY <2>2, <3>1 DEF Prefix
  <2>5. CASE ~acked[i].tagged
    <3>1. ChannelMap[acked[i].mesh] \notin SharedIrcChannels
      BY <2>3, <2>5 DEF WellRouted
    <3>2. ChannelMap[acked[i].mesh] = ChannelMap[acked[j].mesh]
      BY <2>3 DEF WellRouted
    <3> QED
      BY <2>2, <3>1, <3>2 DEF SharedIrcChannels
  <2> QED
    BY <2>4, <2>5
<1> QED
  BY <1>1, Invariant, PTL

\* The socket is handed lines in mesh order: only a retry repeats a line.
THEOREM WriteOrder == Spec => WrittenInOrder
<1>1. IInv /\ [Next]_vars => [written' >= written]_vars
  <2> SUFFICES ASSUME IInv, [Next]_vars PROVE written' >= written
    OBVIOUS
  <2>1. CASE BeginSend
    <3>1. queue # <<>> /\ (written' = Head(queue).seq \/ written' = written)
      BY <2>1 DEF BeginSend
    <3>2. Len(queue) \in Nat \ {0} /\ Head(queue) = queue[1]
      BY <3>1, Typed, HeadAndTail
    <3>3. Head(queue).seq = Gone + 1
      BY <3>2 DEF IInv, Contiguous
    <3>4. written <= Gone + 1
      BY <3>1 DEF IInv, WrittenBehindQueue
    <3> QED
      BY <3>1, <3>3, <3>4, Typed
  <2>2. ASSUME [\/ \E ch \in MeshChannels, n \in 1..MaxLinesPerMessage :
                     OnChannelMessage(ch, n)
                \/ SendReturns \/ SendRaises
                \/ PaceElapses \/ IrcBecomesReady \/ IrcLosesReady \/ Stop
                \/ DrainExits]_vars
        PROVE  written' = written
    BY <2>2
    DEF OnChannelMessage, SendReturns, SendRaises, PaceElapses, IrcBecomesReady,
        IrcLosesReady, Stop, DrainExits, vars
  <2> QED
    BY <2>1, <2>2, Typed DEF Next
<1> QED
  BY <1>1, Invariant, PTL DEF Spec, WrittenInOrder

-----------------------------------------------------------------------------
(* The queue implements the promise of LineRelay. *)

\* What waits, as LineRelay sees it: a line whose send will return is at the
\* front until it is acknowledged.
Pending == IF fate = "returns" THEN <<inFlight>> \o Tail(queue) ELSE queue

LEMMA FrontSent ==
  ASSUME NEW q \in Seq(Line), q # <<>>, NEW f \in Line
  PROVE  /\ <<f>> \o Tail(q) \in Seq(Line)
         /\ <<f>> \o Tail(q) # <<>>
         /\ Len(<<f>> \o Tail(q)) = Len(q)
         /\ Head(<<f>> \o Tail(q)) = f
         /\ \A i \in 2..Len(q) : (<<f>> \o Tail(q))[i] = q[i]
         /\ Tail(<<f>> \o Tail(q)) = Tail(q)
<1>1. /\ Len(q) \in Nat \ {0} /\ Tail(q) \in Seq(Line) /\ Len(Tail(q)) = Len(q) - 1
      /\ \A i \in 1..Len(Tail(q)) : Tail(q)[i] = q[i + 1]
  BY HeadAndTail
<1>2. <<f>> \in Seq(Line) /\ Len(<<f>>) = 1 /\ <<f>>[1] = f
  OBVIOUS
<1> DEFINE fs == <<f>>
           s == fs \o Tail(q)
<1>3. fs \in Seq(Line) /\ Len(fs) = 1 /\ fs[1] = f
  BY <1>2
<1> HIDE DEF fs
<1>4. /\ s \in Seq(Line) /\ Len(s) = Len(fs) + Len(Tail(q))
      /\ \A i \in 1..(Len(fs) + Len(Tail(q))) :
           s[i] = IF i <= Len(fs) THEN fs[i] ELSE Tail(q)[i - Len(fs)]
  BY <1>1, <1>3, ConcatProperties
<1>5. Len(s) = Len(q) /\ Len(fs) + Len(Tail(q)) = Len(q)
  BY <1>1, <1>3, <1>4
<1> HIDE DEF s
<1>6. s # <<>>
  BY <1>1, <1>4, <1>5, EmptySeq
<1>7. s[1] = f
  BY <1>1, <1>3, <1>4, <1>5
<1>8. ASSUME NEW i \in 2..Len(q) PROVE s[i] = q[i]
  <2>1. i \in 1..Len(q) /\ i - 1 \in 1..Len(Tail(q)) /\ ~(i <= 1)
    BY <1>1
  <2>2. s[i] = Tail(q)[i - 1]
    BY <1>3, <1>4, <1>5, <2>1
  <2>3. Tail(q)[i - 1] = q[(i - 1) + 1] /\ (i - 1) + 1 = i
    BY <1>1, <2>1
  <2> QED
    BY <2>2, <2>3
<1>9. Tail(s) = Tail(q)
  <2>1. /\ Tail(s) \in Seq(Line) /\ Len(Tail(s)) = Len(s) - 1
        /\ \A i \in 1..Len(Tail(s)) : Tail(s)[i] = s[i + 1]
    BY <1>4, <1>6, HeadTailProperties
  <2>2. ASSUME NEW i \in 1..Len(Tail(s)) PROVE Tail(s)[i] = Tail(q)[i]
    <3>1. i + 1 \in 2..Len(q) /\ i \in 1..Len(Tail(q))
      BY <1>1, <1>5, <2>1
    <3> QED
      BY <1>1, <1>8, <2>1, <3>1
  <2> QED
    BY <1>1, <1>5, <2>1, <2>2, SeqEqual
<1>10. Head(s) = f
  BY <1>4, <1>6, <1>7, HeadAndTail
<1> QED
  BY <1>4, <1>5, <1>6, <1>8, <1>9, <1>10 DEF s, fs

\* Making room behind the front line and making room from the front leave the
\* same lines behind the front.
LEMMA EvictionBehindFront ==
  ASSUME NEW q \in Seq(Line), q # <<>>, NEW f \in Line, NEW l \in Seq(Line)
  PROVE  LET a == q \o l
             b == (<<f>> \o Tail(q)) \o l
         IN  /\ a \in Seq(Line) /\ b \in Seq(Line) /\ Len(a) = Len(b) /\ Head(b) = f
             /\ \A k \in Nat : k + 1 <= Len(a) =>
                  Tail(SubSeq(a, k + 1, Len(a))) = SubSeq(b, k + 2, Len(b))
<1> DEFINE p == <<f>> \o Tail(q)
           a == q \o l
           b == p \o l
<1>1. /\ p \in Seq(Line) /\ p # <<>> /\ Len(p) = Len(q) /\ Head(p) = f
      /\ \A i \in 2..Len(q) : p[i] = q[i]
  BY FrontSent
<1>2. Len(q) \in Nat \ {0} /\ Len(l) \in Nat
  BY HeadAndTail
<1> HIDE DEF p
<1>3. /\ a \in Seq(Line) /\ Len(a) = Len(q) + Len(l)
      /\ \A i \in 1..(Len(q) + Len(l)) : a[i] = IF i <= Len(q) THEN q[i] ELSE l[i - Len(q)]
  BY ConcatProperties
<1>4. /\ b \in Seq(Line) /\ Len(b) = Len(p) + Len(l)
      /\ \A i \in 1..(Len(p) + Len(l)) : b[i] = IF i <= Len(p) THEN p[i] ELSE l[i - Len(p)]
  BY <1>1, ConcatProperties
<1> HIDE DEF a, b
<1>5. Len(a) = Len(b) /\ Len(a) \in Nat \ {0}
  BY <1>1, <1>2, <1>3, <1>4
<1>6. Head(b) = f
  <2>1. b # <<>>
    BY <1>4, <1>5, EmptySeq
  <2>2. Head(b) = b[1] /\ Head(p) = p[1]
    BY <1>1, <1>4, <2>1, HeadAndTail
  <2>3. b[1] = p[1]
    BY <1>1, <1>2, <1>4
  <2> QED
    BY <1>1, <2>2, <2>3
<1>7. ASSUME NEW i \in 2..Len(a) PROVE a[i] = b[i]
  <2>1. /\ i \in 1..(Len(q) + Len(l)) /\ Len(p) = Len(q)
        /\ i <= Len(q) => i \in 2..Len(q)
    BY <1>1, <1>2, <1>3
  <2>2. a[i] = IF i <= Len(q) THEN q[i] ELSE l[i - Len(q)]
    BY <1>3, <2>1
  <2>3. b[i] = IF i <= Len(q) THEN p[i] ELSE l[i - Len(q)]
    BY <1>4, <2>1
  <2> QED
    BY <1>1, <2>1, <2>2, <2>3
<1>8. ASSUME NEW k \in Nat, k + 1 <= Len(a)
      PROVE  Tail(SubSeq(a, k + 1, Len(a))) = SubSeq(b, k + 2, Len(b))
  <2>1. k + 1 \in 1..Len(a) /\ Len(a) \in (k + 1)..Len(a)
    BY <1>5, <1>8
  <2>2. Tail(SubSeq(a, k + 1, Len(a))) = SubSeq(a, (k + 1) + 1, Len(a))
    BY <1>3, <2>1, HeadTailOfSubSeq
  <2>3. (k + 1) + 1 = k + 2
    OBVIOUS
  <2>4. \A i \in (k + 2)..Len(a) : i \in 2..Len(a) /\ i \in 1..Len(a)
    BY <1>5
  <2>5. \A i \in (k + 2)..Len(a) : a[i] \in Line /\ b[i] \in Line
    BY <1>3, <1>4, <1>5, <2>4, ElementOfSeq
  <2>6. /\ SubSeq(a, k + 2, Len(a)) \in Seq(Line)
        /\ Len(SubSeq(a, k + 2, Len(a))) = IF k + 2 <= Len(a) THEN Len(a) - (k + 2) + 1 ELSE 0
        /\ \A i \in 1..(Len(a) - (k + 2) + 1) : SubSeq(a, k + 2, Len(a))[i] = a[(k + 2) + i - 1]
    BY <1>5, <2>5, SubSeqProperties
  <2>7. /\ SubSeq(b, k + 2, Len(a)) \in Seq(Line)
        /\ Len(SubSeq(b, k + 2, Len(a))) = IF k + 2 <= Len(a) THEN Len(a) - (k + 2) + 1 ELSE 0
        /\ \A i \in 1..(Len(a) - (k + 2) + 1) : SubSeq(b, k + 2, Len(a))[i] = b[(k + 2) + i - 1]
    BY <1>5, <2>5, SubSeqProperties
  <2>8. ASSUME NEW i \in 1..Len(SubSeq(a, k + 2, Len(a)))
        PROVE  SubSeq(a, k + 2, Len(a))[i] = SubSeq(b, k + 2, Len(a))[i]
    <3>1. i \in 1..(Len(a) - (k + 2) + 1) /\ (k + 2) + i - 1 \in 2..Len(a)
      BY <1>5, <2>6
    <3> QED
      BY <1>7, <2>6, <2>7, <3>1
  <2>9. SubSeq(a, k + 2, Len(a)) = SubSeq(b, k + 2, Len(a))
    BY <2>6, <2>7, <2>8, SeqEqual
  <2> QED
    BY <1>5, <2>2, <2>3, <2>9
<1> QED
  BY <1>3, <1>4, <1>5, <1>6, <1>8 DEF a, b, p

LEMMA RelayInit == Init => Relay!Init
BY DEF Init, Relay!Init

\* The arrival of a message is an Accept of its lines.
LEMMA MessageAccepts ==
  ASSUME IInv, NEW ch \in MeshChannels, NEW n \in 1..MaxLinesPerMessage,
         OnChannelMessage(ch, n)
  PROVE  /\ LinesOf(ch, n) \in Seq(Line)
         /\ Relay!Accept(LinesOf(ch, n))
<1> DEFINE l == LinesOf(ch, n)
           a == queue \o l
<1>1. /\ l \in Seq(Line) /\ Len(l) = n /\ n \in Nat \ {0}
      /\ queue \in Seq(Line) /\ Len(queue) \in Nat
  BY Typed, LinesOfType, LimitsAssumption
<1>2. /\ queue' = Bounded(a) /\ overflows' = overflows + Excess(a)
      /\ UNCHANGED <<acked, giveUps, failures, fate, inFlight>>
  BY DEF OnChannelMessage
<1> HIDE DEF l
<1>3. a \in Seq(Line) /\ Len(a) = Len(queue) + n
  BY <1>1, ConcatProperties
<1>4. a # <<>>
  BY <1>1, <1>3, EmptySeq
<1>5. /\ Excess(a) \in Nat /\ Len(Bounded(a)) = Len(a) - Excess(a) /\ Len(Bounded(a)) > 0
  BY <1>3, <1>4, BoundedKeepsYoungest
<1>6. (overflows + giveUps)' = (overflows + giveUps) + Excess(a)
  BY <1>2, <1>5, Typed
<1>7. ASSUME fate # "returns" PROVE Relay!Accept(l)
  <2>1. Pending = queue /\ Pending' = queue'
    BY <1>2, <1>7 DEF Pending
  <2>2. Relay!Excess(Pending \o l) = Excess(a)
    BY <2>1 DEF Relay!Excess, Excess
  <2>3. Pending' = Relay!Youngest(Pending \o l)
    BY <1>2, <2>1, <2>2 DEF Relay!Youngest, Bounded
  <2> QED
    BY <1>2, <1>6, <2>2, <2>3 DEF Relay!Accept, Pending
<1>8. ASSUME fate = "returns" PROVE Relay!Accept(l)
  <2>1. drain = "sending"
    BY <1>8 DEF IInv, InFlightOK
  <2>2. inFlight \in Line /\ queue # <<>>
    BY <2>1 DEF IInv, InFlightOK
  <2>3. Pending = <<inFlight>> \o Tail(queue) /\ Pending' = <<inFlight>> \o Tail(queue')
    BY <1>2, <1>8 DEF Pending
  <2>4. Pending # <<>>
    BY <1>1, <2>2, <2>3, FrontSent
  <2> DEFINE b == Pending \o l
  <2>5. /\ Len(b) = Len(a) /\ Head(b) = inFlight
        /\ \A k \in Nat : k + 1 <= Len(a) =>
             Tail(SubSeq(a, k + 1, Len(a))) = SubSeq(b, k + 2, Len(b))
    BY <1>1, <2>2, <2>3, EvictionBehindFront
  <2> HIDE DEF b
  <2>6. Relay!Excess(b) = Excess(a)
    BY <2>5 DEF Relay!Excess, Excess
  <2>7. Excess(a) + 1 <= Len(a)
    BY <1>3, <1>5, <1>1
  <2>8. Tail(queue') = SubSeq(b, Excess(a) + 2, Len(b))
    BY <1>2, <1>5, <2>5, <2>7 DEF Bounded
  <2>9. Pending' = Relay!YoungestBehindHead(b)
    BY <2>3, <2>5, <2>6, <2>8 DEF Relay!YoungestBehindHead
  <2> QED
    BY <1>2, <1>6, <2>4, <2>6, <2>9 DEF Relay!Accept, Pending, b
<1> QED
  BY <1>1, <1>7, <1>8 DEF l

LEMMA SendDelivers ==
  ASSUME IInv, SendReturns
  PROVE  Relay!Deliver
<1>1. /\ drain = "sending" /\ fate = "returns" /\ fate' = "none"
      /\ acked' = Append(acked, inFlight) /\ queue' = Tail(queue) /\ failures' = 0
      /\ UNCHANGED <<overflows, giveUps>>
  BY DEF SendReturns
<1>2. inFlight \in Line /\ queue # <<>> /\ queue \in Seq(Line)
  BY <1>1, Typed DEF IInv, InFlightOK
<1>3. Pending = <<inFlight>> \o Tail(queue) /\ Pending' = Tail(queue)
  BY <1>1 DEF Pending
<1>4. Pending # <<>> /\ Head(Pending) = inFlight /\ Tail(Pending) = Tail(queue)
  BY <1>2, <1>3, FrontSent
<1> QED
  BY <1>1, <1>3, <1>4 DEF Relay!Deliver, Pending

LEMMA SendFails ==
  ASSUME IInv, SendRaises
  PROVE  Relay!Fail \/ Relay!GiveUp
<1>1. /\ drain = "sending" /\ fate = "raises" /\ fate' = "none"
      /\ UNCHANGED <<overflows, acked>>
  BY DEF SendRaises
<1>2. queue # <<>> /\ failures < MaxSendAttempts
  BY <1>1 DEF IInv, InFlightOK, BoundedRetries
<1>3. Pending = queue /\ Pending' = queue'
  BY <1>1 DEF Pending
<1>4. CASE /\ failures + 1 >= MaxSendAttempts
           /\ giveUps' = giveUps + 1 /\ queue' = Tail(queue) /\ failures' = 0
  <2>1. failures + 1 = MaxSendAttempts
    BY <1>2, <1>4, Typed, LimitsAssumption
  <2>2. (overflows + giveUps)' = (overflows + giveUps) + 1
    BY <1>1, <1>4, Typed
  <2> QED
    BY <1>1, <1>2, <1>3, <1>4, <2>1, <2>2 DEF Relay!GiveUp, Pending
<1>5. CASE /\ failures + 1 < MaxSendAttempts /\ failures' = failures + 1
           /\ UNCHANGED <<queue, giveUps>>
  BY <1>1, <1>2, <1>3, <1>5 DEF Relay!Fail, Pending
<1> QED
  BY <1>4, <1>5 DEF SendRaises

\* Every step is a step of the promise or leaves what it speaks of alone.
LEMMA StepImplementsRelay ==
  ASSUME IInv, [Next]_vars
  PROVE  /\ [RelayStep]_(Relay!vars)
         /\ [Relay!Next]_(Relay!vars)
<1>1. ASSUME NEW ch \in MeshChannels, NEW n \in 1..MaxLinesPerMessage,
             OnChannelMessage(ch, n)
      PROVE  RelayStep /\ Relay!Next
  BY <1>1, MessageAccepts DEF RelayStep, Relay!Next
<1>2. CASE BeginSend
  <2>1. /\ drain = "polling" /\ queue # <<>> /\ inFlight' = Head(queue)
        /\ UNCHANGED <<queue, acked, failures, overflows, giveUps>>
    BY <1>2 DEF BeginSend
  <2>2. Pending = queue
    BY <2>1 DEF IInv, InFlightOK, Pending
  <2>3. <<Head(queue)>> \o Tail(queue) = queue
    <3>1. Head(queue) \in Line /\ Head(queue) = queue[1] /\ Len(queue) \in Nat \ {0}
      BY <2>1, Typed, HeadAndTail
    <3>2. /\ <<Head(queue)>> \o Tail(queue) \in Seq(Line)
          /\ <<Head(queue)>> \o Tail(queue) # <<>>
          /\ Len(<<Head(queue)>> \o Tail(queue)) = Len(queue)
          /\ Head(<<Head(queue)>> \o Tail(queue)) = Head(queue)
          /\ \A i \in 2..Len(queue) : (<<Head(queue)>> \o Tail(queue))[i] = queue[i]
      BY <2>1, <3>1, Typed, FrontSent
    <3> DEFINE s == <<Head(queue)>> \o Tail(queue)
    <3> HIDE DEF s
    <3>3. s[1] = queue[1]
      BY <3>1, <3>2, HeadAndTail DEF s
    <3>4. \A i \in 1..Len(s) : s[i] = queue[i]
      BY <3>1, <3>2, <3>3 DEF s
    <3> QED
      BY <3>2, <3>4, Typed, SeqEqual DEF s
  <2>4. Pending' = queue
    BY <2>1, <2>3 DEF Pending
  <2> QED
    BY <2>1, <2>2, <2>4 DEF Relay!vars, Pending
<1>3. CASE SendReturns
  BY <1>3, SendDelivers DEF RelayStep, Relay!Next
<1>4. CASE SendRaises
  BY <1>4, SendFails DEF RelayStep, Relay!Next
<1>5. ASSUME [\/ PaceElapses \/ IrcBecomesReady \/ IrcLosesReady \/ Stop \/ DrainExits]_vars
      PROVE  UNCHANGED Relay!vars
  BY <1>5
  DEF PaceElapses, IrcBecomesReady, IrcLosesReady, Stop, DrainExits, vars, Relay!vars
<1> QED
  BY <1>1, <1>2, <1>3, <1>4, <1>5 DEF Next

\* The bounded queue and its drain implement the promise of LineRelay: lines
\* are delivered in arrival order, and lost only by making room or after a full
\* row of failures.
THEOREM Implements == Spec => Relay!Spec
<1>1. IInv /\ [Next]_vars => [Relay!Next]_(Relay!vars)
  BY StepImplementsRelay
<1> QED
  BY <1>1, RelayInit, Invariant, PTL DEF Spec, Relay!Spec

\* The form of it that the model checker evaluates.
THEOREM ImplementsChecked == Spec => ImplementsRelay
<1>1. IInv /\ [Next]_vars => [RelayStep]_(Relay!vars)
  BY StepImplementsRelay
<1> QED
  BY <1>1, RelayInit, Invariant, PTL DEF Spec, ImplementsRelay

\* The queue was checked against a client that does no more than SendService
\* allows, and begins a send only where SendService takes one.
THEOREM ReliesOnService == Spec => Service!Safe
<1>1. Init => Service!Init
  BY DEF Init, Service!Init
<1>2. [Next]_vars => [Service!Next]_(Service!vars)
  <2> SUFFICES ASSUME [Next]_vars PROVE [Service!Next]_(Service!vars)
    OBVIOUS
  <2> USE DEF Service!Next, Service!vars
  <2>1. CASE BeginSend
    BY <2>1 DEF BeginSend, Service!Begin
  <2>2. CASE SendReturns \/ SendRaises
    BY <2>2 DEF SendReturns, SendRaises, Service!End
  <2>3. CASE IrcBecomesReady \/ IrcLosesReady \/ Stop
    BY <2>3 DEF IrcBecomesReady, IrcLosesReady, Stop, Service!BecomesReady,
       Service!LosesReady, Service!Stop
  <2>4. CASE \/ \E ch \in MeshChannels, n \in 1..MaxLinesPerMessage : OnChannelMessage(ch, n)
             \/ PaceElapses \/ DrainExits \/ UNCHANGED vars
    BY <2>4 DEF OnChannelMessage, PaceElapses, DrainExits, vars
  <2> QED
    BY <2>1, <2>2, <2>3, <2>4 DEF Next
<1> QED
  BY <1>1, <1>2, PTL DEF Spec, Service!Safe

==============================================================================
