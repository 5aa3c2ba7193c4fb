------------------------------ MODULE LineRelay ------------------------------
(***************************************************************************)
(* What the bridge promises about the lines of text it relays, without a   *)
(* word about how: accepted lines wait in arrival order in a buffer of     *)
(* Capacity places; the oldest is delivered first; a full buffer loses its *)
(* oldest lines; Patience failed attempts in a row lose the line at the    *)
(* front; and every line is delivered, waiting or counted as lost.         *)
(*                                                                         *)
(* BridgeQueue implements this module.                                     *)
(***************************************************************************)
EXTENDS Naturals, Sequences

CONSTANTS Line,      \* the lines that can be relayed
          Capacity,  \* how many lines may wait
          Patience   \* failed attempts in a row before the front line is lost

VARIABLES pending,   \* the lines waiting, oldest first
          delivered, \* the lines delivered, in the order they were
          failures,  \* failed attempts since the last delivery or give-up
          losses     \* how many lines have been lost

vars == <<pending, delivered, failures, losses>>

Init == /\ pending = <<>>
        /\ delivered = <<>>
        /\ failures = 0
        /\ losses = 0

\* How many of the lines s do not fit.
Excess(s) == IF Len(s) > Capacity THEN Len(s) - Capacity ELSE 0

\* The youngest lines of s, as many as fit.
Youngest(s) == SubSeq(s, Excess(s) + 1, Len(s))

\* The same, but the line at the front, whose delivery has begun, keeps its
\* place, and those behind it make room.
YoungestBehindHead(s) == <<Head(s)>> \o SubSeq(s, Excess(s) + 2, Len(s))

(***************************************************************************)
(* Lines arrive together; the oldest ones make room for them.              *)
(***************************************************************************)
Accept(lines) ==
  /\ \/ pending' = Youngest(pending \o lines)
     \/ /\ pending # <<>>
        /\ pending' = YoungestBehindHead(pending \o lines)
  /\ losses' = losses + Excess(pending \o lines)
  /\ UNCHANGED <<delivered, failures>>

Deliver ==
  /\ pending # <<>>
  /\ delivered' = Append(delivered, Head(pending))
  /\ pending' = Tail(pending)
  /\ failures' = 0
  /\ UNCHANGED losses

Fail ==
  /\ pending # <<>>
  /\ failures + 1 < Patience
  /\ failures' = failures + 1
  /\ UNCHANGED <<pending, delivered, losses>>

GiveUp ==
  /\ pending # <<>>
  /\ failures + 1 = Patience
  /\ pending' = Tail(pending)
  /\ failures' = 0
  /\ losses' = losses + 1
  /\ UNCHANGED delivered

Next == \/ \E lines \in Seq(Line) : Accept(lines)
        \/ Deliver
        \/ Fail
        \/ GiveUp

Spec == Init /\ [][Next]_vars

==============================================================================
