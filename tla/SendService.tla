----------------------------- MODULE SendService -----------------------------
(***************************************************************************)
(* What the queue drain relies on in the IRC client, and all that it knows *)
(* of it: the client is ready or not, which may change at any time, a send *)
(* begun or not; a send is only begun at a client that is ready, before    *)
(* the bridge is stopped; and every send ends.                             *)
(*                                                                         *)
(* IrcClient provides this service, BridgeQueue is written against it.     *)
(***************************************************************************)
VARIABLES ready,    \* the client takes sends
          sending,  \* a send is in progress
          stopping  \* the bridge was told to stop

vars == <<ready, sending, stopping>>

Init == ready = FALSE /\ sending = FALSE /\ stopping = FALSE

BecomesReady == ~ready /\ ready' = TRUE /\ UNCHANGED <<sending, stopping>>

LosesReady == ready /\ ready' = FALSE /\ UNCHANGED <<sending, stopping>>

Begin ==
  /\ ready /\ ~sending /\ ~stopping
  /\ sending' = TRUE
  /\ UNCHANGED <<ready, stopping>>

End ==
  /\ sending
  /\ sending' = FALSE
  /\ UNCHANGED <<ready, stopping>>

Stop == ~stopping /\ stopping' = TRUE /\ UNCHANGED <<ready, sending>>

Next == BecomesReady \/ LosesReady \/ Begin \/ End \/ Stop

Safe == Init /\ [][Next]_vars

Spec == Safe /\ WF_vars(End)

==============================================================================
