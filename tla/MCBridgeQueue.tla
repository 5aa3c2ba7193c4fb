--------------------------- MODULE MCBridgeQueue ---------------------------
(* BridgeQueue with three mesh channels, two of which share an IRC channel. *)
EXTENDS BridgeQueue

MCMeshChannels == {0, 1, 2}

MCChannelMap == [c \in MCMeshChannels |-> IF c = 2 THEN "#own" ELSE "#shared"]

============================================================================
