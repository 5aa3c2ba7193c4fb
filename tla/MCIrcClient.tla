---------------------------- MODULE MCIrcClient ----------------------------
(* IrcClient has no constants: every authentication mode, failure and order *)
(* of steps is in its state space.                                          *)
EXTENDS IrcClient

============================================================================
