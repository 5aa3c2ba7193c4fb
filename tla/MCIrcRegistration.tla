-------------------------- MODULE MCIrcRegistration --------------------------
(* Two retries of the nickname, AUTHENTICATE lines of two quads, and servers  *)
(* that lack, refuse or grant each thing the client asks for.               *)
EXTENDS IrcRegistration

\* One line of names or two, with sasl on either or on none.
MCLines == {<<TRUE>>, <<FALSE>>, <<TRUE, FALSE>>, <<FALSE, TRUE>>}

MCServers ==
  [capable : BOOLEAN, lines : MCLines, acks : BOOLEAN, plain : BOOLEAN,
   accepts : BOOLEAN, taken : 0..3]

==============================================================================
