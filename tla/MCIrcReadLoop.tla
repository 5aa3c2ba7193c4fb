---------------------------- MODULE MCIrcReadLoop ----------------------------
(* IrcReadLoop with a line of each kind that parse and the loop tell apart. *)
EXTENDS IrcReadLoop

\* A line that leads with lead and has these words, and this trailing text.
Shape(lead, words, trailing) == [lead |-> lead, words |-> words, trailing |-> trailing]

MCLine == {
  Shape("nothing", <<>>, <<>>),                       \* blank
  Shape("tags", <<>>, <<>>),                          \* tags and nothing else
  Shape("prefix", <<>>, <<"text">>),                  \* a prefix and a text
  Shape("nothing", <<"PING">>, <<"text">>),
  Shape("nothing", <<"PING", "long">>, <<>>),
  Shape("prefix", <<"joinFailure", "nick">>, <<"text">>),
  Shape("prefix", <<"joinFailure">>, <<>>) }

==============================================================================
