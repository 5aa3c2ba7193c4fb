---------------------------- MODULE MCChannelText ----------------------------
(* The limits scaled down so that a text of five characters wraps.          *)
EXTENDS ChannelText

MCTexts ==
  UNION {[1..n -> Chars] : n \in 0..3}
    \cup UNION {[1..n -> {"lf", "space", "one", "two", "four"}] : n \in 4..5}

\* The longest name of one-byte characters, and one that is refused.
MCDestinations == {[chars |-> 2, bytes |-> 2], [chars |-> 3, bytes |-> 3]}

\* The limits of the code: a text of 100 characters of four bytes, to a
\* channel whose name is "#" and 49 such characters.
LongTexts == {[i \in 1..100 |-> "four"]}
WideDestinations == {[chars |-> 50, bytes |-> 197]}

==============================================================================
