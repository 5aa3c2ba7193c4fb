---------------------------- MODULE ChannelText ----------------------------
(***************************************************************************)
(* From the text of a mesh message to the lines of IRC that carry it:      *)
(* format_channel_message splits it into logical lines, strips control     *)
(* characters and wraps what is left to a number of bytes, and format_line *)
(* accepts the line for its destination or raises.                         *)
(*                                                                         *)
(* The loops are a state machine that handles one character a step.  A     *)
(* character is its kind, which says how wide it is in UTF-8 and what is   *)
(* done with it; a line is the sequence of the positions in the text of    *)
(* the characters it carries, so that two equal characters are told apart. *)
(***************************************************************************)
EXTENDS Naturals, Sequences, FiniteSets

CONSTANTS
  Texts,          \* the texts that may arrive
  Prefixes,       \* the sizes of the prefix: 0, or that of "[n] "
  Destinations,   \* the names of channels in the configuration
  MaxLineBytes,   \* formatting.MAX_LINE_BYTES: the budget of a line
  MaxIrcBytes,    \* protocol.MAX_LINE_BYTES: what format_line accepts
  MaxChannelLen   \* _MAX_IRC_CHANNEL_LEN, in characters

Width == [cr |-> 1, lf |-> 1, control |-> 1, space |-> 1, one |-> 1, two |-> 2, four |-> 4]
Chars == DOMAIN Width
Separators == {"cr", "lf"}

\* A name has at least a byte for each of its characters.
Names == {d \in [chars : Nat, bytes : Nat] : d.chars <= d.bytes}

ASSUME TextsAssumption == \A t \in Texts : t \in Seq(Chars)
ASSUME NamesAssumption == \A d \in Destinations : d \in Names
ASSUME BudgetAssumption ==
  /\ MaxLineBytes \in Nat /\ MaxIrcBytes \in Nat /\ MaxChannelLen \in Nat
  /\ Prefixes \subseteq Nat
  \* The budget of a line has room for the prefix and a character.
  /\ \A p \in Prefixes : p + 4 <= MaxLineBytes

VARIABLES
  text, prefix, destination, \* the inputs
  next,                      \* the character of the text to split off next
  phase,                     \* in the loop over logical lines, or in _wrap_to_byte_limit
  logical,                   \* the logical line, or what of it is not wrapped yet
  current, currentBytes,     \* the chunk being filled
  lines                      \* the lines made so far

inputs == <<text, prefix, destination>>
vars == <<inputs, next, phase, logical, current, currentBytes, lines>>

Positions == 1..Len(text)
LineType == [chars : Seq(Positions), bytes : Nat]

TypeOK ==
  /\ text \in Texts /\ prefix \in Prefixes /\ destination \in Destinations
  /\ next \in 1..Len(text) + 2
  /\ phase \in {"splitting", "wrapping", "done"}
  /\ logical \in Seq(Positions) /\ current \in Seq(Positions) /\ currentBytes \in Nat
  /\ lines \in Seq(LineType)
  /\ phase # "wrapping" => current = <<>>
  /\ current = <<>> <=> currentBytes = 0

\* Mutation: a name may be one character longer than the limit.
ConfiguredLonger(name) == name.chars <= MaxChannelLen + 1

\* ChannelMapping.__post_init__ counts the characters of the name.
Configured(name) == name.chars <= MaxChannelLen

Init ==
  /\ text \in Texts /\ prefix \in Prefixes
  /\ destination \in {d \in Destinations : Configured(d)}
  /\ next = 1 /\ phase = IF text = <<>> THEN "done" ELSE "splitting"
  /\ logical = <<>> /\ current = <<>> /\ currentBytes = 0
  /\ lines = <<>>

\* Mutation: control characters are forwarded.
ReadCharKeepingControl ==
  /\ phase = "splitting"
  /\ next <= Len(text) /\ text[next] \notin Separators
  /\ logical' = Append(logical, next)
  /\ next' = next + 1
  /\ UNCHANGED <<inputs, phase, current, currentBytes, lines>>

\* Control characters other than the separators and the tab are stripped.
ReadChar ==
  /\ phase = "splitting"
  /\ next <= Len(text) /\ text[next] \notin Separators
  /\ logical' = IF text[next] = "control" THEN logical ELSE Append(logical, next)
  /\ next' = next + 1
  /\ UNCHANGED <<inputs, phase, current, currentBytes, lines>>

Blank(line) == \A i \in DOMAIN line : text[line[i]] = "space"

\* The logical line ends at a separator or with the text, and is dropped when
\* blank.  CR LF is one separator in the code and two here: what is between
\* the two is blank.
EndLogicalLine ==
  /\ phase = "splitting"
  /\ next \in Positions => text[next] \in Separators
  /\ next' = next + 1
  /\ IF Blank(logical)
     THEN /\ logical' = <<>>
          /\ phase' = IF next > Len(text) THEN "done" ELSE "splitting"
     ELSE /\ phase' = "wrapping"
          /\ UNCHANGED logical
  /\ UNCHANGED <<inputs, current, currentBytes, lines>>

\* The bytes a line has for its text; the floor of 1 in the code is above it
\* only when the prefix alone fills the budget.
Available == IF prefix < MaxLineBytes THEN MaxLineBytes - prefix ELSE 1

Chunk == [chars |-> current, bytes |-> prefix + currentBytes]

\* Mutation: the prefix does not count against the budget.
WrapCharIgnoringPrefix ==
  /\ phase = "wrapping" /\ logical # <<>>
  /\ LET width == Width[text[Head(logical)]]
     IN IF current # <<>> /\ currentBytes + width > MaxLineBytes
        THEN /\ lines' = Append(lines, Chunk)
             /\ current' = <<Head(logical)>> /\ currentBytes' = width
        ELSE /\ current' = Append(current, Head(logical))
             /\ currentBytes' = currentBytes + width
             /\ UNCHANGED lines
  /\ logical' = Tail(logical)
  /\ UNCHANGED <<inputs, next, phase>>

\* Mutation: the character that does not fit any more is lost.
WrapCharLate ==
  /\ phase = "wrapping" /\ logical # <<>>
  /\ LET width == Width[text[Head(logical)]]
     IN IF current # <<>> /\ currentBytes + width > Available
        THEN /\ lines' = Append(lines, Chunk)
             /\ current' = <<>> /\ currentBytes' = 0
        ELSE /\ current' = Append(current, Head(logical))
             /\ currentBytes' = currentBytes + width
             /\ UNCHANGED lines
  /\ logical' = Tail(logical)
  /\ UNCHANGED <<inputs, next, phase>>

\* Mutation: current_bytes is not reset with the chunk.
WrapCharCountingOn ==
  /\ phase = "wrapping" /\ logical # <<>>
  /\ LET width == Width[text[Head(logical)]]
     IN IF current # <<>> /\ currentBytes + width > Available
        THEN /\ lines' = Append(lines, Chunk)
             /\ current' = <<Head(logical)>> /\ currentBytes' = currentBytes + width
        ELSE /\ current' = Append(current, Head(logical))
             /\ currentBytes' = currentBytes + width
             /\ UNCHANGED lines
  /\ logical' = Tail(logical)
  /\ UNCHANGED <<inputs, next, phase>>

\* The next character goes into the chunk, or starts one when the chunk is full.
WrapChar ==
  /\ phase = "wrapping" /\ logical # <<>>
  /\ LET width == Width[text[Head(logical)]]
     IN IF current # <<>> /\ currentBytes + width > Available
        THEN /\ lines' = Append(lines, Chunk)
             /\ current' = <<Head(logical)>> /\ currentBytes' = width
        ELSE /\ current' = Append(current, Head(logical))
             /\ currentBytes' = currentBytes + width
             /\ UNCHANGED lines
  /\ logical' = Tail(logical)
  /\ UNCHANGED <<inputs, next, phase>>

\* The last chunk of a logical line; a logical line that is not blank has one.
EndWrap ==
  /\ phase = "wrapping" /\ logical = <<>>
  /\ lines' = Append(lines, Chunk)
  /\ current' = <<>> /\ currentBytes' = 0
  /\ phase' = IF next > Len(text) + 1 THEN "done" ELSE "splitting"
  /\ UNCHANGED <<inputs, next, logical>>

Next == ReadChar \/ EndLogicalLine \/ WrapChar \/ EndWrap

Spec == Init /\ [][Next]_vars

------------------------------------------------------------------------------
\* "PRIVMSG ", " :" and CR LF are 12 bytes: format_line raises when the line
\* with them is over the limit.
Fits(line) == 12 + destination.bytes + line.bytes <= MaxIrcBytes

Visible(p) == text[p] \notin Separators \cup {"control"}
AllVisible(line) == \A i \in DOMAIN line : Visible(line[i])

\* The characters of one logical line: no separator stands between them.
SameLogicalLine(p, q) == \A r \in Positions : r \in p..q \/ r \in q..p => text[r] \notin Separators

\* The characters IRC should see: not those that are stripped, and not those
\* of a blank logical line.
Relayed ==
  {p \in Positions :
     /\ Visible(p)
     /\ \E q \in Positions : SameLogicalLine(p, q) /\ text[q] \notin {"control", "space"}}

Occurring(chars) == {chars[i] : i \in DOMAIN chars}
CarriedBy(line) == Occurring(line.chars)

\* The bytes of the UTF-8 encoding of characters, one by one: a character of
\* width w has the bytes 1..w.
Encoding(chars) == UNION {{p} \X (1..Width[text[p]]) : p \in Occurring(chars)}
Bytes(line) == prefix + Cardinality(Encoding(line.chars))

\* However the text is split and wrapped, every character of it that is not
\* stripped reaches IRC once, in order, and never in a line with characters of
\* another logical line (format_channel_message, _wrap_to_byte_limit).
RelaysText ==
  phase = "done" =>
    /\ UNION {CarriedBy(lines[i]) : i \in DOMAIN lines} = Relayed
    /\ \A i, j \in DOMAIN lines : \A a \in DOMAIN lines[i].chars : \A b \in DOMAIN lines[j].chars :
         i < j \/ (i = j /\ a < b) => lines[i].chars[a] < lines[j].chars[b]
    /\ \A i \in DOMAIN lines : \A p, q \in CarriedBy(lines[i]) : SameLogicalLine(p, q)

\* No line carries a separator or a control character into the protocol
\* stream, nor is it empty.
SafeLines ==
  \A i \in DOMAIN lines :
    /\ lines[i].chars # <<>>
    /\ AllVisible(lines[i].chars)

\* A line, its prefix included, is within the budget, counted as the code
\* counts and by the widths of its characters.
WithinBudget ==
  \A i \in DOMAIN lines :
    lines[i].bytes <= MaxLineBytes /\ lines[i].bytes = Bytes(lines[i])

\* A logical line is not split where its next character would have fitted:
\* each line more is one more place in a bounded queue, and a paced send.
NoNeedlessSplit ==
  \A i \in DOMAIN lines :
    i + 1 \in DOMAIN lines /\ SameLogicalLine(lines[i].chars[1], lines[i + 1].chars[1])
      => Bytes(lines[i]) + Width[text[lines[i + 1].chars[1]]] > MaxLineBytes

\* A name the configuration accepts leaves room for the whole budget of a line
\* (the comment on _MAX_IRC_CHANNEL_LEN): format_line refuses none of them.
EveryLineSendable == \A i \in DOMAIN lines : Fits(lines[i])

\* The inductive invariant behind SafeLines and the budget: what is collected
\* is visible, a chunk being filled has room for itself, and a logical line
\* taken up for wrapping yields a chunk.
IInv ==
  /\ TypeOK /\ Configured(destination)
  /\ AllVisible(logical) /\ AllVisible(current)
  /\ currentBytes <= MaxLineBytes - prefix
  /\ phase = "splitting" => next <= Len(text) + 1
  /\ phase = "wrapping" => logical # <<>> \/ current # <<>>
  /\ SafeLines
  /\ \A i \in DOMAIN lines : lines[i].bytes <= MaxLineBytes

\* The inductive invariant behind RelaysText.  A position ends a logical line
\* when it holds a separator or is that behind the text; a character is closed
\* when the end of its logical line has been read.
Ends(r) == r \in Positions => text[r] \in Separators
Closed(p) == \E r \in p..next - 1 : Ends(r)
Forwarded == UNION {CarriedBy(lines[i]) : i \in DOMAIN lines}
Together(chars) == \A p, q \in Occurring(chars) : SameLogicalLine(p, q)

\* The characters read are where they belong: those of the open logical line in
\* logical, those of the closed ones on their way to the lines.
Accounted ==
  /\ phase = "splitting" =>
       /\ Occurring(logical) = {p \in Positions : p < next /\ Visible(p) /\ ~Closed(p)}
       /\ Forwarded = {p \in Relayed : p < next /\ Closed(p)}
  /\ phase = "wrapping" =>
       /\ Ends(next - 1) /\ next > 1
       /\ Forwarded \cup Occurring(current) \cup Occurring(logical) = {p \in Relayed : p < next}
       /\ \A p, q \in Occurring(current) \cup Occurring(logical) : SameLogicalLine(p, q)
       /\ current = <<>> =>
            \A p \in Forwarded, q \in Occurring(logical) : ~SameLogicalLine(p, q)
  /\ phase = "done" => Forwarded = Relayed
  /\ \A i \in DOMAIN lines : Together(lines[i].chars)

\* And they are there in their order.
Rising(s) == \A a, b \in DOMAIN s : a < b => s[a] < s[b]
Before(s, t) == \A a \in DOMAIN s, b \in DOMAIN t : s[a] < t[b]
InOrder ==
  /\ Rising(current) /\ Rising(logical) /\ Before(current, logical)
  /\ \A i \in DOMAIN lines :
       /\ Rising(lines[i].chars)
       /\ Before(lines[i].chars, current) /\ Before(lines[i].chars, logical)
  /\ \A i, j \in DOMAIN lines : i < j => Before(lines[i].chars, lines[j].chars)

\* The invariant behind WithinBudget and NoNeedlessSplit: what is counted is
\* what the characters take, and a chunk that follows one of the same logical
\* line was begun because its first character did not fit there.
Counted ==
  /\ currentBytes = Cardinality(Encoding(current))
  /\ \A i \in DOMAIN lines : lines[i].bytes = Bytes(lines[i])

Overflows(line, following) ==
  SameLogicalLine(line.chars[1], following[1])
    => line.bytes + Width[text[following[1]]] > MaxLineBytes
SplitWhenFull ==
  /\ \A i \in DOMAIN lines : i + 1 \in DOMAIN lines => Overflows(lines[i], lines[i + 1].chars)
  /\ lines # <<>> /\ current # <<>> => Overflows(lines[Len(lines)], current)

==============================================================================
