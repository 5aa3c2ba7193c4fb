-------------------------- MODULE ChannelTextProofs --------------------------
(***************************************************************************)
(* Every text comes out as lines that are safe and within the budget, and  *)
(* format_line accepts them all if, and this is what _MAX_IRC_CHANNEL_LEN  *)
(* is meant to give, the bytes of the channel's name leave room for it.    *)
(***************************************************************************)
EXTENDS ChannelText, FiniteSetTheorems, SequenceTheorems, TLAPS

LEMMA Widths == \A c \in Chars : Width[c] \in 1..4
BY DEF Width, Chars

LEMMA Room ==
  ASSUME TypeOK
  PROVE  /\ prefix \in Nat /\ MaxLineBytes \in Nat /\ prefix + 4 <= MaxLineBytes
         /\ Available = MaxLineBytes - prefix
         /\ text \in Seq(Chars) /\ Len(text) \in Nat /\ Positions \subseteq Nat
<1>1. prefix \in Nat /\ MaxLineBytes \in Nat /\ prefix + 4 <= MaxLineBytes
  BY BudgetAssumption DEF TypeOK
<1>2. text \in Seq(Chars)
  BY TextsAssumption DEF TypeOK
<1> QED
  BY <1>1, <1>2 DEF Available, Positions

\* The characters of a sequence that grows by one, or loses its first.
LEMMA Visibility ==
  ASSUME NEW line \in Seq(Positions), AllVisible(line)
  PROVE  /\ \A p \in Positions : Visible(p) => AllVisible(Append(line, p))
         /\ line # <<>> => /\ Visible(Head(line)) /\ AllVisible(Tail(line))
                           /\ Head(line) \in Positions /\ Tail(line) \in Seq(Positions)
BY DEF AllVisible

LEMMA Single ==
  ASSUME NEW p \in Positions
  PROVE  <<p>> \in Seq(Positions) /\ <<p>> # <<>> /\ (Visible(p) => AllVisible(<<p>>))
BY DEF AllVisible

LEMMA InitIInv == Init => IInv
<1> SUFFICES ASSUME Init PROVE IInv
  OBVIOUS
<1>1. TypeOK
  <2>1. text \in Seq(Chars) /\ Len(text) \in Nat
    BY TextsAssumption DEF Init
  <2>2. next \in 1..Len(text) + 2 /\ lines \in Seq(LineType)
    BY <2>1 DEF Init
  <2> QED
    BY <2>2 DEF Init, TypeOK
<1> QED
  BY <1>1, Room DEF Init, IInv, AllVisible, SafeLines, Configured

LEMMA ReadCharKeepsIInv == IInv /\ ReadChar => IInv'
<1> SUFFICES ASSUME IInv, ReadChar PROVE IInv'
  OBVIOUS
<1>1. TypeOK /\ AllVisible(logical) /\ logical \in Seq(Positions)
  BY DEF IInv, TypeOK
<1>2. UNCHANGED <<text, prefix, destination, phase, current, currentBytes, lines>>
  BY DEF ReadChar, inputs
<1>3. next \in Positions /\ next' = next + 1 /\ next' \in 1..Len(text) + 2
  BY <1>1, Room DEF ReadChar, Positions, TypeOK
<1>4. logical' \in Seq(Positions) /\ AllVisible(logical')
  BY <1>1, <1>3, Visibility DEF ReadChar, Visible
<1> QED
  BY <1>2, <1>3, <1>4 DEF ReadChar, IInv, Configured, TypeOK, SafeLines, AllVisible, Visible, Positions, LineType

LEMMA EndLogicalLineKeepsIInv == IInv /\ EndLogicalLine => IInv'
<1> SUFFICES ASSUME IInv, EndLogicalLine PROVE IInv'
  OBVIOUS
<1>1. TypeOK /\ AllVisible(logical) /\ logical \in Seq(Positions)
  BY DEF IInv, TypeOK
<1>2. UNCHANGED <<text, prefix, destination, current, currentBytes, lines>>
  BY DEF EndLogicalLine, inputs
<1>3. /\ next' \in 1..Len(text) + 2
      /\ phase' = "splitting" => next' <= Len(text) + 1
  BY <1>1, Room DEF EndLogicalLine, IInv, TypeOK
<1>4. /\ logical' \in Seq(Positions) /\ AllVisible(logical')
      /\ phase' \in {"splitting", "wrapping", "done"}
      /\ phase' = "wrapping" => logical' # <<>>
  <2>1. CASE Blank(logical)
    <3>1. <<>> \in Seq(Positions) /\ AllVisible(<<>>)
      BY DEF AllVisible
    <3> QED
      BY <2>1, <3>1 DEF EndLogicalLine
  <2>2. CASE ~Blank(logical)
    <3>1. logical # <<>>
      BY <2>2 DEF Blank
    <3> QED
      BY <1>1, <2>2, <3>1 DEF EndLogicalLine
  <2> QED
    BY <2>1, <2>2
<1>5. current = <<>> /\ currentBytes = 0
  BY <1>1 DEF EndLogicalLine, TypeOK
<1> QED
  BY <1>2, <1>3, <1>4, <1>5 DEF IInv, Configured, TypeOK, SafeLines, AllVisible, Visible, Positions, LineType

\* The chunk that is filled goes out: it has a character, and is in the budget.
LEMMA FlushKeepsLines ==
  ASSUME IInv, current # <<>>, lines' = Append(lines, Chunk)
  PROVE  /\ lines' \in Seq(LineType)
         /\ \A i \in DOMAIN lines' :
              /\ lines'[i].chars # <<>> /\ AllVisible(lines'[i].chars)
              /\ lines'[i].bytes <= MaxLineBytes
<1>1. TypeOK /\ lines \in Seq(LineType)
  BY DEF IInv, TypeOK
<1>2. /\ current \in Seq(Positions) /\ currentBytes \in Nat
      /\ AllVisible(current) /\ currentBytes <= MaxLineBytes - prefix
  BY DEF IInv, TypeOK
<1>3. prefix + currentBytes \in Nat /\ prefix + currentBytes <= MaxLineBytes
  BY <1>1, <1>2, Room
<1>4. /\ Chunk \in LineType /\ Chunk.chars = current /\ Chunk.bytes <= MaxLineBytes
  BY <1>2, <1>3 DEF Chunk, LineType
<1>5. \A i \in DOMAIN lines : /\ lines[i].chars # <<>> /\ AllVisible(lines[i].chars)
                              /\ lines[i].bytes <= MaxLineBytes
  BY DEF IInv, SafeLines
<1>6. lines' \in Seq(LineType)
  BY <1>1, <1>4
<1>7. \A i \in DOMAIN lines' : lines'[i] = Chunk \/ (i \in DOMAIN lines /\ lines'[i] = lines[i])
  BY <1>1, <1>4
<1> QED
  BY <1>2, <1>4, <1>5, <1>6, <1>7

LEMMA WrapCharKeepsIInv == IInv /\ WrapChar => IInv'
<1> SUFFICES ASSUME IInv, WrapChar PROVE IInv'
  OBVIOUS
<1> DEFINE p == Head(logical)
           width == Width[text[p]]
<1>1. TypeOK /\ AllVisible(logical) /\ logical \in Seq(Positions) /\ logical # <<>>
  BY DEF IInv, TypeOK, WrapChar
<1>2. UNCHANGED <<text, prefix, destination, next, phase>> /\ phase = "wrapping"
  BY DEF WrapChar, inputs
<1>3. /\ p \in Positions /\ Visible(p)
      /\ logical' \in Seq(Positions) /\ AllVisible(logical')
  BY <1>1, Visibility DEF WrapChar
<1>4. width \in 1..4
  BY <1>1, <1>3, Room, Widths DEF Positions
<1>5. /\ current \in Seq(Positions) /\ currentBytes \in Nat
      /\ AllVisible(current) /\ currentBytes <= MaxLineBytes - prefix
      /\ lines \in Seq(LineType)
  BY DEF IInv, TypeOK
<1> HIDE DEF p, width
<1>6. /\ current' \in Seq(Positions) /\ current' # <<>> /\ AllVisible(current')
      /\ currentBytes' \in Nat /\ currentBytes' # 0 /\ currentBytes' <= MaxLineBytes - prefix
      /\ lines' \in Seq(LineType)
      /\ \A i \in DOMAIN lines' :
           /\ lines'[i].chars # <<>> /\ AllVisible(lines'[i].chars)
           /\ lines'[i].bytes <= MaxLineBytes
  <2>1. CASE current # <<>> /\ currentBytes + width > Available
    <3>1. lines' = Append(lines, Chunk) /\ current' = <<p>> /\ currentBytes' = width
      BY <2>1 DEF WrapChar, p, width
    <3>2. /\ lines' \in Seq(LineType)
          /\ \A i \in DOMAIN lines' :
               /\ lines'[i].chars # <<>> /\ AllVisible(lines'[i].chars)
               /\ lines'[i].bytes <= MaxLineBytes
      BY <2>1, <3>1, FlushKeepsLines
    <3>3. current' \in Seq(Positions) /\ current' # <<>> /\ AllVisible(current')
      BY <1>3, <3>1, Single
    <3>4. currentBytes' \in Nat /\ currentBytes' # 0 /\ currentBytes' <= MaxLineBytes - prefix
      BY <1>1, <1>4, <3>1, Room
    <3> QED
      BY <3>2, <3>3, <3>4
  <2>2. CASE ~(current # <<>> /\ currentBytes + width > Available)
    <3>1. lines' = lines /\ current' = Append(current, p) /\ currentBytes' = currentBytes + width
      BY <2>2 DEF WrapChar, p, width
    <3>2. currentBytes + width <= MaxLineBytes - prefix
      <4>1. current = <<>> => currentBytes = 0
        BY <1>1 DEF TypeOK
      <4> QED
        BY <1>1, <1>4, <1>5, <2>2, <4>1, Room
    <3>3. Append(current, p) \in Seq(Positions) /\ Append(current, p) # <<>> /\ AllVisible(Append(current, p))
      BY <1>3, <1>5, Visibility
    <3>4. currentBytes + width \in Nat /\ currentBytes + width # 0
      BY <1>4, <1>5
    <3>5. \A i \in DOMAIN lines :
            /\ lines[i].chars # <<>> /\ AllVisible(lines[i].chars)
            /\ lines[i].bytes <= MaxLineBytes
      BY DEF IInv, SafeLines
    <3> QED
      BY <1>5, <3>1, <3>2, <3>3, <3>4, <3>5
  <2> QED
    BY <2>1, <2>2
<1> QED
  BY <1>1, <1>2, <1>3, <1>6 DEF IInv, Configured, TypeOK, SafeLines, AllVisible, Visible, Positions, LineType

LEMMA EndWrapKeepsIInv == IInv /\ EndWrap => IInv'
<1> SUFFICES ASSUME IInv, EndWrap PROVE IInv'
  OBVIOUS
<1>1. TypeOK /\ AllVisible(logical) /\ logical \in Seq(Positions)
  BY DEF IInv, TypeOK
<1>2. UNCHANGED <<text, prefix, destination, next, logical>>
  BY DEF EndWrap, inputs
<1>3. current # <<>> /\ lines' = Append(lines, Chunk)
  BY DEF IInv, EndWrap
<1>4. /\ lines' \in Seq(LineType)
      /\ \A i \in DOMAIN lines' :
           /\ lines'[i].chars # <<>> /\ AllVisible(lines'[i].chars)
           /\ lines'[i].bytes <= MaxLineBytes
  BY <1>3, FlushKeepsLines
<1>5. current' = <<>> /\ currentBytes' = 0 /\ <<>> \in Seq(Positions) /\ AllVisible(<<>>)
  BY DEF EndWrap, AllVisible
<1>6. /\ phase' \in {"splitting", "done"}
      /\ phase' = "splitting" => next <= Len(text) + 1
  BY <1>1, Room DEF EndWrap, TypeOK
<1>7. 0 <= MaxLineBytes - prefix
  BY <1>1, Room
<1> QED
  BY <1>1, <1>2, <1>4, <1>5, <1>6, <1>7
     DEF IInv, Configured, TypeOK, SafeLines, AllVisible, Visible, Positions, LineType

\* What the loops of format_channel_message keep true (formatting.py 37-98).
THEOREM Invariant == Spec => []IInv
<1>1. IInv /\ UNCHANGED vars => IInv'
  BY DEF IInv, Configured, TypeOK, SafeLines, AllVisible, Visible, Positions, LineType, vars, inputs
<1>2. IInv /\ [Next]_vars => IInv'
  BY <1>1, ReadCharKeepsIInv, EndLogicalLineKeepsIInv, WrapCharKeepsIInv, EndWrapKeepsIInv DEF Next
<1> QED
  BY <1>2, InitIInv, PTL DEF Spec

\* Type correctness, for every text, prefix and budget.
THEOREM TypeCorrect == Spec => []TypeOK
<1>1. IInv => TypeOK
  BY DEF IInv
<1> QED
  BY <1>1, Invariant, PTL

\* No text, however long, puts a separator or a control character on a line.
THEOREM Safe == Spec => []SafeLines
<1>1. IInv => SafeLines
  BY DEF IInv
<1> QED
  BY <1>1, Invariant, PTL

\* What a name must satisfy for format_line to accept every line sent to it:
\* the check of ChannelMapping is sound if it implies this of the name's bytes.
THEOREM Sendable ==
  ASSUME \A d \in Destinations : Configured(d) => 12 + d.bytes + MaxLineBytes <= MaxIrcBytes
  PROVE  Spec => []EveryLineSendable
<1>1. IInv => EveryLineSendable
  <2> SUFFICES ASSUME IInv, NEW i \in DOMAIN lines PROVE Fits(lines[i])
    BY DEF EveryLineSendable
  <2>1. lines[i].bytes <= MaxLineBytes /\ lines[i].bytes \in Nat
    <3>1. lines \in Seq(LineType) /\ lines[i].bytes <= MaxLineBytes
      BY DEF IInv, TypeOK
    <3>2. lines[i] \in LineType
      BY <3>1
    <3> QED
      BY <3>1, <3>2 DEF LineType
  <2>2. destination \in Destinations /\ Configured(destination) /\ destination.bytes \in Nat
    BY NamesAssumption DEF IInv, TypeOK, Names
  <2>3. 12 + destination.bytes + MaxLineBytes <= MaxIrcBytes
    BY <2>2
  <2> QED
    BY <2>1, <2>2, <2>3, BudgetAssumption DEF Fits
<1> QED
  BY <1>1, Invariant, PTL


------------------------------------------------------------------------------
(* Nothing is lost, repeated or put out of order.                          *)

\* What occurs in a sequence that grows by one, or loses its first.
LEMMA Occurrences ==
  ASSUME NEW S, NEW s \in Seq(S)
  PROVE  /\ Occurring(s) \subseteq S
         /\ \A x \in S : Occurring(Append(s, x)) = Occurring(s) \cup {x}
         /\ s # <<>> => Occurring(s) = {Head(s)} \cup Occurring(Tail(s))
<1>1. Occurring(s) \subseteq S
  BY DEF Occurring
<1>2. ASSUME NEW x \in S PROVE Occurring(Append(s, x)) = Occurring(s) \cup {x}
  <2> DEFINE t == Append(s, x)
  <2>1. /\ Len(s) \in Nat /\ DOMAIN s = 1..Len(s) /\ DOMAIN t = 1..Len(s) + 1
        /\ t[Len(s) + 1] = x /\ \A i \in 1..Len(s) : t[i] = s[i]
    OBVIOUS
  <2> HIDE DEF t
  <2>2. \A i \in 1..Len(s) + 1 : i \in 1..Len(s) \/ i = Len(s) + 1
    BY <2>1
  <2>3. Len(s) + 1 \in 1..Len(s) + 1 /\ \A i \in 1..Len(s) : i \in 1..Len(s) + 1
    BY <2>1
  <2>4. Occurring(t) = Occurring(s) \cup {x}
    BY <2>1, <2>2, <2>3 DEF Occurring
  <2> QED
    BY <2>4 DEF t
<1>3. ASSUME s # <<>> PROVE Occurring(s) = {Head(s)} \cup Occurring(Tail(s))
  <2> DEFINE t == Tail(s)
  <2>1. /\ Len(s) \in Nat \ {0} /\ DOMAIN s = 1..Len(s) /\ DOMAIN t = 1..Len(s) - 1
        /\ s[1] = Head(s) /\ \A i \in 1..Len(s) - 1 : t[i] = s[i + 1]
    BY <1>3
  <2> HIDE DEF t
  <2>2. \A i \in 1..Len(s) : i = 1 \/ (i - 1 \in 1..Len(s) - 1 /\ (i - 1) + 1 = i)
    BY <2>1
  <2>3. 1 \in 1..Len(s) /\ \A i \in 1..Len(s) - 1 : i + 1 \in 1..Len(s)
    BY <2>1
  <2>4. Occurring(s) \subseteq {Head(s)} \cup Occurring(t)
    <3> SUFFICES ASSUME NEW i \in 1..Len(s) PROVE s[i] = Head(s) \/ s[i] \in Occurring(t)
      BY <2>1 DEF Occurring
    <3>1. CASE i = 1
      BY <2>1, <3>1
    <3>2. CASE i - 1 \in 1..Len(s) - 1 /\ (i - 1) + 1 = i
      <4>1. s[i] = t[i - 1]
        BY <2>1, <3>2
      <4> QED
        BY <2>1, <3>2, <4>1 DEF Occurring
    <3> QED
      BY <2>2, <3>1, <3>2
  <2>5. {Head(s)} \cup Occurring(t) \subseteq Occurring(s)
    BY <2>1, <2>3 DEF Occurring
  <2>6. Occurring(s) = {Head(s)} \cup Occurring(t)
    BY <2>4, <2>5
  <2> QED
    BY <2>6 DEF t
<1> QED
  BY <1>1, <1>2, <1>3

LEMMA NoOccurrence == Occurring(<<>>) = {} /\ \A x : Occurring(<<x>>) = {x}
<1>1. Occurring(<<>>) = {}
  BY DEF Occurring
<1>2. ASSUME NEW x PROVE Occurring(<<x>>) = {x}
  <2>1. DOMAIN <<x>> = {1} /\ <<x>>[1] = x
    OBVIOUS
  <2> QED
    BY <2>1 DEF Occurring
<1> QED
  BY <1>1, <1>2

\* The text stays, and with it what its characters are and which go together.
LEMMA SameText ==
  ASSUME UNCHANGED text
  PROVE  /\ Positions' = Positions /\ Relayed' = Relayed
         /\ \A p : Visible(p)' <=> Visible(p)
         /\ \A p, q : SameLogicalLine(p, q)' <=> SameLogicalLine(p, q)
         /\ \A r : Ends(r)' <=> Ends(r)
         /\ \A s : Together(s)' <=> Together(s)
BY DEF Positions, Relayed, Visible, SameLogicalLine, Ends, Together

\* Which characters stand in one logical line: those not closed; and a closed
\* one with none that is not.
LEMMA Segments ==
  ASSUME TypeOK, next <= Len(text) + 1,
         NEW p \in Positions, NEW q \in Positions, p < next, q < next, ~Closed(q)
  PROVE  /\ ~Closed(p) => SameLogicalLine(p, q)
         /\ Closed(p) => ~SameLogicalLine(p, q)
<1>1. /\ Len(text) \in Nat /\ next \in Nat /\ p \in Nat /\ q \in Nat
      /\ p \in 1..Len(text) /\ q \in 1..Len(text)
  BY Room DEF TypeOK, Positions
<1>2. \A r \in Positions : r \in q..next - 1 => text[r] \notin Separators
  BY DEF Closed, Ends
<1>3. ASSUME ~Closed(p) PROVE SameLogicalLine(p, q)
  <2>1. \A r \in Positions : r \in p..next - 1 => text[r] \notin Separators
    BY <1>3 DEF Closed, Ends
  <2>2. \A r \in Positions : r \in p..q \/ r \in q..p => r \in p..next - 1 \/ r \in q..next - 1
    BY <1>1 DEF Positions
  <2> QED
    BY <1>2, <2>1, <2>2 DEF SameLogicalLine
<1>4. ASSUME Closed(p) PROVE ~SameLogicalLine(p, q)
  <2>1. PICK r \in p..next - 1 : Ends(r)
    BY <1>4 DEF Closed
  <2>2. r \in Positions
    BY <1>1 DEF Positions
  <2>3. text[r] \in Separators
    BY <2>1, <2>2 DEF Ends
  <2>4. r \notin q..next - 1
    BY <1>2, <2>2, <2>3
  <2>5. r \in p..q
    BY <1>1, <2>4
  <2> QED
    BY <2>2, <2>3, <2>5 DEF SameLogicalLine
<1> QED
  BY <1>3, <1>4

LEMMA Symmetric ==
  ASSUME NEW p, NEW q, SameLogicalLine(p, q)
  PROVE  SameLogicalLine(q, p)
BY DEF SameLogicalLine

\* The lines with the chunk behind them forward what it carries.
LEMMA ForwardedWith ==
  ASSUME lines \in Seq(LineType), current \in Seq(Positions), Chunk \in LineType,
         lines' = Append(lines, Chunk)
  PROVE  /\ Forwarded' = Forwarded \cup Occurring(current)
         /\ \A i \in DOMAIN lines' :
              \/ lines'[i] = Chunk /\ i = Len(lines) + 1
              \/ i \in DOMAIN lines /\ lines'[i] = lines[i]
<1> DEFINE n == Len(lines)
<1>1. /\ n \in Nat /\ DOMAIN lines = 1..n /\ DOMAIN lines' = 1..n + 1
      /\ lines'[n + 1] = Chunk /\ \A i \in 1..n : lines'[i] = lines[i]
  OBVIOUS
<1> HIDE DEF n
<1>2. CarriedBy(Chunk) = Occurring(current)
  BY DEF CarriedBy, Chunk
<1>3. \A i \in 1..n + 1 : i \in 1..n \/ i = n + 1
  BY <1>1
<1>4. n + 1 \in 1..n + 1 /\ \A i \in 1..n : i \in 1..n + 1
  BY <1>1
<1>5. Forwarded' = UNION {CarriedBy(lines'[i]) : i \in 1..n + 1}
  BY <1>1 DEF Forwarded, CarriedBy, Occurring
<1>6. Forwarded = UNION {CarriedBy(lines[i]) : i \in 1..n}
  BY <1>1 DEF Forwarded
<1>7. Forwarded' = Forwarded \cup Occurring(current)
  BY <1>1, <1>2, <1>3, <1>4, <1>5, <1>6
<1> QED
  BY <1>1, <1>3, <1>7 DEF n


\* What the scan knows before any of its steps.
LEMMA Scanning ==
  ASSUME IInv
  PROVE  /\ TypeOK /\ text \in Seq(Chars) /\ Len(text) \in Nat
         /\ next \in Nat /\ next >= 1 /\ next <= Len(text) + 2
         /\ logical \in Seq(Positions) /\ current \in Seq(Positions) /\ lines \in Seq(LineType)
         /\ currentBytes \in Nat /\ prefix \in Nat
         /\ phase = "splitting" => next <= Len(text) + 1
         /\ phase # "wrapping" => current = <<>>
         /\ \A p \in Positions : p \in Nat /\ p >= 1 /\ p <= Len(text)
<1>1. TypeOK /\ (phase = "splitting" => next <= Len(text) + 1)
  BY DEF IInv
<1>2. \A p \in Positions : p \in Nat /\ p >= 1 /\ p <= Len(text)
  BY <1>1, Room DEF Positions
<1> QED
  BY <1>1, <1>2, Room DEF TypeOK

LEMMA ChunkType ==
  ASSUME IInv
  PROVE  Chunk \in LineType /\ Chunk.chars = current /\ Chunk.bytes = prefix + currentBytes
<1>1. current \in Seq(Positions) /\ currentBytes \in Nat /\ prefix \in Nat
  BY Scanning
<1>2. prefix + currentBytes \in Nat
  BY <1>1
<1> QED
  BY <1>1, <1>2 DEF Chunk, LineType

LEMMA InitAccounted == Init => Accounted
<1> SUFFICES ASSUME Init PROVE Accounted
  OBVIOUS
<1>1. logical = <<>> /\ lines = <<>> /\ next = 1 /\ phase \in {"splitting", "done"}
      /\ (phase = "done" => text = <<>>)
  BY DEF Init
<1>2. Forwarded = {} /\ Occurring(logical) = {}
  BY <1>1, NoOccurrence DEF Forwarded
<1>3. \A p \in Positions : ~(p < next)
  BY <1>1, InitIInv, Scanning
<1>4. text = <<>> => Relayed = {}
  BY DEF Relayed, Positions
<1> QED
  BY <1>1, <1>2, <1>3, <1>4 DEF Accounted, Relayed

LEMMA ReadCharKeepsAccounted ==
  ASSUME IInv, Accounted, ReadChar
  PROVE  Accounted'
<1>1. /\ phase = "splitting" /\ phase' = "splitting" /\ next \in Positions /\ next' = next + 1
      /\ UNCHANGED <<text, lines>> /\ ~Ends(next)
      /\ logical' = IF Visible(next) THEN Append(logical, next) ELSE logical
  BY Scanning DEF ReadChar, inputs, Positions, Ends, Visible
<1>2. \A p : Closed(p)' <=> Closed(p)
  <2>1. \A r : Ends(r)' <=> Ends(r)
    BY <1>1, SameText
  <2>2. \A p, r : r \in p..next' - 1 => r \in p..next - 1 \/ r = next
    BY <1>1, Scanning
  <2>3. \A p, r : r \in p..next - 1 => r \in p..next' - 1
    BY <1>1, Scanning
  <2> QED
    BY <1>1, <2>1, <2>2, <2>3 DEF Closed
<1>3. ~Closed(next)
  BY <1>1, Scanning DEF Closed
<1>4. \A p \in Positions : p < next' <=> p < next \/ p = next
  BY <1>1, Scanning
<1>5. Occurring(logical') = {p \in Positions : p < next' /\ Visible(p) /\ ~Closed(p)}
  <2>1. Occurring(logical) = {p \in Positions : p < next /\ Visible(p) /\ ~Closed(p)}
    BY <1>1 DEF Accounted
  <2>2. CASE Visible(next)
    <3>1. Occurring(logical') = Occurring(logical) \cup {next}
      BY <1>1, <2>2, Scanning, Occurrences
    <3> QED
      BY <1>1, <1>3, <1>4, <2>1, <2>2, <3>1
  <2>3. CASE ~Visible(next)
    BY <1>1, <1>4, <2>1, <2>3
  <2> QED
    BY <2>2, <2>3
<1>6. Forwarded' = Forwarded /\ Forwarded = {p \in Relayed : p < next' /\ Closed(p)}
  <2>1. Forwarded = {p \in Relayed : p < next /\ Closed(p)}
    BY <1>1 DEF Accounted
  <2>2. Relayed \subseteq Positions
    BY DEF Relayed
  <2>3. Forwarded' = Forwarded
    BY <1>1 DEF Forwarded, CarriedBy, Occurring
  <2> QED
    BY <1>3, <1>4, <2>1, <2>2, <2>3
<1>7. (\A i \in DOMAIN lines : Together(lines[i].chars))'
  BY <1>1, SameText DEF Accounted
<1> QED
  BY <1>1, <1>2, <1>5, <1>6, <1>7, SameText DEF Accounted

\* A character of a blank logical line, open when its end is reached, is not
\* relayed, and one of another is.
LEMMA RelayedWhenNotBlank ==
  ASSUME IInv, Accounted, phase = "splitting", Ends(next), NEW p \in Positions, p <= next
  PROVE  p \in Relayed <=> Visible(p) /\ p < next /\ (Closed(p) => p \in Relayed)
                           /\ (~Closed(p) => ~Blank(logical))
<1>1. Occurring(logical) = {q \in Positions : q < next /\ Visible(q) /\ ~Closed(q)}
  BY DEF Accounted
<1>2. ASSUME p \in Relayed, p = next PROVE FALSE
  <2>1. text[p] \in Separators
    BY <1>2 DEF Ends
  <2> QED
    BY <1>2, <2>1 DEF Relayed, Visible
<1>3. ASSUME p \in Relayed, p < next, ~Closed(p) PROVE ~Blank(logical)
  <2>1. PICK q \in Positions : SameLogicalLine(p, q) /\ text[q] \notin {"control", "space"}
    BY <1>3 DEF Relayed
  <2>2. \A r \in Positions : r \in p..q \/ r \in q..p => text[r] \notin Separators
    BY <2>1 DEF SameLogicalLine
  <2>3. Visible(q)
    <3>1. q \in p..q \/ q \in q..p
      BY Scanning
    <3> QED
      BY <2>1, <2>2, <3>1 DEF Visible
  <2>4. q < next
    <3> SUFFICES ASSUME next <= q PROVE FALSE
      BY Scanning
    <3>1. next \in Positions /\ next \in p..q
      BY <1>3, Scanning DEF Positions
    <3> QED
      BY <2>2, <3>1 DEF Ends
  <2>5. ~Closed(q)
    <3> SUFFICES ASSUME Closed(q) PROVE FALSE
      OBVIOUS
    <3> QED
      BY <1>3, <2>1, <2>4, Segments, Scanning, Symmetric
  <2>6. q \in Occurring(logical)
    BY <1>1, <2>3, <2>4, <2>5
  <2>7. PICK i \in DOMAIN logical : logical[i] = q
    BY <2>6 DEF Occurring
  <2> QED
    BY <2>1, <2>7 DEF Blank
<1>4. ASSUME Visible(p), p < next, ~Closed(p), ~Blank(logical) PROVE p \in Relayed
  <2>1. PICK i \in DOMAIN logical : text[logical[i]] # "space"
    BY <1>4 DEF Blank
  <2>2. logical[i] \in Occurring(logical)
    BY DEF Occurring
  <2>3. /\ logical[i] \in Positions /\ logical[i] < next /\ Visible(logical[i]) /\ ~Closed(logical[i])
    BY <1>1, <2>2
  <2>4. SameLogicalLine(p, logical[i])
    BY <1>4, <2>3, Segments, Scanning
  <2> QED
    BY <1>4, <2>1, <2>3, <2>4 DEF Relayed, Visible
<1>5. p \in Relayed => Visible(p)
  BY DEF Relayed
<1> QED
  BY <1>2, <1>3, <1>4, <1>5, Scanning

LEMMA EndLogicalLineKeepsAccounted ==
  ASSUME IInv, Accounted, EndLogicalLine
  PROVE  Accounted'
<1>1. /\ phase = "splitting" /\ next' = next + 1 /\ Ends(next)
      /\ UNCHANGED <<text, lines, current>> /\ current = <<>>
  BY Scanning DEF EndLogicalLine, inputs, Ends
<1>2. Forwarded' = Forwarded /\ (\A i \in DOMAIN lines : Together(lines[i].chars))'
  BY <1>1, SameText DEF Accounted, Forwarded, CarriedBy, Occurring
<1>3. Forwarded = {p \in Relayed : p < next /\ Closed(p)}
      /\ Occurring(logical) = {p \in Positions : p < next /\ Visible(p) /\ ~Closed(p)}
  BY <1>1 DEF Accounted
<1>4. \A p \in Positions : p < next' <=> p <= next
  BY <1>1, Scanning
<1>5. \A p \in Positions : p < next' => Closed(p)'
  <2> SUFFICES ASSUME NEW p \in Positions, p < next' PROVE Closed(p)'
    OBVIOUS
  <2>1. next \in p..next' - 1
    BY <1>1, Scanning
  <2>2. \A r : Ends(r)' <=> Ends(r)
    BY <1>1, SameText
  <2> QED
    BY <1>1, <2>1, <2>2 DEF Closed
<1>6. CASE Blank(logical)
  <2>1. logical' = <<>> /\ phase' = IF next > Len(text) THEN "done" ELSE "splitting"
    BY <1>6 DEF EndLogicalLine
  <2>2. Forwarded = {p \in Relayed : p < next'}
    <3>1. ASSUME NEW p \in Positions, p \in Relayed, p < next' PROVE p < next /\ Closed(p)
      BY <1>1, <1>4, <1>6, <3>1, RelayedWhenNotBlank
    <3>2. \A p \in Positions : p < next => p < next'
      BY <1>1, Scanning
    <3> QED
      BY <1>3, <3>1, <3>2 DEF Relayed
  <2>3. Relayed' = Relayed /\ Positions' = Positions
    BY <1>1, SameText
  <2>4. Forwarded' = {p \in Relayed' : p < next' /\ Closed(p)'}
    BY <1>2, <1>5, <2>2, <2>3 DEF Relayed
  <2>5. Occurring(logical') = {p \in Positions' : p < next' /\ Visible(p)' /\ ~Closed(p)'}
    BY <1>5, <2>1, <2>3, NoOccurrence
  <2>6. phase' = "done" => Forwarded' = Relayed'
    <3>1. next > Len(text) => \A p \in Positions : p < next'
      BY <1>1, Scanning
    <3> QED
      BY <1>2, <2>1, <2>2, <2>3, <3>1 DEF Relayed
  <2> QED
    BY <1>2, <2>1, <2>4, <2>5, <2>6 DEF Accounted
<1>7. CASE ~Blank(logical)
  <2>1. logical' = logical /\ phase' = "wrapping"
    BY <1>7 DEF EndLogicalLine
  <2>2. Relayed' = Relayed /\ (\A r : Ends(r)' <=> Ends(r))
        /\ \A p, q : SameLogicalLine(p, q)' <=> SameLogicalLine(p, q)
    BY <1>1, SameText
  <2>3. Ends(next - 1)' /\ next' > 1
    <3>1. next' - 1 = next /\ next' > 1
      BY <1>1, Scanning
    <3> QED
      BY <1>1, <2>2, <3>1
  <2>4. Forwarded \cup Occurring(current) \cup Occurring(logical) = {p \in Relayed : p < next'}
    <3>1. Occurring(current) = {}
      BY <1>1, NoOccurrence
    <3>2. ASSUME NEW p \in Positions
          PROVE  p \in Relayed /\ p < next' <=> p \in Forwarded \/ p \in Occurring(logical)
      BY <1>1, <1>3, <1>4, <1>7, RelayedWhenNotBlank, Scanning
    <3> QED
      BY <1>3, <3>1, <3>2 DEF Relayed
  <2>5. \A p, q \in Occurring(logical) : SameLogicalLine(p, q)
    BY <1>1, <1>3, Segments, Scanning
  <2>6. \A p \in Forwarded, q \in Occurring(logical) : ~SameLogicalLine(p, q)
    BY <1>1, <1>3, Segments, Scanning DEF Relayed
  <2>7. Occurring(current') = {} /\ Occurring(current) = {} /\ Occurring(logical') = Occurring(logical)
    BY <1>1, <2>1, NoOccurrence
  <2> QED
    BY <1>2, <2>1, <2>2, <2>3, <2>4, <2>5, <2>6, <2>7 DEF Accounted
<1> QED
  BY <1>6, <1>7


LEMMA Growing ==
  ASSUME NEW S, NEW s \in Seq(S), NEW x \in S
  PROVE  Append(s, x) \in Seq(S) /\ Append(s, x) # <<>>
BY AppendProperties, Zenon

\* The two ways of a step of the wrapping loop.
LEMMA WrapCharCases ==
  ASSUME IInv, WrapChar
  PROVE  /\ phase = "wrapping" /\ logical # <<>> /\ logical' = Tail(logical)
         /\ UNCHANGED <<text, prefix, destination, next, phase>>
         /\ Head(logical) \in Positions /\ Width[text[Head(logical)]] \in 1..4
         /\ current' \in Seq(Positions) /\ current' # <<>>
         /\ \/ /\ current # <<>> /\ currentBytes + Width[text[Head(logical)]] > MaxLineBytes - prefix
               /\ lines' = Append(lines, Chunk)
               /\ current' = <<Head(logical)>> /\ currentBytes' = Width[text[Head(logical)]]
            \/ /\ lines' = lines /\ current' = Append(current, Head(logical))
               /\ currentBytes' = currentBytes + Width[text[Head(logical)]]
<1> DEFINE c == Head(logical)
           width == Width[text[c]]
<1>1. /\ phase = "wrapping" /\ logical # <<>> /\ logical' = Tail(logical)
      /\ UNCHANGED <<text, prefix, destination, next, phase>>
  BY DEF WrapChar, inputs
<1>2. c \in Positions /\ width \in 1..4
  BY <1>1, Scanning, Widths DEF Positions
<1>3. \/ /\ current # <<>> /\ currentBytes + width > MaxLineBytes - prefix
         /\ lines' = Append(lines, Chunk) /\ current' = <<c>> /\ currentBytes' = width
      \/ /\ lines' = lines /\ current' = Append(current, c) /\ currentBytes' = currentBytes + width
  BY Scanning, Room DEF WrapChar
<1> HIDE DEF c, width
<1>4. current' \in Seq(Positions) /\ current' # <<>>
  <2>1. <<c>> \in Seq(Positions) /\ <<c>> # <<>>
    BY <1>2
  <2>2. current \in Seq(Positions)
    BY Scanning
  <2>3. Append(current, c) \in Seq(Positions) /\ Append(current, c) # <<>>
    BY <1>2, <2>2, Growing
  <2> QED
    BY <1>3, <2>1, <2>3
<1> QED
  BY <1>1, <1>2, <1>3, <1>4 DEF c, width

LEMMA WrapCharKeepsAccounted ==
  ASSUME IInv, Accounted, WrapChar
  PROVE  Accounted'
<1> DEFINE c == Head(logical)
           Pending == Occurring(current) \cup Occurring(logical)
<1>1. /\ phase = "wrapping" /\ logical # <<>> /\ logical' = Tail(logical)
      /\ UNCHANGED <<text, next, phase>> /\ c \in Positions /\ current' # <<>>
  BY WrapCharCases
<1>2. Occurring(logical) = {c} \cup Occurring(logical')
  BY <1>1, Scanning, Occurrences
<1>3. /\ Ends(next - 1) /\ next > 1
      /\ Forwarded \cup Pending = {p \in Relayed : p < next}
      /\ \A p, q \in Pending : SameLogicalLine(p, q)
      /\ \A i \in DOMAIN lines : Together(lines[i].chars)
  BY <1>1 DEF Accounted
<1>4. /\ Forwarded' \cup Occurring(current') \cup Occurring(logical') = Forwarded \cup Pending
      /\ Occurring(current') \cup Occurring(logical') \subseteq Pending
      /\ \A i \in DOMAIN lines' : \A p, q \in Occurring(lines'[i].chars) : SameLogicalLine(p, q)
  <2>1. CASE lines' = Append(lines, Chunk) /\ current' = <<c>>
    <3>1. Forwarded' = Forwarded \cup Occurring(current) /\ Occurring(current') = {c}
      BY <2>1, ForwardedWith, Scanning, ChunkType, NoOccurrence
    <3>2. \A i \in DOMAIN lines' :
            \/ lines'[i].chars = current
            \/ i \in DOMAIN lines /\ lines'[i] = lines[i]
      BY <2>1, ForwardedWith, Scanning, ChunkType
    <3> QED
      BY <1>2, <1>3, <3>1, <3>2 DEF Together
  <2>2. CASE lines' = lines /\ current' = Append(current, c)
    <3>1. Forwarded' = Forwarded /\ Occurring(current') = Occurring(current) \cup {c}
      <4>1. Forwarded' = Forwarded
        BY <2>2 DEF Forwarded, CarriedBy, Occurring
      <4> QED
        BY <1>1, <2>2, <4>1, Scanning, Occurrences
    <3> QED
      BY <1>2, <1>3, <2>2, <3>1 DEF Together
  <2> QED
    BY <2>1, <2>2, WrapCharCases
<1> HIDE DEF c, Pending
<1>5. /\ Relayed' = Relayed /\ (\A r : Ends(r)' <=> Ends(r))
      /\ \A p, q : SameLogicalLine(p, q)' <=> SameLogicalLine(p, q)
  BY <1>1, SameText
<1>6. Ends(next - 1)' /\ next' > 1
  BY <1>1, <1>3, <1>5
<1>7. (\A i \in DOMAIN lines : Together(lines[i].chars))'
  BY <1>4, <1>5 DEF Together, Occurring
<1>8. \A p, q \in Occurring(current') \cup Occurring(logical') : SameLogicalLine(p, q)'
  BY <1>3, <1>4, <1>5
<1>9. Forwarded' \cup Occurring(current') \cup Occurring(logical') = {p \in Relayed' : p < next'}
  BY <1>1, <1>3, <1>4, <1>5
<1> QED
  BY <1>1, <1>6, <1>7, <1>8, <1>9 DEF Accounted

LEMMA EndWrapCases ==
  ASSUME IInv, EndWrap
  PROVE  /\ phase = "wrapping" /\ logical = <<>> /\ logical' = <<>> /\ current # <<>>
         /\ UNCHANGED <<text, prefix, destination, next>>
         /\ lines' = Append(lines, Chunk) /\ current' = <<>> /\ currentBytes' = 0
         /\ phase' = IF next > Len(text) + 1 THEN "done" ELSE "splitting"
BY DEF EndWrap, inputs, IInv

LEMMA EndWrapKeepsAccounted ==
  ASSUME IInv, Accounted, EndWrap
  PROVE  Accounted'
<1>1. /\ phase = "wrapping" /\ logical = <<>> /\ logical' = <<>>
      /\ UNCHANGED <<text, next>> /\ lines' = Append(lines, Chunk) /\ current' = <<>>
      /\ phase' = IF next > Len(text) + 1 THEN "done" ELSE "splitting"
  BY EndWrapCases
<1>2. /\ Ends(next - 1) /\ next > 1
      /\ Forwarded \cup Occurring(current) = {p \in Relayed : p < next}
      /\ \A p, q \in Occurring(current) : SameLogicalLine(p, q)
      /\ \A i \in DOMAIN lines : Together(lines[i].chars)
  BY <1>1, NoOccurrence DEF Accounted
<1>3. Forwarded' = {p \in Relayed : p < next}
  BY <1>1, <1>2, ForwardedWith, Scanning, ChunkType
<1>4. /\ Relayed' = Relayed /\ Positions' = Positions /\ (\A r : Ends(r)' <=> Ends(r))
      /\ \A p, q : SameLogicalLine(p, q)' <=> SameLogicalLine(p, q)
  BY <1>1, SameText
<1>5. (\A i \in DOMAIN lines : Together(lines[i].chars))'
  <2>1. \A i \in DOMAIN lines' :
          \/ lines'[i].chars = current
          \/ i \in DOMAIN lines /\ lines'[i] = lines[i]
    BY <1>1, ForwardedWith, Scanning, ChunkType
  <2>2. \A i \in DOMAIN lines' : \A p, q \in Occurring(lines'[i].chars) : SameLogicalLine(p, q)
    BY <1>2, <2>1 DEF Together
  <2> QED
    BY <1>4, <2>2 DEF Together, Occurring
<1>6. \A p \in Positions : p < next => Closed(p)'
  <2> SUFFICES ASSUME NEW p \in Positions, p < next PROVE Closed(p)'
    OBVIOUS
  <2>1. next - 1 \in p..next' - 1 /\ Ends(next - 1)
    BY <1>1, <1>2, Scanning
  <2> QED
    BY <1>1, <1>4, <2>1 DEF Closed
<1>7. Occurring(logical') = {}
  BY <1>1, NoOccurrence
<1>8. next > Len(text) + 1 => \A p \in Positions : p < next
  BY Scanning
<1> QED
  BY <1>1, <1>3, <1>4, <1>5, <1>6, <1>7, <1>8 DEF Accounted, Relayed

\* No character read is lost, and none joins those of another logical line.
LEMMA NextKeepsAccounted == IInv /\ Accounted /\ [Next]_vars => Accounted'
<1>1. Accounted /\ UNCHANGED vars => Accounted'
  <2> SUFFICES ASSUME Accounted, UNCHANGED vars PROVE Accounted'
    OBVIOUS
  <2>1. UNCHANGED <<text, next, phase, logical, current, lines>>
    BY DEF vars, inputs
  <2>2. /\ Positions' = Positions /\ Relayed' = Relayed
        /\ \A p : Visible(p)' <=> Visible(p)
        /\ \A p, q : SameLogicalLine(p, q)' <=> SameLogicalLine(p, q)
        /\ \A r : Ends(r)' <=> Ends(r)
        /\ \A s : Together(s)' <=> Together(s)
    BY <2>1, SameText
  <2>3. \A p : Closed(p)' <=> Closed(p)
    BY <2>1, <2>2 DEF Closed
  <2>4. Forwarded' = Forwarded
    BY <2>1 DEF Forwarded
  <2>5. Ends(next - 1)' <=> Ends(next - 1)
    BY <2>1, <2>2
  <2>6. (\A i \in DOMAIN lines : Together(lines[i].chars))'
    BY <2>1, <2>2 DEF Accounted
  <2> QED
    BY <2>1, <2>2, <2>3, <2>4, <2>5, <2>6 DEF Accounted
<1> QED
  BY <1>1, ReadCharKeepsAccounted, EndLogicalLineKeepsAccounted, WrapCharKeepsAccounted,
     EndWrapKeepsAccounted DEF Next


\* The order of sequences, by what occurs in them.
LEMMA BeforeByElement ==
  ASSUME NEW s, NEW t
  PROVE  Before(s, t) <=> \A p \in Occurring(s), q \in Occurring(t) : p < q
BY DEF Before, Occurring

LEMMA RisingFurther ==
  ASSUME NEW s \in Seq(Nat), Rising(s), NEW x \in Nat, \A p \in Occurring(s) : p < x
  PROVE  Rising(Append(s, x))
<1> DEFINE t == Append(s, x)
<1>1. /\ Len(s) \in Nat /\ DOMAIN s = 1..Len(s) /\ DOMAIN t = 1..Len(s) + 1
      /\ t[Len(s) + 1] = x /\ \A i \in 1..Len(s) : t[i] = s[i]
  OBVIOUS
<1>2. \A i \in 1..Len(s) : s[i] < x
  BY <1>1 DEF Occurring
<1> HIDE DEF t
<1>3. ASSUME NEW a \in DOMAIN t, NEW b \in DOMAIN t, a < b PROVE t[a] < t[b]
  <2>1. a \in 1..Len(s) /\ (b \in 1..Len(s) \/ b = Len(s) + 1)
    BY <1>1, <1>3
  <2>2. CASE b \in 1..Len(s)
    BY <1>1, <1>3, <2>1, <2>2 DEF Rising
  <2>3. CASE b = Len(s) + 1
    BY <1>1, <1>2, <2>1, <2>3
  <2> QED
    BY <2>1, <2>2, <2>3
<1>4. Rising(t)
  BY <1>3 DEF Rising
<1> QED
  BY <1>4 DEF t

LEMMA RisingShorter ==
  ASSUME NEW s \in Seq(Nat), Rising(s), s # <<>>
  PROVE  Rising(Tail(s)) /\ \A p \in Occurring(Tail(s)) : Head(s) < p
<1> DEFINE t == Tail(s)
<1>1. /\ Len(s) \in Nat \ {0} /\ DOMAIN s = 1..Len(s) /\ DOMAIN t = 1..Len(s) - 1
      /\ s[1] = Head(s) /\ \A i \in 1..Len(s) - 1 : t[i] = s[i + 1]
  OBVIOUS
<1> HIDE DEF t
<1>2. \A i \in 1..Len(s) - 1 : i \in Nat /\ i + 1 \in 1..Len(s) /\ 1 < i + 1
  BY <1>1
<1>3. 1 \in 1..Len(s)
  BY <1>1
<1>4. Rising(t)
  <2> SUFFICES ASSUME NEW a \in DOMAIN t, NEW b \in DOMAIN t, a < b PROVE t[a] < t[b]
    BY DEF Rising
  <2>1. a + 1 \in DOMAIN s /\ b + 1 \in DOMAIN s /\ a + 1 < b + 1
    BY <1>1, <1>2
  <2>2. s[a + 1] < s[b + 1]
    BY <2>1 DEF Rising
  <2> QED
    BY <1>1, <2>2
<1>5. \A i \in 1..Len(s) - 1 : s[1] < s[i + 1]
  BY <1>1, <1>2, <1>3 DEF Rising
<1>6. \A p \in Occurring(t) : Head(s) < p
  BY <1>1, <1>5 DEF Occurring
<1> QED
  BY <1>4, <1>6 DEF t

LEMMA RisingAlone == Rising(<<>>) /\ \A x \in Nat : Rising(<<x>>)
<1>1. Rising(<<>>)
  BY DEF Rising
<1>2. ASSUME NEW x \in Nat PROVE Rising(<<x>>)
  <2>1. DOMAIN <<x>> = {1}
    OBVIOUS
  <2> QED
    BY <2>1 DEF Rising
<1> QED
  BY <1>1, <1>2

\* InOrder, by what occurs in the sequences.
LEMMA InOrderByElement ==
  InOrder <=>
    /\ Rising(current) /\ Rising(logical)
    /\ \A p \in Occurring(current), q \in Occurring(logical) : p < q
    /\ \A i \in DOMAIN lines :
         /\ Rising(lines[i].chars)
         /\ \A p \in Occurring(lines[i].chars), q \in Occurring(current) \cup Occurring(logical) : p < q
    /\ \A i, j \in DOMAIN lines : i < j =>
         \A p \in Occurring(lines[i].chars), q \in Occurring(lines[j].chars) : p < q
BY BeforeByElement DEF InOrder

LEMMA Widening ==
  ASSUME NEW S, NEW T, S \subseteq T, NEW s \in Seq(S)
  PROVE  s \in Seq(T)
<1>1. Len(s) \in Nat /\ s \in [1..Len(s) -> S]
  OBVIOUS
<1>2. s \in [1..Len(s) -> T]
  BY <1>1
<1> QED
  BY <1>1, <1>2

LEMMA PositionsAreNatural ==
  ASSUME IInv
  PROVE  /\ Positions \subseteq Nat /\ logical \in Seq(Nat) /\ current \in Seq(Nat)
         /\ Occurring(logical) \subseteq Nat /\ Occurring(current) \subseteq Nat
         /\ \A i \in DOMAIN lines : lines[i].chars \in Seq(Nat) /\ lines[i].chars # <<>>
                                    /\ Occurring(lines[i].chars) \subseteq Nat
<1>1. Positions \subseteq Nat
  BY Scanning
<1>2. ASSUME NEW s \in Seq(Positions) PROVE s \in Seq(Nat) /\ Occurring(s) \subseteq Nat
  <2>1. s \in Seq(Nat)
    BY <1>1, Widening
  <2> QED
    BY <2>1, Occurrences
<1>3. \A i \in DOMAIN lines : lines[i].chars \in Seq(Positions) /\ lines[i].chars # <<>>
  <2>1. \A i \in DOMAIN lines : lines[i] \in LineType
    BY Scanning
  <2> QED
    BY <2>1 DEF LineType, IInv, SafeLines
<1> QED
  BY <1>1, <1>2, <1>3, Scanning

LEMMA InitInOrder == Init => InOrder
BY RisingAlone DEF Init, InOrder, Before

LEMMA ReadCharKeepsInOrder ==
  ASSUME IInv, Accounted, InOrder, ReadChar
  PROVE  InOrder'
<1>1. /\ phase = "splitting" /\ next \in Positions /\ UNCHANGED <<lines, current>>
      /\ logical' = logical \/ logical' = Append(logical, next)
  BY Scanning DEF ReadChar, Positions
<1>2. CASE logical' = logical
  BY <1>1, <1>2 DEF InOrder, Rising, Before
<1>3. CASE logical' = Append(logical, next)
  <2>1. Occurring(logical') = Occurring(logical) \cup {next}
    BY <1>1, <1>3, Scanning, Occurrences
  <2>2. \A p \in Occurring(logical) : p < next
    BY <1>1 DEF Accounted
  <2>3. \A i \in DOMAIN lines : \A p \in Occurring(lines[i].chars) : p < next
    BY <1>1 DEF Accounted, Forwarded, CarriedBy
  <2>4. Rising(logical')
    BY <1>1, <1>3, <2>2, RisingFurther, PositionsAreNatural, InOrderByElement
  <2>5. Occurring(current) = {}
    BY <1>1, Scanning, NoOccurrence
  <2> QED
    BY <1>1, <2>1, <2>3, <2>4, <2>5, InOrderByElement DEF InOrder, Rising, Before, Occurring
<1> QED
  BY <1>1, <1>2, <1>3

LEMMA EndLogicalLineKeepsInOrder ==
  ASSUME IInv, InOrder, EndLogicalLine
  PROVE  InOrder'
<1>1. UNCHANGED <<lines, current>> /\ (logical' = logical \/ logical' = <<>>)
  BY DEF EndLogicalLine
<1>2. CASE logical' = logical
  BY <1>1, <1>2 DEF InOrder, Rising, Before
<1>3. CASE logical' = <<>>
  BY <1>1, <1>3 DEF InOrder, Rising, Before
<1> QED
  BY <1>1, <1>2, <1>3

\* The lines with the chunk behind them are in order, and come before what
\* comes after the chunk and the lines.
LEMMA FlushKeepsInOrder ==
  ASSUME IInv, InOrder, lines' = Append(lines, Chunk)
  PROVE  /\ \A i \in DOMAIN lines' :
              /\ Rising(lines'[i].chars)
              /\ \A p \in Occurring(lines'[i].chars), q \in Occurring(logical) : p < q
         /\ \A i, j \in DOMAIN lines' : i < j =>
              \A p \in Occurring(lines'[i].chars), q \in Occurring(lines'[j].chars) : p < q
<1>1. \A i \in DOMAIN lines' :
        \/ lines'[i].chars = current /\ i = Len(lines) + 1
        \/ i \in DOMAIN lines /\ lines'[i] = lines[i]
  BY ForwardedWith, Scanning, ChunkType
<1>2. DOMAIN lines = 1..Len(lines) /\ Len(lines) \in Nat
  BY Scanning
<1>3. ASSUME NEW i \in DOMAIN lines', NEW j \in DOMAIN lines', i < j
      PROVE  i \in DOMAIN lines /\ lines'[i] = lines[i]
  <2>1. j \in 1..Len(lines) + 1
    BY Scanning
  <2> QED
    BY <1>1, <1>2, <1>3, <2>1
<1>4. \A i, j \in DOMAIN lines' : i < j =>
        \A p \in Occurring(lines'[i].chars), q \in Occurring(lines'[j].chars) : p < q
  BY <1>1, <1>3, InOrderByElement
<1> QED
  BY <1>1, <1>4, InOrderByElement

LEMMA WrapCharKeepsInOrder ==
  ASSUME IInv, InOrder, WrapChar
  PROVE  InOrder'
<1> DEFINE c == Head(logical)
<1>1. logical # <<>> /\ logical' = Tail(logical) /\ c \in Positions
  BY WrapCharCases
<1>2. Occurring(logical) = {c} \cup Occurring(logical')
  BY <1>1, Scanning, Occurrences
<1>3. Rising(logical') /\ \A p \in Occurring(logical') : c < p
  BY <1>1, RisingShorter, PositionsAreNatural, InOrderByElement
<1> HIDE DEF c
<1>4. CASE lines' = Append(lines, Chunk) /\ current' = <<c>>
  <2>1. Rising(current') /\ Occurring(current') = {c}
    BY <1>1, <1>4, RisingAlone, NoOccurrence, PositionsAreNatural
  <2>2. /\ \A i \in DOMAIN lines' :
             /\ Rising(lines'[i].chars)
             /\ \A p \in Occurring(lines'[i].chars), q \in Occurring(logical) : p < q
        /\ \A i, j \in DOMAIN lines' : i < j =>
             \A p \in Occurring(lines'[i].chars), q \in Occurring(lines'[j].chars) : p < q
    BY <1>4, FlushKeepsInOrder
  <2>3. \A i \in DOMAIN lines' :
          \A p \in Occurring(lines'[i].chars), q \in Occurring(current') \cup Occurring(logical') : p < q
    BY <1>2, <2>1, <2>2
  <2>4. /\ Before(current', logical')
        /\ \A i \in DOMAIN lines' :
             Before(lines'[i].chars, current') /\ Before(lines'[i].chars, logical')
        /\ \A i, j \in DOMAIN lines' : i < j => Before(lines'[i].chars, lines'[j].chars)
    BY <1>3, <2>1, <2>2, <2>3, BeforeByElement
  <2>5. \A i \in DOMAIN lines' : Rising(lines'[i].chars)
    BY <2>2
  <2> QED
    BY <1>3, <2>1, <2>4, <2>5 DEF InOrder, Rising, Before
<1>5. CASE lines' = lines /\ current' = Append(current, c)
  <2>1. Occurring(current') = Occurring(current) \cup {c}
    BY <1>1, <1>5, Scanning, Occurrences
  <2>2. Rising(current')
    BY <1>1, <1>2, <1>5, RisingFurther, PositionsAreNatural, InOrderByElement
  <2>3. \A p \in Occurring(current'), q \in Occurring(logical') : p < q
    BY <1>2, <1>3, <2>1, InOrderByElement
  <2>4. \A i \in DOMAIN lines :
          \A p \in Occurring(lines[i].chars), q \in Occurring(current') \cup Occurring(logical') : p < q
    BY <1>2, <2>1, InOrderByElement
  <2>5. /\ Before(current', logical')
        /\ \A i \in DOMAIN lines :
             Before(lines[i].chars, current') /\ Before(lines[i].chars, logical')
    BY <2>3, <2>4, BeforeByElement
  <2>6. /\ \A i \in DOMAIN lines : Rising(lines[i].chars)
        /\ \A i, j \in DOMAIN lines : i < j => Before(lines[i].chars, lines[j].chars)
    BY DEF InOrder
  <2> QED
    BY <1>3, <1>5, <2>2, <2>5, <2>6 DEF InOrder, Rising, Before
<1> QED
  BY <1>4, <1>5, WrapCharCases DEF c

LEMMA EndWrapKeepsInOrder ==
  ASSUME IInv, InOrder, EndWrap
  PROVE  InOrder'
<1>1. lines' = Append(lines, Chunk) /\ current' = <<>> /\ logical' = <<>>
  BY EndWrapCases
<1>2. /\ \A i \in DOMAIN lines' : Rising(lines'[i].chars)
      /\ \A i, j \in DOMAIN lines' : i < j =>
           \A p \in Occurring(lines'[i].chars), q \in Occurring(lines'[j].chars) : p < q
  BY <1>1, FlushKeepsInOrder
<1>3. \A i, j \in DOMAIN lines' : i < j => Before(lines'[i].chars, lines'[j].chars)
  BY <1>2, BeforeByElement
<1> QED
  BY <1>1, <1>2, <1>3 DEF InOrder, Rising, Before

LEMMA NextKeepsInOrder == IInv /\ Accounted /\ InOrder /\ [Next]_vars => InOrder'
<1>1. InOrder /\ UNCHANGED vars => InOrder'
  BY DEF InOrder, vars, inputs, Rising, Before
<1> QED
  BY <1>1, ReadCharKeepsInOrder, EndLogicalLineKeepsInOrder, WrapCharKeepsInOrder,
     EndWrapKeepsInOrder DEF Next


------------------------------------------------------------------------------
(* The count of bytes is that of the encoding, and a line is split only     *)
(* where its next character does not fit.                                  *)

LEMMA UpTo ==
  ASSUME NEW n \in Nat
  PROVE  IsFiniteSet(1..n) /\ Cardinality(1..n) = n
<1>1. 1 \in Int /\ n \in Int
  OBVIOUS
<1>2. IsFiniteSet(1..n) /\ Cardinality(1..n) = IF 1 > n THEN 0 ELSE n - 1 + 1
  BY <1>1, FS_Interval
<1>3. (IF 1 > n THEN 0 ELSE n - 1 + 1) = n
  OBVIOUS
<1> QED
  BY <1>2, <1>3

LEMMA Behind ==
  ASSUME NEW S, NEW s \in Seq(S), NEW x \in S, NEW t, t = Append(s, x)
  PROVE  /\ Len(s) \in Nat /\ DOMAIN s = 1..Len(s) /\ DOMAIN t = 1..Len(s) + 1
         /\ t # <<>> /\ Len(t) = Len(s) + 1
         /\ t[Len(s) + 1] = x /\ \A i \in 1..Len(s) : t[i] = s[i]
OBVIOUS

LEMMA EncodingOf ==
  ASSUME IInv
  PROVE  /\ Encoding(<<>>) = {} /\ Cardinality(Encoding(<<>>)) = 0
         /\ \A s \in Seq(Positions) : IsFiniteSet(Encoding(s))
<1>1. Encoding(<<>>) = {}
  BY NoOccurrence DEF Encoding
<1>2. ASSUME NEW s \in Seq(Positions) PROVE IsFiniteSet(Encoding(s))
  <2>1. IsFiniteSet(Positions \X (1..4))
    <3>1. \A n \in Nat : IsFiniteSet(1..n)
      BY UpTo
    <3>2. IsFiniteSet(Positions) /\ IsFiniteSet(1..4)
      BY <3>1, Scanning DEF Positions
    <3> QED
      BY <3>2, FS_Product
  <2>2. \A p \in Positions : Width[text[p]] \in 1..4
    BY Scanning, Widths DEF Positions
  <2>3. Encoding(s) \subseteq Positions \X (1..4)
    <3>1. Occurring(s) \subseteq Positions
      BY Occurrences
    <3>2. \A p \in Positions : 1..Width[text[p]] \subseteq 1..4
      BY <2>2
    <3> QED
      BY <3>1, <3>2 DEF Encoding
  <2> QED
    BY <2>1, <2>3, FS_Subset
<1> QED
  BY <1>1, <1>2, FS_EmptySet

\* A character that is not there yet adds the bytes of its width.
LEMMA EncodingFurther ==
  ASSUME IInv, NEW s \in Seq(Positions), NEW c \in Positions, c \notin Occurring(s),
         NEW t, Occurring(t) = Occurring(s) \cup {c}, t \in Seq(Positions)
  PROVE  Cardinality(Encoding(t)) = Cardinality(Encoding(s)) + Width[text[c]]
<1> DEFINE w == Width[text[c]]
           block == {c} \X (1..w)
<1>1. w \in 1..4
  BY Scanning, Widths DEF Positions
<1> HIDE DEF w
<1>2. IsFiniteSet(block) /\ Cardinality(block) = w
  <2>1. IsFiniteSet({c}) /\ Cardinality({c}) = 1
    BY FS_Singleton
  <2>2. IsFiniteSet(1..w) /\ Cardinality(1..w) = w
    BY <1>1, UpTo
  <2>3. IsFiniteSet(block) /\ Cardinality(block) = Cardinality({c}) * Cardinality(1..w)
    BY <2>1, <2>2, FS_Product
  <2> QED
    BY <1>1, <2>1, <2>2, <2>3
<1>3. Encoding(t) = Encoding(s) \cup block
  BY DEF Encoding, w
<1>4. Encoding(s) \cap block = {}
  BY DEF Encoding
<1> HIDE DEF block
<1>5. IsFiniteSet(Encoding(s)) /\ Cardinality(Encoding(s)) \in Nat
  BY EncodingOf, FS_CardinalityType
<1>6. Cardinality(Encoding(t)) = Cardinality(Encoding(s)) + Cardinality(block) - Cardinality({})
  BY <1>2, <1>3, <1>4, <1>5, FS_Union
<1> QED
  BY <1>1, <1>2, <1>5, <1>6, FS_EmptySet DEF w

LEMMA InitCounted == Init => Counted /\ SplitWhenFull
<1> SUFFICES ASSUME Init PROVE Counted /\ SplitWhenFull
  OBVIOUS
<1>1. current = <<>> /\ currentBytes = 0 /\ lines = <<>>
  BY DEF Init
<1>2. Cardinality(Encoding(<<>>)) = 0
  BY InitIInv, EncodingOf
<1> QED
  BY <1>1, <1>2 DEF Counted, SplitWhenFull

\* The count and the splits say nothing of what is not in a chunk yet.
LEMMA OthersKeepCounted ==
  ASSUME Counted, SplitWhenFull, UNCHANGED <<text, prefix, lines, current, currentBytes>>
  PROVE  Counted' /\ SplitWhenFull'
<1>1. /\ \A s : Encoding(s)' = Encoding(s)
      /\ \A a, b : Overflows(a, b)' <=> Overflows(a, b)
  BY DEF Encoding, Overflows, SameLogicalLine, Positions
<1>2. \A a : Bytes(a)' = Bytes(a)
  BY <1>1 DEF Bytes
<1>3. Counted'
  BY <1>1, <1>2 DEF Counted
<1>4. SplitWhenFull'
  BY <1>1 DEF SplitWhenFull
<1> QED
  BY <1>3, <1>4

\* The chunk that goes out is counted right, and where it follows a line it
\* does so for want of room.
LEMMA FlushKeepsCounted ==
  ASSUME IInv, Counted, SplitWhenFull, current # <<>>, lines' = Append(lines, Chunk)
  PROVE  /\ \A i \in DOMAIN lines' : lines'[i].bytes = Bytes(lines'[i])
         /\ \A i \in DOMAIN lines' : i + 1 \in DOMAIN lines' => Overflows(lines'[i], lines'[i + 1].chars)
         /\ lines' # <<>> /\ lines'[Len(lines')] = Chunk
<1>1. /\ Len(lines) \in Nat /\ DOMAIN lines = 1..Len(lines) /\ DOMAIN lines' = 1..Len(lines) + 1
      /\ lines' # <<>> /\ Len(lines') = Len(lines) + 1
      /\ lines'[Len(lines) + 1] = Chunk /\ \A i \in 1..Len(lines) : lines'[i] = lines[i]
  <2>1. lines \in Seq(LineType) /\ Chunk \in LineType
    BY Scanning, ChunkType
  <2> QED
    BY <2>1, Behind
<1>2. Chunk.bytes = Bytes(Chunk) /\ Chunk.chars = current
  BY ChunkType DEF Counted, Bytes
<1>3. \A i \in 1..Len(lines) + 1 : i \in 1..Len(lines) \/ i = Len(lines) + 1
  BY <1>1
<1>4. \A i \in DOMAIN lines' : lines'[i].bytes = Bytes(lines'[i])
  BY <1>1, <1>2, <1>3 DEF Counted
<1>5. ASSUME NEW i \in DOMAIN lines', i + 1 \in DOMAIN lines'
      PROVE  Overflows(lines'[i], lines'[i + 1].chars)
  <2>1. i \in 1..Len(lines) /\ (i + 1 \in 1..Len(lines) \/ i = Len(lines))
    BY <1>1, <1>5
  <2>2. CASE i + 1 \in 1..Len(lines)
    BY <1>1, <2>1, <2>2 DEF SplitWhenFull
  <2>3. CASE i = Len(lines)
    <3>1. lines # <<>> /\ lines'[i] = lines[Len(lines)] /\ lines'[i + 1].chars = current
      BY <1>1, <1>2, <2>1, <2>3
    <3> QED
      BY <3>1 DEF SplitWhenFull
  <2> QED
    BY <2>1, <2>2, <2>3
<1> QED
  BY <1>1, <1>4, <1>5

LEMMA SameMeasures ==
  ASSUME UNCHANGED <<text, prefix>>
  PROVE  /\ \A s : Encoding(s)' = Encoding(s)
         /\ \A a, b : Overflows(a, b)' <=> Overflows(a, b)
         /\ \A a : Bytes(a)' = Bytes(a)
<1>1. /\ \A s : Encoding(s)' = Encoding(s)
      /\ \A a, b : Overflows(a, b)' <=> Overflows(a, b)
  BY DEF Encoding, Overflows, SameLogicalLine, Positions
<1> QED
  BY <1>1 DEF Bytes

LEMMA WrapCharKeepsCounted ==
  ASSUME IInv, Accounted, InOrder, Counted, SplitWhenFull, WrapChar
  PROVE  Counted' /\ SplitWhenFull'
<1> DEFINE c == Head(logical)
           w == Width[text[c]]
<1>1. /\ phase = "wrapping" /\ logical # <<>> /\ UNCHANGED <<text, prefix>>
      /\ c \in Positions /\ w \in 1..4 /\ current' \in Seq(Positions) /\ current' # <<>>
  BY WrapCharCases
<1>2. c \in Occurring(logical)
  BY <1>1, Scanning, Occurrences
<1>3. /\ \A s : Encoding(s)' = Encoding(s)
      /\ \A a, b : Overflows(a, b)' <=> Overflows(a, b)
      /\ \A a : Bytes(a)' = Bytes(a)
  BY <1>1, SameMeasures
<1>4. prefix \in Nat /\ currentBytes \in Nat /\ MaxLineBytes \in Nat
  BY Scanning, BudgetAssumption
<1>5. CASE /\ current # <<>> /\ currentBytes + w > MaxLineBytes - prefix
           /\ lines' = Append(lines, Chunk)
           /\ current' = <<c>> /\ currentBytes' = w
  <2>1. /\ \A i \in DOMAIN lines' : lines'[i].bytes = Bytes(lines'[i])
        /\ \A i \in DOMAIN lines' : i + 1 \in DOMAIN lines' => Overflows(lines'[i], lines'[i + 1].chars)
        /\ lines' # <<>> /\ lines'[Len(lines')] = Chunk
    BY <1>5, FlushKeepsCounted
  <2>2. currentBytes' = Cardinality(Encoding(current'))
    <3>1. <<>> \in Seq(Positions) /\ c \notin Occurring(<<>>) /\ Occurring(current') = Occurring(<<>>) \cup {c}
      BY <1>5, NoOccurrence
    <3>2. Cardinality(Encoding(current')) = Cardinality(Encoding(<<>>)) + w
      BY <1>1, <3>1, EncodingFurther
    <3> QED
      BY <1>1, <1>5, <3>2, EncodingOf
  <2>3. Overflows(Chunk, current')
    <3>1. Chunk.bytes = prefix + currentBytes /\ current'[1] = c
      BY <1>5, ChunkType
    <3>2. prefix + currentBytes + w > MaxLineBytes
      BY <1>1, <1>4, <1>5
    <3> QED
      BY <3>1, <3>2 DEF Overflows
  <2>4. Counted'
    BY <1>3, <2>1, <2>2 DEF Counted
  <2>5. SplitWhenFull'
    BY <1>3, <2>1, <2>3 DEF SplitWhenFull
  <2> QED
    BY <2>4, <2>5
<1>6. CASE lines' = lines /\ current' = Append(current, c) /\ currentBytes' = currentBytes + w
  <2>1. currentBytes' = Cardinality(Encoding(current'))
    <3>1. current \in Seq(Positions) /\ Occurring(current') = Occurring(current) \cup {c}
      BY <1>1, <1>6, Scanning, Occurrences
    <3>2. c \notin Occurring(current)
      BY <1>2, InOrderByElement, PositionsAreNatural
    <3>3. Cardinality(Encoding(current')) = Cardinality(Encoding(current)) + w
      BY <1>1, <3>1, <3>2, EncodingFurther
    <3> QED
      BY <1>6, <3>3 DEF Counted
  <2>2. Counted'
    BY <1>3, <1>6, <2>1 DEF Counted
  <2>3. ASSUME lines # <<>> PROVE Overflows(lines[Len(lines)], current')
    <3> DEFINE last == lines[Len(lines)]
    <3>1. CASE current # <<>>
      <4>1. current'[1] = current[1]
        BY <1>1, <1>6, <3>1, Scanning
      <4>2. Overflows(last, current)
        BY <2>3, <3>1 DEF SplitWhenFull
      <4> QED
        BY <4>1, <4>2 DEF Overflows
    <3>2. CASE current = <<>>
      <4>1. current'[1] = c
        BY <1>6, <3>2
      <4>2. Len(lines) \in DOMAIN lines
        BY <2>3, Scanning
      <4>3. last.chars # <<>> /\ last.chars \in Seq(Nat)
        BY <4>2, PositionsAreNatural
      <4>4. last.chars[1] \in Occurring(last.chars)
        BY <4>3 DEF Occurring
      <4>5. last.chars[1] \in Forwarded
        BY <4>2, <4>4 DEF Forwarded, CarriedBy
      <4>6. ~SameLogicalLine(last.chars[1], c)
        BY <1>1, <1>2, <3>2, <4>5 DEF Accounted
      <4> QED
        BY <4>1, <4>6 DEF Overflows
    <3> QED
      BY <3>1, <3>2
  <2>4. SplitWhenFull'
    BY <1>3, <1>6, <2>3 DEF SplitWhenFull
  <2> QED
    BY <2>2, <2>4
<1> QED
  BY <1>5, <1>6, WrapCharCases

LEMMA EndWrapKeepsCounted ==
  ASSUME IInv, Counted, SplitWhenFull, EndWrap
  PROVE  Counted' /\ SplitWhenFull'
<1>1. /\ current # <<>> /\ UNCHANGED <<text, prefix>>
      /\ lines' = Append(lines, Chunk) /\ current' = <<>> /\ currentBytes' = 0
  BY EndWrapCases
<1>2. /\ \A i \in DOMAIN lines' : lines'[i].bytes = Bytes(lines'[i])
      /\ \A i \in DOMAIN lines' : i + 1 \in DOMAIN lines' => Overflows(lines'[i], lines'[i + 1].chars)
  BY <1>1, FlushKeepsCounted
<1>3. /\ \A s : Encoding(s)' = Encoding(s)
      /\ \A a, b : Overflows(a, b)' <=> Overflows(a, b)
      /\ \A a : Bytes(a)' = Bytes(a)
  BY <1>1, SameMeasures
<1>4. Counted'
  BY <1>1, <1>2, <1>3, EncodingOf DEF Counted
<1>5. SplitWhenFull'
  BY <1>1, <1>2, <1>3 DEF SplitWhenFull
<1> QED
  BY <1>4, <1>5

\* The invariant of the scan and of the wrapping, above IInv.
ScanInv == Accounted /\ InOrder /\ Counted /\ SplitWhenFull

\* In every reachable state each character read is accounted for, in its
\* order, and each chunk counted by its encoding (formatting.py 37-98).
THEOREM ScanInvariant == Spec => []ScanInv
<1>1. Init => ScanInv
  BY InitAccounted, InitInOrder, InitCounted DEF ScanInv
<1>2. IInv /\ ScanInv /\ [Next]_vars => ScanInv'
  <2> SUFFICES ASSUME IInv, ScanInv, [Next]_vars PROVE ScanInv'
    OBVIOUS
  <2>1. Accounted' /\ InOrder'
    BY NextKeepsAccounted, NextKeepsInOrder DEF ScanInv
  <2>2. ReadChar \/ EndLogicalLine \/ UNCHANGED vars => UNCHANGED <<text, prefix, lines, current, currentBytes>>
    BY DEF ReadChar, EndLogicalLine, vars, inputs
  <2>3. Counted' /\ SplitWhenFull'
    BY <2>2, OthersKeepCounted, WrapCharKeepsCounted, EndWrapKeepsCounted DEF Next, ScanInv
  <2> QED
    BY <2>1, <2>3 DEF ScanInv
<1> QED
  BY <1>1, <1>2, Invariant, PTL DEF Spec

\* Every character that is not stripped reaches IRC once, in order, and with
\* its own logical line, for every text.
THEOREM Relays == Spec => []RelaysText
<1>1. IInv /\ ScanInv => RelaysText
  <2> SUFFICES ASSUME IInv, ScanInv, phase = "done" PROVE
        /\ UNION {CarriedBy(lines[i]) : i \in DOMAIN lines} = Relayed
        /\ \A i, j \in DOMAIN lines : \A a \in DOMAIN lines[i].chars : \A b \in DOMAIN lines[j].chars :
             i < j \/ (i = j /\ a < b) => lines[i].chars[a] < lines[j].chars[b]
        /\ \A i \in DOMAIN lines : \A p, q \in CarriedBy(lines[i]) : SameLogicalLine(p, q)
    BY DEF RelaysText
  <2>1. UNION {CarriedBy(lines[i]) : i \in DOMAIN lines} = Relayed
    BY DEF ScanInv, Accounted, Forwarded
  <2>2. \A i, j \in DOMAIN lines : \A a \in DOMAIN lines[i].chars : \A b \in DOMAIN lines[j].chars :
          i < j \/ (i = j /\ a < b) => lines[i].chars[a] < lines[j].chars[b]
    BY DEF ScanInv, InOrder, Rising, Before
  <2>3. \A i \in DOMAIN lines : \A p, q \in CarriedBy(lines[i]) : SameLogicalLine(p, q)
    BY DEF ScanInv, Accounted, Together, CarriedBy
  <2> QED
    BY <2>1, <2>2, <2>3
<1> QED
  BY <1>1, Invariant, ScanInvariant, PTL

\* No line is over the budget by the bytes of its encoding, however the
\* widths of the characters fall.
THEOREM InBudget == Spec => []WithinBudget
<1>1. IInv /\ ScanInv => WithinBudget
  BY DEF IInv, ScanInv, Counted, WithinBudget
<1> QED
  BY <1>1, Invariant, ScanInvariant, PTL

\* A logical line takes no more lines than its characters need in their order.
THEOREM SplitsOnlyWhenFull == Spec => []NoNeedlessSplit
<1>1. ScanInv => NoNeedlessSplit
  BY DEF ScanInv, Counted, SplitWhenFull, Overflows, NoNeedlessSplit
<1> QED
  BY <1>1, ScanInvariant, PTL

==============================================================================
