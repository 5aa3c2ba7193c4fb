--------------------------- MODULE IrcRegistration ---------------------------
(***************************************************************************)
(* The handshake inside IRCClient._register: the capability negotiation,   *)
(* the nickname retries and the SASL exchange, against a server that       *)
(* follows the protocols but decides for itself what it supports, when it  *)
(* asks and what it refuses.  The two sides exchange messages through two  *)
(* reliable FIFO channels, the two directions of a TCP connection, so      *)
(* their steps interleave: a nickname is refused in the middle of the      *)
(* capability negotiation, a PING arrives between any two answers.         *)
(*                                                                         *)
(* Nothing runs beside _register in the client (is_ready is FALSE), so one *)
(* message read and everything sent in reply are one action.               *)
(***************************************************************************)
EXTENDS Naturals, Sequences, FiniteSets

CONSTANTS
  MaxNickRetries,  \* _MAX_NICK_RETRIES
  ChunkSize,       \* sasl.py's _AUTHENTICATE_CHUNK_SIZE, in base64 quads
  BlobSizes,       \* the sizes the encoded credentials may have, in quads
  Servers,         \* the servers the bridge may be pointed at
  MaxPings         \* bound: how many PINGs a server sends before its welcome

\* What a server supports: does it know CAP at all; for each line of its CAP
\* LS answer, is sasl among its names; does it acknowledge the request, know
\* PLAIN, accept these credentials; how many of our nicknames are in use.
ServerFeatures ==
  [capable : BOOLEAN, lines : Seq(BOOLEAN), acks : BOOLEAN, plain : BOOLEAN,
   accepts : BOOLEAN, taken : Nat]

ASSUME RetriesAssumption == MaxNickRetries \in Nat /\ MaxPings \in Nat
ASSUME BlobAssumption == ChunkSize \in Nat \ {0} /\ BlobSizes \subseteq Nat \ {0}
ASSUME ServersAssumption == \A s \in Servers : s \in ServerFeatures /\ s.lines # <<>>

VARIABLES
  sasl,          \* irc.auth.mode = "sasl" (never changes)
  blob,          \* the size of the encoded credentials (never changes)
  server,        \* the server's features (never change)
  outcome,       \* how _register stands
  nick,          \* underscores appended to the configured nickname
  retriesLeft,
  lsCaps,        \* is sasl in the text gathered in ls_caps
  saslCompleted,
  toServer, toClient,
  \* The server's side.
  nickHeld,      \* the set holding the nickname it accepted, or empty
  userSeen,
  negotiating,   \* it holds the registration until CAP END
  received,      \* the credentials it has gathered
  accepted,      \* it accepted them
  pings,         \* how many PINGs it sent, and how many it was answered
  pongs,
  finished       \* it sent its welcome or its ERROR

config == <<sasl, blob, server>>
client == <<outcome, nick, retriesLeft, lsCaps, saslCompleted>>
remote == <<nickHeld, userSeen, negotiating, received, accepted, pings, pongs, finished>>
vars == <<config, client, toServer, toClient, remote>>

Replies == {"PING", "ERROR", "433", "CAP ACK", "CAP NAK", "AUTHENTICATE +", "903", "904", "001"}
Outcomes == {"registering", "registered", "rejected", "nickExhausted", "refused",
             "timedOut", "closed"}

ServerMessage == [cmd : Replies] \cup [cmd : {"CAP LS"}, more : BOOLEAN, sasl : BOOLEAN]
ClientMessage ==
  [cmd : {"CAP LS", "USER", "CAP REQ", "CAP END", "AUTHENTICATE PLAIN", "PONG"}]
    \cup [cmd : {"NICK"}, nick : 0..MaxNickRetries]
    \cup [cmd : {"CREDENTIALS"}, size : 0..ChunkSize]

Msg(command) == [cmd |-> command]
NickMsg(n) == [cmd |-> "NICK", nick |-> n]

TypeOK ==
  /\ sasl \in BOOLEAN /\ blob \in BlobSizes /\ server \in Servers
  /\ outcome \in Outcomes
  /\ nick \in 0..MaxNickRetries /\ retriesLeft = MaxNickRetries - nick
  /\ lsCaps \in BOOLEAN /\ saslCompleted \in BOOLEAN
  /\ toServer \in Seq(ClientMessage) /\ toClient \in Seq(ServerMessage)
  /\ nickHeld \in SUBSET (0..MaxNickRetries)
  /\ userSeen \in BOOLEAN /\ negotiating \in BOOLEAN
  /\ received \in Nat /\ accepted \in BOOLEAN
  /\ pings \in 0..MaxPings /\ pongs \in Nat /\ finished \in BOOLEAN

Init ==
  /\ sasl \in BOOLEAN /\ blob \in BlobSizes /\ server \in Servers
  /\ outcome = "registering"
  /\ nick = 0 /\ retriesLeft = MaxNickRetries
  /\ lsCaps = FALSE /\ saslCompleted = FALSE
  /\ toServer = <<Msg("CAP LS"), NickMsg(0), Msg("USER")>> /\ toClient = <<>>
  /\ nickHeld = {} /\ userSeen = FALSE /\ negotiating = FALSE
  /\ received = 0 /\ accepted = FALSE
  /\ pings = 0 /\ pongs = 0 /\ finished = FALSE

------------------------------------------------------------------------------
(* The client: one action per kind of message _register tells apart.       *)

\* Mutation: no "+" behind a payload that fills its last line.
ChunksUnterminated(size) ==
  [i \in 1..(size + ChunkSize - 1) \div ChunkSize |->
     [cmd |-> "CREDENTIALS",
      size |-> IF i <= size \div ChunkSize THEN ChunkSize ELSE size % ChunkSize]]

\* chunk_authenticate_payload: the AUTHENTICATE lines, by the size of what
\* they carry; size 0 is the token "+", which a payload that fills its last
\* line needs to show that it has ended.
Chunks(size) ==
  [i \in 1..(size \div ChunkSize) + 1 |->
     [cmd |-> "CREDENTIALS",
      size |-> IF i <= size \div ChunkSize THEN ChunkSize ELSE size % ChunkSize]]

Reads(command) ==
  /\ outcome = "registering"
  /\ toClient # <<>> /\ Head(toClient).cmd = command
  /\ toClient' = Tail(toClient)
  /\ UNCHANGED <<config, remote>>

Sends(messages) == toServer' = toServer \o messages

\* Mutation: a PING during the registration is not answered.
OnPingIgnored ==
  /\ Reads("PING")
  /\ UNCHANGED <<client, toServer>>

OnPing ==
  /\ Reads("PING")
  /\ Sends(<<Msg("PONG")>>)
  /\ UNCHANGED client

OnError ==
  /\ Reads("ERROR")
  /\ outcome' = "refused"
  /\ UNCHANGED <<nick, retriesLeft, lsCaps, saslCompleted, toServer>>

\* Mutation: one try more than _MAX_NICK_RETRIES.
OnNickInUseOnceMore ==
  /\ Reads("433")
  /\ IF retriesLeft < 0
     THEN outcome' = "nickExhausted" /\ UNCHANGED <<nick, retriesLeft, toServer>>
     ELSE /\ retriesLeft' = retriesLeft - 1 /\ nick' = nick + 1
          /\ Sends(<<NickMsg(nick + 1)>>) /\ UNCHANGED outcome
  /\ UNCHANGED <<lsCaps, saslCompleted>>

\* Mutation: the new nick is sent and not stored.
OnNickInUseForgettingNick ==
  /\ Reads("433")
  /\ retriesLeft > 0 /\ retriesLeft' = retriesLeft - 1
  /\ Sends(<<NickMsg(nick + 1)>>)
  /\ UNCHANGED <<outcome, nick, lsCaps, saslCompleted>>

OnNickInUse ==
  /\ Reads("433")
  /\ IF retriesLeft <= 0
     THEN /\ outcome' = "nickExhausted"
          /\ UNCHANGED <<nick, retriesLeft, toServer>>
     ELSE /\ retriesLeft' = retriesLeft - 1
          /\ nick' = nick + 1
          /\ Sends(<<NickMsg(nick + 1)>>)
          /\ UNCHANGED outcome
  /\ UNCHANGED <<lsCaps, saslCompleted>>

\* Mutation: only the last line of the answer is looked at.
OnCapLsLastLineOnly ==
  /\ Reads("CAP LS")
  /\ lsCaps' = Head(toClient).sasl
  /\ IF Head(toClient).more THEN UNCHANGED <<outcome, toServer>>
     ELSE /\ Sends(<<Msg(IF sasl /\ lsCaps' THEN "CAP REQ" ELSE "CAP END")>>)
          /\ outcome' = IF sasl /\ ~lsCaps' THEN "rejected" ELSE outcome
  /\ UNCHANGED <<nick, retriesLeft, saslCompleted>>

\* A line of the answer to CAP LS: "*" marks one that is not the last;
\* _handle_ls_complete looks at the names of all of them.
OnCapLs ==
  /\ Reads("CAP LS")
  /\ lsCaps' = (lsCaps \/ Head(toClient).sasl)
  /\ \/ /\ Head(toClient).more
        /\ UNCHANGED <<outcome, toServer>>
     \/ /\ ~Head(toClient).more /\ ~sasl
        /\ Sends(<<Msg("CAP END")>>)
        /\ UNCHANGED outcome
     \/ /\ ~Head(toClient).more /\ sasl /\ ~lsCaps'
        /\ Sends(<<Msg("CAP END")>>)
        /\ outcome' = "rejected"
     \/ /\ ~Head(toClient).more /\ sasl /\ lsCaps'
        /\ Sends(<<Msg("CAP REQ")>>)
        /\ UNCHANGED outcome
  /\ UNCHANGED <<nick, retriesLeft, saslCompleted>>

\* Mutation: CAP END is sent before authentication has succeeded.
OnCapAckEnding ==
  /\ Reads("CAP ACK")
  /\ Sends(<<Msg("AUTHENTICATE PLAIN"), Msg("CAP END")>>)
  /\ UNCHANGED client

OnCapAck ==
  /\ Reads("CAP ACK")
  /\ Sends(<<Msg("AUTHENTICATE PLAIN")>>)
  /\ UNCHANGED client

OnCapNak ==
  /\ Reads("CAP NAK")
  /\ Sends(<<Msg("CAP END")>>)
  /\ outcome' = "rejected"
  /\ UNCHANGED <<nick, retriesLeft, lsCaps, saslCompleted>>

OnAuthenticate ==
  /\ Reads("AUTHENTICATE +")
  /\ Sends(Chunks(blob))
  /\ UNCHANGED client

OnSaslSuccess ==
  /\ Reads("903")
  /\ saslCompleted' = TRUE
  /\ Sends(<<Msg("CAP END")>>)
  /\ UNCHANGED <<outcome, nick, retriesLeft, lsCaps>>

OnSaslFailure ==
  /\ Reads("904")
  /\ Sends(<<Msg("CAP END")>>)
  /\ outcome' = "rejected"
  /\ UNCHANGED <<nick, retriesLeft, lsCaps, saslCompleted>>

\* Mutation: 001 without SASL is accepted.
OnWelcomeAnyway ==
  /\ Reads("001")
  /\ outcome' = "registered"
  /\ UNCHANGED <<nick, retriesLeft, lsCaps, saslCompleted, toServer>>

OnWelcome ==
  /\ Reads("001")
  /\ outcome' = IF sasl /\ ~saslCompleted THEN "rejected" ELSE "registered"
  /\ UNCHANGED <<nick, retriesLeft, lsCaps, saslCompleted, toServer>>

\* wait_for(self._register(), registration_timeout) gives up.
TimesOut ==
  /\ outcome = "registering"
  /\ outcome' = "timedOut"
  /\ UNCHANGED <<config, nick, retriesLeft, lsCaps, saslCompleted, toServer, toClient, remote>>

\* The connection is lost, or stop() closes it: a read sees the end, or a
\* send fails.
ConnectionEnds ==
  /\ outcome = "registering"
  /\ outcome' = "closed"
  /\ UNCHANGED <<config, nick, retriesLeft, lsCaps, saslCompleted, toServer, toClient, remote>>

OnMessage ==
  \/ OnPing \/ OnError \/ OnNickInUse \/ OnCapLs \/ OnCapAck \/ OnCapNak
  \/ OnAuthenticate \/ OnSaslSuccess \/ OnSaslFailure \/ OnWelcome

------------------------------------------------------------------------------
(* The server, which is outside the repository: RFC 2812 and the IRCv3     *)
(* capability negotiation and SASL, as _register relies on them.           *)

\* The connection carries nothing more once _register has ended.
Serving == outcome = "registering" /\ ~finished

Takes(command) ==
  /\ Serving
  /\ toServer # <<>> /\ Head(toServer).cmd = command
  /\ toServer' = Tail(toServer)
  /\ UNCHANGED <<config, client, pings, finished>>

Answers(messages) == toClient' = toClient \o messages

TakesCapLs ==
  /\ Takes("CAP LS")
  /\ IF server.capable
     THEN /\ negotiating' = TRUE
          /\ Answers([i \in 1..Len(server.lines) |->
               [cmd |-> "CAP LS", more |-> i < Len(server.lines), sasl |-> server.lines[i]]])
     ELSE UNCHANGED <<negotiating, toClient>>
  /\ UNCHANGED <<nickHeld, userSeen, received, accepted, pongs>>

\* The first server.taken nicknames of ours are in use.
TakesNick ==
  /\ Takes("NICK")
  /\ \/ /\ Head(toServer).nick < server.taken
        /\ Answers(<<Msg("433")>>)
        /\ UNCHANGED nickHeld
     \/ /\ Head(toServer).nick >= server.taken
        /\ nickHeld' = {Head(toServer).nick}
        /\ UNCHANGED toClient
  /\ UNCHANGED <<userSeen, negotiating, received, accepted, pongs>>

TakesUser ==
  /\ Takes("USER")
  /\ userSeen' = TRUE
  /\ UNCHANGED <<toClient, nickHeld, negotiating, received, accepted, pongs>>

TakesCapReq ==
  /\ Takes("CAP REQ")
  /\ Answers(<<Msg(IF server.acks THEN "CAP ACK" ELSE "CAP NAK")>>)
  /\ UNCHANGED <<nickHeld, userSeen, negotiating, received, accepted, pongs>>

TakesMechanism ==
  /\ Takes("AUTHENTICATE PLAIN")
  /\ Answers(<<Msg(IF server.plain THEN "AUTHENTICATE +" ELSE "904")>>)
  /\ UNCHANGED <<nickHeld, userSeen, negotiating, received, accepted, pongs>>

\* A line shorter than ChunkSize ends the response, which is then judged.
TakesCredentials ==
  /\ Takes("CREDENTIALS")
  /\ received' = received + Head(toServer).size
  /\ \/ /\ Head(toServer).size = ChunkSize
        /\ UNCHANGED <<accepted, toClient>>
     \/ /\ Head(toServer).size < ChunkSize
        /\ accepted' = (accepted \/ (server.accepts /\ received' = blob))
        /\ Answers(<<Msg(IF accepted' THEN "903" ELSE "904")>>)
  /\ UNCHANGED <<nickHeld, userSeen, negotiating, pongs>>

TakesCapEnd ==
  /\ Takes("CAP END")
  /\ negotiating' = FALSE
  /\ UNCHANGED <<toClient, nickHeld, userSeen, received, accepted, pongs>>

TakesPong ==
  /\ Takes("PONG")
  /\ pongs' = pongs + 1
  /\ UNCHANGED <<toClient, nickHeld, userSeen, negotiating, received, accepted>>

\* At any time, and to hold the welcome back until it is answered.
ServerPings ==
  /\ Serving /\ pings < MaxPings
  /\ pings' = pings + 1
  /\ Answers(<<Msg("PING")>>)
  /\ UNCHANGED <<config, client, toServer, nickHeld, userSeen, negotiating, received,
                 accepted, pongs, finished>>

ServerRefuses ==
  /\ Serving
  /\ finished' = TRUE
  /\ Answers(<<Msg("ERROR")>>)
  /\ UNCHANGED <<config, client, toServer, nickHeld, userSeen, negotiating, received,
                 accepted, pings, pongs>>

ServerWelcomes ==
  /\ Serving
  /\ nickHeld # {} /\ userSeen /\ ~negotiating /\ pongs = pings
  /\ finished' = TRUE
  /\ Answers(<<Msg("001")>>)
  /\ UNCHANGED <<config, client, toServer, nickHeld, userSeen, negotiating, received,
                 accepted, pings, pongs>>

ServerTakes ==
  \/ TakesCapLs \/ TakesNick \/ TakesUser \/ TakesCapReq \/ TakesMechanism
  \/ TakesCredentials \/ TakesCapEnd \/ TakesPong

------------------------------------------------------------------------------
Next ==
  \/ OnMessage \/ TimesOut \/ ConnectionEnds
  \/ ServerTakes \/ ServerPings \/ ServerRefuses \/ ServerWelcomes

Spec == Init /\ [][Next]_vars

\* Both sides read what was sent to them, and a server welcomes a client that
\* has done what it asks.  Nothing obliges the timeout to fire, the server to
\* ask or refuse, or the connection to break.
Fairness == WF_vars(OnMessage) /\ WF_vars(ServerTakes) /\ WF_vars(ServerWelcomes)
FairSpec == Spec /\ Fairness

------------------------------------------------------------------------------
\* When SASL is configured, the client never takes itself for registered on a
\* server that did not accept its credentials, however that server came to
\* welcome it (the check on RPL_WELCOME, the refusals on LS, NAK and 904).
NoSilentDowngrade == outcome = "registered" /\ sasl => accepted

\* What makes NoSilentDowngrade inductive: a success the client has read or
\* will read stands for credentials the server accepted.
SuccessIsTrue ==
  /\ \A i \in DOMAIN toClient : toClient[i].cmd = "903" => accepted
  /\ saslCompleted => accepted
  /\ outcome = "registered" /\ sasl => saslCompleted

IInv == TypeOK /\ SuccessIsTrue

\* After any number of refused nicknames, refused at any point of the
\* negotiation, the two sides agree on the one in use.
NickAgreed == outcome = "registered" => nickHeld = {nick}

\* What makes NickAgreed inductive: the nickname in use is on its way to the
\* server, or its refusal on the way back, or the server holds it; one of the
\* three and once only.
At(channel, command) == {i \in DOMAIN channel : channel[i].cmd = command}
NickInv ==
  /\ \A i, j \in At(toServer, "NICK") : toServer[i].nick = nick /\ i = j
  /\ \A i, j \in At(toClient, "433") : nick < server.taken /\ i = j
  /\ At(toServer, "NICK") # {} => At(toClient, "433") = {}
  /\ nickHeld # {} =>
       nickHeld = {nick} /\ At(toServer, "NICK") = {} /\ At(toClient, "433") = {}
  /\ At(toClient, "001") # {} \/ outcome = "registered" => nickHeld # {}

\* IRCAuthError blames the server only for what it did: SASL is reported as
\* refused when the server lacks it, or PLAIN, or does not accept the
\* credentials, on whichever line of CAP LS and in however many AUTHENTICATE
\* lines; the nickname as exhausted when all those tried are in use.
NoFalseRejection ==
  /\ outcome = "rejected" =>
       /\ sasl /\ ~accepted
       /\ ~ /\ server.capable /\ (\E i \in DOMAIN server.lines : server.lines[i])
            /\ server.acks /\ server.plain /\ server.accepts
  /\ outcome = "nickExhausted" => server.taken > MaxNickRetries

\* The two sides never both wait for the other: until the handshake has ended
\* the client has something to read, or the server something to take or a
\* client to welcome, in whatever order nicknames, PINGs and the lines of the
\* negotiation crossed (_register).
NoStandoff ==
  outcome = "registering" =>
    \/ toClient # <<>>
    \/ ~finished /\ toServer # <<>>
    \/ ~finished /\ nickHeld # {} /\ userSeen /\ ~negotiating /\ pongs = pings

\* What makes NoFalseRejection and NoStandoff inductive.  The messages of the
\* capability negotiation and of SASL are a dialogue: at most one kind of them
\* is on its way, and once only, but for the lines of an answer and of a
\* response.
ToServerDialogue == {"CAP LS", "CAP REQ", "AUTHENTICATE PLAIN", "CREDENTIALS", "CAP END"}
ToClientDialogue == {"CAP LS", "CAP ACK", "CAP NAK", "AUTHENTICATE +", "903", "904"}

Has(channel, command) == At(channel, command) # {}
Once(channel, command) == \A i, j \in At(channel, command) : i = j

TakesTurns ==
  /\ \A c, d \in ToServerDialogue : Has(toServer, c) /\ Has(toServer, d) => c = d
  /\ \A c, d \in ToClientDialogue : Has(toClient, c) /\ Has(toClient, d) => c = d
  /\ \A c \in ToServerDialogue, d \in ToClientDialogue : ~(Has(toServer, c) /\ Has(toClient, d))
  /\ \A c \in ToServerDialogue \ {"CREDENTIALS"} : Once(toServer, c)
  /\ \A c \in ToClientDialogue \ {"CAP LS"} : Once(toClient, c)
  /\ negotiating =>
       \/ \E c \in ToServerDialogue : Has(toServer, c)
       \/ \E c \in ToClientDialogue : Has(toClient, c)

Offered == server.capable /\ \E i \in DOMAIN server.lines : server.lines[i]
Unasked == ~accepted /\ received = 0 /\ ~saslCompleted

\* The lines of the answer not read yet: the last of them says so, and they
\* name sasl if those read did not and the server has it.
LsPending ==
  /\ \A i, j \in At(toClient, "CAP LS") : i < j => toClient[i].more
  /\ \E i \in At(toClient, "CAP LS") : ~toClient[i].more
  /\ Offered <=> lsCaps \/ \E i \in At(toClient, "CAP LS") : toClient[i].sasl

\* The lines of the response not taken yet, from a to b: with what the server
\* has received they make up the credentials, and only the last is short.
ResponsePending(a, b) ==
  /\ At(toServer, "CREDENTIALS") = a..b /\ a <= b
  /\ \A i \in a..b : toServer[i].size = IF i < b THEN ChunkSize ELSE blob % ChunkSize
  /\ received + (b - a) * ChunkSize + (blob % ChunkSize) = blob

\* What lets a server welcome the client.
Released == (sasl => saslCompleted) \/ (~server.capable /\ ~accepted)

\* What each message on its way says of the two sides.
Meaning ==
  /\ Has(toServer, "CAP LS") =>
       /\ Unasked /\ ~lsCaps /\ ~negotiating
       /\ toServer[1].cmd = "CAP LS" /\ nickHeld = {} /\ ~Has(toClient, "001")
  /\ Has(toClient, "CAP LS") => Unasked /\ server.capable /\ LsPending
  /\ Has(toServer, "CAP REQ") => Unasked /\ sasl /\ Offered
  /\ Has(toClient, "CAP ACK") => Unasked /\ sasl /\ Offered /\ server.acks
  /\ Has(toClient, "CAP NAK") => ~accepted /\ sasl /\ ~server.acks
  /\ Has(toServer, "AUTHENTICATE PLAIN") => Unasked /\ sasl /\ Offered /\ server.acks
  /\ Has(toClient, "AUTHENTICATE +") => Unasked /\ sasl /\ Offered /\ server.acks /\ server.plain
  /\ Has(toServer, "CREDENTIALS") =>
       ~accepted /\ sasl /\ Offered /\ server.plain /\ \E a, b \in DOMAIN toServer : ResponsePending(a, b)
  /\ Has(toClient, "903") => accepted
  /\ Has(toClient, "904") => ~accepted /\ sasl /\ ~(server.plain /\ server.accepts)
  /\ Has(toServer, "CAP END") => (sasl => saslCompleted)
  /\ ~Has(toServer, "CAP LS") /\ ~negotiating => Released
  /\ Has(toClient, "001") => Released

SaslInv == outcome = "registering" => TakesTurns /\ Meaning

\* Nothing the server waits for before its welcome is lost: the nickname, USER
\* and the answers to its PINGs are on their way or have arrived.
Underway ==
  outcome = "registering" =>
    /\ nickHeld # {} \/ Has(toServer, "NICK") \/ Has(toClient, "433")
    /\ userSeen \/ Has(toServer, "USER")
    /\ pings = pongs + Cardinality(At(toClient, "PING")) + Cardinality(At(toServer, "PONG"))
    /\ finished => Has(toClient, "001") \/ Has(toClient, "ERROR")

\* With SASL configured, the client ends the negotiation, and so lets the
\* server register it, only once it is authenticated or as it gives up.
HoldsRegistration ==
  [][ sasl /\ Len(toServer') > Len(toServer) /\ toServer'[Len(toServer')].cmd = "CAP END"
        => accepted \/ outcome' # "registering" ]_vars

\* The handshake ends by its own messages: with a server that follows the
\* protocols it never comes to both sides waiting for the other, which only
\* registration_timeout would end.
Concludes == <>(outcome # "registering")

==============================================================================
