------------------------ MODULE IrcRegistrationProofs ------------------------
(***************************************************************************)
(* No silent downgrade, the negotiation held open until the client is      *)
(* authenticated, one nickname that both sides agree on, no refusal blamed *)
(* on the wrong cause, and never both sides waiting for the other: for     *)
(* every server, every number of retries and every size of the credentials.*)
(***************************************************************************)
EXTENDS IrcRegistration, FiniteSetTheorems, TLAPS

\* What is left after a message is read was already on its way.
LEMMA Reading ==
  ASSUME TypeOK, toClient # <<>>
  PROVE  /\ Head(toClient) \in ServerMessage
         /\ Head(toClient) = toClient[1] /\ 1 \in DOMAIN toClient
         /\ Tail(toClient) \in Seq(ServerMessage)
         /\ \A i \in DOMAIN Tail(toClient) :
              i + 1 \in DOMAIN toClient /\ Tail(toClient)[i] = toClient[i + 1]
BY DEF TypeOK

\* A channel with messages put behind what it holds.
LEMMA Sending ==
  ASSUME NEW S, NEW old \in Seq(S), NEW more \in Seq(S)
  PROVE  /\ old \o more \in Seq(S)
         /\ Len(old \o more) = Len(old) + Len(more)
         /\ \A i \in DOMAIN (old \o more) :
              \/ i \in DOMAIN old /\ (old \o more)[i] = old[i]
              \/ i - Len(old) \in DOMAIN more /\ (old \o more)[i] = more[i - Len(old)]
OBVIOUS

LEMMA LastSent ==
  ASSUME NEW S, NEW old \in Seq(S), NEW more \in Seq(S), Len(more) > 0
  PROVE  (old \o more)[Len(old \o more)] = more[Len(more)]
OBVIOUS

LEMMA Longer ==
  ASSUME NEW S, NEW old \in Seq(S), NEW new, Len(new) > Len(old)
  PROVE  new # old /\ ~(old # <<>> /\ new = Tail(old))
OBVIOUS

\* The lines of the SASL response: at least one, and nothing else.
LEMMA ChunksType ==
  ASSUME NEW size \in Nat
  PROVE  /\ Chunks(size) \in Seq(ClientMessage)
         /\ Len(Chunks(size)) = (size \div ChunkSize) + 1
         /\ Len(Chunks(size)) > 0 /\ Len(Chunks(size)) \in DOMAIN Chunks(size)
         /\ \A i \in DOMAIN Chunks(size) : Chunks(size)[i].cmd = "CREDENTIALS"
<1> DEFINE full == size \div ChunkSize
           last == size % ChunkSize
<1>1. ChunkSize \in Nat /\ ChunkSize > 0
  BY BlobAssumption
<1>2. full \in Nat /\ last \in 0..ChunkSize
  BY <1>1
<1>3. Chunks(size) = [i \in 1..full + 1 |->
        [cmd |-> "CREDENTIALS", size |-> IF i <= full THEN ChunkSize ELSE last]]
  BY DEF Chunks
<1> HIDE DEF full, last
<1>4. ASSUME NEW i \in 1..full + 1
      PROVE  [cmd |-> "CREDENTIALS", size |-> IF i <= full THEN ChunkSize ELSE last] \in ClientMessage
  <2>1. (IF i <= full THEN ChunkSize ELSE last) \in 0..ChunkSize
    BY <1>1, <1>2
  <2> QED
    BY <2>1 DEF ClientMessage
<1>5. Chunks(size) \in Seq(ClientMessage) /\ Len(Chunks(size)) = full + 1
  BY <1>2, <1>3, <1>4
<1>6. \A i \in DOMAIN Chunks(size) : Chunks(size)[i].cmd = "CREDENTIALS"
  BY <1>3
<1>7. full + 1 \in DOMAIN Chunks(size) /\ full + 1 > 0
  BY <1>2, <1>3
<1> QED
  BY <1>7, <1>2, <1>5, <1>6 DEF full

LEMMA CommandType ==
  ASSUME NEW c \in {"CAP LS", "USER", "CAP REQ", "CAP END", "AUTHENTICATE PLAIN", "PONG"}
  PROVE  Msg(c) \in ClientMessage /\ Msg(c).cmd = c
BY DEF Msg, ClientMessage

LEMMA NickType ==
  ASSUME NEW n \in 0..MaxNickRetries
  PROVE  NickMsg(n) \in ClientMessage /\ NickMsg(n).cmd = "NICK"
<1>1. [cmd |-> "NICK", nick |-> n] \in [cmd : {"NICK"}, nick : 0..MaxNickRetries]
  OBVIOUS
<1> QED
  BY <1>1 DEF NickMsg, ClientMessage

LEMMA ReplyType ==
  ASSUME NEW c \in Replies
  PROVE  Msg(c) \in ServerMessage /\ Msg(c).cmd = c
BY DEF Msg, ServerMessage

\* A message on its own, as Sends and Answers take it.
LEMMA One ==
  ASSUME NEW S, NEW m \in S
  PROVE  <<m>> \in Seq(S) /\ Len(<<m>>) = 1 /\ DOMAIN <<m>> = {1} /\ <<m>>[1] = m
OBVIOUS

LEMMA Three ==
  ASSUME NEW S, NEW a \in S, NEW b \in S, NEW c \in S
  PROVE  <<a, b, c>> \in Seq(S)
OBVIOUS

LEMMA AsSequence ==
  ASSUME NEW S, NEW n \in Nat, NEW f \in [1..n -> S]
  PROVE  f \in Seq(S) /\ DOMAIN f = 1..n
OBVIOUS

\* A nickname is tried only while there are retries left for it.
LEMMA Retrying ==
  ASSUME TypeOK, ~(retriesLeft <= 0)
  PROVE  /\ nick + 1 \in 0..MaxNickRetries
         /\ retriesLeft - 1 = MaxNickRetries - (nick + 1)
<1>1. nick \in 0..MaxNickRetries /\ retriesLeft = MaxNickRetries - nick
  BY Zenon DEF TypeOK
<1> QED
  BY <1>1, RetriesAssumption

\* What a message of the client carries.
LEMMA Carried ==
  ASSUME NEW m \in ClientMessage
  PROVE  /\ m.cmd = "NICK" => m.nick \in 0..MaxNickRetries
         /\ m.cmd = "CREDENTIALS" => m.size \in Nat
<1>1. m.cmd = "NICK" => m.nick \in 0..MaxNickRetries
  BY DEF ClientMessage
<1>2. m.cmd = "CREDENTIALS" => m.size \in 0..ChunkSize
  BY DEF ClientMessage
<1> QED
  BY <1>1, <1>2, BlobAssumption

\* One line of the answer to CAP LS.
LEMMA LsLine ==
  ASSUME NEW more \in BOOLEAN, NEW named \in BOOLEAN
  PROVE  LET m == [cmd |-> "CAP LS", more |-> more, sasl |-> named]
         IN  m \in ServerMessage /\ m.cmd # "903"
<1>1. [cmd |-> "CAP LS", more |-> more, sasl |-> named]
        \in [cmd : {"CAP LS"}, more : BOOLEAN, sasl : BOOLEAN]
  OBVIOUS
<1> QED
  BY <1>1, Zenon DEF ServerMessage

\* Reading a message leaves the server's side alone, and what SuccessIsTrue
\* says of the messages still on their way.
LEMMA ReadingKeeps ==
  ASSUME IInv, NEW c, Reads(c)
  PROVE  /\ toClient' \in Seq(ServerMessage)
         /\ \A i \in DOMAIN toClient' : toClient'[i].cmd = "903" => accepted'
         /\ c = "903" => accepted'
         /\ UNCHANGED <<sasl, blob, server, nickHeld, userSeen, negotiating, received,
                        accepted, pings, pongs, finished>>
         /\ outcome = "registering"
BY Reading DEF IInv, SuccessIsTrue, Reads, config, remote

\* What the server sends that is not a success leaves SuccessIsTrue alone.
LEMMA AnsweringKeeps ==
  ASSUME TypeOK, SuccessIsTrue, NEW messages \in Seq(ServerMessage), Answers(messages),
         accepted => accepted',
         \A i \in DOMAIN messages : messages[i].cmd = "903" => accepted'
  PROVE  /\ toClient' \in Seq(ServerMessage)
         /\ \A i \in DOMAIN toClient' : toClient'[i].cmd = "903" => accepted'
<1>1. toClient \in Seq(ServerMessage)
  BY DEF TypeOK
<1>2. toClient' = toClient \o messages
  BY DEF Answers
<1>3. \A i \in DOMAIN toClient : toClient[i].cmd = "903" => accepted'
  BY DEF SuccessIsTrue
<1> QED
  BY <1>1, <1>2, <1>3, Sending

LEMMA InitIInv == Init => IInv
<1> SUFFICES ASSUME Init PROVE IInv
  OBVIOUS
<1>1. toServer \in Seq(ClientMessage)
  <2>1. 0 \in 0..MaxNickRetries
    BY RetriesAssumption
  <2>2. Msg("CAP LS") \in ClientMessage /\ NickMsg(0) \in ClientMessage /\ Msg("USER") \in ClientMessage
    BY <2>1, CommandType, NickType
  <2>3. toServer = <<Msg("CAP LS"), NickMsg(0), Msg("USER")>>
    BY Zenon DEF Init
  <2> QED
    BY <2>2, <2>3, Three
<1>0. /\ sasl \in BOOLEAN /\ blob \in BlobSizes /\ server \in Servers
      /\ outcome = "registering" /\ nick = 0 /\ retriesLeft = MaxNickRetries
      /\ lsCaps = FALSE /\ saslCompleted = FALSE /\ toClient = <<>>
      /\ nickHeld = {} /\ userSeen = FALSE /\ negotiating = FALSE
      /\ received = 0 /\ accepted = FALSE /\ pings = 0 /\ pongs = 0 /\ finished = FALSE
  BY Zenon DEF Init
<1>2. TypeOK
  <2>1. nick \in 0..MaxNickRetries /\ retriesLeft = MaxNickRetries - nick /\ pings \in 0..MaxPings
    BY <1>0, RetriesAssumption
  <2>2. toClient \in Seq(ServerMessage) /\ nickHeld \in SUBSET (0..MaxNickRetries)
    BY <1>0
  <2>3. outcome \in Outcomes
    BY <1>0 DEF Outcomes
  <2>4. received \in Nat /\ pongs \in Nat
    BY <1>0
  <2> QED
    BY <1>0, <1>1, <2>1, <2>2, <2>3, <2>4, Zenon DEF TypeOK
<1>3. SuccessIsTrue
  BY <1>0 DEF SuccessIsTrue
<1> QED
  BY <1>2, <1>3 DEF IInv

\* The client's handlers.
LEMMA ClientKeepsIInv ==
  ASSUME IInv, OnMessage \/ TimesOut \/ ConnectionEnds
  PROVE  IInv'
<1> USE DEF IInv, TypeOK, SuccessIsTrue, Outcomes
<1> DEFINE Grows == \E m \in Seq(ClientMessage) : toServer' = toServer \o m
<1>0. Grows => toServer' \in Seq(ClientMessage)
  BY Sending
<1> HIDE DEF Grows
<1>1. CASE OnPing
  <2>1. Grows
    BY <1>1, CommandType, One DEF OnPing, Sends, Grows
  <2> QED
    BY <1>0, <1>1, <2>1, ReadingKeeps DEF OnPing, client
<1>2. CASE OnError
  BY <1>2, ReadingKeeps DEF OnError
<1>3. CASE OnNickInUse
  <2>1. CASE retriesLeft <= 0
    BY <1>3, <2>1, ReadingKeeps DEF OnNickInUse
  <2>2. CASE ~(retriesLeft <= 0)
    <3>1. nick + 1 \in 0..MaxNickRetries /\ retriesLeft - 1 = MaxNickRetries - (nick + 1)
      BY <2>2, Retrying
    <3>2. Grows
      BY <1>3, <2>2, <3>1, NickType, One DEF OnNickInUse, Sends, Grows
    <3> QED
      BY <1>0, <1>3, <2>2, <3>1, <3>2, ReadingKeeps DEF OnNickInUse
  <2> QED
    BY <2>1, <2>2
<1>4. CASE OnCapLs
  <2>1. Grows \/ UNCHANGED toServer
    BY <1>4, CommandType, One DEF OnCapLs, Sends, Grows
  <2>2. lsCaps' \in BOOLEAN
    BY <1>4 DEF OnCapLs
  <2>3. outcome' \in {"registering", "rejected"}
    BY <1>4, ReadingKeeps DEF OnCapLs
  <2> QED
    BY <1>0, <1>4, <2>1, <2>2, <2>3, ReadingKeeps DEF OnCapLs
<1>5. CASE OnCapAck
  <2>1. Grows
    BY <1>5, CommandType, One DEF OnCapAck, Sends, Grows
  <2> QED
    BY <1>0, <1>5, <2>1, ReadingKeeps DEF OnCapAck, client
<1>6. CASE OnCapNak
  <2>1. Grows
    BY <1>6, CommandType, One DEF OnCapNak, Sends, Grows
  <2> QED
    BY <1>0, <1>6, <2>1, ReadingKeeps DEF OnCapNak
<1>7. CASE OnAuthenticate
  <2>1. Grows
    BY <1>7, ChunksType, BlobAssumption DEF OnAuthenticate, Sends, Grows
  <2> QED
    BY <1>0, <1>7, <2>1, ReadingKeeps DEF OnAuthenticate, client
<1>8. CASE OnSaslSuccess
  <2>1. Grows
    BY <1>8, CommandType, One DEF OnSaslSuccess, Sends, Grows
  <2> QED
    BY <1>0, <1>8, <2>1, ReadingKeeps DEF OnSaslSuccess
<1>9. CASE OnSaslFailure
  <2>1. Grows
    BY <1>9, CommandType, One DEF OnSaslFailure, Sends, Grows
  <2> QED
    BY <1>0, <1>9, <2>1, ReadingKeeps DEF OnSaslFailure
<1>10. CASE OnWelcome
  BY <1>10, ReadingKeeps DEF OnWelcome
<1>11. CASE TimesOut
  BY <1>11 DEF TimesOut, config, remote
<1>12. CASE ConnectionEnds
  BY <1>12 DEF ConnectionEnds, config, remote
<1> QED
  BY <1>1, <1>2, <1>3, <1>4, <1>5, <1>6, <1>7, <1>8, <1>9, <1>10, <1>11, <1>12 DEF OnMessage

\* The server's steps: the only one that sends a success accepts with it.
LEMMA ServerKeepsIInv ==
  ASSUME IInv, ServerTakes \/ ServerPings \/ ServerRefuses \/ ServerWelcomes
  PROVE  IInv'
<1> DEFINE Frame ==
      /\ UNCHANGED <<sasl, blob, server, outcome, nick, retriesLeft, lsCaps, saslCompleted>>
      /\ accepted => accepted'
      /\ accepted' \in BOOLEAN /\ negotiating' \in BOOLEAN /\ userSeen' \in BOOLEAN
      /\ finished' \in BOOLEAN /\ nickHeld' \in SUBSET (0..MaxNickRetries)
      /\ received' \in Nat /\ pings' \in 0..MaxPings /\ pongs' \in Nat
      /\ toServer' \in Seq(ClientMessage)
      Silent == UNCHANGED toClient
      Answer == \E m \in Seq(ServerMessage) :
                  Answers(m) /\ \A i \in DOMAIN m : m[i].cmd = "903" => accepted'
<1>1. ASSUME Frame, Silent \/ Answer PROVE IInv'
  <2>1. TypeOK /\ SuccessIsTrue
    BY DEF IInv
  <2>2. /\ toClient' \in Seq(ServerMessage)
        /\ \A i \in DOMAIN toClient' : toClient'[i].cmd = "903" => accepted'
    BY <1>1, <2>1, AnsweringKeeps DEF TypeOK, SuccessIsTrue
  <2> QED
    BY <1>1, <2>1, <2>2 DEF IInv, TypeOK, SuccessIsTrue
<1> HIDE DEF Frame, Silent, Answer
<1>2. ASSUME NEW c \in Replies, c # "903", Answers(<<Msg(c)>>) PROVE Answer
  <2>1. <<Msg(c)>> \in Seq(ServerMessage) /\ \A i \in DOMAIN <<Msg(c)>> : <<Msg(c)>>[i].cmd # "903"
    BY <1>2, ReplyType, One
  <2> QED
    BY <1>2, <2>1 DEF Answer
<1>3. ASSUME NEW c, Takes(c)
      PROVE  /\ UNCHANGED <<sasl, blob, server, outcome, nick, retriesLeft, lsCaps,
                            saslCompleted, pings, finished>>
             /\ toServer' \in Seq(ClientMessage)
             /\ Head(toServer) \in ClientMessage /\ Head(toServer).cmd = c
  BY <1>3 DEF Takes, IInv, TypeOK, config, client
<1>4. CASE TakesCapLs
  <2>1. Frame
    BY <1>3, <1>4 DEF Frame, TakesCapLs, IInv, TypeOK
  <2>2. Silent \/ Answer
    <3> DEFINE n == Len(server.lines)
               m == [i \in 1..n |->
                      [cmd |-> "CAP LS", more |-> i < n, sasl |-> server.lines[i]]]
    <3>1. n \in Nat /\ \A i \in 1..n : server.lines[i] \in BOOLEAN
      BY ServersAssumption DEF IInv, TypeOK, ServerFeatures
    <3>2. ASSUME NEW i \in 1..n PROVE m[i] \in ServerMessage /\ m[i].cmd # "903"
      <4>1. (i < n) \in BOOLEAN /\ server.lines[i] \in BOOLEAN
        BY <3>1
      <4>2. m[i] = [cmd |-> "CAP LS", more |-> i < n, sasl |-> server.lines[i]]
        OBVIOUS
      <4> HIDE DEF m, n
      <4> QED
        BY <4>1, <4>2, LsLine, Zenon
    <3>3. m \in Seq(ServerMessage) /\ DOMAIN m = 1..n
      <4> HIDE DEF n
      <4>1. m \in [1..n -> ServerMessage]
        BY <3>2, Zenon
      <4> HIDE DEF m
      <4> QED
        BY <3>1, <4>1, AsSequence
    <3>4. UNCHANGED toClient \/ Answers(m)
      BY <1>4 DEF TakesCapLs
    <3> HIDE DEF m, n
    <3> QED
      BY <3>2, <3>3, <3>4 DEF Silent, Answer
  <2> QED
    BY <1>1, <2>1, <2>2
<1>5. CASE TakesNick
  <2>1. Head(toServer).nick \in 0..MaxNickRetries
    BY <1>3, <1>5, Carried DEF TakesNick
  <2>2. Frame
    BY <1>3, <1>5, <2>1 DEF Frame, TakesNick, IInv, TypeOK
  <2>3. Silent \/ Answer
    BY <1>2, <1>5 DEF TakesNick, Silent, Replies
  <2> QED
    BY <1>1, <2>2, <2>3
<1>6. CASE TakesUser
  <2>1. Frame /\ Silent
    BY <1>3, <1>6 DEF Frame, Silent, TakesUser, IInv, TypeOK
  <2> QED
    BY <1>1, <2>1
<1>7. CASE TakesCapReq
  <2>1. Frame
    BY <1>3, <1>7 DEF Frame, TakesCapReq, IInv, TypeOK
  <2>2. Answer
    BY <1>2, <1>7 DEF TakesCapReq, Replies
  <2> QED
    BY <1>1, <2>1, <2>2
<1>8. CASE TakesMechanism
  <2>1. Frame
    BY <1>3, <1>8 DEF Frame, TakesMechanism, IInv, TypeOK
  <2>2. Answer
    BY <1>2, <1>8 DEF TakesMechanism, Replies
  <2> QED
    BY <1>1, <2>1, <2>2
<1>9. CASE TakesCredentials
  <2>1. Head(toServer).size \in Nat
    BY <1>3, <1>9, Carried DEF TakesCredentials
  <2>2. accepted' \in BOOLEAN /\ (accepted => accepted')
    <3>1. accepted \in BOOLEAN
      BY DEF IInv, TypeOK
    <3>2. \/ accepted' = accepted
          \/ accepted' = (accepted \/ (server.accepts /\ received' = blob))
      BY <1>9, Zenon DEF TakesCredentials
    <3>3. CASE accepted' = accepted
      BY <3>1, <3>3
    <3>4. CASE accepted' = (accepted \/ (server.accepts /\ received' = blob))
      BY <3>4, Zenon
    <3> QED
      BY <3>2, <3>3, <3>4
  <2>3. Frame
    BY <1>3, <1>9, <2>1, <2>2 DEF Frame, TakesCredentials, IInv, TypeOK
  <2>4. Silent \/ Answer
    <3>1. CASE accepted' /\ Answers(<<Msg("903")>>)
      <4>1. <<Msg("903")>> \in Seq(ServerMessage)
        BY ReplyType, One DEF Replies
      <4> QED
        BY <3>1, <4>1 DEF Answer
    <3>2. CASE Answers(<<Msg("904")>>)
      BY <1>2, <3>2 DEF Replies
    <3>3. CASE UNCHANGED toClient
      BY <3>3 DEF Silent
    <3> QED
      BY <1>9, <3>1, <3>2, <3>3 DEF TakesCredentials
  <2> QED
    BY <1>1, <2>3, <2>4
<1>10. CASE TakesCapEnd
  <2>1. Frame /\ Silent
    BY <1>3, <1>10 DEF Frame, Silent, TakesCapEnd, IInv, TypeOK
  <2> QED
    BY <1>1, <2>1
<1>11. CASE TakesPong
  <2>1. Frame /\ Silent
    BY <1>3, <1>11 DEF Frame, Silent, TakesPong, IInv, TypeOK
  <2> QED
    BY <1>1, <2>1
<1>12. CASE ServerPings
  <2>1. Frame
    BY <1>12, RetriesAssumption DEF Frame, ServerPings, IInv, TypeOK, config, client
  <2>2. Answer
    BY <1>2, <1>12 DEF ServerPings, Replies
  <2> QED
    BY <1>1, <2>1, <2>2
<1>13. CASE ServerRefuses
  <2>1. Frame
    BY <1>13 DEF Frame, ServerRefuses, IInv, TypeOK, config, client
  <2>2. Answer
    BY <1>2, <1>13 DEF ServerRefuses, Replies
  <2> QED
    BY <1>1, <2>1, <2>2
<1>14. CASE ServerWelcomes
  <2>1. Frame
    BY <1>14 DEF Frame, ServerWelcomes, IInv, TypeOK, config, client
  <2>2. Answer
    BY <1>2, <1>14 DEF ServerWelcomes, Replies
  <2> QED
    BY <1>1, <2>1, <2>2
<1> QED
  BY <1>4, <1>5, <1>6, <1>7, <1>8, <1>9, <1>10, <1>11, <1>12, <1>13, <1>14 DEF ServerTakes

\* What SASL success means on each side, for every server (client.py 192-254).
THEOREM Invariant == Spec => []IInv
<1>1. Init => IInv
  BY InitIInv
<1>2. IInv /\ [Next]_vars => IInv'
  <2> SUFFICES ASSUME IInv, [Next]_vars PROVE IInv'
    OBVIOUS
  <2>1. CASE UNCHANGED vars
    BY <2>1 DEF vars, config, client, remote, IInv, TypeOK, SuccessIsTrue
  <2> QED
    BY <2>1, ClientKeepsIInv, ServerKeepsIInv DEF Next
<1> QED
  BY <1>1, <1>2, PTL DEF Spec

\* Type correctness, for every server and every size of the credentials.
THEOREM TypeCorrect == Spec => []TypeOK
<1>1. IInv => TypeOK
  BY DEF IInv
<1> QED
  BY <1>1, Invariant, PTL

\* The client registers without SASL on no server when SASL is configured.
THEOREM NoDowngrade == Spec => []NoSilentDowngrade
<1>1. IInv => NoSilentDowngrade
  BY DEF IInv, SuccessIsTrue, NoSilentDowngrade
<1> QED
  BY <1>1, Invariant, PTL

\* With SASL configured, CAP END follows the authentication or gives it up.
THEOREM Holds == Spec => HoldsRegistration
<1> DEFINE Ends == sasl /\ Len(toServer') > Len(toServer) /\ toServer'[Len(toServer')].cmd = "CAP END"
           A == Ends => accepted \/ outcome' # "registering"
<1>1. ASSUME IInv, [Next]_vars PROVE A
  <2> SUFFICES ASSUME Ends PROVE accepted \/ outcome' # "registering"
    OBVIOUS
  <2>0. sasl /\ Len(toServer') > Len(toServer) /\ toServer'[Len(toServer')].cmd = "CAP END"
    OBVIOUS
  <2> HIDE DEF Ends
  <2>1. toServer \in Seq(ClientMessage)
    BY <1>1 DEF IInv, TypeOK
  <2>2. ASSUME NEW m \in Seq(ClientMessage), Sends(m), Len(m) > 0
        PROVE  toServer'[Len(toServer')] = m[Len(m)]
    BY <2>1, <2>2, LastSent DEF Sends
  <2>3. ASSUME NEW r, r.cmd # "CAP END", <<r>> \in Seq(ClientMessage), Sends(<<r>>) PROVE FALSE
    <3> DEFINE m == <<r>>
    <3>1. Len(m) = 1 /\ Len(m) > 0 /\ m[Len(m)] = r
      OBVIOUS
    <3>2. m \in Seq(ClientMessage) /\ Sends(m)
      BY <2>3
    <3> HIDE DEF m
    <3>3. toServer'[Len(toServer')] = m[Len(m)]
      BY <2>2, <3>1, <3>2
    <3>4. toServer'[Len(toServer')] = r
      BY <3>1, <3>3
    <3> QED
      BY <2>0, <2>3, <3>4
  <2>4. ~UNCHANGED toServer
    BY <2>0, <2>1, Longer
  <2>5. ~(toServer # <<>> /\ toServer' = Tail(toServer))
    BY <2>0, <2>1, Longer
  <2>6. ~(ServerTakes \/ ServerPings \/ ServerRefuses \/ ServerWelcomes \/ UNCHANGED vars)
    BY <2>4, <2>5
       DEF ServerTakes, TakesCapLs, TakesNick, TakesUser, TakesCapReq, TakesMechanism,
           TakesCredentials, TakesCapEnd, TakesPong, Takes, ServerPings, ServerRefuses,
           ServerWelcomes, vars
  <2>7. CASE OnPing
    BY <2>3, <2>7, CommandType, One DEF OnPing
  <2>8. CASE OnNickInUse
    <3>1. ~(retriesLeft <= 0) /\ Sends(<<NickMsg(nick + 1)>>)
      BY <2>4, <2>8 DEF OnNickInUse
    <3>2. nick + 1 \in 0..MaxNickRetries
      BY <1>1, <3>1, Retrying DEF IInv
    <3> QED
      BY <2>3, <3>1, <3>2, NickType, One
  <2>9. CASE OnCapLs
    <3>1. CASE Sends(<<Msg("CAP REQ")>>)
      BY <2>3, <3>1, CommandType, One
    <3> QED
      BY <2>0, <2>4, <2>9, <3>1 DEF OnCapLs
  <2>10. CASE OnCapAck
    BY <2>3, <2>10, CommandType, One DEF OnCapAck
  <2>11. CASE OnAuthenticate
    <3>1. blob \in Nat
      BY <1>1, BlobAssumption DEF IInv, TypeOK
    <3>2. /\ Chunks(blob) \in Seq(ClientMessage) /\ Len(Chunks(blob)) > 0
          /\ Chunks(blob)[Len(Chunks(blob))].cmd = "CREDENTIALS"
      BY <3>1, ChunksType
    <3>3. Sends(Chunks(blob))
      BY <2>11 DEF OnAuthenticate
    <3>4. toServer'[Len(toServer')] = Chunks(blob)[Len(Chunks(blob))]
      BY <2>2, <3>2, <3>3
    <3> QED
      BY <2>0, <3>2, <3>4
  <2>12. CASE OnSaslSuccess
    <3>1. Reads("903")
      BY <2>12 DEF OnSaslSuccess
    <3>2. accepted' /\ accepted' = accepted
      BY <1>1, <3>1, ReadingKeeps
    <3> QED
      BY <3>2
  <2>13. CASE OnError \/ OnCapNak \/ OnSaslFailure \/ OnWelcome \/ TimesOut \/ ConnectionEnds
    BY <2>13 DEF OnError, OnCapNak, OnSaslFailure, OnWelcome, TimesOut, ConnectionEnds
  <2> QED
    BY <1>1, <2>6, <2>7, <2>8, <2>9, <2>10, <2>11, <2>12, <2>13 DEF Next, OnMessage
<1>2. []IInv /\ [][Next]_vars => [][A]_vars
  BY <1>1, PTL
<1> QED
  BY <1>2, Invariant, PTL DEF Spec, HoldsRegistration

\* The messages of one kind on a channel, as it is read and written: a
\* message read is gone, one written is at the end, others keep their place.
LEMMA AtRead ==
  ASSUME NEW S, NEW old \in Seq(S), old # <<>>, NEW c
  PROVE  /\ \A i \in At(Tail(old), c) : i \in Nat /\ i + 1 \in At(old, c) /\ i + 1 # 1 /\ Tail(old)[i] = old[i + 1]
         /\ Head(old).cmd = c => 1 \in At(old, c) /\ old[1] = Head(old)
BY DEF At

LEMMA AtWritten ==
  ASSUME NEW S, NEW old \in Seq(S), NEW more \in Seq(S), NEW c
  PROVE  \A i \in At(old \o more, c) :
           \/ i \in At(old, c) /\ (old \o more)[i] = old[i]
           \/ i - Len(old) \in At(more, c) /\ (old \o more)[i] = more[i - Len(old)]
BY Sending DEF At

LEMMA AtLast ==
  ASSUME NEW S, NEW old \in Seq(S), NEW m \in S, NEW c, At(old, c) = {}
  PROVE  \A i \in At(old \o <<m>>, c) :
           i = Len(old) + 1 /\ (old \o <<m>>)[i] = m /\ m.cmd = c
BY DEF At

LEMMA Empty == \A c : At(<<>>, c) = {}
BY DEF At

\* A channel on which no message of a kind appeared, read or not.
Fewer(new, old, c) ==
  \E k \in {0, 1} : \A i \in At(new, c) : i \in Nat /\ i + k \in At(old, c) /\ new[i] = old[i + k]

LEMMA FewerBy ==
  ASSUME NEW S, NEW old \in Seq(S), NEW new, NEW c,
         \/ new = old
         \/ old # <<>> /\ new = Tail(old)
         \/ \E more \in Seq(S) : new = old \o more /\ \A i \in DOMAIN more : more[i].cmd # c
  PROVE  Fewer(new, old, c)
<1>1. CASE new = old
  BY <1>1 DEF Fewer, At
<1>2. CASE old # <<>> /\ new = Tail(old)
  <2>1. \A i \in At(Tail(old), c) : i \in Nat /\ i + 1 \in At(old, c) /\ Tail(old)[i] = old[i + 1]
    BY <1>2, AtRead
  <2> QED
    BY <1>2, <2>1 DEF Fewer
<1>3. ASSUME NEW more \in Seq(S), new = old \o more, \A i \in DOMAIN more : more[i].cmd # c
      PROVE  Fewer(new, old, c)
  <2>1. At(more, c) = {}
    BY <1>3 DEF At
  <2>2. \A i \in At(new, c) : i \in At(old, c) /\ new[i] = old[i]
    BY <1>3, <2>1, AtWritten
  <2>3. \A i \in At(old, c) : i \in Nat /\ i + 0 = i
    BY DEF At
  <2> QED
    BY <2>2, <2>3 DEF Fewer
<1> QED
  BY <1>1, <1>2, <1>3

\* A step that neither sends, refuses nor grants a nickname.
LEMMA QuietKeepsNickInv ==
  ASSUME NickInv, UNCHANGED <<nick, nickHeld, server>>,
         Fewer(toServer', toServer, "NICK"), Fewer(toClient', toClient, "433"),
         At(toClient', "001") # {} \/ outcome' = "registered" => nickHeld # {}
  PROVE  NickInv'
<1>1. PICK k \in {0, 1} : \A i \in At(toServer', "NICK") :
        i \in Nat /\ i + k \in At(toServer, "NICK") /\ toServer'[i] = toServer[i + k]
  BY DEF Fewer
<1>2. PICK l \in {0, 1} : \A i \in At(toClient', "433") :
        i \in Nat /\ i + l \in At(toClient, "433") /\ toClient'[i] = toClient[i + l]
  BY DEF Fewer
<1>3. \A i, j \in At(toServer', "NICK") : toServer'[i].nick = nick /\ i = j
  <2> SUFFICES ASSUME NEW i \in At(toServer', "NICK"), NEW j \in At(toServer', "NICK")
               PROVE  toServer'[i].nick = nick /\ i = j
    OBVIOUS
  <2>1. i + k \in At(toServer, "NICK") /\ j + k \in At(toServer, "NICK") /\ i \in Nat /\ j \in Nat
        /\ toServer'[i] = toServer[i + k]
    BY <1>1
  <2>2. toServer[i + k].nick = nick /\ i + k = j + k
    BY <2>1, Zenon DEF NickInv
  <2> QED
    BY <2>1, <2>2
<1>4. \A i, j \in At(toClient', "433") : nick < server.taken /\ i = j
  <2> SUFFICES ASSUME NEW i \in At(toClient', "433"), NEW j \in At(toClient', "433")
               PROVE  nick < server.taken /\ i = j
    OBVIOUS
  <2>1. i + l \in At(toClient, "433") /\ j + l \in At(toClient, "433") /\ i \in Nat /\ j \in Nat
    BY <1>2
  <2>2. nick < server.taken /\ i + l = j + l
    BY <2>1, Zenon DEF NickInv
  <2> QED
    BY <2>1, <2>2
<1>5. At(toServer, "NICK") = {} => At(toServer', "NICK") = {}
  BY <1>1
<1>6. At(toClient, "433") = {} => At(toClient', "433") = {}
  BY <1>2
<1> QED
  BY <1>3, <1>4, <1>5, <1>6, Zenon DEF NickInv

\* A message of the client's, or of the server's, of another kind than those.
LEMMA SendsOther ==
  ASSUME TypeOK, NEW m \in Seq(ClientMessage), Sends(m), \A i \in DOMAIN m : m[i].cmd # "NICK"
  PROVE  Fewer(toServer', toServer, "NICK")
BY FewerBy DEF TypeOK, Sends

LEMMA AnswersOther ==
  ASSUME TypeOK, NEW m \in Seq(ServerMessage), Answers(m), NEW c, \A i \in DOMAIN m : m[i].cmd # c
  PROVE  Fewer(toClient', toClient, c)
BY FewerBy DEF TypeOK, Answers

\* What the client's handlers do when the message is no refused nickname.
LEMMA ReadsOther ==
  ASSUME IInv, NickInv, NEW c, Reads(c)
  PROVE  /\ Fewer(toClient', toClient, "433")
         /\ At(toClient', "001") # {} => nickHeld # {}
         /\ c = "001" => nickHeld # {}
         /\ UNCHANGED <<nickHeld, server>>
         /\ outcome = "registering"
<1>1. toClient \in Seq(ServerMessage) /\ toClient # <<>> /\ toClient' = Tail(toClient) /\ Head(toClient).cmd = c
  BY DEF IInv, TypeOK, Reads
<1>2. Fewer(toClient', toClient, "433")
  BY <1>1, FewerBy
<1>3. At(toClient', "001") # {} \/ c = "001" => At(toClient, "001") # {}
  BY <1>1, AtRead
<1> QED
  BY <1>2, <1>3 DEF NickInv, Reads, config, remote

LEMMA ClientKeepsNickInv ==
  ASSUME IInv, NickInv, OnMessage \/ TimesOut \/ ConnectionEnds
  PROVE  NickInv'
<1>0. TypeOK /\ toServer \in Seq(ClientMessage) /\ toClient \in Seq(ServerMessage)
  BY DEF IInv, TypeOK
<1> DEFINE Quiet == Fewer(toServer', toServer, "NICK")
<1>1. UNCHANGED toServer => Quiet
  BY <1>0, FewerBy
<1>2. ASSUME NEW c \in {"CAP LS", "USER", "CAP REQ", "CAP END", "AUTHENTICATE PLAIN", "PONG"},
             Sends(<<Msg(c)>>)
      PROVE  Quiet
  <2>1. Msg(c).cmd # "NICK" /\ Msg(c) \in ClientMessage
    BY CommandType
  <2>2. <<Msg(c)>> \in Seq(ClientMessage) /\ \A i \in DOMAIN <<Msg(c)>> : <<Msg(c)>>[i].cmd # "NICK"
    BY <2>1, One
  <2> QED
    BY <1>0, <1>2, <2>2, SendsOther
<1>3. ASSUME NEW c, Reads(c), Quiet, UNCHANGED nick, outcome' = "registered" => c = "001"
      PROVE  NickInv'
  BY <1>3, ReadsOther, QuietKeepsNickInv
<1> HIDE DEF Quiet
<1>4. CASE OnPing
  <2>1. Reads("PING") /\ UNCHANGED <<nick, outcome>> /\ Quiet
    BY <1>2, <1>4 DEF OnPing, client
  <2> QED
    BY <1>3, <2>1, ReadsOther
<1>5. CASE OnError
  <2>1. Reads("ERROR") /\ UNCHANGED nick /\ outcome' = "refused" /\ Quiet
    BY <1>1, <1>5 DEF OnError
  <2> QED
    BY <1>3, <2>1
<1>6. CASE OnNickInUse
  <2>1. Reads("433")
    BY <1>6 DEF OnNickInUse
  <2>2. CASE retriesLeft <= 0
    <3>1. UNCHANGED nick /\ outcome' = "nickExhausted" /\ Quiet
      BY <1>1, <1>6, <2>2 DEF OnNickInUse
    <3> QED
      BY <1>3, <2>1, <3>1
  <2>3. CASE ~(retriesLeft <= 0)
    <3>1. nick' = nick + 1 /\ Sends(<<NickMsg(nick + 1)>>) /\ UNCHANGED outcome
      BY <1>6, <2>3 DEF OnNickInUse
    <3>2. /\ toClient # <<>> /\ toClient' = Tail(toClient) /\ Head(toClient).cmd = "433"
          /\ UNCHANGED <<nickHeld, server>> /\ outcome = "registering"
      BY <2>1 DEF Reads, config, remote
    <3>3. 1 \in At(toClient, "433")
      BY <1>0, <3>2, AtRead
    <3>4. At(toServer, "NICK") = {} /\ nickHeld = {} /\ At(toClient, "001") = {}
      BY <3>3, Zenon DEF NickInv
    <3>5. At(toClient', "433") = {}
      <4>1. \A i \in At(toClient', "433") : i + 1 \in At(toClient, "433") /\ i + 1 # 1
        BY <1>0, <3>2, AtRead
      <4> QED
        BY <3>3, <4>1 DEF NickInv
    <3>6. At(toClient', "001") = {}
      BY <1>0, <3>2, <3>4, AtRead
    <3>7. NickMsg(nick + 1) \in ClientMessage /\ NickMsg(nick + 1).nick = nick + 1
      BY <1>0, <2>3, Retrying, NickType DEF NickMsg
    <3>8. toServer' = toServer \o <<NickMsg(nick + 1)>>
      BY <3>1, Zenon DEF Sends
    <3>9. \A i \in At(toServer', "NICK") : i = Len(toServer) + 1 /\ toServer'[i] = NickMsg(nick + 1)
      BY <1>0, <3>4, <3>7, <3>8, AtLast
    <3>10. \A i, j \in At(toServer', "NICK") : toServer'[i].nick = nick' /\ i = j
      BY <3>1, <3>7, <3>9
    <3> QED
      BY <3>1, <3>2, <3>4, <3>5, <3>6, <3>10 DEF NickInv
  <2> QED
    BY <2>2, <2>3
<1>7. CASE OnCapLs
  <2>1. Reads("CAP LS") /\ UNCHANGED nick /\ (outcome' = outcome \/ outcome' = "rejected")
    BY <1>7 DEF OnCapLs
  <2>2. Quiet
    BY <1>1, <1>2, <1>7 DEF OnCapLs
  <2> QED
    BY <1>3, <2>1, <2>2, ReadsOther
<1>8. CASE OnCapAck
  <2>1. Reads("CAP ACK") /\ UNCHANGED <<nick, outcome>> /\ Quiet
    BY <1>2, <1>8 DEF OnCapAck, client
  <2> QED
    BY <1>3, <2>1, ReadsOther
<1>9. CASE OnCapNak
  <2>1. Reads("CAP NAK") /\ UNCHANGED nick /\ outcome' = "rejected" /\ Quiet
    BY <1>2, <1>9 DEF OnCapNak
  <2> QED
    BY <1>3, <2>1
<1>10. CASE OnAuthenticate
  <2>1. Reads("AUTHENTICATE +") /\ UNCHANGED <<nick, outcome>> /\ Sends(Chunks(blob))
    BY <1>10 DEF OnAuthenticate, client
  <2>2. Quiet
    <3>1. blob \in Nat
      BY <1>0, BlobAssumption DEF TypeOK
    <3>2. Chunks(blob) \in Seq(ClientMessage) /\ \A i \in DOMAIN Chunks(blob) : Chunks(blob)[i].cmd # "NICK"
      BY <3>1, ChunksType
    <3> QED
      BY <1>0, <2>1, <3>2, SendsOther DEF Quiet
  <2> QED
    BY <1>3, <2>1, <2>2, ReadsOther
<1>11. CASE OnSaslSuccess
  <2>1. Reads("903") /\ UNCHANGED <<nick, outcome>> /\ Quiet
    BY <1>2, <1>11 DEF OnSaslSuccess
  <2> QED
    BY <1>3, <2>1, ReadsOther
<1>12. CASE OnSaslFailure
  <2>1. Reads("904") /\ UNCHANGED nick /\ outcome' = "rejected" /\ Quiet
    BY <1>2, <1>12 DEF OnSaslFailure
  <2> QED
    BY <1>3, <2>1
<1>13. CASE OnWelcome
  <2>1. Reads("001") /\ UNCHANGED nick /\ Quiet
    BY <1>1, <1>13 DEF OnWelcome
  <2> QED
    BY <1>3, <2>1
<1>14. CASE TimesOut \/ ConnectionEnds
  <2>1. UNCHANGED <<nick, nickHeld, server, toServer, toClient>> /\ outcome' # "registered"
    BY <1>14 DEF TimesOut, ConnectionEnds, config, remote
  <2>2. Fewer(toServer', toServer, "NICK") /\ Fewer(toClient', toClient, "433")
    BY <1>0, <2>1, FewerBy
  <2>3. At(toClient', "001") # {} => nickHeld # {}
    BY <2>1 DEF NickInv
  <2> QED
    BY <2>1, <2>2, <2>3, QuietKeepsNickInv
<1> QED
  BY <1>4, <1>5, <1>6, <1>7, <1>8, <1>9, <1>10, <1>11, <1>12, <1>13, <1>14 DEF OnMessage

LEMMA ServerKeepsNickInv ==
  ASSUME IInv, NickInv, ServerTakes \/ ServerPings \/ ServerRefuses \/ ServerWelcomes
  PROVE  NickInv'
<1>0. TypeOK /\ toServer \in Seq(ClientMessage) /\ toClient \in Seq(ServerMessage)
  BY DEF IInv, TypeOK
<1> DEFINE Silent == UNCHANGED toClient
           Answer == \E m \in Seq(ServerMessage) :
                       Answers(m) /\ \A i \in DOMAIN m : m[i].cmd \notin {"433", "001"}
           Frame == /\ UNCHANGED <<nick, nickHeld, server, outcome>>
                    /\ UNCHANGED toServer \/ (toServer # <<>> /\ toServer' = Tail(toServer))
<1>1. ASSUME Silent \/ Answer, Frame PROVE NickInv'
  <2>1. Fewer(toServer', toServer, "NICK")
    BY <1>0, <1>1, FewerBy
  <2>2. Fewer(toClient', toClient, "433") /\ Fewer(toClient', toClient, "001")
    <3>1. CASE Silent
      BY <1>0, <3>1, FewerBy
    <3>2. ASSUME NEW m \in Seq(ServerMessage), Answers(m), \A i \in DOMAIN m : m[i].cmd \notin {"433", "001"}
          PROVE  Fewer(toClient', toClient, "433") /\ Fewer(toClient', toClient, "001")
      BY <1>0, <3>2, AnswersOther
    <3> QED
      BY <1>1, <3>1, <3>2
  <2>3. At(toClient', "001") # {} => At(toClient, "001") # {}
    BY <2>2 DEF Fewer
  <2>4. At(toClient', "001") # {} \/ outcome' = "registered" => nickHeld # {}
    BY <1>1, <2>3 DEF NickInv
  <2> QED
    BY <1>1, <2>1, <2>2, <2>4, QuietKeepsNickInv
<1> HIDE DEF Silent, Answer, Frame
<1>2. ASSUME NEW c \in Replies \ {"433", "001"}, Answers(<<Msg(c)>>) PROVE Answer
  <2>1. <<Msg(c)>> \in Seq(ServerMessage) /\ \A i \in DOMAIN <<Msg(c)>> : <<Msg(c)>>[i].cmd \notin {"433", "001"}
    BY ReplyType, One
  <2> QED
    BY <1>2, <2>1 DEF Answer
<1>3. ASSUME NEW c, Takes(c)
      PROVE  /\ UNCHANGED <<server, outcome, nick>>
             /\ toServer # <<>> /\ toServer' = Tail(toServer)
             /\ Head(toServer).cmd = c /\ outcome = "registering"
  BY <1>3 DEF Takes, Serving, config, client
<1>4. CASE TakesCapLs
  <2>1. Frame
    BY <1>3, <1>4 DEF Frame, TakesCapLs
  <2>2. Silent \/ Answer
    <3> DEFINE n == Len(server.lines)
               m == [i \in 1..n |->
                      [cmd |-> "CAP LS", more |-> i < n, sasl |-> server.lines[i]]]
    <3>1. n \in Nat /\ \A i \in 1..n : server.lines[i] \in BOOLEAN
      BY <1>0, ServersAssumption DEF TypeOK, ServerFeatures
    <3>2. ASSUME NEW i \in 1..n PROVE m[i] \in ServerMessage /\ m[i].cmd \notin {"433", "001"}
      <4>1. (i < n) \in BOOLEAN /\ server.lines[i] \in BOOLEAN
        BY <3>1
      <4>2. m[i] = [cmd |-> "CAP LS", more |-> i < n, sasl |-> server.lines[i]]
        OBVIOUS
      <4>3. m[i].cmd = "CAP LS"
        BY <4>2
      <4> HIDE DEF m, n
      <4>4. m[i] \in ServerMessage
        BY <4>1, <4>2, LsLine, Zenon
      <4> QED
        BY <4>3, <4>4
    <3>3. m \in Seq(ServerMessage) /\ DOMAIN m = 1..n
      <4> HIDE DEF n
      <4>1. m \in [1..n -> ServerMessage]
        BY <3>2, Zenon
      <4> HIDE DEF m
      <4> QED
        BY <3>1, <4>1, AsSequence
    <3>4. UNCHANGED toClient \/ Answers(m)
      BY <1>4 DEF TakesCapLs
    <3> HIDE DEF m, n
    <3> QED
      BY <3>2, <3>3, <3>4 DEF Silent, Answer
  <2> QED
    BY <1>1, <2>1, <2>2
<1>5. CASE TakesNick
  <2>1. Takes("NICK")
    BY <1>5 DEF TakesNick
  <2>2. 1 \in At(toServer, "NICK") /\ toServer[1] = Head(toServer)
    BY <1>0, <1>3, <2>1, AtRead
  <2>3. Head(toServer).nick = nick /\ nickHeld = {} /\ At(toClient, "433") = {} /\ At(toClient, "001") = {}
    BY <2>2, Zenon DEF NickInv
  <2>4. At(toServer', "NICK") = {}
    <3>1. \A i \in At(toServer', "NICK") : i + 1 \in At(toServer, "NICK") /\ i + 1 # 1
      BY <1>0, <1>3, <2>1, AtRead
    <3> QED
      BY <2>2, <3>1 DEF NickInv
  <2>5. UNCHANGED <<server, outcome, nick>> /\ outcome = "registering"
    BY <1>3, <2>1
  <2>6. CASE nick < server.taken /\ Answers(<<Msg("433")>>) /\ UNCHANGED nickHeld
    <3>1. Msg("433") \in ServerMessage /\ Msg("433").cmd = "433"
      BY ReplyType DEF Replies
    <3>2. toClient' = toClient \o <<Msg("433")>>
      BY <2>6, Zenon DEF Answers
    <3>3. \A i \in At(toClient', "433") : i = Len(toClient) + 1
      BY <1>0, <2>3, <3>1, <3>2, AtLast
    <3>4. At(toClient', "001") = {}
      BY <1>0, <2>3, <3>1, <3>2, AtLast
    <3> QED
      BY <2>3, <2>4, <2>5, <2>6, <3>3, <3>4 DEF NickInv
  <2>7. CASE nickHeld' = {Head(toServer).nick} /\ UNCHANGED toClient
    BY <2>3, <2>4, <2>5, <2>7 DEF NickInv
  <2> QED
    BY <1>5, <2>3, <2>6, <2>7 DEF TakesNick
<1>6. CASE TakesUser \/ TakesCapEnd \/ TakesPong
  <2>1. Frame /\ Silent
    BY <1>3, <1>6 DEF Frame, TakesUser, TakesCapEnd, TakesPong, Silent
  <2> QED
    BY <1>1, <2>1
<1>7. CASE TakesCapReq
  <2>1. Frame
    BY <1>3, <1>7 DEF Frame, TakesCapReq
  <2>2. Answer
    BY <1>2, <1>7 DEF TakesCapReq, Replies
  <2> QED
    BY <1>1, <2>1, <2>2
<1>8. CASE TakesMechanism
  <2>1. Frame
    BY <1>3, <1>8 DEF Frame, TakesMechanism
  <2>2. Answer
    BY <1>2, <1>8 DEF TakesMechanism, Replies
  <2> QED
    BY <1>1, <2>1, <2>2
<1>9. CASE TakesCredentials
  <2>1. Frame
    BY <1>3, <1>9 DEF Frame, TakesCredentials
  <2>2. Silent \/ Answers(<<Msg("903")>>) \/ Answers(<<Msg("904")>>)
    BY <1>9 DEF TakesCredentials, Silent
  <2>3. Silent \/ Answer
    BY <1>2, <2>2 DEF Replies
  <2> QED
    BY <1>1, <2>1, <2>3
<1>10. CASE ServerPings
  <2>1. Frame
    BY <1>10 DEF Frame, ServerPings, config, client
  <2>2. Answer
    BY <1>2, <1>10 DEF ServerPings, Replies
  <2> QED
    BY <1>1, <2>1, <2>2
<1>11. CASE ServerRefuses
  <2>1. Frame
    BY <1>11 DEF Frame, ServerRefuses, config, client
  <2>2. Answer
    BY <1>2, <1>11 DEF ServerRefuses, Replies
  <2> QED
    BY <1>1, <2>1, <2>2
<1>12. CASE ServerWelcomes
  <2>1. UNCHANGED <<nick, nickHeld, server, outcome, toServer>> /\ nickHeld # {} /\ Answers(<<Msg("001")>>)
    BY <1>12 DEF ServerWelcomes, config, client
  <2>2. <<Msg("001")>> \in Seq(ServerMessage) /\ \A i \in DOMAIN <<Msg("001")>> : <<Msg("001")>>[i].cmd # "433"
    <3>1. Msg("001") \in ServerMessage /\ Msg("001").cmd # "433"
      BY ReplyType DEF Replies
    <3> QED
      BY <3>1, One
  <2>3. Fewer(toServer', toServer, "NICK") /\ Fewer(toClient', toClient, "433")
    BY <1>0, <2>1, <2>2, FewerBy, AnswersOther
  <2> QED
    BY <2>1, <2>3, QuietKeepsNickInv
<1> QED
  BY <1>4, <1>5, <1>6, <1>7, <1>8, <1>9, <1>10, <1>11, <1>12 DEF ServerTakes

\* In every reachable state the nickname in use is in one place only
\* (client.py 244-249, and the messages between).
THEOREM NickInvariant == Spec => []NickInv
<1>1. Init => NickInv
  <2> SUFFICES ASSUME Init PROVE NickInv
    OBVIOUS
  <2>1. toServer = <<Msg("CAP LS"), NickMsg(0), Msg("USER")>> /\ toClient = <<>> /\ nick = 0
        /\ nickHeld = {} /\ outcome = "registering"
    BY Zenon DEF Init
  <2>2. At(toClient, "433") = {} /\ At(toClient, "001") = {}
    BY <2>1, Empty
  <2>3. \A i \in At(toServer, "NICK") : i = 2 /\ toServer[i].nick = nick
    <3>1. /\ Msg("CAP LS").cmd # "NICK" /\ Msg("USER").cmd # "NICK" /\ NickMsg(0).nick = 0
      BY DEF Msg, NickMsg
    <3>2. DOMAIN toServer = 1..3 /\ toServer[1] = Msg("CAP LS") /\ toServer[2] = NickMsg(0)
          /\ toServer[3] = Msg("USER")
      <4> DEFINE a == Msg("CAP LS")
                 b == NickMsg(0)
                 c == Msg("USER")
      <4>1. toServer = <<a, b, c>>
        BY <2>1
      <4> HIDE DEF a, b, c
      <4>2. DOMAIN toServer = 1..3 /\ toServer[1] = a /\ toServer[2] = b /\ toServer[3] = c
        BY <4>1
      <4> QED
        BY <4>2 DEF a, b, c
    <3>3. nick = 0
      BY <2>1
    <3>4. \A i \in DOMAIN toServer : i = 1 \/ i = 2 \/ i = 3
      <4>1. \A i \in 1..3 : i = 1 \/ i = 2 \/ i = 3
        OBVIOUS
      <4> QED
        BY <3>2, <4>1, Zenon
    <3>5. \A i \in DOMAIN toServer : toServer[i].cmd = "NICK" => i = 2 /\ toServer[i].nick = nick
      BY <3>1, <3>2, <3>3, <3>4, Zenon
    <3> QED
      BY <3>5, Zenon DEF At
  <2> QED
    BY <2>1, <2>2, <2>3 DEF NickInv
<1>2. IInv /\ NickInv /\ [Next]_vars => NickInv'
  <2> SUFFICES ASSUME IInv, NickInv, [Next]_vars PROVE NickInv'
    OBVIOUS
  <2>1. CASE UNCHANGED vars
    BY <2>1 DEF vars, config, client, remote, NickInv, At
  <2> QED
    BY <2>1, ClientKeepsNickInv, ServerKeepsNickInv DEF Next
<1> QED
  BY <1>1, <1>2, Invariant, PTL DEF Spec

\* Once registered, both sides mean the same nickname, for every number of
\* refusals and every order in which they come.
THEOREM NickIsAgreed == Spec => []NickAgreed
<1>1. NickInv => NickAgreed
  BY DEF NickInv, NickAgreed
<1> QED
  BY <1>1, NickInvariant, PTL


------------------------------------------------------------------------------
(* The dialogue of the capability negotiation and of SASL.                 *)

\* The kinds of messages on a channel, as one is read.
LEMMA ReadKinds ==
  ASSUME NEW S, NEW old \in Seq(S), old # <<>>
  PROVE  /\ Has(old, Head(old).cmd)
         /\ \A d : Has(Tail(old), d) => Has(old, d)
         /\ \A d : d # Head(old).cmd /\ Has(old, d) => Has(Tail(old), d)
         /\ Once(old, Head(old).cmd) => ~Has(Tail(old), Head(old).cmd)
         /\ \A d : Once(old, d) => Once(Tail(old), d)
<1>1. /\ Len(old) \in Nat \ {0} /\ DOMAIN old = 1..Len(old) /\ DOMAIN Tail(old) = 1..Len(old) - 1
      /\ old[1] = Head(old) /\ \A i \in 1..Len(old) - 1 : Tail(old)[i] = old[i + 1]
  OBVIOUS
<1> DEFINE t == Tail(old)
           h == Head(old)
<1> HIDE DEF t, h
<1>2. 1 \in At(old, h.cmd)
  BY <1>1 DEF At, h
<1>3. \A d : \A i \in At(t, d) : i \in Nat /\ i + 1 \in At(old, d) /\ i + 1 # 1
  BY <1>1 DEF At, t
<1>4. ASSUME NEW d, d # h.cmd, NEW i \in At(old, d) PROVE i - 1 \in At(t, d)
  <2>1. i \in 1..Len(old) /\ i # 1
    BY <1>1, <1>4 DEF At, h
  <2>2. i - 1 \in 1..Len(old) - 1 /\ (i - 1) + 1 = i
    BY <1>1, <2>1
  <2> QED
    BY <1>1, <1>4, <2>2 DEF At, t
<1>5. Has(old, h.cmd) /\ (\A d : Has(t, d) => Has(old, d))
  BY <1>2, <1>3 DEF Has
<1>6. \A d : d # h.cmd /\ Has(old, d) => Has(t, d)
  BY <1>4 DEF Has
<1>7. Once(old, h.cmd) => ~Has(t, h.cmd)
  BY <1>2, <1>3 DEF Has, Once
<1>8. ASSUME NEW d, Once(old, d) PROVE Once(t, d)
  <2> SUFFICES ASSUME NEW i \in At(t, d), NEW j \in At(t, d) PROVE i = j
    BY DEF Once
  <2>1. i + 1 = j + 1 /\ i \in Nat /\ j \in Nat
    BY <1>3, <1>8 DEF Once
  <2> QED
    BY <2>1
<1> QED
  BY <1>5, <1>6, <1>7, <1>8 DEF t, h

\* And as messages of one kind are written.
LEMMA WrittenKinds ==
  ASSUME NEW S, NEW old \in Seq(S), NEW more \in Seq(S), NEW k,
         Len(more) > 0, \A i \in DOMAIN more : more[i].cmd = k
  PROVE  /\ \A d : d # k => At(old \o more, d) = At(old, d)
         /\ Has(old \o more, k)
         /\ ~Has(old, k) =>
              /\ At(old \o more, k) = Len(old) + 1..Len(old) + Len(more)
              /\ \A i \in Len(old) + 1..Len(old) + Len(more) : (old \o more)[i] = more[i - Len(old)]
<1> DEFINE t == old \o more
           n == Len(old)
           l == Len(more)
<1>1. /\ n \in Nat /\ l \in Nat /\ l > 0 /\ DOMAIN old = 1..n /\ DOMAIN more = 1..l
      /\ DOMAIN t = 1..n + l /\ \A i \in 1..n : t[i] = old[i]
  OBVIOUS
<1>2. \A i \in n + 1..n + l : i - n \in 1..l /\ t[i] = more[i - n]
  OBVIOUS
<1> HIDE DEF t, n, l
<1>3. /\ \A i \in 1..n + l : i \in 1..n \/ i \in n + 1..n + l
      /\ \A i \in 1..n : i \in 1..n + l
      /\ \A i \in n + 1..n + l : i \in 1..n + l
      /\ n + 1 \in n + 1..n + l
  BY <1>1
<1>4. \A i \in n + 1..n + l : t[i].cmd = k
  BY <1>1, <1>2
<1>5. \A d : d # k => At(t, d) = At(old, d)
  BY <1>1, <1>3, <1>4 DEF At
<1>6. Has(t, k)
  BY <1>1, <1>3, <1>4 DEF At, Has
<1>7. ~Has(old, k) => At(t, k) = n + 1..n + l
  BY <1>1, <1>3, <1>4 DEF At, Has
<1> QED
  BY <1>2, <1>5, <1>6, <1>7 DEF t, n, l

\* A channel whose messages of a kind are those it had, moved up by one at most.
Kept(new, old, c) ==
  \E k \in {0, 1} :
    /\ \A i \in At(new, c) : i \in Nat /\ i + k \in At(old, c) /\ new[i] = old[i + k]
    /\ \A i \in At(old, c) : i \in Nat /\ i - k \in At(new, c) /\ new[i - k] = old[i]

LEMMA KeptAsRead ==
  ASSUME NEW S, NEW old \in Seq(S), old # <<>>, NEW c, Head(old).cmd # c
  PROVE  Kept(Tail(old), old, c)
<1> DEFINE t == Tail(old)
<1>1. /\ Len(old) \in Nat \ {0} /\ DOMAIN old = 1..Len(old) /\ DOMAIN t = 1..Len(old) - 1
      /\ old[1].cmd # c /\ \A i \in 1..Len(old) - 1 : t[i] = old[i + 1]
  OBVIOUS
<1> HIDE DEF t
<1>2. \A i \in At(t, c) : i \in Nat /\ i + 1 \in At(old, c) /\ t[i] = old[i + 1]
  BY <1>1 DEF At
<1>3. ASSUME NEW i \in At(old, c) PROVE i \in Nat /\ i - 1 \in At(t, c) /\ t[i - 1] = old[i]
  <2>1. i \in 1..Len(old) /\ i # 1 /\ old[i].cmd = c
    BY <1>1 DEF At
  <2>2. i \in Nat /\ i - 1 \in 1..Len(old) - 1 /\ (i - 1) + 1 = i
    BY <1>1, <2>1
  <2>3. t[i - 1] = old[i]
    BY <1>1, <2>2
  <2> QED
    BY <1>1, <2>1, <2>2, <2>3 DEF At
<1>4. Kept(t, old, c)
  BY <1>2, <1>3 DEF Kept
<1> QED
  BY <1>4 DEF t

LEMMA KeptAsWritten ==
  ASSUME NEW S, NEW old \in Seq(S), NEW m \in S, NEW c, m.cmd # c
  PROVE  Kept(old \o <<m>>, old, c)
<1> DEFINE more == <<m>>
           t == old \o more
           k == m.cmd
<1>1. more \in Seq(S) /\ Len(more) > 0 /\ (\A i \in DOMAIN more : more[i].cmd = k) /\ c # k
  BY One
<1> HIDE DEF more, k
<1>2. At(t, c) = At(old, c)
  <2>1. \A d : d # k => At(old \o more, d) = At(old, d)
    BY <1>1, WrittenKinds
  <2> QED
    BY <1>1, <2>1
<1>3. \A i \in DOMAIN old : i \in Nat /\ t[i] = old[i]
  BY <1>1
<1>4. \A i \in At(old, c) : i \in DOMAIN old /\ i \in Nat /\ i - 0 = i /\ i + 0 = i
  BY DEF At
<1> HIDE DEF t
<1>5. Kept(t, old, c)
  BY <1>2, <1>3, <1>4 DEF Kept
<1> QED
  BY <1>5 DEF t, more

LEMMA KeptBy ==
  ASSUME NEW S, NEW old \in Seq(S), NEW new, NEW c,
         \/ new = old
         \/ old # <<>> /\ new = Tail(old) /\ Head(old).cmd # c
         \/ \E m \in S : new = old \o <<m>> /\ m.cmd # c
  PROVE  Kept(new, old, c)
<1>1. CASE new = old
  <2>1. \A i \in At(old, c) : i \in Nat /\ i - 0 = i /\ i + 0 = i
    BY DEF At
  <2> QED
    BY <1>1, <2>1 DEF Kept
<1> QED
  BY <1>1, KeptAsRead, KeptAsWritten

LEMMA KeptMeans ==
  ASSUME NEW new, NEW old, NEW c, Kept(new, old, c)
  PROVE  (Has(new, c) <=> Has(old, c)) /\ (Once(old, c) => Once(new, c))
<1>1. PICK k \in {0, 1} :
        /\ \A i \in At(new, c) : i \in Nat /\ i + k \in At(old, c)
        /\ \A i \in At(old, c) : i - k \in At(new, c)
  BY DEF Kept
<1>2. Has(new, c) <=> Has(old, c)
  BY <1>1 DEF Has
<1>3. ASSUME Once(old, c), NEW i \in At(new, c), NEW j \in At(new, c) PROVE i = j
  <2>1. i + k = j + k /\ i \in Nat /\ j \in Nat
    BY <1>1, <1>3 DEF Once
  <2> QED
    BY <2>1
<1> QED
  BY <1>2, <1>3 DEF Once


\* A dialogue that is silent, or has one kind of messages on its way.
Silent == /\ \A d \in ToServerDialogue : ~Has(toServer, d)
          /\ \A d \in ToClientDialogue : ~Has(toClient, d)
Asking(k) == /\ \A d \in ToServerDialogue : Has(toServer, d) <=> d = k
             /\ \A d \in ToClientDialogue : ~Has(toClient, d)
Telling(k) == /\ \A d \in ToServerDialogue : ~Has(toServer, d)
              /\ \A d \in ToClientDialogue : Has(toClient, d) <=> d = k
Welcomable == ~negotiating \/ Has(toClient, "001") => Released

\* What is to be shown of a step after which one kind of messages is on its way.
LEMMA AskingKeeps ==
  ASSUME NEW k \in ToServerDialogue \ {"CAP LS"}, Asking(k)', Welcomable',
         k # "CREDENTIALS" => Once(toServer', k),
         k = "CAP REQ" => (Unasked /\ sasl /\ Offered)',
         k = "AUTHENTICATE PLAIN" => (Unasked /\ sasl /\ Offered /\ server.acks)',
         k = "CREDENTIALS" => (/\ ~accepted /\ sasl /\ Offered /\ server.plain
                               /\ \E a, b \in DOMAIN toServer : ResponsePending(a, b))',
         k = "CAP END" => (sasl => saslCompleted)'
  PROVE  SaslInv'
<1>1. /\ \A d \in ToServerDialogue : Has(toServer', d) <=> d = k
      /\ \A d \in ToClientDialogue : ~Has(toClient', d)
  BY DEF Asking
<1>2. /\ \A d \in ToServerDialogue \ {"CREDENTIALS"} : Once(toServer', d)
      /\ \A d \in ToClientDialogue : Once(toClient', d)
  BY <1>1 DEF Has, Once
<1>3. TakesTurns'
  BY <1>1, <1>2 DEF TakesTurns
<1>4. /\ ~Has(toServer', "CAP LS")
      /\ \A d \in {"CAP REQ", "AUTHENTICATE PLAIN", "CREDENTIALS", "CAP END"} : Has(toServer', d) => d = k
      /\ \A d \in {"CAP LS", "CAP ACK", "CAP NAK", "AUTHENTICATE +", "903", "904"} : ~Has(toClient', d)
  BY <1>1 DEF ToServerDialogue, ToClientDialogue
<1>5. Meaning'
  BY <1>4 DEF Meaning, Welcomable
<1> QED
  BY <1>3, <1>5 DEF SaslInv

LEMMA TellingKeeps ==
  ASSUME NEW k \in ToClientDialogue, Telling(k)', Welcomable',
         k # "CAP LS" => Once(toClient', k),
         k = "CAP LS" => (Unasked /\ server.capable /\ LsPending)',
         k = "CAP ACK" => (Unasked /\ sasl /\ Offered /\ server.acks)',
         k = "CAP NAK" => (~accepted /\ sasl /\ ~server.acks)',
         k = "AUTHENTICATE +" => (Unasked /\ sasl /\ Offered /\ server.acks /\ server.plain)',
         k = "903" => accepted',
         k = "904" => (~accepted /\ sasl /\ ~(server.plain /\ server.accepts))'
  PROVE  SaslInv'
<1>1. /\ \A d \in ToServerDialogue : ~Has(toServer', d)
      /\ \A d \in ToClientDialogue : Has(toClient', d) <=> d = k
  BY DEF Telling
<1>2. /\ \A d \in ToServerDialogue : Once(toServer', d)
      /\ \A d \in ToClientDialogue \ {"CAP LS"} : Once(toClient', d)
  BY <1>1 DEF Has, Once
<1>3. TakesTurns'
  BY <1>1, <1>2 DEF TakesTurns
<1>4. /\ \A d \in {"CAP LS", "CAP REQ", "AUTHENTICATE PLAIN", "CREDENTIALS", "CAP END"} : ~Has(toServer', d)
      /\ \A d \in {"CAP LS", "CAP ACK", "CAP NAK", "AUTHENTICATE +", "903", "904"} : Has(toClient', d) => d = k
  BY <1>1 DEF ToServerDialogue, ToClientDialogue
<1>5. Meaning'
  BY <1>4 DEF Meaning, Welcomable
<1> QED
  BY <1>3, <1>5 DEF SaslInv

LEMMA SilentKeeps ==
  ASSUME Silent', Welcomable', ~negotiating'
  PROVE  SaslInv'
<1>1. /\ \A d \in ToServerDialogue : ~Has(toServer', d)
      /\ \A d \in ToClientDialogue : ~Has(toClient', d)
  BY DEF Silent
<1>2. /\ \A d \in ToServerDialogue : Once(toServer', d)
      /\ \A d \in ToClientDialogue : Once(toClient', d)
  BY <1>1 DEF Has, Once
<1>3. TakesTurns'
  BY <1>1, <1>2 DEF TakesTurns
<1>4. /\ \A d \in {"CAP LS", "CAP REQ", "AUTHENTICATE PLAIN", "CREDENTIALS", "CAP END"} : ~Has(toServer', d)
      /\ \A d \in {"CAP LS", "CAP ACK", "CAP NAK", "AUTHENTICATE +", "903", "904"} : ~Has(toClient', d)
  BY <1>1 DEF ToServerDialogue, ToClientDialogue
<1>5. Meaning'
  BY <1>4 DEF Meaning, Welcomable
<1> QED
  BY <1>3, <1>5 DEF SaslInv

\* The client reads the only message of the dialogue, or the last of its kind.
LEMMA ReadsTurn ==
  ASSUME TypeOK, TakesTurns, Meaning, NEW c \in ToClientDialogue, Reads(c),
         c # "CAP LS" \/ ~Has(Tail(toClient), c)
  PROVE  /\ Has(toClient, c) /\ Welcomable
         /\ \A d \in ToServerDialogue : ~Has(toServer, d)
         /\ \A d \in ToClientDialogue : ~Has(toClient', d)
         /\ Has(toClient', "001") => Has(toClient, "001")
<1>1. toClient \in Seq(ServerMessage) /\ toClient # <<>> /\ Head(toClient).cmd = c /\ toClient' = Tail(toClient)
  BY DEF TypeOK, Reads
<1>2. /\ Has(toClient, c) /\ (\A d : Has(toClient', d) => Has(toClient, d))
      /\ Once(toClient, c) => ~Has(toClient', c)
  BY <1>1, ReadKinds
<1>3. \A d \in ToServerDialogue : ~Has(toServer, d)
  BY <1>2 DEF TakesTurns
<1>4. \A d \in ToClientDialogue : ~Has(toClient', d)
  BY <1>1, <1>2 DEF TakesTurns
<1>5. Welcomable
  BY <1>3 DEF Welcomable, Meaning, ToServerDialogue
<1> QED
  BY <1>2, <1>3, <1>4, <1>5

LEMMA TakesTurn ==
  ASSUME TypeOK, TakesTurns, Meaning, NEW c \in ToServerDialogue, Takes(c),
         c # "CREDENTIALS" \/ ~Has(Tail(toServer), c)
  PROVE  /\ Has(toServer, c)
         /\ \A d \in ToClientDialogue : ~Has(toClient, d)
         /\ \A d \in ToServerDialogue : ~Has(toServer', d)
<1>1. toServer \in Seq(ClientMessage) /\ toServer # <<>> /\ Head(toServer).cmd = c /\ toServer' = Tail(toServer)
  BY DEF TypeOK, Takes
<1>2. /\ Has(toServer, c) /\ (\A d : Has(toServer', d) => Has(toServer, d))
      /\ Once(toServer, c) => ~Has(toServer', c)
  BY <1>1, ReadKinds
<1> QED
  BY <1>1, <1>2 DEF TakesTurns

\* The answer to it is the next and only one.
LEMMA AsksNext ==
  ASSUME TypeOK, \A d \in ToServerDialogue : ~Has(toServer, d),
         NEW k \in ToServerDialogue, NEW m \in Seq(ClientMessage), Sends(m),
         Len(m) > 0, \A i \in DOMAIN m : m[i].cmd = k
  PROVE  /\ \A d \in ToServerDialogue : Has(toServer', d) <=> d = k
         /\ At(toServer', k) = Len(toServer) + 1..Len(toServer) + Len(m)
         /\ \A i \in Len(toServer) + 1..Len(toServer) + Len(m) : toServer'[i] = m[i - Len(toServer)]
<1>1. toServer \in Seq(ClientMessage) /\ toServer' = toServer \o m /\ ~Has(toServer, k)
  BY DEF TypeOK, Sends
<1>2. /\ \A d : d # k => At(toServer', d) = At(toServer, d)
      /\ Has(toServer', k)
      /\ At(toServer', k) = Len(toServer) + 1..Len(toServer) + Len(m)
      /\ \A i \in Len(toServer) + 1..Len(toServer) + Len(m) : toServer'[i] = m[i - Len(toServer)]
  BY <1>1, WrittenKinds
<1> QED
  BY <1>2 DEF Has

LEMMA TellsNext ==
  ASSUME TypeOK, \A d \in ToClientDialogue : ~Has(toClient, d),
         NEW k \in ToClientDialogue, NEW m \in Seq(ServerMessage), Answers(m),
         Len(m) > 0, \A i \in DOMAIN m : m[i].cmd = k
  PROVE  /\ \A d \in ToClientDialogue : Has(toClient', d) <=> d = k
         /\ Has(toClient', "001") <=> Has(toClient, "001")
         /\ At(toClient', k) = Len(toClient) + 1..Len(toClient) + Len(m)
         /\ \A i \in Len(toClient) + 1..Len(toClient) + Len(m) : toClient'[i] = m[i - Len(toClient)]
<1>1. toClient \in Seq(ServerMessage) /\ toClient' = toClient \o m /\ ~Has(toClient, k)
  BY DEF TypeOK, Answers
<1>2. /\ \A d : d # k => At(toClient', d) = At(toClient, d)
      /\ Has(toClient', k)
      /\ At(toClient', k) = Len(toClient) + 1..Len(toClient) + Len(m)
      /\ \A i \in Len(toClient) + 1..Len(toClient) + Len(m) : toClient'[i] = m[i - Len(toClient)]
  BY <1>1, WrittenKinds
<1>3. k # "001"
  BY DEF ToClientDialogue
<1> QED
  BY <1>2, <1>3 DEF Has

\* A message of one kind on its own.
Single(m, k) == Len(m) = 1 /\ m[1].cmd = k

LEMMA SingleMessage ==
  ASSUME NEW S, NEW x \in S, NEW k, x.cmd = k
  PROVE  <<x>> \in Seq(S) /\ Single(<<x>>, k)
BY One DEF Single

LEMMA SingleIs ==
  ASSUME NEW S, NEW m \in Seq(S), NEW k, Single(m, k)
  PROVE  Len(m) = 1 /\ Len(m) > 0 /\ \A i \in DOMAIN m : m[i].cmd = k
BY DEF Single

LEMMA LengthOf ==
  ASSUME NEW S, NEW s \in Seq(S)
  PROVE  Len(s) \in Nat
OBVIOUS

LEMMA OnceAt ==
  ASSUME NEW channel, NEW k, NEW n \in Nat, At(channel, k) = n + 1..n + 1
  PROVE  Once(channel, k)
BY DEF Once

\* A client's handler that answers one message of the dialogue with another.
LEMMA Exchange ==
  ASSUME TypeOK, TakesTurns, Meaning, NEW c \in ToClientDialogue, Reads(c),
         c # "CAP LS" \/ ~Has(Tail(toClient), c),
         NEW k \in ToServerDialogue, NEW m \in Seq(ClientMessage), Single(m, k), Sends(m),
         saslCompleted => saslCompleted'
  PROVE  Has(toClient, c) /\ Asking(k)' /\ Once(toServer', k) /\ Welcomable'
<1>0. toServer \in Seq(ClientMessage)
  BY Zenon DEF TypeOK
<1>1. Len(m) = 1 /\ Len(m) > 0 /\ (\A i \in DOMAIN m : m[i].cmd = k) /\ Len(toServer) \in Nat
  BY <1>0, SingleIs, LengthOf, Zenon
<1>2. /\ Has(toClient, c) /\ Welcomable
      /\ \A d \in ToServerDialogue : ~Has(toServer, d)
      /\ \A d \in ToClientDialogue : ~Has(toClient', d)
      /\ Has(toClient', "001") => Has(toClient, "001")
  BY ReadsTurn
<1>3. /\ \A d \in ToServerDialogue : Has(toServer', d) <=> d = k
      /\ At(toServer', k) = Len(toServer) + 1..Len(toServer) + Len(m)
  BY <1>1, <1>2, AsksNext
<1>4. Once(toServer', k)
  BY <1>1, <1>3, OnceAt, Zenon
<1>5. UNCHANGED <<sasl, server, negotiating, accepted>>
  BY DEF Reads, config, remote
<1>6. Welcomable'
  BY <1>2, <1>5 DEF Welcomable, Released
<1> QED
  BY <1>2, <1>3, <1>4, <1>6 DEF Asking

\* The server's answer to a message of the dialogue, in one message.
LEMMA Reply ==
  ASSUME TypeOK, TakesTurns, Meaning, NEW c \in ToServerDialogue \ {"CAP LS"}, Takes(c),
         c # "CREDENTIALS" \/ ~Has(Tail(toServer), c),
         NEW k \in ToClientDialogue \ {"CAP LS"}, NEW m \in Seq(ServerMessage), Single(m, k), Answers(m),
         UNCHANGED negotiating, UNCHANGED accepted \/ server.capable
  PROVE  Has(toServer, c) /\ Telling(k)' /\ Once(toClient', k) /\ Welcomable'
<1>0. toClient \in Seq(ServerMessage)
  BY Zenon DEF TypeOK
<1>1. Len(m) = 1 /\ Len(m) > 0 /\ (\A i \in DOMAIN m : m[i].cmd = k) /\ Len(toClient) \in Nat
  BY <1>0, SingleIs, LengthOf, Zenon
<1>2. /\ Has(toServer, c)
      /\ \A d \in ToClientDialogue : ~Has(toClient, d)
      /\ \A d \in ToServerDialogue : ~Has(toServer', d)
  BY TakesTurn
<1>3. /\ \A d \in ToClientDialogue : Has(toClient', d) <=> d = k
      /\ Has(toClient', "001") <=> Has(toClient, "001")
      /\ At(toClient', k) = Len(toClient) + 1..Len(toClient) + Len(m)
  BY <1>1, <1>2, TellsNext
<1>4. Once(toClient', k)
  BY <1>1, <1>3, OnceAt, Zenon
<1>5. UNCHANGED <<sasl, saslCompleted, server, negotiating>>
  BY DEF Takes, config, client
<1>6. ~Has(toServer, "CAP LS")
  BY <1>2 DEF TakesTurns, ToServerDialogue
<1>7. Welcomable
  BY <1>6 DEF Welcomable, Meaning
<1>8. Released => Released'
  BY <1>5, Zenon DEF Released
<1>9. Welcomable'
  <2>1. ~negotiating' => ~negotiating
    BY Zenon
  <2>2. Has(toClient', "001") => Has(toClient, "001")
    BY <1>3, Zenon
  <2> QED
    BY <2>1, <2>2, <1>7, <1>8, Zenon DEF Welcomable
<1> QED
  BY <1>2, <1>3, <1>4, <1>9 DEF Telling

Followed(new, old, c) ==
  \A i, j \in At(new, c) : i < j => \E m, n \in At(old, c) : m < n /\ new[i] = old[m]

LEMMA KeptOrder ==
  ASSUME NEW new, NEW old, NEW c, Kept(new, old, c)
  PROVE  Followed(new, old, c)
<1> SUFFICES ASSUME NEW i \in At(new, c), NEW j \in At(new, c), i < j
             PROVE  \E m, n \in At(old, c) : m < n /\ new[i] = old[m]
  BY DEF Followed
<1>1. PICK k \in {0, 1} : \A m \in At(new, c) : m \in Nat /\ m + k \in At(old, c) /\ new[m] = old[m + k]
  BY Zenon DEF Kept
<1>2. i + k < j + k
  BY <1>1
<1> QED
  BY <1>1, <1>2, Zenon

\* Messages that keep what they are and the order they are in say the same.
LEMMA LsKept ==
  ASSUME Kept(toClient', toClient, "CAP LS"), UNCHANGED <<server, lsCaps>>, LsPending
  PROVE  LsPending'
<1> DEFINE new == toClient'
           ls == "CAP LS"
<1>1. PICK k \in {0, 1} :
        /\ \A i \in At(new, ls) : i \in Nat /\ i + k \in At(toClient, ls) /\ new[i] = toClient[i + k]
        /\ \A i \in At(toClient, ls) : i \in Nat /\ i - k \in At(new, ls) /\ new[i - k] = toClient[i]
  BY Zenon DEF Kept
<1>0. Followed(new, toClient, ls)
  BY KeptOrder, Zenon
<1> HIDE DEF new, ls
<1>2. /\ \A i, j \in At(toClient, ls) : i < j => toClient[i].more
      /\ \E i \in At(toClient, ls) : ~toClient[i].more
      /\ Offered <=> lsCaps \/ \E i \in At(toClient, ls) : toClient[i].sasl
  BY Zenon DEF LsPending, ls
<1>3. ASSUME NEW i \in At(new, ls), NEW j \in At(new, ls), i < j PROVE new[i].more
  <2>1. \E m, n \in At(toClient, ls) : m < n /\ new[i] = toClient[m]
    BY <1>0, <1>3, Zenon DEF Followed
  <2> QED
    BY <2>1, <1>2, Zenon
<1>4. \E i \in At(new, ls) : ~new[i].more
  BY <1>1, <1>2, Zenon
<1>5. (\E i \in At(new, ls) : new[i].sasl) <=> (\E i \in At(toClient, ls) : toClient[i].sasl)
  BY <1>1, Zenon
<1>6. (Offered' <=> Offered) /\ (lsCaps' <=> lsCaps)
  BY DEF Offered
<1>7. Offered' <=> lsCaps' \/ \E i \in At(new, ls) : new[i].sasl
  BY <1>2, <1>5, <1>6, Zenon
<1> QED
  BY <1>3, <1>4, <1>7, Zenon DEF LsPending, new, ls

LEMMA ResponseKept ==
  ASSUME Kept(toServer', toServer, "CREDENTIALS"), UNCHANGED <<blob, received>>,
         toServer \in Seq(ClientMessage), \E a, b \in DOMAIN toServer : ResponsePending(a, b)
  PROVE  \E a, b \in DOMAIN toServer' : ResponsePending(a, b)'
<1> DEFINE new == toServer'
           c == "CREDENTIALS"
           last == blob % ChunkSize
<1>1. PICK k \in {0, 1} :
        /\ \A i \in At(new, c) : i \in Nat /\ i + k \in At(toServer, c) /\ new[i] = toServer[i + k]
        /\ \A i \in At(toServer, c) : i \in Nat /\ i - k \in At(new, c) /\ new[i - k] = toServer[i]
  BY Zenon DEF Kept
<1>2. PICK a \in DOMAIN toServer, b \in DOMAIN toServer : ResponsePending(a, b)
  BY Zenon
<1>3. a \in Nat /\ b \in Nat
  OBVIOUS
<1> HIDE DEF new, c, last
<1>4. /\ At(toServer, c) = a..b /\ a <= b
      /\ \A i \in a..b : toServer[i].size = IF i < b THEN ChunkSize ELSE last
      /\ received + (b - a) * ChunkSize + last = blob
  BY <1>2, Zenon DEF ResponsePending, c, last
<1>5. a - k \in At(new, c) /\ b - k \in At(new, c)
  BY <1>1, <1>3, <1>4
<1>6. a - k \in DOMAIN new /\ b - k \in DOMAIN new
  BY <1>5 DEF At
<1>7. At(new, c) = (a - k)..(b - k)
  <2>1. ASSUME NEW i \in At(new, c) PROVE i \in (a - k)..(b - k)
    BY <1>1, <1>3, <1>4, <2>1
  <2>2. ASSUME NEW i \in (a - k)..(b - k) PROVE i \in At(new, c)
    <3>1. i + k \in a..b /\ (i + k) - k = i
      BY <1>3, <2>2
    <3> QED
      BY <1>1, <1>4, <3>1
  <2> QED
    BY <2>1, <2>2
<1>8. ASSUME NEW i \in (a - k)..(b - k)
      PROVE  new[i].size = IF i < b - k THEN ChunkSize ELSE last
  <2>1. i + k \in a..b /\ new[i] = toServer[i + k]
    BY <1>1, <1>4, <1>7
  <2>2. i + k < b <=> i < b - k
    BY <1>3
  <2> QED
    BY <1>4, <2>1, <2>2
<1>9. a - k <= b - k /\ (b - k) - (a - k) = b - a
  BY <1>3, <1>4
<1>10. received' + ((b - k) - (a - k)) * ChunkSize + last = blob' /\ blob' = blob
  BY <1>4, <1>9
<1>11. ResponsePending(a - k, b - k)'
  BY <1>7, <1>8, <1>9, <1>10 DEF ResponsePending, new, c, last
<1> QED
  BY <1>6, <1>11 DEF new

\* A step outside the dialogue: it neither reads nor writes a message of it.
LEMMA QuietKeepsSaslInv ==
  ASSUME toServer \in Seq(ClientMessage), TakesTurns, Meaning,
         UNCHANGED <<sasl, blob, server, lsCaps, saslCompleted, negotiating, received, accepted>>,
         \A d \in ToServerDialogue : Kept(toServer', toServer, d),
         \A d \in ToClientDialogue : Kept(toClient', toClient, d),
         Has(toClient', "001") => Released,
         Has(toServer, "CAP LS") => toServer'[1].cmd = "CAP LS" /\ nickHeld' = {} /\ ~Has(toClient', "001")
  PROVE  SaslInv'
<1>1. /\ \A d \in ToServerDialogue : (Has(toServer', d) <=> Has(toServer, d)) /\ (Once(toServer, d) => Once(toServer', d))
      /\ \A d \in ToClientDialogue : (Has(toClient', d) <=> Has(toClient, d)) /\ (Once(toClient, d) => Once(toClient', d))
  BY KeptMeans, Zenon
<1>2. TakesTurns'
  BY <1>1 DEF TakesTurns
<1>3. /\ Has(toServer', "CAP LS") <=> Has(toServer, "CAP LS")
      /\ Has(toServer', "CAP REQ") <=> Has(toServer, "CAP REQ")
      /\ Has(toServer', "AUTHENTICATE PLAIN") <=> Has(toServer, "AUTHENTICATE PLAIN")
      /\ Has(toServer', "CREDENTIALS") <=> Has(toServer, "CREDENTIALS")
      /\ Has(toServer', "CAP END") <=> Has(toServer, "CAP END")
      /\ Has(toClient', "CAP LS") <=> Has(toClient, "CAP LS")
      /\ Has(toClient', "CAP ACK") <=> Has(toClient, "CAP ACK")
      /\ Has(toClient', "CAP NAK") <=> Has(toClient, "CAP NAK")
      /\ Has(toClient', "AUTHENTICATE +") <=> Has(toClient, "AUTHENTICATE +")
      /\ Has(toClient', "903") <=> Has(toClient, "903")
      /\ Has(toClient', "904") <=> Has(toClient, "904")
  BY <1>1 DEF ToServerDialogue, ToClientDialogue
<1>4. LsPending => LsPending'
  BY LsKept DEF ToClientDialogue
<1>5. (\E a, b \in DOMAIN toServer : ResponsePending(a, b))
        => (\E a, b \in DOMAIN toServer : ResponsePending(a, b))'
  BY ResponseKept DEF ToServerDialogue
<1>6. /\ (Unasked' <=> Unasked) /\ (Offered' <=> Offered) /\ (Released' <=> Released)
      /\ (sasl' <=> sasl) /\ server' = server /\ (lsCaps' <=> lsCaps) /\ (saslCompleted' <=> saslCompleted)
      /\ (negotiating' <=> negotiating) /\ (accepted' <=> accepted)
  BY DEF Unasked, Offered, Released
<1>7. /\ Has(toServer', "CAP LS") =>
           /\ Unasked' /\ ~lsCaps' /\ ~negotiating'
           /\ toServer'[1].cmd = "CAP LS" /\ nickHeld' = {} /\ ~Has(toClient', "001")
      /\ Has(toClient', "CAP LS") => Unasked' /\ server'.capable /\ LsPending'
  BY <1>3, <1>4, <1>6, Zenon DEF Meaning
<1>8. /\ Has(toServer', "CAP REQ") => Unasked' /\ sasl' /\ Offered'
      /\ Has(toClient', "CAP ACK") => Unasked' /\ sasl' /\ Offered' /\ server'.acks
      /\ Has(toClient', "CAP NAK") => ~accepted' /\ sasl' /\ ~server'.acks
      /\ Has(toServer', "AUTHENTICATE PLAIN") => Unasked' /\ sasl' /\ Offered' /\ server'.acks
      /\ Has(toClient', "AUTHENTICATE +") => Unasked' /\ sasl' /\ Offered' /\ server'.acks /\ server'.plain
  BY <1>3, <1>6, Zenon DEF Meaning
<1>9. Has(toServer', "CREDENTIALS") =>
        ~accepted' /\ sasl' /\ Offered' /\ server'.plain /\ (\E a, b \in DOMAIN toServer : ResponsePending(a, b))'
  BY <1>3, <1>5, <1>6, Zenon DEF Meaning
<1>10. /\ Has(toClient', "903") => accepted'
       /\ Has(toClient', "904") => ~accepted' /\ sasl' /\ ~(server'.plain /\ server'.accepts)
       /\ Has(toServer', "CAP END") => (sasl' => saslCompleted')
       /\ ~Has(toServer', "CAP LS") /\ ~negotiating' => Released'
       /\ Has(toClient', "001") => Released'
  BY <1>3, <1>6, Zenon DEF Meaning
<1>11. Meaning'
  BY <1>7, <1>8, <1>9, <1>10, Zenon DEF Meaning
<1> QED
  BY <1>2, <1>11 DEF SaslInv

LEMMA KeptBySingle ==
  ASSUME NEW S, NEW old \in Seq(S), NEW m \in Seq(S), NEW k, Single(m, k)
  PROVE  /\ \A c : c # k => Kept(old \o m, old, c)
         /\ old # <<>> => (old \o m)[1] = old[1]
<1>1. m = <<m[1]>> /\ m[1] \in S /\ m[1].cmd = k
  BY DEF Single
<1> QED
  BY <1>1, KeptAsWritten

LEMMA HeadIs ==
  ASSUME NEW S, NEW s \in Seq(S), s # <<>>
  PROVE  Head(s) = s[1]
OBVIOUS

LEMMA NonEmpty ==
  ASSUME NEW channel, NEW c, Has(channel, c)
  PROVE  channel # <<>>
BY Empty DEF Has

\* The client reads a message of no dialogue and answers with none of it.
LEMMA ClientQuiet ==
  ASSUME TypeOK, SaslInv, NEW c \in {"PING", "433"}, Reads(c), UNCHANGED <<lsCaps, saslCompleted>>,
         NEW k \in {"NICK", "PONG"}, NEW m \in Seq(ClientMessage), Single(m, k), Sends(m)
  PROVE  SaslInv'
<1>1. /\ toServer \in Seq(ClientMessage) /\ toClient \in Seq(ServerMessage)
      /\ toClient # <<>> /\ Head(toClient).cmd = c /\ toClient' = Tail(toClient)
      /\ toServer' = toServer \o m /\ outcome = "registering"
      /\ UNCHANGED <<sasl, blob, server, lsCaps, saslCompleted, negotiating, received, accepted>>
      /\ UNCHANGED nickHeld
  BY DEF TypeOK, Reads, Sends, config, remote
<1>2. TakesTurns /\ Meaning
  BY <1>1 DEF SaslInv
<1>3. ASSUME NEW d \in ToClientDialogue PROVE Kept(toClient', toClient, d)
  <2>1. c # d
    BY DEF ToClientDialogue
  <2> QED
    BY <1>1, <2>1, KeptAsRead
<1>4. ASSUME NEW d \in ToServerDialogue PROVE Kept(toServer', toServer, d)
  <2>1. k # d
    BY DEF ToServerDialogue
  <2> QED
    BY <1>1, <2>1, KeptBySingle
<1>5. Has(toClient', "001") => Has(toClient, "001")
  BY <1>1, ReadKinds
<1>6. Has(toServer, "CAP LS") => toServer'[1] = toServer[1]
  BY <1>1, NonEmpty, KeptBySingle
<1>7. Has(toClient', "001") => Released
  BY <1>2, <1>5 DEF Meaning
<1>8. Has(toServer, "CAP LS") => toServer'[1].cmd = "CAP LS" /\ nickHeld' = {} /\ ~Has(toClient', "001")
  BY <1>1, <1>2, <1>5, <1>6 DEF Meaning
<1> QED
  BY <1>1, <1>2, <1>3, <1>4, <1>7, <1>8, QuietKeepsSaslInv, Zenon

\* The server takes a message of no dialogue and answers with none of it.
LEMMA ServerQuiet ==
  ASSUME TypeOK, SaslInv, NEW c \in {"NICK", "USER", "PONG"}, Takes(c),
         UNCHANGED <<negotiating, received, accepted>>,
         UNCHANGED toClient \/ \E m \in Seq(ServerMessage) : Single(m, "433") /\ Answers(m)
  PROVE  SaslInv'
<1>1. /\ toServer \in Seq(ClientMessage) /\ toClient \in Seq(ServerMessage)
      /\ toServer # <<>> /\ Head(toServer).cmd = c /\ toServer' = Tail(toServer)
      /\ outcome = "registering"
      /\ UNCHANGED <<sasl, blob, server, lsCaps, saslCompleted, negotiating, received, accepted>>
  BY DEF TypeOK, Takes, Serving, config, client
<1>2. TakesTurns /\ Meaning
  BY <1>1 DEF SaslInv
<1>3. ASSUME NEW d \in ToServerDialogue PROVE Kept(toServer', toServer, d)
  <2>1. c # d
    BY DEF ToServerDialogue
  <2> QED
    BY <1>1, <2>1, KeptAsRead
<1>4. \A d : d # "433" => Kept(toClient', toClient, d)
  <2>1. CASE UNCHANGED toClient
    BY <1>1, <2>1, KeptBy
  <2>2. ASSUME NEW m \in Seq(ServerMessage), Single(m, "433"), Answers(m)
        PROVE  \A d : d # "433" => Kept(toClient', toClient, d)
    <3>1. toClient' = toClient \o m
      BY <2>2, Zenon DEF Answers
    <3>2. \A d : d # "433" => Kept(toClient \o m, toClient, d)
      BY <1>1, <2>2, KeptBySingle
    <3> QED
      BY <3>1, <3>2
  <2> QED
    BY <2>1, <2>2, Zenon
<1>5. \A d \in ToClientDialogue : Kept(toClient', toClient, d)
  <2>1. \A d \in ToClientDialogue : d # "433"
    BY DEF ToClientDialogue
  <2> QED
    BY <1>4, <2>1, Zenon
<1>6. Has(toClient', "001") <=> Has(toClient, "001")
  BY <1>4, KeptMeans, "001" # "433", Zenon
<1>7. Has(toClient', "001") => Released
  BY <1>2, <1>6 DEF Meaning
<1>8. ~Has(toServer, "CAP LS")
  <2>0. c # "CAP LS"
    OBVIOUS
  <2>1. toServer[1].cmd = c
    BY <1>1, HeadIs, Zenon
  <2>2. Has(toServer, "CAP LS") => toServer[1].cmd = "CAP LS"
    BY <1>2, Zenon DEF Meaning
  <2> QED
    BY <2>0, <2>1, <2>2
<1> QED
  BY <1>1, <1>2, <1>3, <1>5, <1>7, <1>8, QuietKeepsSaslInv, Zenon

\* The server sends what nobody asked for, or its welcome.
LEMMA ServerSpeaks ==
  ASSUME TypeOK, SaslInv, outcome = "registering", UNCHANGED <<config, client, toServer, nickHeld>>,
         UNCHANGED <<negotiating, received, accepted>>,
         NEW k \in {"PING", "ERROR", "001"}, NEW m \in Seq(ServerMessage), Single(m, k), Answers(m),
         k = "001" => nickHeld # {} /\ ~negotiating
  PROVE  SaslInv'
<1>1. /\ toServer \in Seq(ClientMessage) /\ toClient \in Seq(ServerMessage)
      /\ toClient' = toClient \o m /\ toServer' = toServer /\ nickHeld' = nickHeld
      /\ UNCHANGED <<sasl, blob, server, lsCaps, saslCompleted, negotiating, received, accepted>>
  BY DEF TypeOK, Answers, config, client
<1>2. TakesTurns /\ Meaning
  BY DEF SaslInv
<1>3. ASSUME NEW d \in ToServerDialogue PROVE Kept(toServer', toServer, d)
  BY <1>1, KeptBy
<1>4. \A d : d # k => Kept(toClient', toClient, d)
  BY <1>1, KeptBySingle, Zenon
<1>5. \A d \in ToClientDialogue : Kept(toClient', toClient, d)
  <2>1. \A d \in ToClientDialogue : d # k
    BY DEF ToClientDialogue
  <2> QED
    BY <1>4, <2>1, Zenon
<1>6. k # "001" => (Has(toClient', "001") <=> Has(toClient, "001"))
  BY <1>4, KeptMeans, Zenon
<1>7. Has(toClient', "001") => Released
  BY <1>2, <1>6 DEF Meaning
<1>8. Has(toServer, "CAP LS") => toServer'[1].cmd = "CAP LS" /\ nickHeld' = {} /\ ~Has(toClient', "001")
  BY <1>1, <1>2, <1>6 DEF Meaning
<1> QED
  BY <1>1, <1>2, <1>3, <1>5, <1>7, <1>8, QuietKeepsSaslInv, Zenon

\* The client's answers in the dialogue.
LEMMA OnCapAckKeeps ==
  ASSUME TypeOK, SaslInv, OnCapAck
  PROVE  SaslInv'
<1> DEFINE m == <<Msg("AUTHENTICATE PLAIN")>>
<1>1. TakesTurns /\ Meaning /\ Reads("CAP ACK") /\ Sends(m) /\ UNCHANGED client
  BY Zenon DEF SaslInv, OnCapAck, Reads
<1>2. m \in Seq(ClientMessage) /\ Single(m, "AUTHENTICATE PLAIN")
  BY CommandType, SingleMessage
<1> HIDE DEF m
<1>3. /\ Has(toClient, "CAP ACK") /\ Asking("AUTHENTICATE PLAIN")' /\ Once(toServer', "AUTHENTICATE PLAIN")
      /\ Welcomable'
  BY <1>1, <1>2, Exchange DEF client, ToServerDialogue, ToClientDialogue
<1>4. Unasked /\ sasl /\ Offered /\ server.acks
  BY <1>1, <1>3, Zenon DEF Meaning
<1>5. Unasked' /\ sasl' /\ Offered' /\ server'.acks
  BY <1>1, <1>4 DEF Reads, Unasked, Offered, client, config, remote
<1> QED
  BY <1>3, <1>5, AskingKeeps DEF ToServerDialogue

LEMMA OnSaslSuccessKeeps ==
  ASSUME TypeOK, SaslInv, OnSaslSuccess
  PROVE  SaslInv'
<1> DEFINE m == <<Msg("CAP END")>>
<1>1. TakesTurns /\ Meaning /\ Reads("903") /\ Sends(m) /\ saslCompleted'
  BY Zenon DEF SaslInv, OnSaslSuccess, Reads
<1>2. m \in Seq(ClientMessage) /\ Single(m, "CAP END")
  BY CommandType, SingleMessage
<1> HIDE DEF m
<1>3. Asking("CAP END")' /\ Once(toServer', "CAP END") /\ Welcomable'
  BY <1>1, <1>2, Exchange DEF ToServerDialogue, ToClientDialogue
<1> QED
  BY <1>1, <1>3, AskingKeeps DEF ToServerDialogue

LEMMA DivMod ==
  ASSUME NEW n \in Nat
  PROVE  /\ (n \div ChunkSize) * ChunkSize + (n % ChunkSize) = n
         /\ n \div ChunkSize \in Nat /\ n % ChunkSize \in 0..(ChunkSize - 1)
BY BlobAssumption

LEMMA ChunkSizes ==
  ASSUME NEW size \in Nat
  PROVE  \A i \in 1..(size \div ChunkSize) + 1 :
           Chunks(size)[i].size = IF i <= size \div ChunkSize THEN ChunkSize ELSE size % ChunkSize
BY DEF Chunks

\* What Chunks puts on the channel are the credentials, whole.
LEMMA ChunksPending ==
  ASSUME NEW n \in Nat, blob \in Nat, UNCHANGED blob, received' = 0,
         At(toServer', "CREDENTIALS") = n + 1..n + Len(Chunks(blob)),
         \A i \in n + 1..n + Len(Chunks(blob)) : toServer'[i] = Chunks(blob)[i - n]
  PROVE  (\E a, b \in DOMAIN toServer : ResponsePending(a, b))'
<1> DEFINE full == blob \div ChunkSize
           last == blob % ChunkSize
           chunks == Chunks(blob)
           new == toServer'
           l == Len(chunks)
<1>1. full * ChunkSize + last = blob
  BY DivMod, Zenon
<1>2. full \in Nat
  BY DivMod, Zenon
<1>3. l = full + 1
  BY ChunksType, Zenon
<1>4. \A i \in 1..full + 1 : chunks[i].size = IF i <= full THEN ChunkSize ELSE last
  BY ChunkSizes, Zenon
<1>5. At(new, "CREDENTIALS") = n + 1..n + l /\ \A i \in n + 1..n + l : new[i] = chunks[i - n]
  BY Zenon
<1> HIDE DEF full, last, chunks, new, l
<1>6. PICK a \in Nat, b \in Nat : a = n + 1 /\ b = n + l
  <2>1. n + 1 \in Nat /\ n + l \in Nat
    BY <1>3, <1>2
  <2> QED
    BY <2>1, Zenon
<1>7. a <= b /\ b - a = full
  BY <1>3, <1>6, <1>2
<1>8. At(new, "CREDENTIALS") = a..b /\ \A i \in a..b : new[i] = chunks[i - n]
  BY <1>5, <1>6, Zenon
<1>9. ASSUME NEW i \in a..b PROVE new[i].size = IF i < b THEN ChunkSize ELSE last
  <2>1. i - n \in 1..full + 1 /\ (i - n <= full <=> i < b)
    BY <1>3, <1>6, <1>2
  <2>2. new[i] = chunks[i - n]
    BY <1>8, Zenon
  <2> QED
    BY <1>4, <2>1, <2>2
<1>10. a \in DOMAIN new /\ b \in DOMAIN new
  <2>1. a \in a..b /\ b \in a..b
    BY <1>7
  <2>2. a \in At(new, "CREDENTIALS") /\ b \in At(new, "CREDENTIALS")
    BY <1>8, <2>1, Zenon
  <2> QED
    BY <2>2, Zenon DEF At
<1>11. 0 + (b - a) * ChunkSize + last = blob
  <2>1. ChunkSize \in Nat /\ blob \in Nat /\ last \in Nat
    BY DivMod, BlobAssumption DEF last
  <2>2. (b - a) * ChunkSize + last = blob
    BY <1>1, <1>7, Zenon
  <2>3. (b - a) * ChunkSize \in Int
    BY <1>7, <2>1
  <2> HIDE DEF last
  <2> QED
    BY <2>1, <2>2, <2>3
<1>12. blob' % ChunkSize = last
  BY DEF last
<1>13. received' + (b - a) * ChunkSize + last = blob'
  BY <1>11
<1>14. ResponsePending(a, b)'
  BY <1>7, <1>9, <1>8, <1>12, <1>13, Zenon DEF ResponsePending, new
<1> QED
  BY <1>10, <1>14, Zenon DEF new

LEMMA OnAuthenticateKeeps ==
  ASSUME TypeOK, SaslInv, OnAuthenticate
  PROVE  SaslInv'
<1> DEFINE m == Chunks(blob)
           c == "CREDENTIALS"
           n == Len(toServer)
<1>1. TakesTurns /\ Meaning /\ Reads("AUTHENTICATE +") /\ Sends(m) /\ UNCHANGED client
  BY Zenon DEF SaslInv, OnAuthenticate, Reads
<1>2. blob \in Nat /\ toServer \in Seq(ClientMessage)
  BY BlobAssumption DEF TypeOK
<1>3. m \in Seq(ClientMessage) /\ Len(m) > 0 /\ (\A i \in DOMAIN m : m[i].cmd = c) /\ n \in Nat
  BY <1>2, ChunksType, LengthOf, Zenon
<1> HIDE DEF m, n
<1>4. /\ Has(toClient, "AUTHENTICATE +") /\ Welcomable
      /\ \A d \in ToServerDialogue : ~Has(toServer, d)
      /\ \A d \in ToClientDialogue : ~Has(toClient', d)
      /\ Has(toClient', "001") => Has(toClient, "001")
  BY <1>1, ReadsTurn DEF ToClientDialogue
<1>5. /\ \A d \in ToServerDialogue : Has(toServer', d) <=> d = c
      /\ At(toServer', c) = n + 1..n + Len(m)
      /\ \A i \in n + 1..n + Len(m) : toServer'[i] = m[i - n]
  BY <1>1, <1>3, <1>4, AsksNext DEF n, ToServerDialogue
<1>6. Unasked /\ sasl /\ Offered /\ server.plain
  BY <1>1, <1>4, Zenon DEF Meaning
<1>7. /\ ~accepted' /\ sasl' /\ Offered' /\ server'.plain /\ received' = 0
      /\ blob' = blob /\ (negotiating' <=> negotiating) /\ (Released => Released')
  BY <1>1, <1>6 DEF Reads, Unasked, Offered, Released, client, config, remote
<1>8. (\E a, b \in DOMAIN toServer : ResponsePending(a, b))'
  BY <1>2, <1>3, <1>5, <1>7, ChunksPending, Zenon DEF m, c
<1>9. Welcomable'
  BY <1>4, <1>7, Zenon DEF Welcomable
<1>10. Asking(c)'
  BY <1>4, <1>5 DEF Asking
<1>11. (~accepted /\ sasl /\ Offered /\ server.plain /\ \E a, b \in DOMAIN toServer : ResponsePending(a, b))'
  BY <1>7, <1>8, Zenon
<1> QED
  BY <1>9, <1>10, <1>11, AskingKeeps DEF ToServerDialogue

\* The messages of a kind on a channel, as the first of them is read.
MovedUp(new, old, c) ==
  /\ 1 \in At(old, c)
  /\ \A i \in At(new, c) : i + 1 \in At(old, c) /\ i + 1 # 1 /\ new[i] = old[i + 1]
  /\ \A i \in At(old, c) : i # 1 => 1 < i /\ i - 1 \in At(new, c) /\ new[i - 1] = old[i]
  /\ \A i, j \in At(new, c) : i < j => i + 1 < j + 1

LEMMA ReadMovesUp ==
  ASSUME NEW S, NEW old \in Seq(S), old # <<>>, NEW c, Head(old).cmd = c
  PROVE  MovedUp(Tail(old), old, c) /\ old[1] = Head(old)
<1> DEFINE new == Tail(old)
<1>1. /\ DOMAIN old = 1..Len(old) /\ Len(old) \in Nat \ {0} /\ old[1] = Head(old) /\ old[1].cmd = c
      /\ DOMAIN new = 1..Len(old) - 1 /\ \A i \in 1..Len(old) - 1 : new[i] = old[i + 1]
  OBVIOUS
<1> HIDE DEF new
<1>2. 1 \in At(old, c)
  BY <1>1 DEF At
<1>3. \A i \in At(new, c) : i \in Nat /\ i + 1 \in At(old, c) /\ i + 1 # 1 /\ new[i] = old[i + 1]
  BY <1>1 DEF At
<1>4. ASSUME NEW i \in At(old, c), i # 1 PROVE 1 < i /\ i - 1 \in At(new, c) /\ new[i - 1] = old[i]
  <2>1. 1 < i /\ i - 1 \in 1..Len(old) - 1 /\ (i - 1) + 1 = i /\ old[i].cmd = c
    BY <1>1, <1>4 DEF At
  <2> QED
    BY <1>1, <2>1 DEF At
<1>5. \A i, j \in At(new, c) : i < j => i + 1 < j + 1
  BY <1>3
<1> QED
  BY <1>1, <1>2, <1>3, <1>4, <1>5 DEF MovedUp, new

\* What is left of the server's answer once a line that is not its last is read.
LEMMA LsReadOn ==
  ASSUME LsPending, MovedUp(toClient', toClient, "CAP LS"), toClient[1].more,
         UNCHANGED server, lsCaps' <=> lsCaps \/ toClient[1].sasl
  PROVE  LsPending' /\ Has(toClient', "CAP LS")
<1> DEFINE new == toClient'
           ls == "CAP LS"
<1>1. /\ 1 \in At(toClient, ls)
      /\ \A i \in At(new, ls) : i + 1 \in At(toClient, ls) /\ i + 1 # 1 /\ new[i] = toClient[i + 1]
      /\ \A i \in At(toClient, ls) : i # 1 => i - 1 \in At(new, ls) /\ new[i - 1] = toClient[i]
      /\ \A i, j \in At(new, ls) : i < j => i + 1 < j + 1
  BY Zenon DEF MovedUp
<1>2. /\ \A i, j \in At(toClient, ls) : i < j => toClient[i].more
      /\ \E i \in At(toClient, ls) : ~toClient[i].more
      /\ Offered <=> lsCaps \/ \E i \in At(toClient, ls) : toClient[i].sasl
  BY Zenon DEF LsPending
<1> HIDE DEF new, ls
<1>3. ASSUME NEW i \in At(new, ls), NEW j \in At(new, ls), i < j PROVE new[i].more
  BY <1>1, <1>2, <1>3, Zenon
<1>4. \E i \in At(new, ls) : ~new[i].more
  <2>1. PICK i \in At(toClient, ls) : ~toClient[i].more
    BY <1>2, Zenon
  <2>2. i # 1
    BY <2>1, Zenon
  <2> QED
    BY <1>1, <2>1, <2>2, Zenon
<1>5. (\E i \in At(toClient, ls) : toClient[i].sasl) <=> toClient[1].sasl \/ (\E i \in At(new, ls) : new[i].sasl)
  <2>1. ASSUME NEW i \in At(toClient, ls), toClient[i].sasl
        PROVE  toClient[1].sasl \/ \E j \in At(new, ls) : new[j].sasl
    <3>1. CASE i = 1
      BY <2>1, <3>1, Zenon
    <3>2. CASE i # 1
      BY <1>1, <2>1, <3>2, Zenon
    <3> QED
      BY <3>1, <3>2, Zenon
  <2>2. ASSUME NEW j \in At(new, ls), new[j].sasl PROVE \E i \in At(toClient, ls) : toClient[i].sasl
    BY <1>1, <2>2, Zenon
  <2> QED
    BY <1>1, <2>1, <2>2, Zenon
<1>6. Offered' <=> Offered
  BY DEF Offered
<1>7. Offered' <=> lsCaps' \/ \E i \in At(new, ls) : new[i].sasl
  BY <1>2, <1>5, <1>6, Zenon
<1>8. LsPending'
  BY <1>3, <1>4, <1>7, Zenon DEF LsPending, new, ls
<1>9. Has(new, ls)
  BY <1>4, Zenon DEF Has
<1> QED
  BY <1>8, <1>9, Zenon DEF new, ls

\* And once its last line is: none, and lsCaps says what the server offers.
LEMMA LsReadLast ==
  ASSUME LsPending, MovedUp(toClient', toClient, "CAP LS"), ~toClient[1].more,
         lsCaps' <=> lsCaps \/ toClient[1].sasl
  PROVE  (Offered <=> lsCaps') /\ ~Has(toClient', "CAP LS")
<1>1. /\ 1 \in At(toClient, "CAP LS")
      /\ \A i \in At(toClient', "CAP LS") : i + 1 \in At(toClient, "CAP LS") /\ i + 1 # 1
      /\ \A i \in At(toClient, "CAP LS") : i # 1 => 1 < i
  BY Zenon DEF MovedUp
<1>2. /\ \A i, j \in At(toClient, "CAP LS") : i < j => toClient[i].more
      /\ Offered <=> lsCaps \/ \E i \in At(toClient, "CAP LS") : toClient[i].sasl
  BY Zenon DEF LsPending
<1>3. \A i \in At(toClient, "CAP LS") : i = 1
  BY <1>1, <1>2, Zenon
<1>4. Offered <=> lsCaps'
  BY <1>1, <1>2, <1>3, Zenon
<1>5. ~Has(toClient', "CAP LS")
  BY <1>1, <1>3, Zenon DEF Has
<1> QED
  BY <1>4, <1>5, Zenon

LEMMA OnCapLsKeeps ==
  ASSUME TypeOK, SaslInv, OnCapLs
  PROVE  SaslInv'
<1> DEFINE ls == "CAP LS"
<1>1. TakesTurns /\ Meaning /\ Reads(ls)
  BY Zenon DEF SaslInv, OnCapLs, Reads
<1>2. /\ toClient \in Seq(ServerMessage) /\ toClient # <<>> /\ Head(toClient).cmd = ls /\ toClient' = Tail(toClient)
      /\ UNCHANGED <<sasl, server, negotiating, received, accepted, saslCompleted>>
      /\ outcome = "registering"
  BY <1>1 DEF TypeOK, Reads, config, remote, OnCapLs
<1>3. Head(toClient) = toClient[1] /\ MovedUp(toClient', toClient, ls)
  BY <1>2, ReadMovesUp
<1>4. lsCaps' <=> lsCaps \/ toClient[1].sasl
  BY <1>3, Zenon DEF OnCapLs
<1>5. /\ Has(toClient, ls) /\ (\A d : Has(toClient', d) => Has(toClient, d))
  BY <1>2, ReadKinds
<1>6. Unasked /\ server.capable /\ LsPending
  BY <1>1, <1>5, Zenon DEF Meaning
<1>7. Unasked' /\ server'.capable /\ (sasl' <=> sasl) /\ (Offered' <=> Offered)
  BY <1>2, <1>6 DEF Unasked, Offered
<1>8. CASE toClient[1].more
  <2>1. LsPending' /\ Has(toClient', ls)
    BY <1>2, <1>3, <1>4, <1>6, <1>8, LsReadOn
  <2>2. toServer' = toServer
    BY <1>3, <1>8, Zenon DEF OnCapLs
  <2>3. /\ \A d \in ToServerDialogue : ~Has(toServer, d)
        /\ \A d \in ToClientDialogue : Has(toClient, d) <=> d = ls
    BY <1>1, <1>5 DEF TakesTurns, ToClientDialogue
  <2>4. Telling(ls)'
    BY <1>5, <2>1, <2>2, <2>3 DEF Telling
  <2>5. Welcomable
    BY <1>1, <2>3 DEF Welcomable, Meaning, ToServerDialogue
  <2>6. Welcomable'
    BY <1>2, <1>5, <2>5 DEF Welcomable, Released
  <2> QED
    BY <1>7, <2>1, <2>4, <2>6, TellingKeeps DEF ToClientDialogue
<1>9. CASE ~toClient[1].more
  <2>1. (Offered <=> lsCaps') /\ ~Has(toClient', ls)
    BY <1>3, <1>4, <1>6, <1>9, LsReadLast
  <2>2. ls # "CAP LS" \/ ~Has(Tail(toClient), ls)
    BY <1>2, <2>1
  <2>3. ASSUME NEW k \in {"CAP END", "CAP REQ"}, Sends(<<Msg(k)>>)
        PROVE  Asking(k)' /\ Once(toServer', k) /\ Welcomable'
    <3>1. <<Msg(k)>> \in Seq(ClientMessage) /\ Single(<<Msg(k)>>, k)
      BY CommandType, SingleMessage
    <3>2. k \in ToServerDialogue /\ ls \in ToClientDialogue
      BY DEF ToServerDialogue, ToClientDialogue
    <3> QED
      BY <1>1, <1>2, <2>2, <2>3, <3>1, <3>2, Exchange, Zenon
  <2>4. CASE ~sasl /\ Sends(<<Msg("CAP END")>>)
    <3>1. Asking("CAP END")' /\ Once(toServer', "CAP END") /\ Welcomable'
      BY <2>3, <2>4, Zenon
    <3> QED
      BY <1>7, <2>4, <3>1, AskingKeeps DEF ToServerDialogue
  <2>5. CASE sasl /\ lsCaps' /\ Sends(<<Msg("CAP REQ")>>)
    <3>1. Asking("CAP REQ")' /\ Once(toServer', "CAP REQ") /\ Welcomable'
      BY <2>3, <2>5, Zenon
    <3> QED
      BY <1>7, <2>1, <2>5, <3>1, AskingKeeps DEF ToServerDialogue
  <2>6. CASE outcome' = "rejected"
    BY <2>6 DEF SaslInv
  <2> QED
    BY <1>3, <1>9, <2>4, <2>5, <2>6, Zenon DEF OnCapLs
<1> QED
  BY <1>8, <1>9

\* The server's answers in the dialogue.
LEMMA TakesCapReqKeeps ==
  ASSUME TypeOK, SaslInv, TakesCapReq
  PROVE  SaslInv'
<1>1. /\ TakesTurns /\ Meaning /\ Takes("CAP REQ")
      /\ Answers(<<Msg(IF server.acks THEN "CAP ACK" ELSE "CAP NAK")>>)
      /\ UNCHANGED negotiating /\ UNCHANGED <<received, accepted>>
  BY DEF SaslInv, TakesCapReq, Takes, Serving
<1>2. PICK k \in {"CAP ACK", "CAP NAK"} : (k = "CAP ACK" <=> server.acks) /\ Answers(<<Msg(k)>>)
  BY <1>1
<1> DEFINE m == <<Msg(k)>>
<1>3. m \in Seq(ServerMessage) /\ Single(m, k) /\ Answers(m)
  BY <1>2, ReplyType, SingleMessage DEF Replies
<1> HIDE DEF m
<1>4. Has(toServer, "CAP REQ") /\ Telling(k)' /\ Once(toClient', k) /\ Welcomable'
  BY <1>1, <1>3, Reply DEF ToServerDialogue, ToClientDialogue
<1>5. Unasked /\ sasl /\ Offered
  BY <1>1, <1>4, Zenon DEF Meaning
<1>6. Unasked' /\ ~accepted' /\ sasl' /\ Offered' /\ (server'.acks <=> server.acks)
  BY <1>1, <1>5 DEF Takes, Unasked, Offered, config, client
<1> QED
  BY <1>2, <1>4, <1>6, TellingKeeps DEF ToClientDialogue

LEMMA TakesMechanismKeeps ==
  ASSUME TypeOK, SaslInv, TakesMechanism
  PROVE  SaslInv'
<1>1. /\ TakesTurns /\ Meaning /\ Takes("AUTHENTICATE PLAIN")
      /\ Answers(<<Msg(IF server.plain THEN "AUTHENTICATE +" ELSE "904")>>)
      /\ UNCHANGED negotiating /\ UNCHANGED <<received, accepted>>
  BY DEF SaslInv, TakesMechanism, Takes, Serving
<1>2. PICK k \in {"AUTHENTICATE +", "904"} : (k = "AUTHENTICATE +" <=> server.plain) /\ Answers(<<Msg(k)>>)
  BY <1>1
<1> DEFINE m == <<Msg(k)>>
<1>3. m \in Seq(ServerMessage) /\ Single(m, k) /\ Answers(m)
  BY <1>2, ReplyType, SingleMessage DEF Replies
<1> HIDE DEF m
<1>4. Has(toServer, "AUTHENTICATE PLAIN") /\ Telling(k)' /\ Once(toClient', k) /\ Welcomable'
  BY <1>1, <1>3, Reply DEF ToServerDialogue, ToClientDialogue
<1>5. Unasked /\ sasl /\ Offered /\ server.acks
  BY <1>1, <1>4, Zenon DEF Meaning
<1>6. Unasked' /\ ~accepted' /\ sasl' /\ Offered' /\ server'.acks /\ (server'.plain <=> server.plain)
  BY <1>1, <1>5 DEF Takes, Unasked, Offered, config, client
<1> QED
  BY <1>2, <1>4, <1>6, TellingKeeps DEF ToClientDialogue

LEMMA TakesCapEndKeeps ==
  ASSUME TypeOK, SaslInv, TakesCapEnd
  PROVE  SaslInv'
<1>1. TakesTurns /\ Meaning /\ Takes("CAP END") /\ toClient' = toClient /\ ~negotiating'
  BY DEF SaslInv, TakesCapEnd, Takes, Serving
<1>2. /\ Has(toServer, "CAP END")
      /\ \A d \in ToClientDialogue : ~Has(toClient, d)
      /\ \A d \in ToServerDialogue : ~Has(toServer', d)
  BY <1>1, TakesTurn DEF ToServerDialogue
<1>3. Silent'
  BY <1>1, <1>2 DEF Silent
<1>4. sasl => saslCompleted
  BY <1>1, <1>2, Zenon DEF Meaning
<1>5. Welcomable'
  BY <1>1, <1>4 DEF Welcomable, Released, Takes, config, client
<1> QED
  BY <1>1, <1>3, <1>5, SilentKeeps

\* The lines of the server's answer to CAP LS.
LsLines == [i \in 1..Len(server.lines) |->
              [cmd |-> "CAP LS", more |-> i < Len(server.lines), sasl |-> server.lines[i]]]

LEMMA LsLineSays ==
  ASSUME NEW more \in BOOLEAN, NEW named \in BOOLEAN,
         NEW m, m = [cmd |-> "CAP LS", more |-> more, sasl |-> named]
  PROVE  m.cmd = "CAP LS" /\ (m.more <=> more) /\ (m.sasl <=> named)
OBVIOUS

LEMMA LsLinesType ==
  ASSUME server \in Servers
  PROVE  /\ LsLines \in Seq(ServerMessage)
         /\ Len(LsLines) = Len(server.lines) /\ Len(LsLines) \in Nat /\ Len(LsLines) > 0
         /\ \A i \in DOMAIN LsLines : LsLines[i].cmd = "CAP LS"
         /\ DOMAIN server.lines = 1..Len(LsLines)
         /\ \A i \in 1..Len(LsLines) :
              /\ LsLines[i].more <=> i < Len(LsLines)
              /\ LsLines[i].sasl <=> server.lines[i]
<1> DEFINE lines == server.lines
           l == Len(lines)
<1>1. lines \in Seq(BOOLEAN) /\ lines # <<>>
  BY ServersAssumption DEF ServerFeatures
<1>2. l \in Nat /\ l > 0 /\ DOMAIN lines = 1..l /\ \A i \in 1..l : lines[i] \in BOOLEAN
  BY <1>1
<1>3. LsLines = [i \in 1..l |-> [cmd |-> "CAP LS", more |-> i < l, sasl |-> lines[i]]]
  BY Zenon DEF LsLines
<1> HIDE DEF l, lines
<1>4. ASSUME NEW i \in 1..l
      PROVE  [cmd |-> "CAP LS", more |-> i < l, sasl |-> lines[i]] \in ServerMessage
  <2>1. (i < l) \in BOOLEAN /\ lines[i] \in BOOLEAN
    BY <1>2
  <2> QED
    BY <2>1, LsLine
<1>5. LsLines \in [1..l -> ServerMessage]
  BY <1>3, <1>4, Zenon
<1>6. LsLines \in Seq(ServerMessage) /\ Len(LsLines) = l /\ DOMAIN LsLines = 1..l
  BY <1>2, <1>5
<1>7. \A i \in 1..l : LsLines[i] = [cmd |-> "CAP LS", more |-> i < l, sasl |-> lines[i]]
  BY <1>3, Zenon
<1>8. \A i \in 1..l : LsLines[i].cmd = "CAP LS" /\ (LsLines[i].more <=> i < l) /\ (LsLines[i].sasl <=> lines[i])
  <2> SUFFICES ASSUME NEW i \in 1..l
               PROVE  LsLines[i].cmd = "CAP LS" /\ (LsLines[i].more <=> i < l) /\ (LsLines[i].sasl <=> lines[i])
    OBVIOUS
  <2>1. (i < l) \in BOOLEAN /\ lines[i] \in BOOLEAN
    BY <1>2
  <2> QED
    BY <1>7, <2>1, LsLineSays, Zenon
<1> QED
  BY <1>2, <1>6, <1>8 DEF l, lines

\* Those lines on their way, behind n other messages, and what they say: the
\* last of them that it is, and together whether sasl is offered.
LsAnswered(new, m, lines, n, l) ==
  /\ DOMAIN lines = 1..l
  /\ \A i \in 1..l : (m[i].more <=> i < l) /\ (m[i].sasl <=> lines[i])
  /\ At(new, "CAP LS") = n + 1..n + l
  /\ \A i \in n + 1..n + l : new[i] = m[i - n]

LsSays(new, lines) ==
  /\ \A i, j \in At(new, "CAP LS") : i < j => new[i].more
  /\ \E i \in At(new, "CAP LS") : ~new[i].more
  /\ (\E i \in DOMAIN lines : lines[i]) <=> \E i \in At(new, "CAP LS") : new[i].sasl

LEMMA LsAnsweredMeans ==
  ASSUME NEW new, NEW m, NEW lines, NEW n \in Nat, NEW l \in Nat, l > 0, LsAnswered(new, m, lines, n, l)
  PROVE  LsSays(new, lines)
<1> DEFINE ls == At(new, "CAP LS")
<1>1. /\ DOMAIN lines = 1..l
      /\ \A i \in 1..l : (m[i].more <=> i < l) /\ (m[i].sasl <=> lines[i])
      /\ ls = n + 1..n + l
      /\ \A i \in n + 1..n + l : new[i] = m[i - n]
  BY Zenon DEF LsAnswered
<1> HIDE DEF ls
<1>2. /\ \A i \in n + 1..n + l : i - n \in 1..l /\ (i - n < l <=> i < n + l)
      /\ \A i \in 1..l : n + i \in n + 1..n + l /\ (n + i) - n = i
      /\ \A i, j \in n + 1..n + l : i < j => i < n + l
      /\ n + l \in n + 1..n + l /\ ~(n + l < n + l)
  OBVIOUS
<1>3. \A i \in ls : (new[i].more <=> i < n + l) /\ (new[i].sasl <=> lines[i - n]) /\ i - n \in DOMAIN lines
  BY <1>1, <1>2, Zenon
<1>4. (\A i, j \in ls : i < j => new[i].more) /\ (\E i \in ls : ~new[i].more)
  BY <1>1, <1>2, <1>3, Zenon
<1>5. ASSUME NEW i \in DOMAIN lines, lines[i] PROVE \E j \in ls : new[j].sasl
  <2>1. n + i \in ls /\ lines[(n + i) - n]
    BY <1>1, <1>2, <1>5
  <2> QED
    BY <1>3, <2>1, Zenon
<1>6. (\E i \in DOMAIN lines : lines[i]) <=> \E i \in ls : new[i].sasl
  BY <1>3, <1>5, Zenon
<1> QED
  BY <1>4, <1>6, Zenon DEF LsSays, ls

LEMMA TakesCapLsKeeps ==
  ASSUME TypeOK, SaslInv, TakesCapLs
  PROVE  SaslInv'
<1> DEFINE ls == "CAP LS"
           m == LsLines
           new == toClient'
<1>1. TakesTurns /\ Meaning /\ Takes(ls)
  BY Zenon DEF SaslInv, TakesCapLs, Takes, Serving
<1>2. /\ Has(toServer, ls)
      /\ \A d \in ToClientDialogue : ~Has(toClient, d)
      /\ \A d \in ToServerDialogue : ~Has(toServer', d)
  BY <1>1, TakesTurn DEF ToServerDialogue
<1>3. Unasked /\ ~lsCaps /\ ~negotiating /\ ~Has(toClient, "001")
  BY <1>1, <1>2, Zenon DEF Meaning
<1>4. Unasked' /\ ~lsCaps' /\ server' = server
  <2>1. UNCHANGED <<received, accepted>>
    BY DEF TakesCapLs
  <2> QED
    BY <1>1, <1>3, <2>1 DEF Takes, Unasked, config, client
<1>5. CASE server.capable
  <2>1. negotiating' /\ Answers(m)
    BY <1>5, Zenon DEF TakesCapLs, LsLines
  <2>2. server \in Servers /\ toClient \in Seq(ServerMessage)
    BY Zenon DEF TypeOK
  <2>3. /\ m \in Seq(ServerMessage) /\ Len(m) > 0 /\ Len(m) \in Nat /\ \A i \in DOMAIN m : m[i].cmd = ls
        /\ DOMAIN server.lines = 1..Len(m)
        /\ \A i \in 1..Len(m) : (m[i].more <=> i < Len(m)) /\ (m[i].sasl <=> server.lines[i])
    BY <2>2, LsLinesType, Zenon
  <2> HIDE DEF m, new
  <2>4. PICK n \in Nat, l \in Nat : n = Len(toClient) /\ l = Len(m) /\ l > 0
    BY <2>2, <2>3, LengthOf, Zenon
  <2>5. /\ \A d \in ToClientDialogue : Has(new, d) <=> d = ls
        /\ Has(new, "001") <=> Has(toClient, "001")
        /\ At(new, ls) = Len(toClient) + 1..Len(toClient) + Len(m)
        /\ \A i \in Len(toClient) + 1..Len(toClient) + Len(m) : new[i] = m[i - Len(toClient)]
    BY <1>2, <2>1, <2>3, TellsNext DEF new, ToClientDialogue
  <2>6. At(new, ls) = n + 1..n + l /\ \A i \in n + 1..n + l : new[i] = m[i - n]
    BY <2>4, <2>5, Zenon
  <2>7. Offered <=> \E i \in DOMAIN server.lines : server.lines[i]
    BY <1>5, Zenon DEF Offered
  <2>8. /\ DOMAIN server.lines = 1..l
        /\ \A i \in 1..l : (m[i].more <=> i < l) /\ (m[i].sasl <=> server.lines[i])
    BY <2>3, <2>4, Zenon
  <2>9. LsAnswered(new, m, server.lines, n, l)
    BY <2>6, <2>8, Zenon DEF LsAnswered
  <2>10. /\ \A i, j \in At(new, ls) : i < j => new[i].more
         /\ \E i \in At(new, ls) : ~new[i].more
         /\ (\E i \in DOMAIN server.lines : server.lines[i]) <=> \E i \in At(new, ls) : new[i].sasl
    BY <2>4, <2>9, LsAnsweredMeans, Zenon DEF LsSays
  <2>11. Offered' <=> lsCaps' \/ \E i \in At(new, ls) : new[i].sasl
    BY <1>4, <2>7, <2>10 DEF Offered
  <2>12. LsPending'
    BY <2>10, <2>11, Zenon DEF LsPending, new
  <2>13. Telling(ls)'
    BY <1>2, <2>5 DEF Telling, new
  <2>14. Welcomable'
    BY <1>3, <2>1, <2>5 DEF Welcomable, new
  <2> QED
    BY <1>4, <1>5, <2>12, <2>13, <2>14, TellingKeeps DEF ToClientDialogue
<1>6. CASE ~server.capable
  <2>1. toClient' = toClient /\ ~negotiating'
    BY <1>3, <1>6 DEF TakesCapLs
  <2>2. Silent'
    BY <1>2, <2>1 DEF Silent
  <2>3. Welcomable'
    BY <1>4, <1>6 DEF Welcomable, Released, Unasked
  <2> QED
    BY <2>1, <2>2, <2>3, SilentKeeps
<1> QED
  BY <1>5, <1>6

\* A line of the response that is not its last leaves the others pending.
LEMMA ResponseTakenOn ==
  ASSUME toServer' \in Seq(ClientMessage), blob \in Nat, received \in Nat,
         UNCHANGED blob, received' = received + ChunkSize,
         MovedUp(toServer', toServer, "CREDENTIALS"), NEW b \in Nat, 1 < b, ResponsePending(1, b)
  PROVE  Has(toServer', "CREDENTIALS") /\ (\E p, q \in DOMAIN toServer : ResponsePending(p, q))'
<1> DEFINE new == toServer'
           c == "CREDENTIALS"
           last == blob % ChunkSize
<1>1. /\ \A i \in At(new, c) : i \in Nat /\ 1 <= i /\ i + 1 \in At(toServer, c) /\ new[i] = toServer[i + 1]
      /\ \A i \in At(toServer, c) : i # 1 => i - 1 \in At(new, c)
  <2>0. \A i \in DOMAIN new : i \in Nat /\ 1 <= i
    OBVIOUS
  <2>1. \A i \in At(new, c) : i \in Nat /\ 1 <= i
    BY <2>0, Zenon DEF At
  <2>2. /\ \A i \in At(new, c) : i + 1 \in At(toServer, c) /\ i + 1 # 1 /\ new[i] = toServer[i + 1]
        /\ \A i \in At(toServer, c) : i # 1 => i - 1 \in At(new, c)
    BY Zenon DEF MovedUp
  <2> QED
    BY <2>1, <2>2, Zenon
<1>2. /\ At(toServer, c) = 1..b
      /\ \A i \in 1..b : toServer[i].size = IF i < b THEN ChunkSize ELSE last
      /\ received + (b - 1) * ChunkSize + last = blob
  BY Zenon DEF ResponsePending
<1> HIDE DEF new, c, last
<1>3. PICK q \in Nat : q = b - 1 /\ 1 <= q /\ b = q + 1
  OBVIOUS
<1>4. At(new, c) = 1..q
  <2>1. ASSUME NEW i \in At(new, c) PROVE i \in 1..q
    BY <1>1, <1>2, <1>3
  <2>2. ASSUME NEW i \in 1..q PROVE i \in At(new, c)
    <3>1. i + 1 \in 1..b /\ i + 1 # 1 /\ (i + 1) - 1 = i
      BY <1>3
    <3> QED
      BY <1>1, <1>2, <3>1
  <2> QED
    BY <2>1, <2>2
<1>5. ASSUME NEW i \in 1..q PROVE new[i].size = IF i < q THEN ChunkSize ELSE last
  <2>1. i + 1 \in 1..b /\ (i + 1 < b <=> i < q)
    BY <1>3
  <2>2. new[i] = toServer[i + 1]
    BY <1>1, <1>4
  <2> QED
    BY <1>2, <2>1, <2>2
<1>6. (received + ChunkSize) + (q - 1) * ChunkSize + last = blob
  <2>1. ChunkSize \in Nat /\ last \in Nat
    BY BlobAssumption, DivMod DEF last
  <2>2. received + q * ChunkSize + last = blob
    BY <1>2, <1>3
  <2>3. q * ChunkSize = ChunkSize + (q - 1) * ChunkSize /\ (q - 1) * ChunkSize \in Int
    BY <1>3, <2>1
  <2> QED
    BY <2>1, <2>2, <2>3
<1>7. 1 \in At(new, c) /\ q \in At(new, c)
  BY <1>3, <1>4
<1>8. 1 \in DOMAIN new /\ q \in DOMAIN new /\ Has(new, c)
  BY <1>7, Zenon DEF At, Has
<1>9. received' + (q - 1) * ChunkSize + last = blob' /\ blob' % ChunkSize = last
  BY <1>6 DEF last
<1>10. ResponsePending(1, q)'
  BY <1>3, <1>4, <1>5, <1>9, Zenon DEF ResponsePending, new, c
<1> QED
  BY <1>8, <1>10, Zenon DEF new, c

LEMMA TakesCredentialsKeeps ==
  ASSUME TypeOK, SaslInv, TakesCredentials
  PROVE  SaslInv'
<1> DEFINE c == "CREDENTIALS"
           last == blob % ChunkSize
<1>1. TakesTurns /\ Meaning /\ Takes(c) /\ (negotiating' <=> negotiating)
  BY DEF SaslInv, TakesCredentials, Takes, Serving
<1>2. /\ toServer \in Seq(ClientMessage) /\ toServer # <<>> /\ Head(toServer).cmd = c /\ toServer' = Tail(toServer)
      /\ UNCHANGED <<sasl, server, blob, saslCompleted>>
  BY <1>1 DEF TypeOK, Takes, config, client
<1>3. blob \in Nat /\ received \in Nat /\ last \in Nat /\ last < ChunkSize
  BY BlobAssumption, DivMod DEF TypeOK
<1>4. Head(toServer) = toServer[1] /\ MovedUp(toServer', toServer, c)
  BY <1>2, ReadMovesUp
<1>5. Has(toServer, c) /\ \A d : Has(toServer', d) => Has(toServer, d)
  BY <1>2, ReadKinds
<1>6. /\ ~accepted /\ sasl /\ Offered /\ server.plain
      /\ \E a, b \in DOMAIN toServer : ResponsePending(a, b)
  BY <1>1, <1>5, Zenon DEF Meaning
<1>7. PICK b \in Nat : ResponsePending(1, b) /\ 1 <= b
  <2>1. PICK a \in DOMAIN toServer, e \in DOMAIN toServer : ResponsePending(a, e)
    BY <1>6, Zenon
  <2>2. 1 \in At(toServer, c) /\ At(toServer, c) = a..e /\ a <= e
    BY <1>4, <2>1, Zenon DEF ResponsePending, MovedUp
  <2>3. a = 1 /\ e \in Nat /\ 1 <= e
    BY <1>2, <2>2
  <2> QED
    BY <2>1, <2>3
<1>8. /\ At(toServer, c) = 1..b
      /\ \A i \in 1..b : toServer[i].size = IF i < b THEN ChunkSize ELSE last
      /\ received + (b - 1) * ChunkSize + last = blob
  BY <1>7, Zenon DEF ResponsePending
<1>9. toServer[1].size = (IF 1 < b THEN ChunkSize ELSE last) /\ received' = received + toServer[1].size
  BY <1>4, <1>7, <1>8 DEF TakesCredentials
<1>10. CASE 1 < b
  <2>1. toServer[1].size = ChunkSize
    BY <1>9, <1>10
  <2>2. (accepted' <=> accepted) /\ toClient' = toClient
    BY <1>4, <2>1, BlobAssumption DEF TakesCredentials
  <2>0. toServer' \in Seq(ClientMessage)
    BY <1>2
  <2>3. Has(toServer', c) /\ (\E p, q \in DOMAIN toServer : ResponsePending(p, q))'
    BY <2>0, <1>2, <1>3, <1>4, <1>7, <1>9, <1>10, <2>1, ResponseTakenOn
  <2>4. /\ \A d \in ToServerDialogue : Has(toServer, d) <=> d = c
        /\ \A d \in ToClientDialogue : ~Has(toClient, d)
    BY <1>1, <1>5 DEF TakesTurns, ToServerDialogue
  <2>5. Asking(c)'
    BY <1>5, <2>2, <2>3, <2>4 DEF Asking
  <2>6. Welcomable
    BY <1>1, <2>4 DEF Welcomable, Meaning, ToServerDialogue
  <2>7. Released => Released'
    BY <1>2, <2>2 DEF Released
  <2>8. Welcomable'
    BY <1>1, <2>2, <2>6, <2>7 DEF Welcomable
  <2>9. (~accepted /\ sasl /\ Offered /\ server.plain /\ \E p, q \in DOMAIN toServer : ResponsePending(p, q))'
    BY <1>2, <1>6, <2>2, <2>3 DEF Offered
  <2> QED
    BY <2>5, <2>8, <2>9, AskingKeeps DEF ToServerDialogue
<1>11. CASE ~(1 < b)
  <2>1. b = 1 /\ toServer[1].size = last
    BY <1>7, <1>9, <1>11
  <2>2. received' = blob' /\ blob' = blob
    <3>1. received + 0 * ChunkSize + last = blob /\ ChunkSize \in Nat
      BY <1>8, <2>1, BlobAssumption
    <3> QED
      BY <1>2, <1>3, <1>9, <2>1, <3>1
  <2>3. ~Has(toServer', c)
    <3>1. \A i \in At(toServer', c) : i + 1 \in 1..1 /\ i + 1 # 1
      BY <1>4, <1>8, <2>1, Zenon DEF MovedUp
    <3> QED
      BY <3>1 DEF Has
  <2>4. (accepted' <=> server.accepts) /\ Answers(<<Msg(IF accepted' THEN "903" ELSE "904")>>)
    <3>1. Head(toServer).size # ChunkSize
      BY <1>3, <1>4, <2>1, BlobAssumption
    <3>2. /\ accepted' = (accepted \/ (server.accepts /\ received' = blob))
          /\ Answers(<<Msg(IF accepted' THEN "903" ELSE "904")>>)
      BY <3>1, Zenon DEF TakesCredentials
    <3> QED
      BY <1>6, <2>2, <3>2, Zenon
  <2>5. PICK k \in {"903", "904"} : (k = "903" <=> accepted') /\ Answers(<<Msg(k)>>)
    BY <2>4
  <2>6. <<Msg(k)>> \in Seq(ServerMessage) /\ Single(<<Msg(k)>>, k)
    BY ReplyType, SingleMessage DEF Replies
  <2>7. /\ c \in ToServerDialogue \ {"CAP LS"} /\ k \in ToClientDialogue \ {"CAP LS"}
        /\ (c # "CREDENTIALS" \/ ~Has(Tail(toServer), c))
        /\ server.capable
    BY <1>2, <1>6, <2>3 DEF ToServerDialogue, ToClientDialogue, Offered
  <2>8. UNCHANGED negotiating
    BY DEF TakesCredentials
  <2>9. Telling(k)' /\ Once(toClient', k) /\ Welcomable'
    BY <1>1, <2>5, <2>6, <2>7, <2>8, Reply, Zenon
  <2> QED
    BY <1>2, <1>6, <2>4, <2>5, <2>9, TellingKeeps DEF ToClientDialogue
<1> QED
  BY <1>10, <1>11

\* What starts the dialogue: CAP LS, ahead of the nickname and of USER.
LEMMA InitSaslInv == Init => SaslInv
<1> SUFFICES ASSUME Init PROVE SaslInv
  OBVIOUS
<1>1. toServer = <<Msg("CAP LS"), NickMsg(0), Msg("USER")>> /\ toClient = <<>>
  BY DEF Init
<1>2. /\ DOMAIN toServer = {1, 2, 3} /\ toServer[1].cmd = "CAP LS"
      /\ toServer[2].cmd = "NICK" /\ toServer[3].cmd = "USER"
  <2> DEFINE a == Msg("CAP LS")
             b == NickMsg(0)
             c == Msg("USER")
  <2>0. toServer = <<a, b, c>>
    BY <1>1
  <2> HIDE DEF a, b, c
  <2>1. DOMAIN toServer = 1..3 /\ toServer[1] = a /\ toServer[2] = b /\ toServer[3] = c
    BY <2>0
  <2>2. Msg("CAP LS").cmd = "CAP LS" /\ NickMsg(0).cmd = "NICK" /\ Msg("USER").cmd = "USER"
    BY DEF Msg, NickMsg
  <2>3. 1..3 = {1, 2, 3}
    OBVIOUS
  <2> QED
    BY <2>1, <2>2, <2>3, Zenon DEF a, b, c
<1>3. \A d : ~Has(toClient, d)
  BY <1>1, Empty DEF Has
<1>4. \A d \in ToServerDialogue : \A i \in At(toServer, d) : i = 1 /\ d = "CAP LS"
  BY <1>2 DEF At, ToServerDialogue
<1>5. \A d \in ToServerDialogue : (Has(toServer, d) => d = "CAP LS") /\ Once(toServer, d)
  BY <1>4, Zenon DEF Has, Once
<1>6. Has(toServer, "CAP LS")
  BY <1>2 DEF Has, At
<1>7. TakesTurns
  <2>1. \A d \in ToClientDialogue : Once(toClient, d)
    BY <1>3 DEF Has, Once
  <2> QED
    BY <1>3, <1>5, <2>1 DEF TakesTurns, Init
<1>8. \A d \in {"CAP REQ", "AUTHENTICATE PLAIN", "CREDENTIALS", "CAP END"} : ~Has(toServer, d)
  BY <1>5 DEF ToServerDialogue
<1>9. Unasked /\ ~lsCaps /\ ~negotiating /\ nickHeld = {}
  BY DEF Init, Unasked
<1>10. Meaning
  BY <1>2, <1>3, <1>6, <1>8, <1>9 DEF Meaning
<1> QED
  BY <1>7, <1>10 DEF SaslInv

LEMMA ClientKeepsSaslInv ==
  ASSUME TypeOK, SaslInv, OnMessage \/ TimesOut \/ ConnectionEnds
  PROVE  SaslInv'
<1>1. CASE OnPing
  <2>1. Reads("PING") /\ Sends(<<Msg("PONG")>>) /\ UNCHANGED <<lsCaps, saslCompleted>>
    BY <1>1 DEF OnPing, client
  <2>2. <<Msg("PONG")>> \in Seq(ClientMessage) /\ Single(<<Msg("PONG")>>, "PONG")
    BY CommandType, SingleMessage
  <2> QED
    BY <2>1, <2>2, ClientQuiet
<1>2. CASE OnNickInUse
  <2>1. CASE retriesLeft <= 0
    BY <1>2, <2>1 DEF OnNickInUse, SaslInv
  <2>2. CASE ~(retriesLeft <= 0)
    <3>1. Reads("433") /\ Sends(<<NickMsg(nick + 1)>>) /\ UNCHANGED <<lsCaps, saslCompleted>>
      BY <1>2, <2>2 DEF OnNickInUse
    <3>2. <<NickMsg(nick + 1)>> \in Seq(ClientMessage) /\ Single(<<NickMsg(nick + 1)>>, "NICK")
      BY <2>2, Retrying, NickType, SingleMessage
    <3> QED
      BY <3>1, <3>2, ClientQuiet
  <2> QED
    BY <2>1, <2>2
<1>3. CASE OnError \/ OnCapNak \/ OnSaslFailure \/ OnWelcome \/ TimesOut \/ ConnectionEnds
  BY <1>3 DEF OnError, OnCapNak, OnSaslFailure, OnWelcome, TimesOut, ConnectionEnds, SaslInv
<1> QED
  BY <1>1, <1>2, <1>3, OnCapLsKeeps, OnCapAckKeeps, OnAuthenticateKeeps, OnSaslSuccessKeeps DEF OnMessage

LEMMA ServerKeepsSaslInv ==
  ASSUME TypeOK, SaslInv, ServerTakes \/ ServerPings \/ ServerRefuses \/ ServerWelcomes
  PROVE  SaslInv'
<1>0. ASSUME NEW k \in {"433", "PING", "ERROR", "001"}
      PROVE  <<Msg(k)>> \in Seq(ServerMessage) /\ Single(<<Msg(k)>>, k)
  BY ReplyType, SingleMessage DEF Replies
<1>1. CASE TakesNick
  <2>1. Takes("NICK") /\ UNCHANGED <<negotiating, received, accepted>>
    BY <1>1 DEF TakesNick
  <2>2. UNCHANGED toClient \/ \E m \in Seq(ServerMessage) : Single(m, "433") /\ Answers(m)
    BY <1>0, <1>1 DEF TakesNick
  <2> QED
    BY <2>1, <2>2, ServerQuiet
<1>2. CASE TakesUser
  BY <1>2, ServerQuiet DEF TakesUser
<1>3. CASE TakesPong
  BY <1>3, ServerQuiet DEF TakesPong
<1>4. CASE ServerPings
  <2>1. /\ outcome = "registering" /\ UNCHANGED <<config, client, toServer, nickHeld>>
        /\ UNCHANGED <<negotiating, received, accepted>> /\ Answers(<<Msg("PING")>>)
    BY <1>4 DEF ServerPings, Serving
  <2> QED
    BY <1>0, <2>1, ServerSpeaks
<1>5. CASE ServerRefuses
  <2>1. /\ outcome = "registering" /\ UNCHANGED <<config, client, toServer, nickHeld>>
        /\ UNCHANGED <<negotiating, received, accepted>> /\ Answers(<<Msg("ERROR")>>)
    BY <1>5 DEF ServerRefuses, Serving
  <2> QED
    BY <1>0, <2>1, ServerSpeaks
<1>6. CASE ServerWelcomes
  <2>1. /\ outcome = "registering" /\ UNCHANGED <<config, client, toServer, nickHeld>>
        /\ UNCHANGED <<negotiating, received, accepted>> /\ Answers(<<Msg("001")>>)
        /\ nickHeld # {} /\ ~negotiating
    BY <1>6 DEF ServerWelcomes, Serving
  <2> QED
    BY <1>0, <2>1, ServerSpeaks
<1> QED
  BY <1>1, <1>2, <1>3, <1>4, <1>5, <1>6, TakesCapLsKeeps, TakesCapReqKeeps, TakesMechanismKeeps,
     TakesCredentialsKeeps, TakesCapEndKeeps DEF ServerTakes

\* The dialogue of CAP and SASL: one message of it at a time is on its way
\* (or the lines of one answer), and says of both sides what Meaning lists.
THEOREM SaslInvariant == Spec => []SaslInv
<1>1. TypeOK /\ SaslInv /\ [Next]_vars => SaslInv'
  <2> SUFFICES ASSUME TypeOK, SaslInv, [Next]_vars PROVE SaslInv'
    OBVIOUS
  <2>1. CASE UNCHANGED vars
    BY <2>1 DEF vars, config, client, remote, SaslInv, TakesTurns, Meaning, Unasked, Offered, Released,
                LsPending, ResponsePending
  <2> QED
    BY <2>1, ClientKeepsSaslInv, ServerKeepsSaslInv DEF Next
<1> QED
  BY <1>1, InitSaslInv, TypeCorrect, PTL DEF Spec

\* What a message says of the server, as the client gives up for it.
LEMMA RejectingIsTrue ==
  ASSUME TypeOK, SaslInv, NoFalseRejection, OnMessage, outcome' = "rejected"
  PROVE  NoFalseRejection'
<1> DEFINE Lacking == ~ /\ server.capable /\ (\E i \in DOMAIN server.lines : server.lines[i])
                        /\ server.acks /\ server.plain /\ server.accepts
<1>0. SUFFICES sasl /\ ~accepted /\ Lacking /\ UNCHANGED <<sasl, accepted, server>>
  BY DEF NoFalseRejection
<1>1. ASSUME NEW c, Reads(c)
      PROVE  /\ TakesTurns /\ Meaning /\ Has(toClient, c) /\ UNCHANGED <<sasl, accepted, server>>
             /\ toClient' = Tail(toClient) /\ toClient \in Seq(ServerMessage) /\ toClient # <<>>
             /\ Head(toClient).cmd = c /\ outcome = "registering"
  <2>1. /\ toClient' = Tail(toClient) /\ toClient \in Seq(ServerMessage) /\ toClient # <<>>
        /\ Head(toClient).cmd = c /\ outcome = "registering" /\ UNCHANGED <<sasl, accepted, server>>
    BY <1>1 DEF TypeOK, Reads, config, remote
  <2>2. Has(toClient, c)
    BY <2>1, ReadKinds
  <2> QED
    BY <2>1, <2>2 DEF SaslInv
<1>2. CASE OnCapLs
  <2>1. Reads("CAP LS")
    BY <1>2 DEF OnCapLs
  <2>2. /\ Has(toClient, "CAP LS") /\ outcome = "registering" /\ toClient' = Tail(toClient) /\ Meaning
        /\ UNCHANGED <<sasl, accepted, server>>
    BY <1>1, <2>1
  <2>3. Unasked /\ LsPending
    BY <2>2, Zenon DEF Meaning
  <2>4. Head(toClient) = toClient[1] /\ MovedUp(toClient', toClient, "CAP LS")
    BY <1>1, <2>1, ReadMovesUp
  <2>5. sasl /\ ~Head(toClient).more /\ ~lsCaps' /\ lsCaps' = (lsCaps \/ Head(toClient).sasl)
    <3>1. outcome' # outcome
      BY <2>2
    <3> QED
      BY <1>2, <3>1, Zenon DEF OnCapLs
  <2>6. (lsCaps' <=> lsCaps \/ toClient[1].sasl) /\ ~toClient[1].more
    BY <2>4, <2>5, Zenon
  <2>7. ~Offered
    BY <2>3, <2>4, <2>5, <2>6, LsReadLast, Zenon
  <2> QED
    BY <2>2, <2>3, <2>5, <2>7 DEF Unasked, Offered
<1>3. CASE OnCapNak
  <2>1. Has(toClient, "CAP NAK") /\ Meaning /\ UNCHANGED <<sasl, accepted, server>>
    BY <1>1, <1>3 DEF OnCapNak
  <2> QED
    BY <2>1 DEF Meaning
<1>4. CASE OnSaslFailure
  <2>1. Has(toClient, "904") /\ Meaning /\ UNCHANGED <<sasl, accepted, server>>
    BY <1>1, <1>4 DEF OnSaslFailure
  <2> QED
    BY <2>1 DEF Meaning
<1>5. CASE OnWelcome
  <2>1. Has(toClient, "001") /\ Meaning /\ UNCHANGED <<sasl, accepted, server>>
    BY <1>1, <1>5 DEF OnWelcome
  <2>2. sasl /\ ~saslCompleted
    BY <1>5 DEF OnWelcome
  <2> QED
    BY <2>1, <2>2 DEF Meaning, Released
<1>6. CASE OnPing \/ OnError \/ OnNickInUse \/ OnCapAck \/ OnAuthenticate \/ OnSaslSuccess
  <2>1. outcome' \in {outcome, "refused", "nickExhausted"} /\ outcome = "registering"
    BY <1>6 DEF OnPing, OnError, OnNickInUse, OnCapAck, OnAuthenticate, OnSaslSuccess, client, Reads
  <2> QED
    BY <2>1
<1> QED
  BY <1>2, <1>3, <1>4, <1>5, <1>6 DEF OnMessage

LEMMA ExhaustingIsTrue ==
  ASSUME TypeOK, NickInv, OnNickInUse, outcome' = "nickExhausted"
  PROVE  NoFalseRejection'
<1>1. /\ toClient \in Seq(ServerMessage) /\ toClient # <<>> /\ Head(toClient).cmd = "433"
      /\ server' = server /\ outcome = "registering"
  BY DEF TypeOK, OnNickInUse, Reads, config
<1>2. retriesLeft <= 0
  <2>1. outcome' # outcome
    BY <1>1
  <2> QED
    BY <2>1 DEF OnNickInUse
<1>3. 1 \in At(toClient, "433")
  BY <1>1, AtRead
<1>4. nick < server.taken
  BY <1>3, Zenon DEF NickInv
<1>5. nick \in 0..MaxNickRetries /\ retriesLeft = MaxNickRetries - nick /\ server \in Servers
  BY Zenon DEF TypeOK
<1>6. server.taken \in Nat
  BY <1>5, ServersAssumption DEF ServerFeatures
<1>7. server.taken > MaxNickRetries
  BY <1>2, <1>4, <1>5, <1>6, RetriesAssumption
<1> QED
  BY <1>1, <1>7 DEF NoFalseRejection

\* IRCAuthError blames the server only for what it did: for every server,
\* every size of the credentials and every number of retries.
THEOREM RejectsOnlyRefusals == Spec => []NoFalseRejection
<1>1. Init => NoFalseRejection
  BY DEF Init, NoFalseRejection
<1>2. TypeOK /\ NickInv /\ SaslInv /\ NoFalseRejection /\ [Next]_vars => NoFalseRejection'
  <2> SUFFICES ASSUME TypeOK, NickInv, SaslInv, NoFalseRejection, [Next]_vars PROVE NoFalseRejection'
    OBVIOUS
  <2>1. CASE outcome' \notin {"rejected", "nickExhausted"}
    BY <2>1 DEF NoFalseRejection
  <2>2. CASE UNCHANGED vars
    BY <2>2 DEF vars, config, client, remote, NoFalseRejection
  <2>3. CASE OnMessage /\ outcome' = "rejected"
    BY <2>3, RejectingIsTrue
  <2>4. CASE OnMessage /\ outcome' = "nickExhausted"
    <3>1. OnNickInUse
      BY <2>4 DEF OnMessage, OnPing, OnError, OnCapLs, OnCapAck, OnCapNak, OnAuthenticate,
                  OnSaslSuccess, OnSaslFailure, OnWelcome, client, Reads
    <3> QED
      BY <2>4, <3>1, ExhaustingIsTrue
  <2>5. CASE TimesOut \/ ConnectionEnds
    BY <2>5 DEF TimesOut, ConnectionEnds, NoFalseRejection
  <2>6. CASE ServerTakes \/ ServerPings \/ ServerRefuses \/ ServerWelcomes
    <3>1. outcome' = outcome /\ outcome = "registering"
      BY <2>6 DEF ServerTakes, TakesCapLs, TakesNick, TakesUser, TakesCapReq, TakesMechanism,
                  TakesCredentials, TakesCapEnd, TakesPong, Takes, ServerPings, ServerRefuses,
                  ServerWelcomes, Serving, client
    <3> QED
      BY <3>1 DEF NoFalseRejection
  <2> QED
    BY <2>1, <2>2, <2>3, <2>4, <2>5, <2>6 DEF Next
<1> QED
  BY <1>1, <1>2, TypeCorrect, NickInvariant, SaslInvariant, PTL DEF Spec

------------------------------------------------------------------------------
(* Nothing the welcome waits for is lost.                                  *)

\* The messages of a kind on a channel, counted.
Count(channel, c) == Cardinality(At(channel, c))

LEMMA Counted ==
  ASSUME NEW S, NEW channel \in Seq(S), NEW c
  PROVE  /\ IsFiniteSet(At(channel, c)) /\ Count(channel, c) \in Nat
         /\ Count(channel, c) = 0 <=> ~Has(channel, c)
<1>1. IsFiniteSet(1..Len(channel))
  <2>1. 1 \in Int /\ Len(channel) \in Int
    OBVIOUS
  <2> QED
    BY <2>1, FS_Interval
<1>2. At(channel, c) \in SUBSET (1..Len(channel))
  BY DEF At
<1>3. IsFiniteSet(At(channel, c))
  BY <1>1, <1>2, FS_Subset
<1> QED
  BY <1>3, FS_CardinalityType, FS_EmptySet DEF Count, Has

\* Sets of positions that differ by one place have as many.
LEMMA CountMoved ==
  ASSUME NEW A, IsFiniteSet(A), NEW B,
         \A i \in A : i \in Nat /\ i + 1 \in B, \A i \in B : i \in Nat /\ i - 1 \in A
  PROVE  Cardinality(B) = Cardinality(A)
<1> DEFINE f == [i \in A |-> i + 1]
<1>1. f \in [A -> B] /\ \A i \in A : f[i] = i + 1
  OBVIOUS
<1>2. \A i, j \in A : f[i] = f[j] => i = j
  <2>1. \A i, j \in A : i + 1 = j + 1 => i = j
    OBVIOUS
  <2> QED
    BY <1>1, <2>1, Zenon
<1>3. \A i \in B : \E j \in A : f[j] = i
  <2>1. \A i \in B : i - 1 \in A /\ (i - 1) + 1 = i
    OBVIOUS
  <2> QED
    BY <1>1, <2>1
<1> HIDE DEF f
<1>4. f \in Injection(A, B) /\ f \in Surjection(A, B)
  <2>1. DOMAIN f = A
    BY <1>1, Zenon
  <2>2. IsInjective(f)
    BY <1>2, <2>1, Zenon DEF IsInjective
  <2> QED
    BY <1>1, <1>3, <2>2, Zenon DEF Injection, Surjection
<1>5. ExistsBijection(A, B)
  BY <1>4 DEF ExistsBijection, Bijection
<1> QED
  BY <1>5, FS_Bijection

LEMMA NotMoved ==
  ASSUME NEW A, NEW B, \A i \in A : i \in Nat /\ i + 0 \in B, \A i \in B : i \in Nat /\ i - 0 \in A
  PROVE  A = B
OBVIOUS

\* A channel from which a message of kind c was read.
Took(new, old, c) ==
  /\ Count(new, c) + 1 = Count(old, c)
  /\ \A d : d # c => Count(new, d) = Count(old, d) /\ (Has(old, d) => Has(new, d))

LEMMA TookHead ==
  ASSUME NEW S, NEW old \in Seq(S), old # <<>>, NEW c, Head(old).cmd = c
  PROVE  Took(Tail(old), old, c)
<1> DEFINE new == Tail(old)
<1>1. new \in Seq(S)
  OBVIOUS
<1>2. MovedUp(new, old, c)
  BY ReadMovesUp
<1>3. \A d : d # c => Kept(new, old, d) /\ (Has(old, d) => Has(new, d))
  BY KeptAsRead, ReadKinds
<1> HIDE DEF new
<1>4. \A d : /\ IsFiniteSet(At(old, d)) /\ IsFiniteSet(At(new, d))
             /\ Count(old, d) \in Nat /\ Count(new, d) \in Nat
  BY <1>1, Counted, Zenon
<1>5. Count(new, c) + 1 = Count(old, c)
  <2>1. \A i \in At(new, c) : i \in Nat
    BY <1>1 DEF At
  <2>2. \A i \in At(new, c) : i + 1 \in At(old, c) \ {1}
    BY <1>2, Zenon DEF MovedUp
  <2>3. \A i \in At(old, c) \ {1} : i \in Nat /\ i - 1 \in At(new, c)
    <3>1. \A i \in At(old, c) : i \in Nat
      BY DEF At
    <3> QED
      BY <3>1, <1>2, Zenon DEF MovedUp
  <2>4. Cardinality(At(old, c) \ {1}) = Cardinality(At(new, c))
    BY <1>4, <2>1, <2>2, <2>3, CountMoved, Zenon
  <2>5. 1 \in At(old, c)
    BY <1>2, Zenon DEF MovedUp
  <2>6. Cardinality(At(old, c) \ {1}) = Cardinality(At(old, c)) - 1
    BY <1>4, <2>5, FS_RemoveElement, Zenon
  <2>7. Cardinality(At(old, c)) \in Nat
    BY <1>4, Zenon DEF Count
  <2> QED
    BY <2>4, <2>6, <2>7 DEF Count
<1>6. ASSUME NEW d, d # c PROVE Count(new, d) = Count(old, d)
  <2>1. PICK k \in {0, 1} :
          /\ \A i \in At(new, d) : i \in Nat /\ i + k \in At(old, d)
          /\ \A i \in At(old, d) : i \in Nat /\ i - k \in At(new, d)
    BY <1>3, <1>6, Zenon DEF Kept
  <2>2. CASE k = 1
    <3>1. Cardinality(At(old, d)) = Cardinality(At(new, d))
      BY <1>4, <2>1, <2>2, CountMoved, Zenon
    <3> QED
      BY <3>1, Zenon DEF Count
  <2>3. CASE k = 0
    <3>1. At(new, d) = At(old, d)
      <4>1. /\ \A i \in At(new, d) : i \in Nat /\ i + 0 \in At(old, d)
            /\ \A i \in At(old, d) : i \in Nat /\ i - 0 \in At(new, d)
        BY <2>1, <2>3, Zenon
      <4> QED
        BY <4>1, NotMoved, Zenon
    <3> QED
      BY <3>1, Zenon DEF Count
  <2> QED
    BY <2>2, <2>3
<1>7. \A d : d # c => (Has(old, d) => Has(new, d))
  BY <1>3, Zenon
<1> QED
  BY <1>5, <1>6, <1>7, Zenon DEF Took, new

\* A channel on which messages of kind k were put: one, or more.
Put(new, old, k) ==
  /\ Has(new, k)
  /\ \A d : d # k => Count(new, d) = Count(old, d) /\ (Has(old, d) => Has(new, d))
PutOne(new, old, k) == Put(new, old, k) /\ Count(new, k) = Count(old, k) + 1

LEMMA PutMany ==
  ASSUME NEW S, NEW old \in Seq(S), NEW more \in Seq(S), NEW k, Len(more) > 0,
         \A i \in DOMAIN more : more[i].cmd = k
  PROVE  Put(old \o more, old, k)
<1>1. \A d : d # k => At(old \o more, d) = At(old, d)
  BY WrittenKinds
<1>2. Has(old \o more, k)
  BY WrittenKinds
<1> QED
  BY <1>1, <1>2, Zenon DEF Put, Count, Has

LEMMA Appended ==
  ASSUME NEW S, NEW old \in Seq(S), NEW x \in S, NEW k, x.cmd = k
  PROVE  At(old \o <<x>>, k) = At(old, k) \cup {Len(old) + 1} /\ Len(old) + 1 \notin At(old, k)
<1> DEFINE new == old \o <<x>>
           n == Len(old)
<1>1. /\ n \in Nat /\ DOMAIN old = 1..n /\ DOMAIN new = 1..n + 1 /\ new[n + 1] = x
      /\ \A i \in 1..n : new[i] = old[i]
  OBVIOUS
<1> HIDE DEF new, n
<1>2. At(new, k) = At(old, k) \cup {n + 1} /\ n + 1 \notin At(old, k)
  BY <1>1 DEF At
<1> QED
  BY <1>2 DEF new, n

LEMMA PutSingle ==
  ASSUME NEW S, NEW old \in Seq(S), NEW m \in Seq(S), NEW k, Single(m, k)
  PROVE  PutOne(old \o m, old, k)
<1> DEFINE new == old \o m
           n == Len(old)
<1>1. Len(m) = 1 /\ Len(m) > 0 /\ \A i \in DOMAIN m : m[i].cmd = k
  BY SingleIs
<1>2. Put(new, old, k)
  BY <1>1, PutMany
<1>3. m = <<m[1]>> /\ m[1] \in S /\ m[1].cmd = k
  BY DEF Single
<1>4. At(new, k) = At(old, k) \cup {n + 1} /\ n + 1 \notin At(old, k)
  BY <1>3, Appended
<1> HIDE DEF new, n
<1>5. IsFiniteSet(At(old, k))
  BY Counted
<1>6. Cardinality(At(new, k)) = Cardinality(At(old, k)) + 1
  BY <1>4, <1>5, FS_AddElement
<1> QED
  BY <1>2, <1>6 DEF PutOne, Count, new

LEMMA PutKeeps ==
  ASSUME NEW new, NEW old, NEW k, Put(new, old, k)
  PROVE  /\ \A d : Has(old, d) => Has(new, d)
         /\ Has(new, k)
         /\ \A d : d # k => Count(new, d) = Count(old, d)
BY Zenon DEF Put

\* What a step may do to either channel and leave Underway true: the client's,
LEMMA ClientKeepsUnderway ==
  ASSUME TypeOK, Underway, NEW c, Reads(c), c \notin {"001", "ERROR"},
         \A d : Has(toServer, d) => Has(toServer', d), c = "433" => Has(toServer', "NICK"),
         Count(toServer', "PONG") = Count(toServer, "PONG") + (IF c = "PING" THEN 1 ELSE 0)
  PROVE  Underway'
<1>1. /\ toServer \in Seq(ClientMessage) /\ toClient \in Seq(ServerMessage) /\ toClient # <<>>
      /\ Head(toClient).cmd = c /\ toClient' = Tail(toClient) /\ outcome = "registering"
      /\ nickHeld' = nickHeld /\ pings' = pings /\ pongs' = pongs
      /\ (userSeen' <=> userSeen) /\ (finished' <=> finished)
  BY DEF TypeOK, Reads, remote
<1>2. Took(toClient', toClient, c)
  BY <1>1, TookHead
<1>3. /\ nickHeld # {} \/ Has(toServer, "NICK") \/ Has(toClient, "433")
      /\ userSeen \/ Has(toServer, "USER")
      /\ pings = pongs + Count(toClient, "PING") + Count(toServer, "PONG")
      /\ finished => Has(toClient, "001") \/ Has(toClient, "ERROR")
  BY <1>1, Zenon DEF Underway, Count
<1>4. nickHeld' # {} \/ Has(toServer', "NICK") \/ Has(toClient', "433")
  BY <1>1, <1>2, <1>3, Zenon DEF Took
<1>5. userSeen' \/ Has(toServer', "USER")
  BY <1>1, <1>3, Zenon
<1>6. finished' => Has(toClient', "001") \/ Has(toClient', "ERROR")
  <2>1. c # "001" /\ c # "ERROR"
    OBVIOUS
  <2> QED
    BY <1>1, <1>2, <1>3, <2>1, Zenon DEF Took
<1>7. pings' = pongs' + Count(toClient', "PING") + Count(toServer', "PONG")
  <2>1. toClient' \in Seq(ServerMessage)
    BY <1>1
  <2>2. /\ Count(toClient, "PING") \in Nat /\ Count(toServer, "PONG") \in Nat
        /\ Count(toClient', "PING") \in Nat
    BY <1>1, <2>1, Counted, Zenon
  <2>3. pongs \in Nat
    BY Zenon DEF TypeOK
  <2>4. CASE c = "PING"
    <3>1. Count(toClient', "PING") + 1 = Count(toClient, "PING")
      BY <1>2, <2>4, Zenon DEF Took
    <3>2. Count(toServer', "PONG") = Count(toServer, "PONG") + 1
      BY <2>4
    <3> QED
      BY <1>1, <1>3, <2>2, <2>3, <3>1, <3>2
  <2>5. CASE c # "PING"
    <3>1. Count(toClient', "PING") = Count(toClient, "PING")
      BY <1>2, <2>5, Zenon DEF Took
    <3>2. Count(toServer', "PONG") = Count(toServer, "PONG")
      BY <2>2, <2>5
    <3> QED
      BY <1>1, <1>3, <3>1, <3>2
  <2> QED
    BY <2>4, <2>5
<1> QED
  BY <1>4, <1>5, <1>6, <1>7, Zenon DEF Underway, Count

\* and the server's, as it takes a message.
LEMMA ServerKeepsUnderway ==
  ASSUME TypeOK, Underway, NEW c, Takes(c),
         \A d : Has(toClient, d) => Has(toClient', d), Count(toClient', "PING") = Count(toClient, "PING"),
         nickHeld # {} => nickHeld' # {}, userSeen => userSeen',
         c = "NICK" => nickHeld' # {} \/ Has(toClient', "433"), c = "USER" => userSeen',
         pongs' = pongs + (IF c = "PONG" THEN 1 ELSE 0)
  PROVE  Underway'
<1>1. /\ toServer \in Seq(ClientMessage) /\ toClient \in Seq(ServerMessage) /\ toServer # <<>>
      /\ Head(toServer).cmd = c /\ toServer' = Tail(toServer) /\ outcome = "registering"
      /\ pings' = pings /\ (finished' <=> finished)
  BY DEF TypeOK, Takes, Serving
<1>2. Took(toServer', toServer, c)
  BY <1>1, TookHead
<1>3. /\ nickHeld # {} \/ Has(toServer, "NICK") \/ Has(toClient, "433")
      /\ userSeen \/ Has(toServer, "USER")
      /\ pings = pongs + Count(toClient, "PING") + Count(toServer, "PONG")
      /\ finished => Has(toClient, "001") \/ Has(toClient, "ERROR")
  BY <1>1, Zenon DEF Underway, Count
<1>4. nickHeld' # {} \/ Has(toServer', "NICK") \/ Has(toClient', "433")
  BY <1>2, <1>3, Zenon DEF Took
<1>5. userSeen' \/ Has(toServer', "USER")
  BY <1>2, <1>3, Zenon DEF Took
<1>6. finished' => Has(toClient', "001") \/ Has(toClient', "ERROR")
  BY <1>1, <1>3, Zenon
<1>7. pings' = pongs' + Count(toClient', "PING") + Count(toServer', "PONG")
  <2>1. toServer' \in Seq(ClientMessage)
    BY <1>1
  <2>2. /\ Count(toClient, "PING") \in Nat /\ Count(toServer, "PONG") \in Nat
        /\ Count(toServer', "PONG") \in Nat
    BY <1>1, <2>1, Counted, Zenon
  <2>3. pongs \in Nat
    BY Zenon DEF TypeOK
  <2>4. CASE c = "PONG"
    <3>1. Count(toServer', "PONG") + 1 = Count(toServer, "PONG")
      BY <1>2, <2>4, Zenon DEF Took
    <3>2. pongs' = pongs + 1
      BY <2>4
    <3> QED
      BY <1>1, <1>3, <2>2, <2>3, <3>1, <3>2
  <2>5. CASE c # "PONG"
    <3>1. Count(toServer', "PONG") = Count(toServer, "PONG")
      BY <1>2, <2>5, Zenon DEF Took
    <3>2. pongs' = pongs
      BY <2>3, <2>5
    <3> QED
      BY <1>1, <1>3, <3>1, <3>2
  <2> QED
    BY <2>4, <2>5
<1> QED
  BY <1>4, <1>5, <1>6, <1>7, Zenon DEF Underway, Count

LEMMA OnMessageKeepsUnderway ==
  ASSUME TypeOK, Underway, OnMessage, outcome' = "registering"
  PROVE  Underway'
<1>0. toServer \in Seq(ClientMessage)
  BY Zenon DEF TypeOK
<1>1. ASSUME NEW k, NEW m \in Seq(ClientMessage), Single(m, k), Sends(m)
      PROVE  /\ PutOne(toServer', toServer, k)
             /\ \A d : Has(toServer, d) => Has(toServer', d)
             /\ Has(toServer', k)
             /\ "PONG" # k => Count(toServer', "PONG") = Count(toServer, "PONG") + 0
  <2>1. PutOne(toServer', toServer, k)
    BY <1>0, <1>1, PutSingle DEF Sends
  <2>2. Put(toServer', toServer, k)
    BY <2>1, Zenon DEF PutOne
  <2>3. Count(toServer, "PONG") \in Nat
    BY <1>0, Counted, Zenon
  <2>4. "PONG" # k => Count(toServer', "PONG") = Count(toServer, "PONG")
    BY <2>2, Zenon DEF Put
  <2>5. "PONG" # k => Count(toServer', "PONG") = Count(toServer, "PONG") + 0
    BY <2>3, <2>4
  <2> QED
    BY <2>1, <2>2, <2>5, PutKeeps, Zenon
<1>2. ASSUME NEW c, Reads(c), c \notin {"001", "ERROR", "PING", "433"},
             NEW k \in {"CAP REQ", "CAP END", "AUTHENTICATE PLAIN"}, Sends(<<Msg(k)>>)
      PROVE  Underway'
  <2>1. <<Msg(k)>> \in Seq(ClientMessage) /\ Single(<<Msg(k)>>, k) /\ "PONG" # k
    BY CommandType, SingleMessage
  <2>2. /\ \A d : Has(toServer, d) => Has(toServer', d)
        /\ Count(toServer', "PONG") = Count(toServer, "PONG") + 0
    BY <1>1, <1>2, <2>1, Zenon
  <2>3. c \notin {"001", "ERROR"} /\ c # "433" /\ c # "PING"
    BY <1>2
  <2>4. Count(toServer', "PONG") = Count(toServer, "PONG") + (IF c = "PING" THEN 1 ELSE 0)
    BY <2>2, <2>3
  <2> QED
    BY <1>2, <2>2, <2>3, <2>4, ClientKeepsUnderway, Zenon
<1>3. CASE OnPing
  <2>1. Reads("PING") /\ Sends(<<Msg("PONG")>>)
    BY <1>3, Zenon DEF OnPing
  <2>2. <<Msg("PONG")>> \in Seq(ClientMessage) /\ Single(<<Msg("PONG")>>, "PONG")
    BY CommandType, SingleMessage
  <2>3. /\ \A d : Has(toServer, d) => Has(toServer', d)
        /\ Count(toServer', "PONG") = Count(toServer, "PONG") + 1
    BY <1>1, <2>1, <2>2, Zenon DEF PutOne
  <2> QED
    BY <2>1, <2>3, ClientKeepsUnderway
<1>4. CASE OnNickInUse
  <2>1. Reads("433") /\ outcome = "registering"
    BY <1>4 DEF OnNickInUse, Reads
  <2>2. ~(retriesLeft <= 0) /\ Sends(<<NickMsg(nick + 1)>>)
    BY <1>4 DEF OnNickInUse
  <2>3. <<NickMsg(nick + 1)>> \in Seq(ClientMessage) /\ Single(<<NickMsg(nick + 1)>>, "NICK")
    BY <2>2, Retrying, NickType, SingleMessage
  <2>4. /\ \A d : Has(toServer, d) => Has(toServer', d)
        /\ Has(toServer', "NICK")
        /\ Count(toServer', "PONG") = Count(toServer, "PONG") + 0
    BY <1>1, <2>2, <2>3, "PONG" # "NICK", Zenon
  <2> QED
    BY <2>1, <2>4, ClientKeepsUnderway
<1>5. CASE OnCapLs
  <2>1. Reads("CAP LS")
    BY <1>5, Zenon DEF OnCapLs
  <2>2. CASE UNCHANGED toServer
    <3>1. Count(toServer', "PONG") = Count(toServer, "PONG") + 0
      <4>1. Count(toServer, "PONG") \in Nat
        BY <1>0, Counted, Zenon
      <4> QED
        BY <2>2, <4>1
    <3>2. \A d : Has(toServer, d) => Has(toServer', d)
      BY <2>2
    <3> QED
      BY <2>1, <3>1, <3>2, ClientKeepsUnderway
  <2> QED
    BY <1>2, <1>5, <2>1, <2>2 DEF OnCapLs
<1>6. CASE OnCapAck
  BY <1>2, <1>6 DEF OnCapAck
<1>7. CASE OnCapNak
  BY <1>2, <1>7 DEF OnCapNak
<1>8. CASE OnSaslSuccess
  BY <1>2, <1>8 DEF OnSaslSuccess
<1>9. CASE OnSaslFailure
  BY <1>2, <1>9 DEF OnSaslFailure
<1>10. CASE OnAuthenticate
  <2>1. Reads("AUTHENTICATE +") /\ Sends(Chunks(blob))
    BY <1>10, Zenon DEF OnAuthenticate
  <2>2. blob \in Nat
    BY BlobAssumption DEF TypeOK
  <2>3. /\ Chunks(blob) \in Seq(ClientMessage) /\ Len(Chunks(blob)) > 0
        /\ \A i \in DOMAIN Chunks(blob) : Chunks(blob)[i].cmd = "CREDENTIALS"
    BY <2>2, ChunksType, Zenon
  <2>4. Put(toServer', toServer, "CREDENTIALS")
    BY <1>0, <2>1, <2>3, PutMany DEF Sends
  <2>5. /\ \A d : Has(toServer, d) => Has(toServer', d)
        /\ Count(toServer', "PONG") = Count(toServer, "PONG")
    BY <2>4, PutKeeps, "PONG" # "CREDENTIALS"
  <2>6. Count(toServer, "PONG") \in Nat
    BY <1>0, Counted, Zenon
  <2>7. Count(toServer', "PONG") = Count(toServer, "PONG") + 0
    BY <2>5, <2>6
  <2> QED
    BY <2>1, <2>5, <2>7, ClientKeepsUnderway
<1>11. CASE OnError \/ OnWelcome
  BY <1>11 DEF OnError, OnWelcome
<1> QED
  BY <1>3, <1>4, <1>5, <1>6, <1>7, <1>8, <1>9, <1>10, <1>11, Zenon DEF OnMessage

LEMMA ServerTakesKeepsUnderway ==
  ASSUME TypeOK, Underway, ServerTakes
  PROVE  Underway'
<1> DEFINE Heard == /\ \A d : Has(toClient, d) => Has(toClient', d)
                    /\ Count(toClient', "PING") = Count(toClient, "PING")
<1>0. toClient \in Seq(ServerMessage) /\ pongs \in Nat /\ server \in Servers
  BY Zenon DEF TypeOK
<1>1. UNCHANGED toClient => Heard
  OBVIOUS
<1>2. ASSUME NEW k \in Replies \ {"PING"}, Answers(<<Msg(k)>>)
      PROVE  Heard /\ Has(toClient', k)
  <2>1. <<Msg(k)>> \in Seq(ServerMessage) /\ Single(<<Msg(k)>>, k) /\ "PING" # k
    BY ReplyType, SingleMessage
  <2>2. toClient' = toClient \o <<Msg(k)>>
    BY <1>2, Zenon DEF Answers
  <2>3. PutOne(toClient', toClient, k)
    <3> DEFINE m == <<Msg(k)>>
    <3>1. m \in Seq(ServerMessage) /\ Single(m, k) /\ toClient' = toClient \o m
      BY <2>1, <2>2
    <3> HIDE DEF m
    <3> QED
      BY <1>0, <3>1, PutSingle
  <2> QED
    BY <2>1, <2>3, Zenon DEF PutOne, Put
<1>3. ASSUME NEW c, Takes(c), c \notin {"NICK", "USER", "PONG"}, Heard, UNCHANGED <<nickHeld, userSeen, pongs>>
      PROVE  Underway'
  <2>1. c # "NICK" /\ c # "USER" /\ c # "PONG"
    BY <1>3
  <2>2. pongs' = pongs + (IF c = "PONG" THEN 1 ELSE 0)
    BY <1>0, <1>3, <2>1
  <2>3. nickHeld' = nickHeld /\ (userSeen' <=> userSeen)
    BY <1>3
  <2> QED
    BY <1>3, <2>1, <2>2, <2>3, ServerKeepsUnderway, Zenon
<1>4. CASE TakesCapLs
  <2>1. Takes("CAP LS") /\ UNCHANGED <<nickHeld, userSeen, pongs>>
    BY <1>4 DEF TakesCapLs
  <2>2. Heard
    <3>1. CASE server.capable
      <4>1. toClient' = toClient \o LsLines
        BY <1>4, <3>1, Zenon DEF TakesCapLs, LsLines, Answers
      <4>2. Put(toClient', toClient, "CAP LS")
        BY <1>0, <4>1, LsLinesType, PutMany
      <4>3. \A d : Has(toClient, d) => Has(toClient', d)
        BY <4>2, PutKeeps, Zenon
      <4>4. Count(toClient', "PING") = Count(toClient, "PING")
        BY <4>2, "PING" # "CAP LS", Zenon DEF Put
      <4> QED
        BY <4>3, <4>4, Zenon
    <3>2. CASE ~server.capable
      BY <1>1, <1>4, <3>2 DEF TakesCapLs
    <3> QED
      BY <3>1, <3>2
  <2> QED
    BY <1>3, <2>1, <2>2
<1>5. CASE TakesNick
  <2>1. Takes("NICK") /\ (userSeen' <=> userSeen) /\ pongs' = pongs + 0
    BY <1>0, <1>5 DEF TakesNick
  <2>2. Heard /\ (nickHeld # {} => nickHeld' # {}) /\ (nickHeld' # {} \/ Has(toClient', "433"))
    <3>1. CASE Answers(<<Msg("433")>>) /\ UNCHANGED nickHeld
      BY <1>2, <3>1 DEF Replies
    <3>2. CASE nickHeld' = {Head(toServer).nick} /\ UNCHANGED toClient
      BY <1>1, <3>2
    <3> QED
      BY <1>5, <3>1, <3>2, Zenon DEF TakesNick
  <2> QED
    BY <2>1, <2>2, ServerKeepsUnderway
<1>6. CASE TakesUser
  <2>1. Takes("USER") /\ userSeen' /\ nickHeld' = nickHeld /\ UNCHANGED toClient /\ pongs' = pongs + 0
    BY <1>0, <1>6 DEF TakesUser
  <2> QED
    BY <1>1, <2>1, ServerKeepsUnderway
<1>7. CASE TakesCapReq
  <2>1. Takes("CAP REQ") /\ UNCHANGED <<nickHeld, userSeen, pongs>>
    BY <1>7 DEF TakesCapReq
  <2>2. Heard
    BY <1>2, <1>7 DEF TakesCapReq, Replies
  <2> QED
    BY <1>3, <2>1, <2>2
<1>8. CASE TakesMechanism
  <2>1. Takes("AUTHENTICATE PLAIN") /\ UNCHANGED <<nickHeld, userSeen, pongs>>
    BY <1>8 DEF TakesMechanism
  <2>2. Heard
    BY <1>2, <1>8 DEF TakesMechanism, Replies
  <2> QED
    BY <1>3, <2>1, <2>2
<1>9. CASE TakesCredentials
  <2>1. Takes("CREDENTIALS") /\ UNCHANGED <<nickHeld, userSeen, pongs>>
    BY <1>9 DEF TakesCredentials
  <2>2. UNCHANGED toClient \/ Answers(<<Msg(IF accepted' THEN "903" ELSE "904")>>)
    BY <1>9, Zenon DEF TakesCredentials
  <2>3. Heard
    BY <1>1, <1>2, <2>2 DEF Replies
  <2> QED
    BY <1>3, <2>1, <2>3
<1>10. CASE TakesCapEnd
  <2>1. Takes("CAP END") /\ UNCHANGED <<nickHeld, userSeen, pongs>> /\ UNCHANGED toClient
    BY <1>10 DEF TakesCapEnd
  <2> QED
    BY <1>1, <1>3, <2>1
<1>11. CASE TakesPong
  <2>1. Takes("PONG") /\ pongs' = pongs + 1 /\ nickHeld' = nickHeld /\ (userSeen' <=> userSeen) /\ UNCHANGED toClient
    BY <1>11 DEF TakesPong
  <2> QED
    BY <1>1, <2>1, ServerKeepsUnderway
<1> QED
  BY <1>4, <1>5, <1>6, <1>7, <1>8, <1>9, <1>10, <1>11, Zenon DEF ServerTakes

LEMMA ServerSpeaksKeepsUnderway ==
  ASSUME TypeOK, Underway, ServerPings \/ ServerRefuses \/ ServerWelcomes
  PROVE  Underway'
<1>0. PICK k \in {"PING", "ERROR", "001"} :
        /\ Answers(<<Msg(k)>>) /\ (finished' => finished \/ k # "PING")
        /\ pings' = pings + (IF k = "PING" THEN 1 ELSE 0)
  <2>1. pings \in Nat
    BY DEF TypeOK
  <2> QED
    BY <2>1 DEF ServerPings, ServerRefuses, ServerWelcomes, Serving
<1>1. /\ toClient \in Seq(ServerMessage) /\ toServer' = toServer /\ outcome = "registering"
      /\ nickHeld' = nickHeld /\ (userSeen' <=> userSeen) /\ pongs' = pongs /\ pongs \in Nat /\ pings \in Nat
      /\ toServer \in Seq(ClientMessage)
  BY DEF TypeOK, ServerPings, ServerRefuses, ServerWelcomes, Serving
<1>2. PutOne(toClient', toClient, k)
  <2> DEFINE m == <<Msg(k)>>
  <2>1. m \in Seq(ServerMessage) /\ Single(m, k)
    BY ReplyType, SingleMessage DEF Replies
  <2>2. toClient' = toClient \o m
    BY <1>0, Zenon DEF Answers
  <2> HIDE DEF m
  <2> QED
    BY <1>1, <2>1, <2>2, PutSingle
<1>3. /\ nickHeld # {} \/ Has(toServer, "NICK") \/ Has(toClient, "433")
      /\ userSeen \/ Has(toServer, "USER")
      /\ pings = pongs + Count(toClient, "PING") + Count(toServer, "PONG")
      /\ finished => Has(toClient, "001") \/ Has(toClient, "ERROR")
  BY <1>1, Zenon DEF Underway, Count
<1>4. (\A d : Has(toClient, d) => Has(toClient', d)) /\ Has(toClient', k)
  BY <1>2, Zenon DEF PutOne, Put
<1>5. nickHeld' # {} \/ Has(toServer', "NICK") \/ Has(toClient', "433")
  BY <1>1, <1>3, <1>4
<1>6. userSeen' \/ Has(toServer', "USER")
  BY <1>1, <1>3
<1>7. finished' => Has(toClient', "001") \/ Has(toClient', "ERROR")
  <2>1. k = "PING" \/ k = "001" \/ k = "ERROR"
    OBVIOUS
  <2> QED
    BY <1>0, <1>3, <1>4, <2>1, Zenon
<1>8. pings' = pongs' + Count(toClient', "PING") + Count(toServer', "PONG")
  <2>1. Count(toClient, "PING") \in Nat /\ Count(toServer, "PONG") \in Nat
    BY <1>1, Counted, Zenon
  <2>2. Count(toServer', "PONG") = Count(toServer, "PONG")
    BY <1>1
  <2>3. CASE k = "PING"
    <3>1. Count(toClient', "PING") = Count(toClient, "PING") + 1
      BY <1>2, <2>3, Zenon DEF PutOne
    <3>2. pings' = pings + 1
      BY <1>0, <2>3
    <3> QED
      BY <1>1, <1>3, <2>1, <2>2, <3>1, <3>2
  <2>4. CASE k # "PING"
    <3>1. Count(toClient', "PING") = Count(toClient, "PING")
      BY <1>2, <2>4, Zenon DEF PutOne, Put
    <3>2. pings' = pings
      BY <1>0, <1>1, <2>4
    <3> QED
      BY <1>1, <1>3, <2>2, <3>1, <3>2
  <2> QED
    BY <2>3, <2>4
<1> QED
  BY <1>5, <1>6, <1>7, <1>8, Zenon DEF Underway, Count

LEMMA InitUnderway == Init => Underway
<1> SUFFICES ASSUME Init PROVE Underway
  OBVIOUS
<1> DEFINE a == Msg("CAP LS")
           b == NickMsg(0)
           c == Msg("USER")
<1>1. toServer = <<a, b, c>> /\ toClient = <<>> /\ pings = 0 /\ pongs = 0 /\ ~finished
  BY DEF Init
<1>2. a.cmd = "CAP LS" /\ b.cmd = "NICK" /\ c.cmd = "USER"
  BY DEF Msg, NickMsg
<1> HIDE DEF a, b, c
<1>3. DOMAIN toServer = 1..3 /\ toServer[1] = a /\ toServer[2] = b /\ toServer[3] = c
  BY <1>1
<1>4. 2 \in At(toServer, "NICK") /\ 3 \in At(toServer, "USER") /\ At(toServer, "PONG") = {}
  <2>1. /\ \A i \in 1..3 : i = 1 \/ i = 2 \/ i = 3
        /\ 2 \in 1..3 /\ 3 \in 1..3
    OBVIOUS
  <2>2. \A i \in DOMAIN toServer : toServer[i].cmd # "PONG"
    <3>1. a.cmd # "PONG" /\ b.cmd # "PONG" /\ c.cmd # "PONG"
      BY <1>2
    <3> QED
      BY <1>3, <2>1, <3>1, Zenon
  <2>3. toServer[2].cmd = "NICK" /\ toServer[3].cmd = "USER" /\ 2 \in DOMAIN toServer /\ 3 \in DOMAIN toServer
    BY <1>2, <1>3, <2>1, Zenon
  <2>4. At(toServer, "PONG") = {}
    BY <2>2, Zenon DEF At
  <2>5. 2 \in At(toServer, "NICK") /\ 3 \in At(toServer, "USER")
    BY <2>3, Zenon DEF At
  <2> QED
    BY <2>4, <2>5
<1>5. At(toClient, "PING") = {}
  BY <1>1, Empty
<1>6. Cardinality({}) = 0
  BY FS_EmptySet
<1>7. pings = pongs + Cardinality(At(toClient, "PING")) + Cardinality(At(toServer, "PONG"))
  <2>1. Cardinality(At(toClient, "PING")) = 0 /\ Cardinality(At(toServer, "PONG")) = 0
    BY <1>4, <1>5, <1>6, Zenon
  <2> QED
    BY <1>1, <2>1
<1> QED
  BY <1>1, <1>4, <1>7, Zenon DEF Underway, Has

\* The nickname, USER and the answers to the server's PINGs are never lost.
THEOREM NothingLost == Spec => []Underway
<1>1. TypeOK /\ Underway /\ [Next]_vars => Underway'
  <2> SUFFICES ASSUME TypeOK, Underway, [Next]_vars PROVE Underway'
    OBVIOUS
  <2>1. CASE outcome' # "registering"
    BY <2>1 DEF Underway
  <2>2. CASE UNCHANGED vars
    BY <2>2 DEF vars, remote, client, Underway
  <2>3. CASE TimesOut \/ ConnectionEnds
    BY <2>3 DEF TimesOut, ConnectionEnds, Underway
  <2> QED
    BY <2>1, <2>2, <2>3, OnMessageKeepsUnderway, ServerTakesKeepsUnderway, ServerSpeaksKeepsUnderway DEF Next
<1> QED
  BY <1>1, InitUnderway, TypeCorrect, PTL DEF Spec

\* The two sides never both wait for the other, however nicknames, PINGs and
\* the negotiation cross: the core of Concludes that is a safety property.
THEOREM NeverBothWait == Spec => []NoStandoff
<1>1. TypeOK /\ SaslInv /\ Underway => NoStandoff
  <2> SUFFICES ASSUME TypeOK, SaslInv, Underway, outcome = "registering", toClient = <<>>,
                      ~(~finished /\ toServer # <<>>)
               PROVE  ~finished /\ nickHeld # {} /\ userSeen /\ ~negotiating /\ pongs = pings
    BY DEF NoStandoff
  <2>1. \A d : At(toClient, d) = {} /\ ~Has(toClient, d)
    BY Empty DEF Has
  <2>2. ~finished
    BY <2>1, Zenon DEF Underway
  <2>3. toServer = <<>>
    BY <2>2
  <2>4. \A d : At(toServer, d) = {} /\ ~Has(toServer, d)
    BY <2>3, Empty DEF Has
  <2>5. nickHeld # {} /\ userSeen
    BY <2>1, <2>4, Zenon DEF Underway
  <2>6. ~negotiating
    BY <2>1, <2>4, Zenon DEF SaslInv, TakesTurns
  <2>7. pongs = pings
    <3>1. pings = pongs + Cardinality(At(toClient, "PING")) + Cardinality(At(toServer, "PONG"))
      BY Zenon DEF Underway
    <3>2. Cardinality({}) = 0 /\ pongs \in Nat
      BY FS_EmptySet DEF TypeOK
    <3>3. Cardinality(At(toClient, "PING")) = 0 /\ Cardinality(At(toServer, "PONG")) = 0
      BY <2>1, <2>4, <3>2, Zenon
    <3> QED
      BY <3>1, <3>2, <3>3
  <2> QED
    BY <2>2, <2>5, <2>6, <2>7
<1> QED
  BY <1>1, TypeCorrect, SaslInvariant, NothingLost, PTL

==============================================================================
