---------------------------- MODULE ConfigProofs ----------------------------
(***************************************************************************)
(* What load_config guarantees, for every raw configuration whatever its   *)
(* fields hold: the assertions made of one that loads; the order of its    *)
(* delays, unless one is a NaN; and what the exceptions that are no        *)
(* ConfigError can come from.                                              *)
(***************************************************************************)
EXTENDS Config, TLAPS

LEMMA Passed ==
  ASSUME NEW first, NEW second
  PROVE  first ?? second = "ok" <=> first = "ok" /\ second = "ok"
BY DEF ??

LEMMA Crashed ==
  ASSUME NEW first, NEW second, first ?? second = "crash"
  PROVE  first = "crash" \/ second = "crash"
BY DEF ??

\* The delays that pass the checks of ReconnectConfig, unless one is a NaN.
LEMMA ReconnectDelays ==
  ASSUME NEW raw, BuildReconnectConfig(raw) = "ok", Has(raw, "reconnect"),
         raw["initialDelay"] # "nan", raw["maxDelay"] # "nan"
  PROVE  /\ Less("zero", Given(raw, "initialDelay"))
         /\ AtMost(Given(raw, "initialDelay"), Given(raw, "maxDelay"))
<1>1. /\ CoerceFloat(raw["initialDelay"]) = "ok"
      /\ CoerceFloat(raw["maxDelay"]) = "ok"
      /\ ~AtMost(Given(raw, "initialDelay"), "zero")
      /\ ~Less(Given(raw, "maxDelay"), Given(raw, "initialDelay"))
  BY Passed DEF BuildReconnectConfig, ReconnectConfig, Unless
<1>2. /\ Given(raw, "initialDelay") \in Numbers \cup {"inf"}
      /\ Given(raw, "maxDelay") \in Numbers \cup {"inf"}
  BY <1>1 DEF CoerceFloat, Given, Numbers
<1> QED
  BY <1>1, <1>2 DEF AtMost, Less, Ordered, Rank, Numbers

\* Each assertion that connect, _run_session and _send_sasl_response make of the
\* configuration holds of one that loads, for every value of every field.
THEOREM AssertionsKept == \A raw : Load(raw) = "ok" => AssertionsHold(raw)
<1> SUFFICES ASSUME NEW raw, Load(raw) = "ok" PROVE AssertionsHold(raw)
  OBVIOUS
<1>1. BuildMeshConfig(raw) = "ok" /\ BuildIrcConfig(raw) = "ok"
  BY Passed DEF Load, BuildConfig
<1>2. /\ raw["type"] \in TypeNames
      /\ raw["type"] = "serial" => Truthy(raw["port"])
      /\ raw["type"] = "tcp" => Truthy(raw["host"])
  BY <1>1, Passed DEF BuildMeshConfig, MeshConnectionConfig, Require, Unless
<1>3. BuildAuthConfig(raw) = "ok"
  BY <1>1, Passed DEF BuildIrcConfig
<1>4. raw["mode"] \in {"sasl", "nickserv"} => raw[raw["mode"]] = "map"
  BY <1>3, Passed DEF BuildAuthConfig, AuthConfig, Require, Unless
<1> QED
  BY <1>2, <1>4 DEF AssertionsHold, TypeNames, Has, Truthy

\* The delays of a configuration that loads are in the order that the messages of
\* ReconnectConfig and IrcConfig ask for, provided that none of them is a NaN,
\* which is what those checks fail to refuse.
THEOREM LoadedDelays ==
  \A raw :
    /\ Load(raw) = "ok"
    /\ \A field \in {"initialDelay", "maxDelay", "pingIdle", "pingTimeout"} : raw[field] # "nan"
    => DelaysInOrder(raw)
<1> SUFFICES ASSUME NEW raw, Load(raw) = "ok",
                    \A field \in {"initialDelay", "maxDelay", "pingIdle", "pingTimeout"} :
                      raw[field] # "nan"
             PROVE  DelaysInOrder(raw)
  OBVIOUS
<1>1. BuildIrcConfig(raw) = "ok"
  BY Passed DEF Load, BuildConfig
<1>2. /\ BuildReconnectConfig(raw) = "ok"
      /\ CoerceFloat(raw["pingIdle"]) = "ok" /\ CoerceFloat(raw["pingTimeout"]) = "ok"
      /\ ~AtMost(raw["pingIdle"], "zero") /\ ~AtMost(raw["pingTimeout"], "zero")
  BY <1>1, Passed DEF BuildIrcConfig, IrcConfig, Require, Unless
<1>3. ASSUME NEW field \in {"pingIdle", "pingTimeout"}
      PROVE  Less("zero", Given(raw, field))
  <2>1. /\ Given(raw, field) \in Numbers \cup {"inf"}
        /\ raw[field] = "absent" \/ ~AtMost(Given(raw, field), "zero")
    BY <1>2, <1>3 DEF CoerceFloat, Given, Numbers
  <2>2. raw[field] = "absent" => Given(raw, field) = "small"
    BY <1>3 DEF Given
  <2> QED
    BY <2>1, <2>2 DEF AtMost, Less, Ordered, Rank, Numbers
<1> QED
  BY <1>2, <1>3, ReconnectDelays DEF DelaysInOrder

\* An exception that is no ConfigError leaves load_config only for what Uncaught
\* lists; ConfigProblemsReported (BridgeProcess) asks that there be none.
THEOREM CrashHasCause == \A raw : Load(raw) = "crash" => Uncaught(raw)
<1> SUFFICES ASSUME NEW raw, Load(raw) = "crash", ~Uncaught(raw)
             PROVE  FALSE
  OBVIOUS
<1> USE DEF Uncaught
<1>1. \A value : /\ CoerceFloat(value) = "crash" => value = "huge"
                 /\ CoerceInt(value) = "crash" => value = "inf"
  BY DEF CoerceFloat, CoerceInt, Numbers
<1>2. InterpolateEnv(raw) # "crash" /\ BridgeConfig(raw) # "crash"
  BY Crashed DEF InterpolateEnv, BridgeConfig, Require, Unless
<1>3. BuildMeshConfig(raw) # "crash"
  BY <1>1, Crashed DEF BuildMeshConfig, MeshConnectionConfig, MeshConfig, Require, Unless
<1>4. BuildAuthConfig(raw) # "crash"
  BY <1>1, Crashed DEF BuildAuthConfig, AuthConfig, SaslConfig, NickservConfig, Require, Unless
<1>5. BuildReconnectConfig(raw) # "crash"
  BY <1>1, Crashed DEF BuildReconnectConfig, ReconnectConfig, Require, Unless
<1>6. BuildIrcConfig(raw) # "crash"
  BY <1>1, <1>4, <1>5, Crashed DEF BuildIrcConfig, IrcConfig, Require, Unless
<1>7. /\ BuildChannel(raw["index1"], raw["name1"]) # "crash"
      /\ BuildChannel(raw["index2"], raw["name2"]) # "crash"
  BY <1>1, Crashed DEF BuildChannel, ChannelMapping, Require, Unless
<1>8. BuildChannels(raw) # "crash"
  BY <1>7, Crashed DEF BuildChannels, Require, Unless
<1>9. BuildConfig(raw) # "crash"
  BY <1>2, <1>3, <1>6, <1>8, Crashed DEF BuildConfig, Require, Unless
<1> QED
  BY <1>2, <1>9, Crashed DEF Load, Unless

=============================================================================
