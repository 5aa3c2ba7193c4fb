-------------------------------- MODULE Config --------------------------------
(***************************************************************************)
(* load_config: from what the file says to a BridgeConfig, a ConfigError,  *)
(* or an exception that is neither.                                        *)
(*                                                                         *)
(* A raw configuration gives each of its fields the value it has once each *)
(* ${VAR} is replaced, and a value is one of the kinds that the coercions  *)
(* and the tests tell apart: "small" and "large" are numbers (and          *)
(* numerals), in range and out of it, "huge" is an integer that no float   *)
(* can hold, "list" is one of texts.  Left out are integers of more than   *)
(* the 4300 digits that Python reads and prints.                           *)
(***************************************************************************)
EXTENDS Integers

Numbers == {"negative", "zero", "small", "large", "huge"}
Kinds == Numbers \cup {"nan", "inf", "absent", "null", "empty", "text", "spaced", "list", "map"}

\* What irc_channel may be besides: names, with and without a fault, a list
\* whose first entry is "#" (or a mapping with it under 0), and a list of numbers.
Names == {"#name", "#spaced", "#long", "#list", "numbers"}

Field == {"file", "environment", "mesh", "irc", "channels",
          "connection", "type", "address", "port", "baudrate", "host", "attempts",
          "auth", "server", "ircPort", "nickname", "mode",
          "sasl", "saslUser", "saslPassword", "nickserv", "nickPassword", "joinWait", "reconnect",
          "initialDelay", "maxDelay", "pingIdle", "pingTimeout", "minInterval",
          "entry", "index1", "name1", "index2", "name2"}

TypeNames == {"ble", "serial", "tcp"}
ModeNames == {"sasl", "nickserv", "none"}

\* The values of a field that are not only kinds.
Values(field) ==
  CASE field = "file" -> {"readable", "unreadable", "undecodable", "notYaml", "notMapping"}
    [] field = "environment" -> {"complete", "incomplete", "endless"}
    [] field = "type" -> TypeNames \cup Kinds
    [] field = "mode" -> ModeNames \cup Kinds
    [] field \in {"name1", "name2"} -> Names \cup Kinds
    [] OTHER -> Kinds

\* A configuration that loads, for each way to reach the radio and to log in.
Sound(type, mode) ==
  [field \in Field |->
     CASE field = "file" -> "readable"
       [] field = "environment" -> "complete"
       [] field = "type" -> type
       [] field = "mode" -> mode
       [] field = "channels" -> "list"
       [] field \in {"name1", "name2"} -> "#name"
       [] field = "index1" -> "zero"
       [] field \in {"mesh", "irc", "connection", "auth", "reconnect", "entry"} -> "map"
       [] field \in {"sasl", "nickserv"} -> IF mode = field THEN "map" ELSE "absent"
       [] field \in {"address", "host", "server", "nickname", "saslUser", "saslPassword",
                     "nickPassword"} -> "text"
       [] field = "port" -> IF type = "serial" THEN "text" ELSE "small"
       [] OTHER -> "small"]

-----------------------------------------------------------------------------
(* Values. *)

Truthy(value) == value \notin {"absent", "null", "empty", "zero"}

\* Comparisons of numbers; those with a NaN are all false.
Rank(value) == CASE value = "negative" -> -1 [] value = "zero" -> 0 [] value = "small" -> 1
                 [] value = "large" -> 2 [] value = "huge" -> 3 [] value = "inf" -> 4
Ordered(v, w) == {v, w} \subseteq Numbers \cup {"inf"}
Less(v, w) == Ordered(v, w) /\ Rank(v) < Rank(w)
AtMost(v, w) == Ordered(v, w) /\ Rank(v) <= Rank(w)

\* A number that is absent has its default.
Given(raw, field) ==
  IF raw[field] # "absent" THEN raw[field] ELSE IF field = "maxDelay" THEN "large" ELSE "small"

Unless(bad, outcome) == IF bad THEN outcome ELSE "ok"
Require(good) == Unless(~good, "ConfigError")

\* One check after another: the first that fails is the outcome.
first ?? second == IF first = "ok" THEN second ELSE first

\* _coerce_int and _coerce_float catch TypeError and ValueError; what int() says of
\* an infinity, and float() of an integer beyond its range, is an OverflowError.
CoerceInt(value) ==
  CASE value \in Numbers \cup {"absent"} -> "ok"
    [] value = "inf" -> "crash"
    [] OTHER -> "ConfigError"
CoerceFloat(value) ==
  CASE value \in (Numbers \ {"huge"}) \cup {"nan", "inf", "absent"} -> "ok"
    [] value = "huge" -> "crash"
    [] OTHER -> "ConfigError"

-----------------------------------------------------------------------------
(* The validation of each dataclass (__post_init__), in the order of the code. *)

MeshConnectionConfig(raw) ==
  Require(raw["type"] \in TypeNames)
  ?? Require(raw["type"] = "ble" => Truthy(raw["address"]))
  ?? Require(raw["type"] = "serial" => Truthy(raw["port"]))
  ?? Require(raw["type"] = "tcp" => Truthy(raw["host"]))

MeshConfig(raw) == Unless(Less(raw["attempts"], "small"), "ConfigError")

SaslConfig(raw) == Require(Truthy(raw["saslUser"])) ?? Require(Truthy(raw["saslPassword"]))

NickservConfig(raw) ==
  Require(Truthy(raw["nickPassword"])) ?? Unless(Less(raw["joinWait"], "zero"), "ConfigError")

\* A section that is null is as good as absent.
Has(raw, section) == raw[section] \notin {"absent", "null"}

\* Mutation: only the section of SASL is asked for.
AuthConfigOfSasl(raw) ==
  Require(raw["mode"] \in ModeNames)
  ?? Require(raw["mode"] = "sasl" => Has(raw, "sasl"))

AuthConfig(raw) ==
  Require(raw["mode"] \in ModeNames)
  ?? Require(raw["mode"] \in {"sasl", "nickserv"} => Has(raw, raw["mode"]))

ReconnectConfig(raw) ==
  Unless(AtMost(Given(raw, "initialDelay"), "zero"), "ConfigError")
  ?? Unless(Less(Given(raw, "maxDelay"), Given(raw, "initialDelay")), "ConfigError")

IrcConfig(raw) ==
  Require(Truthy(raw["server"]))
  ?? Require(raw["ircPort"] = "small")
  ?? Require(Truthy(raw["nickname"]))
  ?? Unless(AtMost(raw["pingIdle"], "zero"), "ConfigError")
  ?? Unless(AtMost(raw["pingTimeout"], "zero"), "ConfigError")
  ?? Unless(Less(raw["minInterval"], "zero"), "ConfigError")

\* What has no first character to compare: a TypeError or a KeyError.
Characterless == Numbers \cup {"nan", "inf", "map", "numbers"}

\* A list that begins with "#" passes for a name, and the test for spaces and
\* commas looks for them among its entries.
ChannelMapping(index, name) ==
  Unless(Less(index, "zero"), "ConfigError")
  ?? Require(Truthy(name))
  ?? Unless(name \in Characterless, "crash")
  ?? Require(name \in {"#name", "#list"})

\* No mesh channel has two destinations; that there is a channel at all goes
\* without saying, since the list has two entries here.
BridgeConfig(raw) == Require(raw["index1"] # raw["index2"])

-----------------------------------------------------------------------------
(* The builders: what must be there, the coercions, and the dataclass.  A    *)
(* section that is there is checked whether or not it is used.               *)

BuildMeshConfig(raw) ==
  Require(raw["connection"] = "map") ?? Require(raw["type"] # "absent")
  ?? (IF raw["type"] = "tcp" THEN CoerceInt(raw["port"]) ELSE "ok")
  ?? CoerceInt(raw["baudrate"])
  ?? MeshConnectionConfig(raw)
  ?? CoerceInt(raw["attempts"])
  ?? MeshConfig(raw)

BuildAuthConfig(raw) ==
  Require(raw["mode"] # "absent")
  ?? (IF Has(raw, "sasl") THEN Require(raw["sasl"] = "map") ?? SaslConfig(raw) ELSE "ok")
  ?? (IF Has(raw, "nickserv")
      THEN Require(raw["nickserv"] = "map") ?? CoerceFloat(raw["joinWait"]) ?? NickservConfig(raw)
      ELSE "ok")
  ?? AuthConfig(raw)

BuildReconnectConfig(raw) ==
  IF ~Has(raw, "reconnect") THEN "ok" ELSE
  Require(raw["reconnect"] = "map")
  ?? CoerceFloat(raw["initialDelay"]) ?? CoerceFloat(raw["maxDelay"])
  ?? ReconnectConfig(raw)

BuildIrcConfig(raw) ==
  Require(raw["auth"] = "map") ?? Require(raw["server"] # "absent")
  ?? Require(raw["ircPort"] # "absent") ?? CoerceInt(raw["ircPort"])
  ?? Require(raw["nickname"] # "absent")
  ?? BuildAuthConfig(raw) ?? BuildReconnectConfig(raw)
  ?? CoerceFloat(raw["pingIdle"]) ?? CoerceFloat(raw["pingTimeout"])
  ?? CoerceFloat(raw["minInterval"])
  ?? IrcConfig(raw)

BuildChannel(index, name) ==
  Require(index # "absent") ?? CoerceInt(index) ?? Require(name # "absent")
  ?? ChannelMapping(index, name)

BuildChannels(raw) ==
  Require(raw["channels"] = "list") ?? Require(raw["entry"] = "map")
  ?? BuildChannel(raw["index1"], raw["name1"]) ?? BuildChannel(raw["index2"], raw["name2"])

BuildConfig(raw) ==
  Require(raw["mesh"] = "map") ?? Require(raw["irc"] = "map")
  ?? Require(raw["channels"] # "absent")
  ?? BuildMeshConfig(raw) ?? BuildIrcConfig(raw) ?? BuildChannels(raw)
  ?? BridgeConfig(raw)

\* Every ${VAR} is replaced, or one is not set; a mapping or list that contains
\* itself (a YAML alias) has no end, and is a RecursionError.
InterpolateEnv(raw) ==
  Unless(raw["environment"] = "endless", "crash") ?? Require(raw["environment"] = "complete")

\* load_config.  A file that is no text, or has a date or a decimal integer that
\* Python refuses, is a ValueError that nobody catches.
Load(raw) ==
  Unless(raw["file"] = "unreadable", "ConfigError")
  ?? Unless(raw["file"] = "undecodable", "crash")
  ?? Unless(raw["file"] \in {"notYaml", "notMapping"}, "ConfigError")
  ?? InterpolateEnv(raw) ?? BuildConfig(raw)

-----------------------------------------------------------------------------
(* What a BridgeConfig is to the rest of the program. *)

\* What mesh_connection.connect, IRCClient._run_session and _send_sasl_response
\* assert of it, in the branches they take: a port, a host, credentials.
AssertionsHold(raw) ==
  /\ raw["type"] = "serial" => Has(raw, "port")
  /\ raw["type"] \notin {"ble", "serial"} => Has(raw, "host")
  /\ raw["mode"] = "nickserv" => raw["nickserv"] = "map"
  /\ raw["mode"] = "sasl" => raw["sasl"] = "map"

\* Bridge.__init__ counts the destinations in a dict, and a list has no hash.
BridgeBuilds(raw) == "#list" \notin {raw["name1"], raw["name2"]}

\* The delays and their order, as the messages of ReconnectConfig and IrcConfig
\* put it.
DelaysInOrder(raw) ==
  /\ Has(raw, "reconnect") =>
       /\ Less("zero", Given(raw, "initialDelay"))
       /\ AtMost(Given(raw, "initialDelay"), Given(raw, "maxDelay"))
  /\ \A field \in {"pingIdle", "pingTimeout"} : Less("zero", Given(raw, field))

\* What leaves load_config as something else than a ConfigError.
Uncaught(raw) ==
  \/ raw["file"] = "undecodable" \/ raw["environment"] = "endless"
  \/ \E field \in {"port", "baudrate", "attempts", "ircPort", "index1", "index2"} :
       raw[field] = "inf"
  \/ \E field \in {"initialDelay", "maxDelay", "joinWait", "pingIdle", "pingTimeout",
                   "minInterval"} : raw[field] = "huge"
  \/ {raw["name1"], raw["name2"]} \cap Characterless # {}

===============================================================================
