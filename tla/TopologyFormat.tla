--------------------------- MODULE TopologyFormat ---------------------------
(***************************************************************************)
(* Which topology documents there are, without saying how they are parsed: *)
(* the reference for Unmarshal of Topology.                                *)
(***************************************************************************)
EXTENDS Integers

\* The object has the key only with a value that is Ok.
Optional(object, key, Ok(_)) == key \in DOMAIN object => Ok(object[key])

Is(j, kind) == j.json = kind
IsSize(j) == (Is(j, "number") /\ j.value >= 0) \/ (Is(j, "string") /\ j.value.unit < 6)
IsPercentage(j) ==
  \/ Is(j, "number") /\ j.value \in 0 .. 10000
  \/ Is(j, "string") /\ j.value.percent /\ j.value.number \in 0 .. 100
IsType(j) == Is(j, "string") /\ j.value \in {"http", "grpc"}
IsName(j) == Is(j, "string")

\* A command that is not concurrent: an object with one of two keys.
IsSleep(j) ==
  /\ Is(j, "object") /\ DOMAIN j.value = {"sleep"}
  /\ Is(j.value["sleep"], "string") /\ j.value["sleep"].value.duration
IsCall(j) ==
  /\ Is(j, "object") /\ DOMAIN j.value = {"call"}
  /\ LET target == j.value["call"]
     IN  \/ IsName(target)
         \/ /\ Is(target, "object")
            /\ Optional(target.value, "service", IsName) /\ Optional(target.value, "size", IsSize)

\* The commands of a step: it is one, or a list of some.
CommandsOf(j) == IF Is(j, "array") THEN {j.value[i] : i \in DOMAIN j.value} ELSE {j}
CommandsOfScript(j) == UNION {CommandsOf(j.value[i]) : i \in DOMAIN j.value}
IsScript(j) ==
  Is(j, "array") /\ \A c \in CommandsOfScript(j) : \A d \in CommandsOf(c) : IsSleep(d) \/ IsCall(d)

NameCalled(j) ==
  IF Is(j.value["call"], "string") THEN j.value["call"].value
  ELSE IF "service" \in DOMAIN j.value["call"].value THEN j.value["call"].value["service"].value ELSE ""
\* What a service may run: no list in a list, and it only calls these names.
Runs(script, names) ==
  \A c \in CommandsOfScript(script) :
    ~Is(c, "array") /\ (IsCall(c) => NameCalled(c) \in names)

HasSettings(object) ==
  /\ Optional(object, "type", IsType)
  /\ Optional(object, "numReplicas", LAMBDA v : Is(v, "number"))
  /\ Optional(object, "errorRate", IsPercentage)
  /\ Optional(object, "responseSize", IsSize)
  /\ Optional(object, "script", IsScript)
IsDefaults(j) ==
  Is(j, "object") /\ HasSettings(j.value) /\ Optional(j.value, "requestSize", IsSize)
IsService(j) ==
  /\ Is(j, "object") /\ HasSettings(j.value)
  /\ "name" \in DOMAIN j.value /\ IsName(j.value["name"]) /\ j.value["name"].value # ""
  /\ Optional(j.value, "isEntrypoint", LAMBDA v : Is(v, "boolean"))

\* Services have names, and all that is called is one of them, by the default
\* script, too, if some service has it.  A default script that none has need
\* only be read.
WellFormed(document) ==
  /\ Optional(document, "defaults", IsDefaults)
  /\ Optional(document, "services", LAMBDA j : Is(j, "array") /\ \A i \in DOMAIN j.value : IsService(j.value[i]))
  /\ "services" \in DOMAIN document =>
       LET list == document["services"].value
           names == {list[i].value["name"].value : i \in DOMAIN list}
       IN  \A i \in DOMAIN list :
             /\ "script" \in DOMAIN list[i].value => Runs(list[i].value["script"], names)
             /\ ("script" \notin DOMAIN list[i].value /\ "defaults" \in DOMAIN document
                  /\ "script" \in DOMAIN document["defaults"].value) =>
                    Runs(document["defaults"].value["script"], names)

-----------------------------------------------------------------------------
(* How scalars are kept (Scalars): numbers are integers, the text of a     *)
(* size is its digits and its unit, that of a percentage is a number.      *)
SizeIsTyped(j) ==
  /\ Is(j, "number") => j.value \in Int
  /\ Is(j, "string") => j.value.digits \in Nat /\ j.value.decimals \in Nat /\ j.value.unit \in Nat
RateIsTyped(j) ==
  /\ Is(j, "number") => j.value \in Int
  /\ Is(j, "string") => j.value.number \in Int

CommandIsTyped(j) ==
  Is(j, "object") /\ "call" \in DOMAIN j.value /\ Is(j.value["call"], "object") =>
    Optional(j.value["call"].value, "size", SizeIsTyped)
ScriptIsTyped(j) ==
  Is(j, "array") => \A c \in CommandsOfScript(j) : \A d \in CommandsOf(c) : CommandIsTyped(d)
SettingsAreTyped(j) ==
  Is(j, "object") =>
    /\ Optional(j.value, "requestSize", SizeIsTyped) /\ Optional(j.value, "responseSize", SizeIsTyped)
    /\ Optional(j.value, "errorRate", RateIsTyped) /\ Optional(j.value, "script", ScriptIsTyped)

ScalarsAreTyped(document) ==
  /\ Optional(document, "defaults", SettingsAreTyped)
  /\ Optional(document, "services",
              LAMBDA j : Is(j, "array") => \A i \in DOMAIN j.value : SettingsAreTyped(j.value[i]))
=============================================================================
