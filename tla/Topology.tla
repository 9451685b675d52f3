------------------------------ MODULE Topology ------------------------------
(***************************************************************************)
(* A topology document and the graph it is unmarshalled to, by one parser  *)
(* alone (GraphParse has several at once): commands by their JSON form,    *)
(* services with defaults, validation, and the document a graph is         *)
(* marshalled to (convert/pkg/graph, script and svc).                      *)
(*                                                                         *)
(* A document is a function of the keys it has; one of its objects, too.   *)
(* A duration is kept as whether time.ParseDuration takes it.              *)
(***************************************************************************)
EXTENDS Scalars, ServiceGraph, Functions

\* What a member of a JSON object is read as, if the object has it.
Member(object, key, Read(_), default) ==
  IF key \in DOMAIN object THEN Read(object[key]) ELSE {default}
Plain(object, key, kind, default) == Member(object, key, LAMBDA v : Value(v, kind), default)
Flag(object, key) == Plain(object, key, "boolean", FALSE)
SizeOf(object, key, default) == Member(object, key, ByteSize, default)

\* All of a list, or an error if one of them is.
All(results) ==
  IF \E i \in DOMAIN results : results[i] = {} THEN {}
  ELSE {[i \in DOMAIN results |-> CHOOSE r \in results[i] : TRUE]}

\* The zero value of a string.
NoName == ""

-----------------------------------------------------------------------------
(* Commands                                                                *)

Duration(parses) == Str([duration |-> parses])

ParseSleep(j) == IF j.json = "string" /\ j.value.duration THEN {SleepCommand} ELSE {}

\* RequestCommand.UnmarshalJSON, from a name or from an object.
ParseRequestObject(object, size) ==
  {RequestCommand(name, z) : name \in Plain(object, "service", "string", NoName),
                             z \in SizeOf(object, "size", size)}
ParseRequest(j, size) ==
  IF j.json = "string" THEN {RequestCommand(j.value, size)}
  ELSE UNION {ParseRequestObject(object, size) : object \in Value(j, "object")}

\* Mutant: of several keys one is taken.
ParseSingleOfMany(j, size) ==
  IF j.json # "object" THEN {}
  ELSE CASE "sleep" \in DOMAIN j.value -> ParseSleep(j.value["sleep"])
         [] "call" \in DOMAIN j.value -> ParseRequest(j.value["call"], size)
         [] OTHER -> {}

\* A command that is not a list: its only key decides.
ParseSingle(j, size) ==
  IF j.json # "object" THEN {}
  ELSE CASE DOMAIN j.value = {"sleep"} -> ParseSleep(j.value["sleep"])
         [] DOMAIN j.value = {"call"}  -> ParseRequest(j.value["call"], size)
         [] OTHER -> {}

\* A list, when its commands have been parsed.
ParseConcurrent(results) == {ConcurrentCommand(cmds) : cmds \in All(results)}

\* A list in a list, which validate rejects.  Bound: documents have no list in
\* that one (the code parses any depth, for validate to reject all the same).
ParseNested(j, size) ==
  IF j.json = "array" THEN ParseConcurrent([i \in DOMAIN j.value |-> ParseSingle(j.value[i], size)])
  ELSE ParseSingle(j, size)

\* unmarshallableCommand.UnmarshalJSON
ParseCommand(j, size) ==
  IF j.json = "array" THEN ParseConcurrent([i \in DOMAIN j.value |-> ParseNested(j.value[i], size)])
  ELSE ParseSingle(j, size)

ParseScript(j, size) ==
  UNION {All([i \in DOMAIN list |-> ParseCommand(list[i], size)]) : list \in Value(j, "array")}

MarshalSingle(cmd) ==
  IF cmd.op = "sleep" THEN Object([sleep |-> Duration(TRUE)])
  ELSE Object([call |-> Object([service |-> Str(cmd.service), size |-> Str(String(cmd.size))])])

MarshalCommand(cmd) ==
  IF cmd.op = "all" THEN Array([i \in DOMAIN cmd.cmds |-> MarshalSingle(cmd.cmds[i])])
  ELSE MarshalSingle(cmd)

-----------------------------------------------------------------------------
(* Services                                                                *)

DefaultService ==
  [type |-> "HTTP", numReplicas |-> 1, errorRate |-> 0, responseSize |-> 0, script |-> <<>>]

\* The settings that defaults and services have in common.
Settings(object, default, size) ==
  {[type |-> t, numReplicas |-> n, errorRate |-> e, responseSize |-> z, script |-> s] :
     t \in Member(object, "type", ServiceType, default.type),
     n \in Plain(object, "numReplicas", "number", default.numReplicas),
     e \in Member(object, "errorRate", Percentage, default.errorRate),
     z \in SizeOf(object, "responseSize", default.responseSize),
     s \in Member(object, "script", LAMBDA v : ParseScript(v, size), default.script)}

\* Service.UnmarshalJSON
NamedService(name, entry, s) ==
  [name |-> name, isEntrypoint |-> entry, type |-> s.type, numReplicas |-> s.numReplicas,
   errorRate |-> s.errorRate, responseSize |-> s.responseSize, script |-> s.script]
ParseServiceObject(object, default, size) ==
  {NamedService(name, entry, s) : name \in Plain(object, "name", "string", NoName) \ {NoName},
                                  entry \in Flag(object, "isEntrypoint"),
                                  s \in Settings(object, default, size)}
ParseService(j, default, size) ==
  UNION {ParseServiceObject(object, default, size) : object \in Value(j, "object")}

\* omitempty: the fields that are left out of a service's JSON.
Empty(s) ==
  {f \in {"numReplicas", "errorRate", "responseSize"} : s[f] = 0}
    \cup (IF s.isEntrypoint THEN {} ELSE {"isEntrypoint"})
    \cup (IF s.script = <<>> THEN {"script"} ELSE {})

MarshalService(s) ==
  LET object == [name |-> Str(s.name), type |-> Str(LowerCase(s.type)),
                 numReplicas |-> Num(s.numReplicas), isEntrypoint |-> Bool(s.isEntrypoint),
                 errorRate |-> Num(s.errorRate), responseSize |-> Str(String(s.responseSize)),
                 script |-> Array([i \in DOMAIN s.script |-> MarshalCommand(s.script[i])])]
  IN  Object(Restrict(object, DOMAIN object \ Empty(s)))

-----------------------------------------------------------------------------
(* Graphs: sequences of services                                           *)

NamesOf(graph) == {graph[k].name : k \in DOMAIN graph}

DefinedCalls(cmds, names) ==
  \A i \in DOMAIN cmds : cmds[i].op = "call" => cmds[i].service \in names

ContainsConcurrentCommand(cmds) == \E i \in DOMAIN cmds : cmds[i].op = "all"

\* Mutants: concurrent commands are not looked into, names are not looked up.
ValidateTopLevel(cmds, names) == DefinedCalls(cmds, names)
ValidateNesting(cmds, names) ==
  \A i \in DOMAIN cmds : cmds[i].op = "all" => ~ContainsConcurrentCommand(cmds[i].cmds)

ValidateCommands(cmds, names) ==
  /\ DefinedCalls(cmds, names)
  /\ \A i \in DOMAIN cmds : cmds[i].op = "all" =>
       DefinedCalls(cmds[i].cmds, names) /\ ~ContainsConcurrentCommand(cmds[i].cmds)

Validate(graph) == \A k \in DOMAIN graph : ValidateCommands(graph[k].script, NamesOf(graph))

\* The defaults map.  Its script is read while DefaultRequestCommand has size 0.
Defaults(document) ==
  Member(document, "defaults", LAMBDA j : UNION {Settings(d, DefaultService, 0) : d \in Value(j, "object")},
         DefaultService)
RequestSize(document) ==
  Member(document, "defaults",
         LAMBDA j : UNION {SizeOf(d, "requestSize", 0) : d \in Value(j, "object")}, 0)

ServiceList(document) == Plain(document, "services", "array", <<>>)

ParseServices(list, default, size) ==
  All([i \in DOMAIN list |-> ParseService(list[i], default, size)])

\* ServiceGraph.UnmarshalJSON
Unmarshal(document) ==
  {graph \in UNION {ParseServices(list, default, size) : list \in ServiceList(document),
                      default \in Defaults(document), size \in RequestSize(document)}
   : Validate(graph)}

\* Marshal(graph) is read by Unmarshal again.  Sizes lose what four digits cannot
\* say; how many replicas a service has is not read by those who read this.
Marshal(graph) == [services |-> Array([k \in DOMAIN graph |-> MarshalService(graph[k])])]

-----------------------------------------------------------------------------
(* The graph that is read against the graph that was printed.              *)

\* Half a unit of the last of four digits, and the fraction of a byte.
Near(size, original) ==
  /\ size <= original + original \div 2000 + 1
  /\ original <= size + original \div 2000 + 1
  /\ original < KiB => size = original

SameCommand(cmd, original) ==
  /\ cmd.op = original.op
  /\ cmd.op = "call" => cmd.service = original.service /\ Near(cmd.size, original.size)

SameStep(step, original) ==
  /\ step.op = original.op
  /\ DOMAIN Subcommands(step) = DOMAIN Subcommands(original)
  /\ \A j \in DOMAIN Subcommands(step) :
       SameCommand(Subcommands(step)[j], Subcommands(original)[j])

\* The service s does what original says.
Emulates(s, original) ==
  /\ s.name = original.name /\ s.type = original.type
  /\ s.errorRate = original.errorRate
  /\ Near(s.responseSize, original.responseSize)
  /\ DOMAIN s.script = DOMAIN original.script
  /\ \A i \in DOMAIN s.script : SameStep(s.script[i], original.script[i])

EmulatesAll(copy, graph) ==
  DOMAIN copy = DOMAIN graph /\ \A k \in DOMAIN graph : Emulates(copy[k], graph[k])

\* The lists of a graph, whose elements are counted from one.
ListsAreSequences(graph) ==
  /\ IsSequence(graph)
  /\ \A k \in DOMAIN graph :
       /\ IsSequence(graph[k].script)
       /\ \A i \in DOMAIN graph[k].script : IsSequence(Subcommands(graph[k].script[i]))

\* Bound: all sizes are below SizeLimit, where Scalars prints them.
SizesFitScript(script) ==
  \A i \in DOMAIN script : \A j \in DOMAIN Subcommands(script[i]) :
    Subcommands(script[i])[j].op = "call" => Subcommands(script[i])[j].size \in 0 .. SizeLimit - 1
SizesFit(graph) ==
  \A k \in DOMAIN graph :
    graph[k].responseSize \in 0 .. SizeLimit - 1 /\ SizesFitScript(graph[k].script)
=============================================================================
