--------------------------- MODULE TopologyProofs ---------------------------
(***************************************************************************)
(* Proofs about the parser of topologies, for all documents: what it       *)
(* accepts can be executed, it reads a document in one way only, what is   *)
(* printed into the config map is read there as what it was, and what it   *)
(* accepts is what the format describes; and which manifests a graph has.  *)
(***************************************************************************)
EXTENDS Manifests, TopologyFormat, TLAPS

-----------------------------------------------------------------------------
(***************************************************************************)
(* The parser: whatever the document, what it accepts can be executed.     *)
(***************************************************************************)
IsSingle(c) == c.op \in {"sleep", "call"}
IsCommand(c) ==
  /\ c.op \in {"sleep", "call", "all"}
  /\ c.op = "all" => \A i \in DOMAIN c.cmds : c.cmds[i].op \in {"sleep", "call", "all"}
AreCommands(script) == \A i \in DOMAIN script : IsCommand(script[i])

LEMMA AllElements ==
  ASSUME NEW results, NEW f \in All(results)
  PROVE  DOMAIN f = DOMAIN results /\ \A i \in DOMAIN f : f[i] \in results[i]
<1>1. \A i \in DOMAIN results : results[i] # {}
  BY DEF All
<1>2. f = [i \in DOMAIN results |-> CHOOSE r \in results[i] : TRUE]
  BY <1>1 DEF All
<1>3. DOMAIN f = DOMAIN results
  BY <1>2
<1>4. \A i \in DOMAIN f : f[i] \in results[i]
  BY <1>1, <1>2, <1>3
<1> QED
  BY <1>3, <1>4

LEMMA SingleParsed ==
  ASSUME NEW j, NEW size, NEW c \in ParseSingle(j, size)
  PROVE  IsSingle(c)
<1>1. ASSUME NEW v, c \in ParseSleep(v) PROVE IsSingle(c)
  BY <1>1 DEF ParseSleep, SleepCommand, IsSingle
<1>2. ASSUME NEW x, c \in ParseRequest(x, size) PROVE IsSingle(c)
  <2>1. CASE x.json = "string"
    BY <1>2, <2>1 DEF ParseRequest, RequestCommand, IsSingle
  <2>2. CASE x.json # "string"
    <3>1. PICK object \in Value(x, "object") : c \in ParseRequestObject(object, size)
      BY <1>2, <2>2 DEF ParseRequest
    <3>2. PICK name, z : c = RequestCommand(name, z)
      BY <3>1 DEF ParseRequestObject
    <3> QED
      BY <3>2 DEF RequestCommand, IsSingle
  <2> QED
    BY <2>1, <2>2
<1>3. c \in ParseSleep(j.value["sleep"]) \/ c \in ParseRequest(j.value["call"], size)
  BY DEF ParseSingle
<1> QED
  BY <1>1, <1>2, <1>3

LEMMA NestedParsed ==
  ASSUME NEW j, NEW size, NEW c \in ParseNested(j, size)
  PROVE  c.op \in {"sleep", "call", "all"}
<1>1. CASE c \in ParseSingle(j, size)
  BY <1>1, SingleParsed DEF IsSingle
<1>2. CASE c \in ParseConcurrent([i \in DOMAIN j.value |-> ParseSingle(j.value[i], size)])
  <2>1. PICK cmds : c = ConcurrentCommand(cmds)
    BY <1>2 DEF ParseConcurrent
  <2> QED
    BY <2>1 DEF ConcurrentCommand
<1> QED
  BY <1>1, <1>2 DEF ParseNested

LEMMA CommandParsed ==
  ASSUME NEW j, NEW size, NEW c \in ParseCommand(j, size)
  PROVE  IsCommand(c)
<1>1. CASE c \in ParseSingle(j, size)
  BY <1>1, SingleParsed DEF IsSingle, IsCommand
<1> DEFINE results == [i \in DOMAIN j.value |-> ParseNested(j.value[i], size)]
<1>2. CASE c \in ParseConcurrent(results)
  <2>1. PICK cmds \in All(results) : c = ConcurrentCommand(cmds)
    BY <1>2 DEF ParseConcurrent
  <2>2. DOMAIN cmds = DOMAIN results /\ \A i \in DOMAIN cmds : cmds[i] \in results[i]
    BY AllElements
  <2>3. \A i \in DOMAIN cmds : cmds[i].op \in {"sleep", "call", "all"}
    BY <2>2, NestedParsed
  <2> QED
    BY <2>1, <2>3 DEF ConcurrentCommand, IsCommand
<1> QED
  BY <1>1, <1>2 DEF ParseCommand

LEMMA ScriptParsed ==
  ASSUME NEW j, NEW size, NEW s \in ParseScript(j, size)
  PROVE  AreCommands(s)
<1>1. PICK list : s \in All([i \in DOMAIN list |-> ParseCommand(list[i], size)])
  BY DEF ParseScript
<1>2. \A i \in DOMAIN s : s[i] \in ParseCommand(list[i], size)
  BY <1>1, AllElements
<1> QED
  BY <1>2, CommandParsed DEF AreCommands

LEMMA SettingsParsed ==
  ASSUME NEW object, NEW default, NEW size, NEW s \in Settings(object, default, size),
         AreCommands(default.script)
  PROVE  AreCommands(s.script)
<1> DEFINE Types == Member(object, "type", ServiceType, default.type)
           Replicas == Plain(object, "numReplicas", "number", default.numReplicas)
           Rates == Member(object, "errorRate", Percentage, default.errorRate)
           Sizes == SizeOf(object, "responseSize", default.responseSize)
           Scripts == Member(object, "script", LAMBDA v : ParseScript(v, size), default.script)
<1>a. s \in {[type |-> t, numReplicas |-> n, errorRate |-> e, responseSize |-> z, script |-> x] :
                t \in Types, n \in Replicas, e \in Rates, z \in Sizes, x \in Scripts}
  BY DEF Settings, Member
<1>1. s.script \in Scripts
  <2> HIDE DEF Types, Replicas, Rates, Sizes, Scripts
  <2> QED
    BY <1>a
<1>2. s.script \in ParseScript(object["script"], size) \/ s.script = default.script
  BY <1>1 DEF Member
<1> QED
  BY <1>2, ScriptParsed

LEMMA DefaultsParsed ==
  ASSUME NEW document, NEW default \in Defaults(document)
  PROVE  AreCommands(default.script)
<1>1. AreCommands(DefaultService.script)
  BY DEF DefaultService, AreCommands
<1>2. default = DefaultService \/ \E d : default \in Settings(d, DefaultService, 0)
  BY DEF Defaults, Member
<1> QED
  BY <1>1, <1>2, SettingsParsed

LEMMA ServiceParsed ==
  ASSUME NEW j, NEW default, NEW size, NEW s \in ParseService(j, default, size),
         AreCommands(default.script)
  PROVE  AreCommands(s.script)
<1>1. PICK object : s \in ParseServiceObject(object, default, size)
  BY DEF ParseService
<1>2. PICK t \in Settings(object, default, size) : \E name, entry : s = NamedService(name, entry, t)
  BY <1>1 DEF ParseServiceObject
<1>3. t \in Settings(object, default, size) /\ s.script = t.script
  BY <1>2 DEF NamedService
<1> QED
  BY <1>3, SettingsParsed

LEMMA GraphParsed ==
  ASSUME NEW document, NEW graph \in Unmarshal(document)
  PROVE  Validate(graph) /\ \A k \in DOMAIN graph : AreCommands(graph[k].script)
<1>1. Validate(graph)
  BY DEF Unmarshal
<1>2. PICK list \in ServiceList(document), default \in Defaults(document), size \in RequestSize(document) :
        graph \in ParseServices(list, default, size)
  BY DEF Unmarshal
<1>3. \A k \in DOMAIN graph : graph[k] \in ParseService(list[k], default, size)
  BY <1>2, AllElements DEF ParseServices
<1> QED
  BY <1>1, <1>2, <1>3, DefaultsParsed, ServiceParsed

\* Every command of an accepted graph is one the mock service executes, and
\* every call names a service of the graph.
LEMMA AcceptedIsValid ==
  ASSUME NEW document, NEW graph \in Unmarshal(document), NEW k \in DOMAIN graph
  PROVE  ValidScript(graph[k].script, NamesOf(graph))
<1> DEFINE script == graph[k].script
           names == NamesOf(graph)
<1>1. AreCommands(script) /\ ValidateCommands(script, names)
  BY GraphParsed DEF Validate
<1> HIDE DEF script, names
<1>2. ASSUME NEW i \in DOMAIN script, NEW n \in DOMAIN Subcommands(script[i])
      PROVE  LET cmd == Subcommands(script[i])[n]
             IN  cmd.op = "sleep" \/ (cmd.op = "call" /\ cmd.service \in names)
  <2>1. CASE script[i].op = "all"
    <3>1. Subcommands(script[i]) = script[i].cmds
      BY <2>1 DEF Subcommands
    <3>2. script[i].cmds[n].op \in {"sleep", "call", "all"}
      BY <1>1, <2>1, <3>1, <1>2 DEF AreCommands, IsCommand
    <3>3. /\ script[i].cmds[n].op # "all"
          /\ script[i].cmds[n].op = "call" => script[i].cmds[n].service \in names
      BY <1>1, <2>1, <3>1, <1>2 DEF ValidateCommands, DefinedCalls, ContainsConcurrentCommand
    <3> QED
      BY <3>1, <3>2, <3>3
  <2>2. CASE script[i].op # "all"
    <3>1. Subcommands(script[i])[n] = script[i]
      BY <2>2, <1>2 DEF Subcommands
    <3> QED
      BY <1>1, <2>2, <3>1 DEF AreCommands, IsCommand, ValidateCommands, DefinedCalls
  <2> QED
    BY <2>1, <2>2
<1> QED
  BY <1>2 DEF ValidScript, script, names

-----------------------------------------------------------------------------
(***************************************************************************)
(* Sizes: RAMInBytes of String.  (The provers meet only concrete scales.)  *)
(***************************************************************************)
LEMMA Rounding ==
  ASSUME NEW z \in Nat, NEW scale \in {1024, 1048576}, NEW tens \in {1, 10, 100, 1000},
         (z \div scale) * tens >= 1000,
         NEW down, down = (z \div scale) * tens + ((z % scale) * tens) \div scale,
         NEW twice, twice = 2 * (((z % scale) * tens) % scale),
         NEW d, d = IF twice > scale \/ (twice = scale /\ down % 2 = 1) THEN down + 1 ELSE down,
         NEW y, y = (d \div tens) * scale + ((d % tens) * scale) \div tens
  PROVE  y <= z + z \div 2000 + 1 /\ z <= y + z \div 2000 + 1
<1>1. CASE scale = 1024 /\ tens = 1
  BY <1>1, SMT
<1>2. CASE scale = 1024 /\ tens = 10
  BY <1>2, SMT
<1>3. CASE scale = 1024 /\ tens = 100
  BY <1>3, SMT
<1>4. CASE scale = 1024 /\ tens = 1000
  BY <1>4, SMT
<1>5. CASE scale = 1048576 /\ tens = 1
  BY <1>5, SMT
<1>6. CASE scale = 1048576 /\ tens = 10
  BY <1>6, SMT
<1>7. CASE scale = 1048576 /\ tens = 100
  BY <1>7, SMT
<1>8. CASE scale = 1048576 /\ tens = 1000
  BY <1>8, SMT
<1> QED
  BY <1>1, <1>2, <1>3, <1>4, <1>5, <1>6, <1>7, <1>8, SMT

\* A size that is printed in a config map and read by a pod is the size that it
\* was, to half a unit of the fourth digit; below one KiB it is exactly that.
THEOREM PrintedSizesAreNear ==
  \A z \in Nat : z < SizeLimit => \A y \in RAMInBytes(String(z)) : Near(y, z)
<1> SUFFICES ASSUME NEW z \in Nat, z < SizeLimit, NEW y \in RAMInBytes(String(z)) PROVE Near(y, z)
  OBVIOUS
<1> DEFINE scale == Scale(Unit(z))
           tens == Tens(IF Unit(z) = 0 THEN 0 ELSE Precision(z \div scale))
           down == (z \div scale) * tens + ((z % scale) * tens) \div scale
           twice == 2 * (((z % scale) * tens) % scale)
           d == IF twice > scale \/ (twice = scale /\ down % 2 = 1) THEN down + 1 ELSE down
<1>1. y = (d \div tens) * scale + ((d % tens) * scale) \div tens
  BY DEF String, RAMInBytes
<1>2. CASE z < KiB
  <2>1. scale = 1 /\ tens = 1
    BY <1>2 DEF Unit, Scale, Tens
  <2> HIDE DEF scale, tens
  <2>3. y = z
    BY <1>1, <2>1
  <2> QED
    BY <1>2, <2>3 DEF Near
<1>3. CASE z >= KiB
  <2>1. /\ scale \in {1024, 1048576} /\ tens \in {1, 10, 100, 1000}
        /\ (z \div scale) * tens >= 1000
    <3>1. CASE z < MiB
      BY <1>3, <3>1, SMT DEF Unit, Scale, Tens, Precision, KiB, MiB
    <3>2. CASE z >= MiB
      BY <1>3, <3>2, SMT DEF Unit, Scale, Tens, Precision, KiB, MiB, SizeLimit
    <3> QED
      BY <3>1, <3>2, SMT DEF MiB
  <2> HIDE DEF scale, tens, down, twice, d
  <2>3. y <= z + z \div 2000 + 1 /\ z <= y + z \div 2000 + 1
    BY <1>1, <2>1, Rounding, SMT DEF down, twice, d
  <2> QED
    BY <1>3, <2>3 DEF Near, KiB
<1> QED
  BY <1>2, <1>3, SMT DEF KiB

-----------------------------------------------------------------------------
(***************************************************************************)
(* A document is read in one way only: each parser returns at most one     *)
(* value.                                                                  *)
(***************************************************************************)
AtMostOne(S) == \A x, y \in S : x = y

LEMMA AllIsOne == \A results : AtMostOne(All(results))
BY DEF All, AtMostOne

LEMMA PlainIsOne == \A object, key, kind, default : AtMostOne(Plain(object, key, kind, default))
BY DEF Plain, Member, Value, AtMostOne

LEMMA ByteSizeIsOne == \A j : AtMostOne(ByteSize(j))
<1> SUFFICES ASSUME NEW j PROVE AtMostOne(ByteSize(j))
  OBVIOUS
<1>1. \A text : AtMostOne(RAMInBytes(text))
  BY DEF RAMInBytes, AtMostOne
<1>2. \A x : AtMostOne(FromInt64(x))
  BY DEF FromInt64, AtMostOne
<1> QED
  BY <1>1, <1>2 DEF ByteSize, Value, AtMostOne

LEMMA SizeOfIsOne == \A object, key, default : AtMostOne(SizeOf(object, key, default))
BY ByteSizeIsOne DEF SizeOf, Member, AtMostOne

LEMMA PercentageIsOne == \A j : AtMostOne(Percentage(j))
BY DEF Percentage, FromPercentString, FromFloat64, Value, AtMostOne

LEMMA ServiceTypeIsOne == \A j : AtMostOne(ServiceType(j))
BY DEF ServiceType, TypeFromString, Value, AtMostOne

LEMMA ScriptIsOne == \A j, size : AtMostOne(ParseScript(j, size))
<1> SUFFICES ASSUME NEW j, NEW size, NEW s \in ParseScript(j, size), NEW t \in ParseScript(j, size)
             PROVE  s = t
  BY DEF AtMostOne
<1> DEFINE Commands(list) == [i \in DOMAIN list |-> ParseCommand(list[i], size)]
<1>1. \A c \in {s, t} : \E list \in Value(j, "array") : c \in All(Commands(list))
  BY DEF ParseScript
<1> HIDE DEF Commands
<1> QED
  BY <1>1, AllIsOne DEF Value, AtMostOne

\* The settings that were read, one by one.
ReadFrom(s, object, default, size) ==
  /\ s = [type |-> s.type, numReplicas |-> s.numReplicas, errorRate |-> s.errorRate,
          responseSize |-> s.responseSize, script |-> s.script]
  /\ s.type \in (IF "type" \in DOMAIN object THEN ServiceType(object["type"]) ELSE {default.type})
  /\ s.numReplicas \in Plain(object, "numReplicas", "number", default.numReplicas)
  /\ s.errorRate \in (IF "errorRate" \in DOMAIN object THEN Percentage(object["errorRate"])
                      ELSE {default.errorRate})
  /\ s.responseSize \in SizeOf(object, "responseSize", default.responseSize)
  /\ s.script \in (IF "script" \in DOMAIN object THEN ParseScript(object["script"], size)
                   ELSE {default.script})

LEMMA SettingsRead ==
  ASSUME NEW object, NEW default, NEW size, NEW s \in Settings(object, default, size)
  PROVE  ReadFrom(s, object, default, size)
<1> DEFINE Types == IF "type" \in DOMAIN object THEN ServiceType(object["type"]) ELSE {default.type}
           Replicas == Plain(object, "numReplicas", "number", default.numReplicas)
           Rates == IF "errorRate" \in DOMAIN object THEN Percentage(object["errorRate"])
                    ELSE {default.errorRate}
           Sizes == SizeOf(object, "responseSize", default.responseSize)
           Scripts == IF "script" \in DOMAIN object THEN ParseScript(object["script"], size)
                      ELSE {default.script}
<1>1. s \in {[type |-> t, numReplicas |-> n, errorRate |-> e, responseSize |-> z, script |-> x] :
                t \in Types, n \in Replicas, e \in Rates, z \in Sizes, x \in Scripts}
  BY DEF Settings, Member
<1> HIDE DEF Types, Replicas, Rates, Sizes, Scripts
<1>2. PICK t \in Types, n \in Replicas, e \in Rates, z \in Sizes, x \in Scripts :
        s = [type |-> t, numReplicas |-> n, errorRate |-> e, responseSize |-> z, script |-> x]
  BY <1>1
<1>3. s.type = t /\ s.numReplicas = n /\ s.errorRate = e /\ s.responseSize = z /\ s.script = x
  BY <1>2
<1> QED
  BY <1>2, <1>3 DEF Types, Replicas, Rates, Sizes, Scripts, ReadFrom

LEMMA SettingsAreOne == \A object, default, size : AtMostOne(Settings(object, default, size))
<1> SUFFICES ASSUME NEW object, NEW default, NEW size,
                    NEW s \in Settings(object, default, size), NEW t \in Settings(object, default, size)
             PROVE  s = t
  BY DEF AtMostOne
<1>0. ReadFrom(s, object, default, size) /\ ReadFrom(t, object, default, size)
  BY SettingsRead
<1>1. s.type = t.type
  BY <1>0, ServiceTypeIsOne DEF ReadFrom, AtMostOne
<1>2. s.numReplicas = t.numReplicas
  BY <1>0, PlainIsOne DEF ReadFrom, AtMostOne
<1>3. s.errorRate = t.errorRate
  BY <1>0, PercentageIsOne DEF ReadFrom, AtMostOne
<1>4. s.responseSize = t.responseSize
  BY <1>0, SizeOfIsOne DEF ReadFrom, AtMostOne
<1>5. s.script = t.script
  BY <1>0, ScriptIsOne DEF ReadFrom, AtMostOne
<1>6. /\ s = [type |-> s.type, numReplicas |-> s.numReplicas, errorRate |-> s.errorRate,
              responseSize |-> s.responseSize, script |-> s.script]
      /\ t = [type |-> t.type, numReplicas |-> t.numReplicas, errorRate |-> t.errorRate,
              responseSize |-> t.responseSize, script |-> t.script]
  BY <1>0 DEF ReadFrom
<1> QED
  BY <1>1, <1>2, <1>3, <1>4, <1>5, <1>6

\* ServiceGraph.UnmarshalJSON is a function.
LEMMA UnmarshalIsOne == \A document : AtMostOne(Unmarshal(document))
<1> SUFFICES ASSUME NEW document PROVE AtMostOne(Unmarshal(document))
  OBVIOUS
<1>1. AtMostOne(ServiceList(document))
  BY PlainIsOne DEF ServiceList
<1>2. AtMostOne(Defaults(document))
  BY SettingsAreOne DEF Defaults, Member, Value, AtMostOne
<1>3. AtMostOne(RequestSize(document))
  BY SizeOfIsOne DEF RequestSize, Member, Value, AtMostOne
<1>4. \A list, default, size : AtMostOne(ParseServices(list, default, size))
  BY AllIsOne DEF ParseServices
<1> QED
  BY <1>1, <1>2, <1>3, <1>4 DEF Unmarshal, AtMostOne

-----------------------------------------------------------------------------
(***************************************************************************)
(* The round trip: what is printed of an accepted graph is accepted, and   *)
(* is read as a graph that emulates it.  First a size and a command.       *)
(***************************************************************************)
LEMMA PrintedSizeIsRead ==
  ASSUME NEW z \in Nat
  PROVE  \E y \in Nat : RAMInBytes(String(z)) = {y}
<1> DEFINE text == String(z)
           tens == Tens(text.decimals)
           scale == Scale(text.unit)
<1>1. text.unit \in 0 .. 2 /\ text.decimals \in 0 .. 3
  BY DEF String, Unit, Precision
<1>2. tens \in {1, 10, 100, 1000} /\ scale \in {1, 1024, 1048576}
  BY <1>1 DEF Tens, Scale, KiB, MiB
<1>3. text.digits \in Nat
  <2> DEFINE s == Scale(Unit(z))
             n == IF Unit(z) = 0 THEN 0 ELSE Precision(z \div s)
             down == (z \div s) * Tens(n) + ((z % s) * Tens(n)) \div s
  <2>1. s \in {1, 1024, 1048576}
    BY DEF Unit, Scale, KiB, MiB
  <2>2. Tens(n) \in {1, 10, 100, 1000}
    BY DEF Tens
  <2>3. text.digits = down \/ text.digits = down + 1
    BY DEF String
  <2> HIDE DEF s, n, text
  <2>4. z \div s \in Nat /\ z % s \in Nat
    BY <2>1
  <2>5. (z \div s) * Tens(n) \in Nat /\ (z % s) * Tens(n) \in Nat
    BY <2>2, <2>4
  <2>6. down \in Nat
    BY <2>1, <2>5
  <2> QED
    BY <2>3, <2>6
<1>4. RAMInBytes(text) = {(text.digits \div tens) * scale + ((text.digits % tens) * scale) \div tens}
  BY <1>1 DEF RAMInBytes
<1> HIDE DEF text, tens, scale
<1>5. text.digits \div tens \in Nat /\ text.digits % tens \in Nat
  BY <1>2, <1>3
<1>6. (text.digits \div tens) * scale \in Nat /\ (text.digits % tens) * scale \in Nat
  BY <1>2, <1>5
<1>7. ((text.digits % tens) * scale) \div tens \in Nat
  BY <1>2, <1>6
<1> QED
  BY <1>4, <1>6, <1>7 DEF text

LEMMA LimitIsInt == SizeLimit \in Int
BY SMT DEF SizeLimit

LEMMA SmallSizes == \A z \in 0 .. 1023 : z \in 0 .. SizeLimit - 1
<1>1. SizeLimit \in Int /\ SizeLimit > 1024
  BY SMT DEF SizeLimit
<1> QED
  BY <1>1

LEMMA SizeIsReadBack ==
  ASSUME NEW z \in 0 .. SizeLimit - 1
  PROVE  /\ ByteSize(Str(String(z))) # {}
         /\ \A y \in ByteSize(Str(String(z))) : Near(y, z)
<1>1. z \in Nat /\ z < SizeLimit
  BY LimitIsInt
<1>2. PICK y \in Nat : RAMInBytes(String(z)) = {y}
  BY <1>1, PrintedSizeIsRead
<1>3. FromInt64(y) = {y}
  BY DEF FromInt64
<1>4. ByteSize(Str(String(z))) = UNION {FromInt64(x) : x \in RAMInBytes(String(z))}
  BY DEF ByteSize, Str
<1>5. ByteSize(Str(String(z))) = {y}
  BY <1>2, <1>3, <1>4
<1> QED
  BY <1>1, <1>2, <1>5, PrintedSizesAreNear

FitsCommand(cmd) == IsSingle(cmd) /\ (cmd.op = "call" => cmd.size \in 0 .. SizeLimit - 1)

\* An object of one member.
LEMMA OneMember ==
  ASSUME NEW x
  PROVE  /\ Object([sleep |-> x]).json = "object" /\ Object([call |-> x]).json = "object"
         /\ DOMAIN Object([sleep |-> x]).value = {"sleep"} /\ Object([sleep |-> x]).value["sleep"] = x
         /\ DOMAIN Object([call |-> x]).value = {"call"} /\ Object([call |-> x]).value["call"] = x
BY DEF Object

LEMMA SingleIsReadBack ==
  ASSUME NEW cmd, FitsCommand(cmd), NEW size
  PROVE  /\ MarshalSingle(cmd).json = "object"
         /\ ParseSingle(MarshalSingle(cmd), size) # {}
         /\ \A c \in ParseSingle(MarshalSingle(cmd), size) : SameCommand(c, cmd)
<1>1. CASE cmd.op = "sleep"
  <2> DEFINE j == Object([sleep |-> Duration(TRUE)])
  <2>1. MarshalSingle(cmd) = j
    BY <1>1 DEF MarshalSingle
  <2>2. /\ j.json = "object" /\ DOMAIN j.value = {"sleep"}
        /\ j.value["sleep"] = Duration(TRUE)
    BY OneMember
  <2>3. ParseSleep(Duration(TRUE)) = {SleepCommand}
    BY DEF ParseSleep, Duration, Str
  <2>4. SameCommand(SleepCommand, cmd)
    BY <1>1 DEF SameCommand, SleepCommand
  <2> HIDE DEF j
  <2>5. ParseSingle(j, size) = {SleepCommand}
    BY <2>2, <2>3 DEF ParseSingle
  <2> QED
    BY <2>1, <2>2, <2>4, <2>5
<1>2. CASE cmd.op = "call"
  <2> DEFINE object == [service |-> Str(cmd.service), size |-> Str(String(cmd.size))]
             names == Plain(object, "service", "string", NoName)
             sizes == SizeOf(object, "size", size)
             j == Object([call |-> Object(object)])
  <2>1. MarshalSingle(cmd) = j
    BY <1>2 DEF MarshalSingle
  <2>2. /\ j.json = "object" /\ DOMAIN j.value = {"call"}
        /\ j.value["call"] = Object(object)
    <3> HIDE DEF object
    <3> QED
      BY OneMember
  <2>3. ParseSingle(j, size) = ParseRequest(Object(object), size)
    <3> HIDE DEF j, object
    <3> QED
      BY <2>2 DEF ParseSingle
  <2>4. ParseRequest(Object(object), size) = ParseRequestObject(object, size)
    BY DEF ParseRequest, Object, Value
  <2>5. ParseRequestObject(object, size) = {RequestCommand(name, z) : name \in names, z \in sizes}
    BY DEF ParseRequestObject
  <2>6. names = {cmd.service}
    BY DEF Plain, Member, Value, Str
  <2>7. sizes = ByteSize(Str(String(cmd.size)))
    BY DEF SizeOf, Member
  <2>8. sizes # {} /\ \A z \in sizes : Near(z, cmd.size)
    BY <1>2, <2>7, SizeIsReadBack DEF FitsCommand
  <2>9. \A z \in sizes : SameCommand(RequestCommand(cmd.service, z), cmd)
    BY <1>2, <2>8 DEF SameCommand, RequestCommand
  <2> HIDE DEF names, sizes, j, object
  <2>10. ParseSingle(j, size) = {RequestCommand(cmd.service, z) : z \in sizes}
    BY <2>3, <2>4, <2>5, <2>6
  <2> QED
    BY <2>1, <2>2, <2>8, <2>9, <2>10
<1> QED
  BY <1>1, <1>2 DEF FitsCommand, IsSingle

\* A list is read if its elements are.
LEMMA AllOfThem ==
  ASSUME NEW results, \A i \in DOMAIN results : results[i] # {}
  PROVE  All(results) # {}
BY DEF All

LEMMA AllOfSequence ==
  ASSUME NEW results, NEW n \in Nat, DOMAIN results = 1 .. n, NEW f \in All(results)
  PROVE  IsSequence(f) /\ Len(f) = n
<1> DEFINE e(i) == CHOOSE r \in results[i] : TRUE
           M == {e(i) : i \in 1 .. n}
<1>1. f = [i \in 1 .. n |-> e(i)]
  BY DEF All
<1>2. \A i \in 1 .. n : e(i) \in M
  OBVIOUS
<1> HIDE DEF e, M
<1>3. f \in Seq(M) /\ Len(f) = n
  BY <1>1, <1>2
<1> QED
  BY <1>1, <1>3 DEF IsSequence

LEMMA CommandIsReadBack ==
  ASSUME NEW cmd, \A j \in DOMAIN Subcommands(cmd) : FitsCommand(Subcommands(cmd)[j]), NEW size
  PROVE  /\ ParseCommand(MarshalCommand(cmd), size) # {}
         /\ \A c \in ParseCommand(MarshalCommand(cmd), size) : SameStep(c, cmd)
<1>1. CASE cmd.op = "all"
  <2> DEFINE printed == [i \in DOMAIN cmd.cmds |-> MarshalSingle(cmd.cmds[i])]
             results == [i \in DOMAIN printed |-> ParseNested(printed[i], size)]
  <2>1. Subcommands(cmd) = cmd.cmds
    BY <1>1 DEF Subcommands
  <2>2. MarshalCommand(cmd) = Array(printed)
    BY <1>1 DEF MarshalCommand
  <2>3. ParseCommand(Array(printed), size) = ParseConcurrent(results)
    BY DEF ParseCommand, Array
  <2>4. DOMAIN printed = DOMAIN cmd.cmds /\ DOMAIN results = DOMAIN cmd.cmds
    OBVIOUS
  <2>5. ASSUME NEW i \in DOMAIN cmd.cmds
        PROVE  results[i] # {} /\ \A c \in results[i] : SameCommand(c, cmd.cmds[i])
    <3>1. results[i] = ParseSingle(MarshalSingle(cmd.cmds[i]), size)
      BY <2>1, SingleIsReadBack DEF ParseNested
    <3> QED
      BY <2>1, <3>1, SingleIsReadBack
  <2> HIDE DEF results
  <2>6. All(results) # {}
    BY <2>4, <2>5, AllOfThem
  <2>7. ParseConcurrent(results) # {}
    BY <2>6 DEF ParseConcurrent
  <2>8. ASSUME NEW c \in ParseConcurrent(results) PROVE SameStep(c, cmd)
    <3>1. PICK cmds \in All(results) : c = ConcurrentCommand(cmds)
      BY <2>8 DEF ParseConcurrent
    <3>2. DOMAIN cmds = DOMAIN cmd.cmds /\ \A i \in DOMAIN cmds : cmds[i] \in results[i]
      BY <2>4, <3>1, AllElements
    <3>3. c.op = "all" /\ Subcommands(c) = cmds
      BY <3>1 DEF ConcurrentCommand, Subcommands
    <3> QED
      BY <1>1, <2>1, <2>5, <3>2, <3>3 DEF SameStep
  <2> QED
    BY <2>2, <2>3, <2>7, <2>8
<1>2. CASE cmd.op # "all"
  <2>1. Subcommands(cmd) = <<cmd>> /\ DOMAIN <<cmd>> = {1} /\ <<cmd>>[1] = cmd
    BY <1>2 DEF Subcommands
  <2>2. FitsCommand(cmd)
    BY <2>1
  <2>3. ParseCommand(MarshalCommand(cmd), size) = ParseSingle(MarshalSingle(cmd), size)
    BY <1>2, <2>2, SingleIsReadBack DEF MarshalCommand, ParseCommand
  <2>4. ASSUME NEW c \in ParseSingle(MarshalSingle(cmd), size) PROVE SameStep(c, cmd)
    <3>1. SameCommand(c, cmd)
      BY <2>2, SingleIsReadBack
    <3>2. c.op = cmd.op /\ c.op # "all"
      BY <1>2, <3>1 DEF SameCommand
    <3>3. Subcommands(c) = <<c>> /\ DOMAIN <<c>> = {1} /\ <<c>>[1] = c
      BY <3>2 DEF Subcommands
    <3> QED
      BY <2>1, <3>1, <3>2, <3>3 DEF SameStep
  <2> QED
    BY <2>2, <2>3, <2>4, SingleIsReadBack
<1> QED
  BY <1>1, <1>2

-----------------------------------------------------------------------------
(* The round trip: scripts, services and graphs.                           *)

FitsScript(script) ==
  \A i \in DOMAIN script : \A j \in DOMAIN Subcommands(script[i]) : FitsCommand(Subcommands(script[i])[j])

SameScript(s, script) == DOMAIN s = DOMAIN script /\ \A i \in DOMAIN s : SameStep(s[i], script[i])

MarshalScript(script) == Array([i \in DOMAIN script |-> MarshalCommand(script[i])])

LEMMA ScriptIsReadBack ==
  ASSUME NEW script, FitsScript(script), NEW size
  PROVE  /\ ParseScript(MarshalScript(script), size) # {}
         /\ \A s \in ParseScript(MarshalScript(script), size) : SameScript(s, script)
<1> DEFINE printed == [i \in DOMAIN script |-> MarshalCommand(script[i])]
           results == [i \in DOMAIN printed |-> ParseCommand(printed[i], size)]
<1>1. ParseScript(MarshalScript(script), size) = All(results)
  BY DEF ParseScript, MarshalScript, Array, Value
<1>2. DOMAIN results = DOMAIN script
  OBVIOUS
<1>3. ASSUME NEW i \in DOMAIN script
      PROVE  results[i] # {} /\ \A c \in results[i] : SameStep(c, script[i])
  <2>1. results[i] = ParseCommand(MarshalCommand(script[i]), size)
    OBVIOUS
  <2>2. \A j \in DOMAIN Subcommands(script[i]) : FitsCommand(Subcommands(script[i])[j])
    BY DEF FitsScript
  <2> QED
    BY <2>1, <2>2, CommandIsReadBack
<1> HIDE DEF results
<1>4. All(results) # {}
  BY <1>2, <1>3, AllOfThem
<1>5. ASSUME NEW s \in All(results) PROVE SameScript(s, script)
  <2>1. DOMAIN s = DOMAIN script /\ \A i \in DOMAIN s : s[i] \in results[i]
    BY <1>2, AllElements
  <2> QED
    BY <1>3, <2>1 DEF SameScript
<1> QED
  BY <1>1, <1>4, <1>5

ServiceTypes == {"HTTP", "gRPC"}

LEMMA TypeIsReadBack ==
  ASSUME NEW type \in ServiceTypes
  PROVE  ServiceType(Str(LowerCase(type))) = {type}
BY DEF ServiceTypes, ServiceType, LowerCase, Str, Value, TypeFromString

\* What is known of the settings of every service that was read.
IsRate(e) == 0 <= e /\ e <= Whole

LEMMA RateIsReadBack ==
  ASSUME NEW e, IsRate(e)
  PROVE  Percentage(Num(e)) = {e}
BY DEF IsRate, Percentage, Num, Value, FromFloat64

Fits(s) ==
  /\ s.name # NoName /\ s.type \in ServiceTypes /\ IsRate(s.errorRate)
  /\ s.responseSize \in 0 .. SizeLimit - 1 /\ FitsScript(s.script)

\* What a service's object has and what it has not.
LEMMA ServicePrinted ==
  ASSUME NEW s
  PROVE  LET o == MarshalService(s).value
         IN  /\ MarshalService(s).json = "object"
             /\ "name" \in DOMAIN o /\ o["name"] = Str(s.name)
             /\ "type" \in DOMAIN o /\ o["type"] = Str(LowerCase(s.type))
             /\ "numReplicas" \in DOMAIN o => o["numReplicas"] = Num(s.numReplicas)
             /\ "isEntrypoint" \in DOMAIN o => o["isEntrypoint"] = Bool(s.isEntrypoint)
             /\ "errorRate" \in DOMAIN o <=> s.errorRate # 0
             /\ "errorRate" \in DOMAIN o => o["errorRate"] = Num(s.errorRate)
             /\ "responseSize" \in DOMAIN o <=> s.responseSize # 0
             /\ "responseSize" \in DOMAIN o => o["responseSize"] = Str(String(s.responseSize))
             /\ "script" \in DOMAIN o <=> s.script # <<>>
             /\ "script" \in DOMAIN o => o["script"] = MarshalScript(s.script)
<1> DEFINE fields == {"name", "type", "numReplicas", "isEntrypoint", "errorRate", "responseSize", "script"}
           object == [name |-> Str(s.name), type |-> Str(LowerCase(s.type)),
                      numReplicas |-> Num(s.numReplicas), isEntrypoint |-> Bool(s.isEntrypoint),
                      errorRate |-> Num(s.errorRate), responseSize |-> Str(String(s.responseSize)),
                      script |-> MarshalScript(s.script)]
           o == [f \in fields \ Empty(s) |-> object[f]]
<1>1. DOMAIN object = fields
  OBVIOUS
<1>2. MarshalService(s) = Object(Restrict(object, DOMAIN object \ Empty(s)))
  BY DEF MarshalService, MarshalScript
<1>3. MarshalService(s) = Object(o)
  <2> HIDE DEF object
  <2> QED
    BY <1>1, <1>2 DEF Restrict
<1>4. MarshalService(s).json = "object" /\ MarshalService(s).value = o
  <2> HIDE DEF o
  <2> QED
    BY <1>3 DEF Object
<1>5. /\ "name" \notin Empty(s) /\ "type" \notin Empty(s)
      /\ "errorRate" \in Empty(s) <=> s.errorRate = 0
      /\ "responseSize" \in Empty(s) <=> s.responseSize = 0
      /\ "script" \in Empty(s) <=> s.script = <<>>
  BY DEF Empty
<1>6. \A f \in fields : (f \in DOMAIN o <=> f \notin Empty(s)) /\ (f \in DOMAIN o => o[f] = object[f])
  <2> HIDE DEF object
  <2> QED
    OBVIOUS
<1>7. /\ object["name"] = Str(s.name) /\ object["type"] = Str(LowerCase(s.type))
      /\ object["numReplicas"] = Num(s.numReplicas) /\ object["isEntrypoint"] = Bool(s.isEntrypoint)
      /\ object["errorRate"] = Num(s.errorRate) /\ object["responseSize"] = Str(String(s.responseSize))
      /\ object["script"] = MarshalScript(s.script)
  OBVIOUS
<1> HIDE DEF object, o
<1> QED
  BY <1>4, <1>5, <1>6, <1>7

AllSettings(A, B, C, D, E) ==
  {[type |-> t, numReplicas |-> n, errorRate |-> r, responseSize |-> z, script |-> x] :
     t \in A, n \in B, r \in C, z \in D, x \in E}

LEMMA SomeSettings ==
  ASSUME NEW A, NEW B, NEW C, NEW D, NEW E, A # {}, B # {}, C # {}, D # {}, E # {}
  PROVE  AllSettings(A, B, C, D, E) # {}
<1> PICK a \in A, b \in B, c \in C, d \in D, e \in E : TRUE
  OBVIOUS
<1>1. [type |-> a, numReplicas |-> b, errorRate |-> c, responseSize |-> d, script |-> e]
        \in AllSettings(A, B, C, D, E)
  BY DEF AllSettings
<1> QED
  BY <1>1

LEMMA ServiceIsReadBack ==
  ASSUME NEW s, Fits(s)
  PROVE  /\ ParseService(MarshalService(s), DefaultService, 0) # {}
         /\ \A c \in ParseService(MarshalService(s), DefaultService, 0) : Emulates(c, s)
<1> DEFINE j == MarshalService(s)
           o == j.value
           names == Plain(o, "name", "string", NoName)
           entries == Flag(o, "isEntrypoint")
           types == IF "type" \in DOMAIN o THEN ServiceType(o["type"]) ELSE {DefaultService.type}
           replicas == Plain(o, "numReplicas", "number", DefaultService.numReplicas)
           rates == IF "errorRate" \in DOMAIN o THEN Percentage(o["errorRate"]) ELSE {DefaultService.errorRate}
           sizes == SizeOf(o, "responseSize", DefaultService.responseSize)
           scripts == IF "script" \in DOMAIN o THEN ParseScript(o["script"], 0) ELSE {DefaultService.script}
<1>1. /\ DefaultService.errorRate = 0 /\ DefaultService.responseSize = 0 /\ DefaultService.script = <<>>
  BY DEF DefaultService
<1>2. ParseService(j, DefaultService, 0) = ParseServiceObject(o, DefaultService, 0)
  <2>1. j.json = "object"
    BY ServicePrinted
  <2> HIDE DEF j
  <2> QED
    BY <2>1 DEF ParseService, Value
<1>3. names = {s.name}
  <2>1. "name" \in DOMAIN o /\ o["name"] = Str(s.name)
    BY ServicePrinted
  <2> HIDE DEF o
  <2> QED
    BY <2>1 DEF Plain, Member, Value, Str
<1>4. entries # {}
  <2>1. "isEntrypoint" \in DOMAIN o => o["isEntrypoint"] = Bool(s.isEntrypoint)
    BY ServicePrinted
  <2> HIDE DEF o
  <2>2. CASE "isEntrypoint" \in DOMAIN o
    <3>1. o["isEntrypoint"].json = "boolean"
      BY <2>1, <2>2 DEF Bool
    <3>2. entries = {o["isEntrypoint"].value}
      BY <2>2, <3>1 DEF Flag, Plain, Member, Value
    <3> QED
      BY <3>2, Zenon
  <2>3. CASE "isEntrypoint" \notin DOMAIN o
    <3>1. entries = {FALSE}
      BY <2>3, Zenon DEF Flag, Plain, Member
    <3> QED
      BY <3>1, Zenon
  <2> QED
    BY <2>2, <2>3
<1>5. types = {s.type}
  <2>1. "type" \in DOMAIN o /\ o["type"] = Str(LowerCase(s.type))
    BY ServicePrinted
  <2> HIDE DEF o
  <2> QED
    BY <2>1, TypeIsReadBack DEF Fits
<1>6. replicas # {}
  <2>1. "numReplicas" \in DOMAIN o => o["numReplicas"] = Num(s.numReplicas)
    BY ServicePrinted
  <2> HIDE DEF o
  <2> QED
    BY <2>1 DEF Plain, Member, Value, Num
<1>7. rates = {s.errorRate}
  <2>1. /\ "errorRate" \in DOMAIN o <=> s.errorRate # 0
        /\ "errorRate" \in DOMAIN o => o["errorRate"] = Num(s.errorRate)
    BY ServicePrinted
  <2> HIDE DEF o
  <2> QED
    BY <1>1, <2>1, RateIsReadBack DEF Fits
<1>8. sizes # {} /\ \A z \in sizes : Near(z, s.responseSize)
  <2>1. /\ "responseSize" \in DOMAIN o <=> s.responseSize # 0
        /\ "responseSize" \in DOMAIN o => o["responseSize"] = Str(String(s.responseSize))
    BY ServicePrinted
  <2>2. s.responseSize \in 0 .. SizeLimit - 1
    BY DEF Fits
  <2> HIDE DEF o
  <2>3. CASE "responseSize" \in DOMAIN o
    BY <2>1, <2>2, <2>3, SizeIsReadBack DEF SizeOf, Member
  <2>4. CASE "responseSize" \notin DOMAIN o
    <3>1. sizes = {0} /\ s.responseSize = 0
      BY <1>1, <2>1, <2>4 DEF SizeOf, Member
    <3>2. Near(0, 0)
      BY DEF Near
    <3> QED
      BY <3>1, <3>2
  <2> QED
    BY <2>3, <2>4
<1>9. scripts # {} /\ \A x \in scripts : SameScript(x, s.script)
  <2>1. /\ "script" \in DOMAIN o <=> s.script # <<>>
        /\ "script" \in DOMAIN o => o["script"] = MarshalScript(s.script)
    BY ServicePrinted
  <2> HIDE DEF o
  <2>2. CASE "script" \in DOMAIN o
    BY <2>1, <2>2, ScriptIsReadBack DEF Fits
  <2>3. CASE "script" \notin DOMAIN o
    BY <1>1, <2>1, <2>3 DEF SameScript
  <2> QED
    BY <2>2, <2>3
<1>10. Settings(o, DefaultService, 0) # {}
  <2>1. Settings(o, DefaultService, 0) = AllSettings(types, replicas, rates, sizes, scripts)
    BY DEF Settings, Member, AllSettings
  <2> HIDE DEF types, replicas, rates, sizes, scripts
  <2> QED
    BY <1>5, <1>6, <1>7, <1>8, <1>9, <2>1, SomeSettings
<1> HIDE DEF types, replicas, rates, sizes, scripts, names, entries, j
<1>11. ParseServiceObject(o, DefaultService, 0) =
         {NamedService(name, entry, t) :
            name \in names \ {NoName}, entry \in entries, t \in Settings(o, DefaultService, 0)}
  BY DEF ParseServiceObject, names, entries
<1>12. ParseServiceObject(o, DefaultService, 0) # {}
  <2>1. s.name \in names \ {NoName}
    BY <1>3 DEF Fits
  <2> QED
    BY <1>4, <1>10, <1>11, <2>1
<1>13. ASSUME NEW c \in ParseServiceObject(o, DefaultService, 0) PROVE Emulates(c, s)
  <2>1. PICK entry \in entries, t \in Settings(o, DefaultService, 0) : c = NamedService(s.name, entry, t)
    BY <1>3, <1>11
  <2>2. ReadFrom(t, o, DefaultService, 0)
    BY SettingsRead
  <2>3. t.type = s.type /\ t.errorRate = s.errorRate /\ t.responseSize \in sizes /\ t.script \in scripts
    BY <1>5, <1>7, <2>2 DEF ReadFrom, types, rates, sizes, scripts
  <2>4. /\ c.name = s.name /\ c.type = t.type /\ c.errorRate = t.errorRate
        /\ c.responseSize = t.responseSize /\ c.script = t.script
    BY <2>1 DEF NamedService
  <2> QED
    BY <1>8, <1>9, <2>3, <2>4 DEF Emulates, SameScript
<1> QED
  BY <1>2, <1>12, <1>13 DEF j

Sound(t) == t.type \in ServiceTypes /\ IsRate(t.errorRate)

LEMMA SettingsAreSound ==
  ASSUME NEW object, NEW default, NEW size, NEW t \in Settings(object, default, size), Sound(default)
  PROVE  Sound(t)
<1>1. ReadFrom(t, object, default, size)
  BY SettingsRead
<1>2. \A j : ServiceType(j) \subseteq ServiceTypes
  BY DEF ServiceType, TypeFromString, ServiceTypes
<1>3. \A j : \A e \in Percentage(j) : IsRate(e)
  BY DEF Percentage, FromFloat64, IsRate
<1> QED
  BY <1>1, <1>2, <1>3 DEF ReadFrom, Sound

LEMMA AcceptedFits ==
  ASSUME NEW document, NEW graph \in Unmarshal(document), SizesFit(graph), NEW k \in DOMAIN graph
  PROVE  Fits(graph[k])
<1>1. PICK list \in ServiceList(document), default \in Defaults(document), size \in RequestSize(document) :
        graph \in ParseServices(list, default, size)
  BY DEF Unmarshal
<1>2. graph[k] \in ParseService(list[k], default, size)
  BY <1>1, AllElements DEF ParseServices
<1>3. Sound(default)
  <2>1. Sound(DefaultService)
    BY DEF Sound, DefaultService, ServiceTypes, IsRate, Whole
  <2>2. default = DefaultService \/ \E d : default \in Settings(d, DefaultService, 0)
    BY <1>1 DEF Defaults, Member
  <2> QED
    BY <2>1, <2>2, SettingsAreSound
<1>4. PICK object : graph[k] \in ParseServiceObject(object, default, size)
  BY <1>2 DEF ParseService
<1>5. PICK name \in Plain(object, "name", "string", NoName) \ {NoName}, entry \in Flag(object, "isEntrypoint"),
           t \in Settings(object, default, size) : graph[k] = NamedService(name, entry, t)
  BY <1>4 DEF ParseServiceObject
<1>6. graph[k].name = name /\ graph[k].type = t.type /\ graph[k].errorRate = t.errorRate
  BY <1>5 DEF NamedService
<1>7. graph[k].name # NoName /\ graph[k].type \in ServiceTypes /\ IsRate(graph[k].errorRate)
  BY <1>3, <1>5, <1>6, SettingsAreSound DEF Sound
<1> DEFINE script == graph[k].script
<1>8. ValidScript(script, NamesOf(graph))
  BY AcceptedIsValid
<1>9. SizesFitScript(script) /\ graph[k].responseSize \in 0 .. SizeLimit - 1
  BY DEF SizesFit
<1> HIDE DEF script
<1>10. FitsScript(script)
  BY <1>8, <1>9 DEF ValidScript, SizesFitScript, FitsScript, FitsCommand, IsSingle
<1> QED
  BY <1>7, <1>9, <1>10 DEF Fits, script

\* Graphs that emulate each other pass the same validation.
LEMMA CopyIsValid ==
  ASSUME NEW graph, \A k \in DOMAIN graph : ValidScript(graph[k].script, NamesOf(graph)),
         NEW copy, EmulatesAll(copy, graph)
  PROVE  Validate(copy)
<1>1. DOMAIN copy = DOMAIN graph /\ \A k \in DOMAIN graph : copy[k].name = graph[k].name
  BY DEF EmulatesAll, Emulates
<1>2. NamesOf(copy) = NamesOf(graph)
  BY <1>1 DEF NamesOf
<1> DEFINE names == NamesOf(graph)
<1>3. ASSUME NEW k \in DOMAIN copy PROVE ValidateCommands(copy[k].script, names)
  <2> DEFINE s == copy[k].script
             t == graph[k].script
  <2>1. SameScript(s, t)
    BY <1>1, <1>3 DEF EmulatesAll, Emulates, SameScript
  <2>2. ValidScript(t, names)
    BY <1>1, <1>3
  <2> HIDE DEF s, t, names
  <2>3. ASSUME NEW i \in DOMAIN s, NEW j \in DOMAIN Subcommands(s[i])
        PROVE  LET cmd == Subcommands(s[i])[j]
               IN  cmd.op # "all" /\ (cmd.op = "call" => cmd.service \in names)
    <3>1. /\ i \in DOMAIN t /\ j \in DOMAIN Subcommands(t[i])
          /\ SameCommand(Subcommands(s[i])[j], Subcommands(t[i])[j])
      BY <2>1, <2>3 DEF SameScript, SameStep
    <3>2. LET cmd == Subcommands(t[i])[j]
          IN  cmd.op = "sleep" \/ (cmd.op = "call" /\ cmd.service \in names)
      BY <2>2, <3>1 DEF ValidScript
    <3> QED
      BY <3>1, <3>2 DEF SameCommand
  <2>4. DefinedCalls(s, names)
    <3>1. ASSUME NEW i \in DOMAIN s, s[i].op = "call" PROVE s[i].service \in names
      <4>1. Subcommands(s[i]) = <<s[i]>> /\ 1 \in DOMAIN <<s[i]>> /\ <<s[i]>>[1] = s[i]
        BY <3>1 DEF Subcommands
      <4> QED
        BY <2>3, <3>1, <4>1
    <3> QED
      BY <3>1 DEF DefinedCalls
  <2>5. ASSUME NEW i \in DOMAIN s, s[i].op = "all"
        PROVE  DefinedCalls(s[i].cmds, names) /\ ~ContainsConcurrentCommand(s[i].cmds)
    <3>1. Subcommands(s[i]) = s[i].cmds
      BY <2>5 DEF Subcommands
    <3> QED
      BY <2>3, <3>1 DEF DefinedCalls, ContainsConcurrentCommand
  <2> QED
    BY <2>4, <2>5 DEF ValidateCommands, s
<1> QED
  BY <1>2, <1>3 DEF Validate

\* The config map keeps the graph: it is accepted where it is read, and all
\* that it can be read as emulates what was printed.
THEOREM RoundTrip ==
  ASSUME NEW document, NEW graph \in Unmarshal(document), SizesFit(graph)
  PROVE  /\ Unmarshal(Marshal(graph)) # {}
         /\ \A copy \in Unmarshal(Marshal(graph)) : EmulatesAll(copy, graph)
<1> DEFINE list == [k \in DOMAIN graph |-> MarshalService(graph[k])]
           printed == [services |-> Array(list)]
           results == [i \in DOMAIN list |-> ParseService(list[i], DefaultService, 0)]
<1>1. Marshal(graph) = printed
  BY DEF Marshal
<1>2. /\ DOMAIN printed = {"services"} /\ printed["services"].json = "array"
      /\ printed["services"].value = list
  <2> HIDE DEF list
  <2> QED
    BY DEF Array
<1>3. ParseServices(list, DefaultService, 0) = All(results)
  BY DEF ParseServices
<1>4. DOMAIN results = DOMAIN graph
  OBVIOUS
<1>5. ASSUME NEW k \in DOMAIN graph
      PROVE  results[k] # {} /\ \A c \in results[k] : Emulates(c, graph[k])
  <2>1. results[k] = ParseService(MarshalService(graph[k]), DefaultService, 0)
    OBVIOUS
  <2>2. Fits(graph[k])
    BY AcceptedFits
  <2> QED
    BY <2>1, <2>2, ServiceIsReadBack
<1> HIDE DEF list, printed, results
<1>6. Defaults(printed) = {DefaultService} /\ RequestSize(printed) = {0} /\ ServiceList(printed) = {list}
  BY <1>2 DEF Defaults, RequestSize, ServiceList, Plain, Member, Value
<1>7. Unmarshal(printed) = {copy \in All(results) : Validate(copy)}
  BY <1>3, <1>6 DEF Unmarshal
<1>8. All(results) # {}
  BY <1>4, <1>5, AllOfThem
<1>9. ASSUME NEW copy \in All(results) PROVE EmulatesAll(copy, graph)
  <2>1. DOMAIN copy = DOMAIN graph /\ \A k \in DOMAIN copy : copy[k] \in results[k]
    BY <1>4, AllElements
  <2> QED
    BY <1>5, <2>1 DEF EmulatesAll
<1>10. \A k \in DOMAIN graph : ValidScript(graph[k].script, NamesOf(graph))
  BY AcceptedIsValid
<1>11. \A copy \in All(results) : Validate(copy)
  BY <1>9, <1>10, CopyIsValid
<1> QED
  BY <1>1, <1>7, <1>8, <1>9, <1>11

-----------------------------------------------------------------------------
(***************************************************************************)
(* The parser accepts what TopologyFormat describes.  First the scalars.   *)
(***************************************************************************)
LEMMA SizeAccepted ==
  ASSUME NEW j, SizeIsTyped(j)
  PROVE  ByteSize(j) # {} <=> IsSize(j)
<1>1. CASE j.json = "number"
  <2>1. j.value \in Int
    BY <1>1 DEF SizeIsTyped, Is
  <2>2. ByteSize(j) = FromInt64(j.value)
    BY <1>1 DEF ByteSize, Value
  <2> QED
    BY <1>1, <2>1, <2>2 DEF FromInt64, IsSize, Is
<1>2. CASE j.json = "string"
  <2>1. /\ j.value.digits \in Nat /\ j.value.decimals \in Nat /\ j.value.unit \in Nat
    BY <1>2 DEF SizeIsTyped, Is
  <2> DEFINE tens == Tens(j.value.decimals)
             scale == Scale(j.value.unit)
             x == (j.value.digits \div tens) * scale + ((j.value.digits % tens) * scale) \div tens
  <2>2. tens \in {1, 10, 100, 1000} /\ scale \in {1, 1024, 1048576}
    BY DEF Tens, Scale, KiB, MiB
  <2>3. RAMInBytes(j.value) = IF j.value.unit \notin 0 .. 5 THEN {} ELSE {x}
    BY DEF RAMInBytes
  <2>4. x \in Nat
    <3>1. j.value.digits \in Nat /\ tens \in Nat \ {0} /\ scale \in Nat
      BY <2>1, <2>2, SMT
    <3> HIDE DEF tens, scale
    <3>2. (j.value.digits \div tens) \in Nat /\ (j.value.digits % tens) \in Nat
      BY <3>1, SMT
    <3>3. \A a, b \in Nat : a * b \in Nat
      BY SMT
    <3>4. (j.value.digits \div tens) * scale \in Nat /\ (j.value.digits % tens) * scale \in Nat
      BY <3>1, <3>2, <3>3
    <3>5. \A a \in Nat, b \in Nat \ {0} : a \div b \in Nat
      BY SMT
    <3>6. ((j.value.digits % tens) * scale) \div tens \in Nat
      BY <3>1, <3>4, <3>5
    <3> QED
      BY <3>4, <3>2, <3>6, SMT
  <2>5. ByteSize(j) = UNION {FromInt64(y) : y \in RAMInBytes(j.value)}
    BY <1>2 DEF ByteSize
  <2> HIDE DEF x
  <2>6. FromInt64(x) = {x}
    BY <2>4, SMT DEF FromInt64
  <2>7. ByteSize(j) # {} <=> j.value.unit \in 0 .. 5
    BY <2>3, <2>5, <2>6
  <2>8. IsSize(j) <=> j.value.unit < 6
    BY <1>2 DEF IsSize, Is
  <2> QED
    BY <2>1, <2>7, <2>8
<1>3. CASE j.json # "number" /\ j.json # "string"
  BY <1>3 DEF ByteSize, Value, IsSize, Is
<1> QED
  BY <1>1, <1>2, <1>3

LEMMA RateAccepted ==
  ASSUME NEW j, RateIsTyped(j)
  PROVE  Percentage(j) # {} <=> IsPercentage(j)
<1>1. CASE j.json = "number"
  <2>1. j.value \in Int
    BY <1>1 DEF RateIsTyped, Is
  <2>2. Percentage(j) = FromFloat64(j.value)
    BY <1>1 DEF Percentage, Value
  <2>3. IsPercentage(j) <=> j.value \in 0 .. Whole
    BY <1>1 DEF IsPercentage, Is, Whole
  <2>4. FromFloat64(j.value) # {} <=> (0 <= j.value /\ j.value <= Whole)
    BY DEF FromFloat64
  <2>5. \A v \in Int : v \in 0 .. Whole <=> (0 <= v /\ v <= Whole)
    <3>1. Whole \in Int
      BY SMT DEF Whole
    <3> QED
      BY <3>1
  <2> QED
    BY <2>1, <2>2, <2>3, <2>4, <2>5, Zenon
<1>2. CASE j.json = "string"
  <2>1. j.value.number \in Int
    BY <1>2 DEF RateIsTyped, Is
  <2>2. Percentage(j) = UNION {FromFloat64(f) : f \in FromPercentString(j.value)}
    BY <1>2 DEF Percentage
  <2>3. CASE j.value.percent
    <3>1. Percentage(j) = FromFloat64(j.value.number * 100)
      BY <2>2, <2>3 DEF FromPercentString
    <3>2. j.value.number * 100 \in Int
          /\ (0 <= j.value.number * 100 /\ j.value.number * 100 <= 10000 <=> j.value.number \in 0 .. 100)
      BY <2>1
    <3>3. IsPercentage(j) <=> j.value.number \in 0 .. 100
      BY <1>2, <2>3 DEF IsPercentage, Is
    <3>4. FromFloat64(j.value.number * 100) # {} <=> (0 <= j.value.number * 100 /\ j.value.number * 100 <= 10000)
      BY DEF FromFloat64, Whole
    <3> QED
      BY <3>1, <3>2, <3>3, <3>4
  <2>4. CASE ~j.value.percent
    BY <1>2, <2>2, <2>4 DEF FromPercentString, IsPercentage, Is
  <2> QED
    BY <2>3, <2>4
<1>3. CASE j.json # "number" /\ j.json # "string"
  BY <1>3 DEF Percentage, Value, IsPercentage, Is
<1> QED
  BY <1>1, <1>2, <1>3

LEMMA TypeAccepted == \A j : ServiceType(j) # {} <=> IsType(j)
BY DEF ServiceType, TypeFromString, Value, IsType, Is

LEMMA AllAccepted == \A results : All(results) # {} <=> \A i \in DOMAIN results : results[i] # {}
BY DEF All

\* An optional size.
LEMMA SizeMember ==
  ASSUME NEW object, NEW key, NEW default, key \in DOMAIN object => SizeIsTyped(object[key])
  PROVE  SizeOf(object, key, default) # {} <=> (key \in DOMAIN object => IsSize(object[key]))
BY SizeAccepted DEF SizeOf, Member

LEMMA PlainMember ==
  ASSUME NEW object, NEW key, NEW kind, NEW default
  PROVE  Plain(object, key, kind, default) # {} <=> (key \in DOMAIN object => Is(object[key], kind))
BY DEF Plain, Member, Value, Is

-----------------------------------------------------------------------------
(* Commands                                                                *)

\* What a command that is not a list is read as.
MeansSingle(c, j) ==
  \/ IsSleep(j) /\ ~IsCall(j) /\ c.op = "sleep"
  \/ IsCall(j) /\ c.op = "call" /\ c.service = NameCalled(j)

LEMMA SleepAccepted ==
  ASSUME NEW j, j.json = "object", DOMAIN j.value = {"sleep"}, NEW size
  PROVE  /\ ParseSingle(j, size) # {} <=> IsSleep(j)
         /\ ~IsCall(j)
         /\ \A c \in ParseSingle(j, size) : c.op = "sleep"
<1>1. ParseSingle(j, size) = ParseSleep(j.value["sleep"])
  BY DEF ParseSingle
<1>2. {"sleep"} # {"call"}
  OBVIOUS
<1>3. ~IsCall(j)
  BY <1>2 DEF IsCall
<1>4. IsSleep(j) <=> (j.value["sleep"].json = "string" /\ j.value["sleep"].value.duration)
  BY DEF IsSleep, Is
<1>5. CASE j.value["sleep"].json = "string" /\ j.value["sleep"].value.duration
  <2>1. ParseSleep(j.value["sleep"]) = {SleepCommand} /\ IsSleep(j)
    BY <1>4, <1>5 DEF ParseSleep
  <2> QED
    BY <1>1, <1>3, <2>1 DEF SleepCommand
<1>6. CASE ~(j.value["sleep"].json = "string" /\ j.value["sleep"].value.duration)
  <2>1. ParseSleep(j.value["sleep"]) = {} /\ ~IsSleep(j)
    BY <1>4, <1>6 DEF ParseSleep
  <2> QED
    BY <1>1, <1>3, <2>1
<1> QED
  BY <1>5, <1>6

LEMMA CallAccepted ==
  ASSUME NEW j, j.json = "object", DOMAIN j.value = {"call"}, CommandIsTyped(j), NEW size
  PROVE  /\ ParseSingle(j, size) # {} <=> IsCall(j)
         /\ ~IsSleep(j)
         /\ \A c \in ParseSingle(j, size) : c.op = "call" /\ c.service = NameCalled(j)
<1> DEFINE target == j.value["call"]
           object == target.value
<1>1. ParseSingle(j, size) = ParseRequest(target, size)
  BY DEF ParseSingle
<1>2. ~IsSleep(j)
  BY DEF IsSleep
<1>3. CASE target.json = "string"
  <2>1. ParseRequest(target, size) = {RequestCommand(target.value, size)}
    BY <1>3 DEF ParseRequest
  <2>2. IsCall(j)
    BY <1>3 DEF IsCall, IsName, Is
  <2>3. NameCalled(j) = target.value
    BY <1>3 DEF NameCalled, Is
  <2> QED
    BY <1>1, <1>2, <2>1, <2>2, <2>3 DEF RequestCommand
<1>4. CASE target.json = "object"
  <2> DEFINE Names == Plain(object, "service", "string", NoName)
             Sizes == SizeOf(object, "size", size)
  <2>1. ParseRequest(target, size) = {RequestCommand(name, z) : name \in Names, z \in Sizes}
    BY <1>4 DEF ParseRequest, ParseRequestObject, Value
  <2>2. Names # {} <=> ("service" \in DOMAIN object => IsName(object["service"]))
    BY PlainMember DEF IsName
  <2>3. Sizes # {} <=> ("size" \in DOMAIN object => IsSize(object["size"]))
    <3>1. "size" \in DOMAIN object => SizeIsTyped(object["size"])
      BY <1>4 DEF CommandIsTyped, Optional, Is
    <3> QED
      BY <3>1, SizeMember
  <2>4. IsCall(j) <=> /\ "service" \in DOMAIN object => IsName(object["service"])
                      /\ "size" \in DOMAIN object => IsSize(object["size"])
    BY <1>4 DEF IsCall, IsName, Optional, Is
  <2>5. \A name \in Names : name = NameCalled(j)
    BY <1>4 DEF NameCalled, NoName, Plain, Member, Value, Is
  <2> HIDE DEF Names, Sizes
  <2>6. ParseRequest(target, size) # {} <=> Names # {} /\ Sizes # {}
    <3>1. ASSUME NEW name \in Names, NEW z \in Sizes PROVE RequestCommand(name, z) \in ParseRequest(target, size)
      BY <2>1
    <3>2. \A c \in ParseRequest(target, size) : \E name \in Names, z \in Sizes : c = RequestCommand(name, z)
      BY <2>1
    <3> QED
      BY <3>1, <3>2
  <2>7. ASSUME NEW c \in ParseRequest(target, size) PROVE c.op = "call" /\ c.service = NameCalled(j)
    <3>1. PICK name \in Names, z \in Sizes : c = RequestCommand(name, z)
      BY <2>1, <2>7
    <3> QED
      BY <2>5, <3>1 DEF RequestCommand
  <2> QED
    BY <1>1, <1>2, <2>2, <2>3, <2>4, <2>6, <2>7
<1>5. CASE target.json # "string" /\ target.json # "object"
  BY <1>1, <1>2, <1>5 DEF ParseRequest, Value, IsCall, IsName, Is
<1> QED
  BY <1>3, <1>4, <1>5

SingleIs(j, size) ==
  /\ ParseSingle(j, size) # {} <=> IsSleep(j) \/ IsCall(j)
  /\ \A c \in ParseSingle(j, size) : MeansSingle(c, j)

LEMMA SingleAccepted ==
  ASSUME NEW j, CommandIsTyped(j), NEW size
  PROVE  SingleIs(j, size)
<1>1. CASE j.json = "object" /\ DOMAIN j.value = {"sleep"}
  <2>1. /\ ParseSingle(j, size) # {} <=> IsSleep(j)
        /\ ~IsCall(j)
        /\ \A c \in ParseSingle(j, size) : c.op = "sleep"
    BY <1>1, SleepAccepted
  <2> QED
    BY <2>1 DEF SingleIs, MeansSingle
<1>2. CASE j.json = "object" /\ DOMAIN j.value = {"call"}
  <2>1. /\ ParseSingle(j, size) # {} <=> IsCall(j)
        /\ ~IsSleep(j)
        /\ \A c \in ParseSingle(j, size) : c.op = "call" /\ c.service = NameCalled(j)
    BY <1>2, CallAccepted
  <2> QED
    BY <2>1 DEF SingleIs, MeansSingle
<1>3. CASE ~(j.json = "object" /\ (DOMAIN j.value = {"sleep"} \/ DOMAIN j.value = {"call"}))
  <2>1. ParseSingle(j, size) = {}
    BY <1>3 DEF ParseSingle
  <2>2. ~IsSleep(j) /\ ~IsCall(j)
    BY <1>3 DEF IsSleep, IsCall, Is
  <2> QED
    BY <2>1, <2>2 DEF SingleIs
<1> QED
  BY <1>1, <1>2, <1>3

-----------------------------------------------------------------------------
(* Lists of commands                                                       *)
Executable(d) == IsSleep(d) \/ IsCall(d)

\* A command may be called if its name is one of these.
MayCall(c, names) == ~Is(c, "array") /\ (IsCall(c) => NameCalled(c) \in names)
IsDefined(cmd, names) == cmd.op # "all" /\ (cmd.op = "call" => cmd.service \in names)

NestedIs(j, size) ==
  /\ ParseNested(j, size) # {} <=> \A d \in CommandsOf(j) : Executable(d)
  /\ \A c \in ParseNested(j, size) : \A names : IsDefined(c, names) <=> MayCall(j, names)

LEMMA NestedAccepted ==
  ASSUME NEW j, \A d \in CommandsOf(j) : CommandIsTyped(d), NEW size
  PROVE  NestedIs(j, size)
<1>1. CASE j.json = "array"
  <2> DEFINE results == [i \in DOMAIN j.value |-> ParseSingle(j.value[i], size)]
  <2>1. ParseNested(j, size) = {ConcurrentCommand(cmds) : cmds \in All(results)}
    BY <1>1 DEF ParseNested, ParseConcurrent
  <2>2. CommandsOf(j) = {j.value[i] : i \in DOMAIN j.value}
    BY <1>1 DEF CommandsOf, Is
  <2>3. \A i \in DOMAIN j.value : results[i] # {} <=> Executable(j.value[i])
    <3>1. ASSUME NEW i \in DOMAIN j.value PROVE results[i] # {} <=> Executable(j.value[i])
      <4>1. SingleIs(j.value[i], size)
        BY <2>2, SingleAccepted
      <4>2. results[i] = ParseSingle(j.value[i], size)
        OBVIOUS
      <4> QED
        BY <4>1, <4>2, Zenon DEF SingleIs, Executable
    <3> QED
      BY <3>1
  <2>4. DOMAIN results = DOMAIN j.value
    OBVIOUS
  <2> HIDE DEF results
  <2>5. All(results) # {} <=> \A i \in DOMAIN j.value : Executable(j.value[i])
    BY <2>3, <2>4, AllAccepted, Zenon
  <2>6. ParseNested(j, size) # {} <=> All(results) # {}
    BY <2>1
  <2>7. ASSUME NEW c \in ParseNested(j, size), NEW names PROVE ~IsDefined(c, names) /\ ~MayCall(j, names)
    BY <1>1, <2>1, <2>7 DEF ConcurrentCommand, IsDefined, MayCall, Is
  <2> QED
    BY <2>2, <2>5, <2>6, <2>7, Zenon DEF NestedIs
<1>2. CASE j.json # "array"
  <2>1. ParseNested(j, size) = ParseSingle(j, size) /\ CommandsOf(j) = {j}
    BY <1>2 DEF ParseNested, CommandsOf, Is
  <2>2. SingleIs(j, size)
    BY <2>1, SingleAccepted
  <2>3. ASSUME NEW c \in ParseSingle(j, size), NEW names PROVE IsDefined(c, names) <=> MayCall(j, names)
    <3>1. MeansSingle(c, j)
      BY <2>2, <2>3 DEF SingleIs
    <3>2. CASE IsSleep(j) /\ ~IsCall(j) /\ c.op = "sleep"
      BY <1>2, <3>2 DEF IsDefined, MayCall, Is
    <3>3. CASE IsCall(j) /\ c.op = "call" /\ c.service = NameCalled(j)
      BY <1>2, <3>3 DEF IsDefined, MayCall, Is
    <3> QED
      BY <3>1, <3>2, <3>3 DEF MeansSingle
  <2>4. ParseNested(j, size) # {} <=> \A d \in CommandsOf(j) : Executable(d)
    BY <2>1, <2>2, Zenon DEF SingleIs, Executable
  <2> QED
    BY <2>1, <2>3, <2>4, Zenon DEF NestedIs
<1> QED
  BY <1>1, <1>2

\* A step of a script.
StepIsDefined(cmd, names) ==
  /\ cmd.op = "call" => cmd.service \in names
  /\ cmd.op = "all" => \A i \in DOMAIN cmd.cmds : IsDefined(cmd.cmds[i], names)
CommandIs(j, size) ==
  /\ ParseCommand(j, size) # {} <=> \A c \in CommandsOf(j) : \A d \in CommandsOf(c) : Executable(d)
  /\ \A cmd \in ParseCommand(j, size) : \A names :
       StepIsDefined(cmd, names) <=> \A c \in CommandsOf(j) : MayCall(c, names)

LEMMA CommandAccepted ==
  ASSUME NEW j, \A c \in CommandsOf(j) : \A d \in CommandsOf(c) : CommandIsTyped(d), NEW size
  PROVE  CommandIs(j, size)
<1>1. CASE j.json = "array"
  <2> DEFINE results == [i \in DOMAIN j.value |-> ParseNested(j.value[i], size)]
  <2>1. ParseCommand(j, size) = {ConcurrentCommand(cmds) : cmds \in All(results)}
    BY <1>1 DEF ParseCommand, ParseConcurrent
  <2>2. CommandsOf(j) = {j.value[i] : i \in DOMAIN j.value}
    BY <1>1 DEF CommandsOf, Is
  <2>3. \A i \in DOMAIN j.value : NestedIs(j.value[i], size)
    BY <2>2, NestedAccepted
  <2>4. DOMAIN results = DOMAIN j.value /\ \A i \in DOMAIN j.value : results[i] = ParseNested(j.value[i], size)
    OBVIOUS
  <2> HIDE DEF results
  <2>5. All(results) # {} <=> \A i \in DOMAIN j.value : \A d \in CommandsOf(j.value[i]) : Executable(d)
    <3>1. \A i \in DOMAIN j.value : results[i] # {} <=> \A d \in CommandsOf(j.value[i]) : Executable(d)
      BY <2>3, <2>4, Zenon DEF NestedIs
    <3> QED
      BY <2>4, <3>1, AllAccepted, Zenon
  <2>6. ParseCommand(j, size) # {} <=> All(results) # {}
    BY <2>1
  <2>7. ASSUME NEW cmd \in ParseCommand(j, size), NEW names
        PROVE  StepIsDefined(cmd, names) <=> \A c \in CommandsOf(j) : MayCall(c, names)
    <3>1. PICK cmds \in All(results) : cmd = ConcurrentCommand(cmds)
      BY <2>1, <2>7
    <3>2. cmd.op = "all" /\ cmd.cmds = cmds
      BY <3>1 DEF ConcurrentCommand
    <3>3. DOMAIN cmds = DOMAIN j.value /\ \A i \in DOMAIN cmds : cmds[i] \in ParseNested(j.value[i], size)
      BY <2>4, AllElements
    <3>4. \A i \in DOMAIN j.value : IsDefined(cmds[i], names) <=> MayCall(j.value[i], names)
      BY <2>3, <3>3, Zenon DEF NestedIs
    <3>5. StepIsDefined(cmd, names) <=> \A i \in DOMAIN j.value : IsDefined(cmds[i], names)
      <4>1. "all" # "call"
        OBVIOUS
      <4> QED
        BY <3>2, <3>3, <4>1, Zenon DEF StepIsDefined
    <3> QED
      BY <2>2, <3>4, <3>5, Zenon
  <2> QED
    BY <2>2, <2>5, <2>6, <2>7, Zenon DEF CommandIs
<1>2. CASE j.json # "array"
  <2>1. ParseCommand(j, size) = ParseSingle(j, size) /\ CommandsOf(j) = {j}
    BY <1>2 DEF ParseCommand, CommandsOf, Is
  <2>2. SingleIs(j, size)
    BY <2>1, SingleAccepted
  <2>3. ASSUME NEW c \in ParseSingle(j, size), NEW names PROVE StepIsDefined(c, names) <=> MayCall(j, names)
    <3>1. MeansSingle(c, j)
      BY <2>2, <2>3 DEF SingleIs
    <3>2. CASE IsSleep(j) /\ ~IsCall(j) /\ c.op = "sleep"
      BY <1>2, <3>2 DEF StepIsDefined, MayCall, Is
    <3>3. CASE IsCall(j) /\ c.op = "call" /\ c.service = NameCalled(j)
      BY <1>2, <3>3 DEF StepIsDefined, MayCall, Is
    <3> QED
      BY <3>1, <3>2, <3>3 DEF MeansSingle
  <2>4. ParseCommand(j, size) # {} <=> \A c \in CommandsOf(j) : \A d \in CommandsOf(c) : Executable(d)
    BY <2>1, <2>2, Zenon DEF SingleIs, Executable
  <2> QED
    BY <2>1, <2>3, <2>4, Zenon DEF CommandIs
<1> QED
  BY <1>1, <1>2

\* A script.
ScriptIs(j, size) ==
  /\ ParseScript(j, size) # {} <=> IsScript(j)
  /\ \A s \in ParseScript(j, size) : \A names : ValidateCommands(s, names) <=> Runs(j, names)

LEMMA ValidateSteps ==
  ASSUME NEW s, NEW names
  PROVE  ValidateCommands(s, names) <=> \A i \in DOMAIN s : StepIsDefined(s[i], names)
BY Zenon DEF ValidateCommands, StepIsDefined, IsDefined, DefinedCalls, ContainsConcurrentCommand

LEMMA ScriptAccepted ==
  ASSUME NEW j, ScriptIsTyped(j), NEW size
  PROVE  ScriptIs(j, size)
<1>1. CASE j.json # "array"
  BY <1>1 DEF ScriptIs, ParseScript, Value, IsScript, Is
<1>2. CASE j.json = "array"
  <2> DEFINE list == j.value
             results == [i \in DOMAIN list |-> ParseCommand(list[i], size)]
  <2>1. ParseScript(j, size) = All(results)
    BY <1>2 DEF ParseScript, Value
  <2>2. \A i \in DOMAIN list : CommandIs(list[i], size)
    <3>1. ASSUME NEW i \in DOMAIN list PROVE \A c \in CommandsOf(list[i]) : \A d \in CommandsOf(c) : CommandIsTyped(d)
      <4>1. CommandsOf(list[i]) \subseteq CommandsOfScript(j)
        BY DEF CommandsOfScript
      <4> QED
        BY <1>2, <4>1 DEF ScriptIsTyped, Is
    <3> QED
      BY <3>1, CommandAccepted
  <2>3. DOMAIN results = DOMAIN list /\ \A i \in DOMAIN list : results[i] = ParseCommand(list[i], size)
    OBVIOUS
  <2>4. \A c : c \in CommandsOfScript(j) <=> \E i \in DOMAIN list : c \in CommandsOf(list[i])
    BY DEF CommandsOfScript
  <2> HIDE DEF results
  <2>5. All(results) # {} <=> IsScript(j)
    <3>1. \A i \in DOMAIN list : results[i] # {} <=> \A c \in CommandsOf(list[i]) : \A d \in CommandsOf(c) : Executable(d)
      BY <2>2, <2>3, Zenon DEF CommandIs
    <3>2. IsScript(j) <=> \A c \in CommandsOfScript(j) : \A d \in CommandsOf(c) : Executable(d)
      BY <1>2, Zenon DEF IsScript, Is, Executable
    <3>3. All(results) # {} <=> \A i \in DOMAIN list : results[i] # {}
      BY <2>3, AllAccepted, Zenon
    <3> HIDE DEF list
    <3> QED
      BY <2>4, <3>1, <3>2, <3>3, Zenon
  <2>6. ASSUME NEW s \in All(results), NEW names PROVE ValidateCommands(s, names) <=> Runs(j, names)
    <3>1. DOMAIN s = DOMAIN list /\ \A i \in DOMAIN s : s[i] \in ParseCommand(list[i], size)
      BY <2>3, AllElements
    <3>2. \A i \in DOMAIN list : StepIsDefined(s[i], names) <=> \A c \in CommandsOf(list[i]) : MayCall(c, names)
      BY <2>2, <3>1, Zenon DEF CommandIs
    <3>3. Runs(j, names) <=> \A c \in CommandsOfScript(j) : MayCall(c, names)
      BY Zenon DEF Runs, MayCall
    <3>4. ValidateCommands(s, names) <=> \A i \in DOMAIN list : StepIsDefined(s[i], names)
      BY <3>1, ValidateSteps, Zenon
    <3> HIDE DEF list
    <3> QED
      BY <2>4, <3>2, <3>3, <3>4, Zenon
  <2> QED
    BY <2>1, <2>5, <2>6, Zenon DEF ScriptIs
<1> QED
  BY <1>1, <1>2

-----------------------------------------------------------------------------
(* Services and defaults                                                   *)
FieldsAreTyped(o) ==
  /\ "requestSize" \in DOMAIN o => SizeIsTyped(o["requestSize"])
  /\ "responseSize" \in DOMAIN o => SizeIsTyped(o["responseSize"])
  /\ "errorRate" \in DOMAIN o => RateIsTyped(o["errorRate"])
  /\ "script" \in DOMAIN o => ScriptIsTyped(o["script"])

LEMMA TypedObject ==
  ASSUME NEW j, SettingsAreTyped(j), j.json = "object"
  PROVE  FieldsAreTyped(j.value)
BY DEF SettingsAreTyped, Is, Optional, FieldsAreTyped

LEMMA SettingsAccepted ==
  ASSUME NEW o, FieldsAreTyped(o), NEW default, NEW size
  PROVE  Settings(o, default, size) # {} <=> HasSettings(o)
<1> DEFINE Types == IF "type" \in DOMAIN o THEN ServiceType(o["type"]) ELSE {default.type}
           Replicas == Plain(o, "numReplicas", "number", default.numReplicas)
           Rates == IF "errorRate" \in DOMAIN o THEN Percentage(o["errorRate"]) ELSE {default.errorRate}
           Sizes == SizeOf(o, "responseSize", default.responseSize)
           Scripts == IF "script" \in DOMAIN o THEN ParseScript(o["script"], size) ELSE {default.script}
           Made(t, n, e, z, x) ==
             [type |-> t, numReplicas |-> n, errorRate |-> e, responseSize |-> z, script |-> x]
<1>1. Settings(o, default, size) =
        {Made(t, n, e, z, x) : t \in Types, n \in Replicas, e \in Rates, z \in Sizes, x \in Scripts}
  BY DEF Settings, Member
<1>2. Types # {} <=> ("type" \in DOMAIN o => IsType(o["type"]))
  <2>1. {default.type} # {}
    OBVIOUS
  <2> QED
    BY <2>1, TypeAccepted, Zenon
<1>3. Replicas # {} <=> ("numReplicas" \in DOMAIN o => Is(o["numReplicas"], "number"))
  BY PlainMember, Zenon
<1>4. Rates # {} <=> ("errorRate" \in DOMAIN o => IsPercentage(o["errorRate"]))
  <2>1. {default.errorRate} # {}
    OBVIOUS
  <2>2. "errorRate" \in DOMAIN o => (Percentage(o["errorRate"]) # {} <=> IsPercentage(o["errorRate"]))
    BY RateAccepted, Zenon DEF FieldsAreTyped
  <2> QED
    BY <2>1, <2>2, Zenon
<1>5. Sizes # {} <=> ("responseSize" \in DOMAIN o => IsSize(o["responseSize"]))
  BY SizeMember, Zenon DEF FieldsAreTyped
<1>6. Scripts # {} <=> ("script" \in DOMAIN o => IsScript(o["script"]))
  <2>1. {default.script} # {}
    OBVIOUS
  <2>2. "script" \in DOMAIN o => (ParseScript(o["script"], size) # {} <=> IsScript(o["script"]))
    BY ScriptAccepted, Zenon DEF FieldsAreTyped, ScriptIs
  <2> QED
    BY <2>1, <2>2, Zenon
<1> HIDE DEF Types, Replicas, Rates, Sizes, Scripts
<1>7. Settings(o, default, size) # {} <=>
        Types # {} /\ Replicas # {} /\ Rates # {} /\ Sizes # {} /\ Scripts # {}
  <2> HIDE DEF Made
  <2>1. ASSUME NEW t \in Types, NEW n \in Replicas, NEW e \in Rates, NEW z \in Sizes, NEW x \in Scripts
        PROVE  Made(t, n, e, z, x) \in Settings(o, default, size)
    BY <1>1
  <2>2. ASSUME NEW s \in Settings(o, default, size)
        PROVE  Types # {} /\ Replicas # {} /\ Rates # {} /\ Sizes # {} /\ Scripts # {}
    <3>1. PICK t \in Types, n \in Replicas, e \in Rates, z \in Sizes, x \in Scripts : s = Made(t, n, e, z, x)
      BY <1>1
    <3> QED
      BY <3>1
  <2>3. ASSUME Types # {} /\ Replicas # {} /\ Rates # {} /\ Sizes # {} /\ Scripts # {}
        PROVE  Settings(o, default, size) # {}
    <3>1. PICK t \in Types, n \in Replicas, e \in Rates, z \in Sizes, x \in Scripts : TRUE
      BY <2>3
    <3> QED
      BY <2>1
  <2> QED
    BY <2>2, <2>3
<1>8. HasSettings(o) <=>
        /\ "type" \in DOMAIN o => IsType(o["type"])
        /\ "numReplicas" \in DOMAIN o => Is(o["numReplicas"], "number")
        /\ "errorRate" \in DOMAIN o => IsPercentage(o["errorRate"])
        /\ "responseSize" \in DOMAIN o => IsSize(o["responseSize"])
        /\ "script" \in DOMAIN o => IsScript(o["script"])
  BY Zenon DEF HasSettings, Optional
<1> QED
  BY <1>2, <1>3, <1>4, <1>5, <1>6, <1>7, <1>8, Zenon

\* Which script a service has: its own, or the default one.
ScriptFrom(s, o, default, size) ==
  IF "script" \in DOMAIN o THEN s.script \in ParseScript(o["script"], size) ELSE s.script = default.script

ServiceIs(j, default, size) ==
  /\ ParseService(j, default, size) # {} <=> IsService(j)
  /\ \A s \in ParseService(j, default, size) :
       s.name = j.value["name"].value /\ ScriptFrom(s, j.value, default, size)

LEMMA ServiceAccepted ==
  ASSUME NEW j, SettingsAreTyped(j), NEW default, NEW size
  PROVE  ServiceIs(j, default, size)
<1>1. CASE j.json # "object"
  BY <1>1 DEF ServiceIs, ParseService, Value, IsService, Is
<1>2. CASE j.json = "object"
  <2> DEFINE o == j.value
             Names == Plain(o, "name", "string", NoName) \ {NoName}
             Entries == Flag(o, "isEntrypoint")
             Parsed == Settings(o, default, size)
  <2>1. ParseService(j, default, size) =
          {NamedService(name, entry, s) : name \in Names, entry \in Entries, s \in Parsed}
    BY <1>2 DEF ParseService, ParseServiceObject, Value
  <2>2. Names # {} <=> "name" \in DOMAIN o /\ IsName(o["name"]) /\ o["name"].value # ""
    <3>1. CASE "name" \notin DOMAIN o
      BY <3>1 DEF Plain, Member
    <3>2. CASE "name" \in DOMAIN o /\ ~IsName(o["name"])
      BY <3>2 DEF Plain, Member, Value, IsName, Is
    <3>3. CASE "name" \in DOMAIN o /\ IsName(o["name"])
      <4>1. Names = {o["name"].value} \ {""}
        BY <3>3 DEF Plain, Member, Value, NoName, IsName, Is
      <4> QED
        BY <3>3, <4>1
    <3> QED
      BY <3>1, <3>2, <3>3
  <2>3. \A name \in Names : name = o["name"].value
    BY DEF Plain, Member, Value
  <2>4. Entries # {} <=> ("isEntrypoint" \in DOMAIN o => Is(o["isEntrypoint"], "boolean"))
    BY PlainMember, Zenon DEF Flag
  <2>5. Parsed # {} <=> HasSettings(o)
    BY <1>2, TypedObject, SettingsAccepted, Zenon
  <2>6. \A s \in Parsed : ScriptFrom(s, o, default, size)
    <3>1. ASSUME NEW s \in Parsed PROVE ScriptFrom(s, o, default, size)
      <4>1. ReadFrom(s, o, default, size)
        BY SettingsRead
      <4> QED
        BY <4>1 DEF ReadFrom, ScriptFrom
    <3> QED
      BY <3>1
  <2>7. IsService(j) <=>
          /\ HasSettings(o)
          /\ "name" \in DOMAIN o /\ IsName(o["name"]) /\ o["name"].value # ""
          /\ "isEntrypoint" \in DOMAIN o => Is(o["isEntrypoint"], "boolean")
    BY <1>2, Zenon DEF IsService, Is, Optional
  <2> HIDE DEF Names, Entries, Parsed
  <2>8. ParseService(j, default, size) # {} <=> Names # {} /\ Entries # {} /\ Parsed # {}
    <3>1. ASSUME NEW name \in Names, NEW entry \in Entries, NEW s \in Parsed
          PROVE  NamedService(name, entry, s) \in ParseService(j, default, size)
      BY <2>1
    <3>2. ASSUME NEW s \in ParseService(j, default, size) PROVE Names # {} /\ Entries # {} /\ Parsed # {}
      BY <2>1
    <3> QED
      BY <3>1, <3>2
  <2>9. ASSUME NEW s \in ParseService(j, default, size)
        PROVE  s.name = o["name"].value /\ ScriptFrom(s, o, default, size)
    <3>1. PICK name \in Names, entry \in Entries, t \in Parsed : s = NamedService(name, entry, t)
      BY <2>1
    <3>2. s.name = name /\ s.script = t.script
      BY <3>1 DEF NamedService
    <3> QED
      BY <2>3, <2>6, <3>2 DEF ScriptFrom
  <2> QED
    BY <2>2, <2>4, <2>5, <2>7, <2>8, <2>9, Zenon DEF ServiceIs
<1> QED
  BY <1>1, <1>2

HasDefaultScript(document) ==
  "defaults" \in DOMAIN document /\ "script" \in DOMAIN document["defaults"].value
DefaultScriptFrom(default, document) ==
  IF HasDefaultScript(document) THEN default.script \in ParseScript(document["defaults"].value["script"], 0)
  ELSE default.script = <<>>
DefaultsAre(document) ==
  /\ Defaults(document) # {} /\ RequestSize(document) # {} <=>
       ("defaults" \in DOMAIN document => IsDefaults(document["defaults"]))
  /\ \A default \in Defaults(document) : DefaultScriptFrom(default, document)

LEMMA DefaultsAccepted ==
  ASSUME NEW document, ScalarsAreTyped(document)
  PROVE  DefaultsAre(document)
<1> DEFINE j == document["defaults"]
           o == j.value
<1>1. CASE "defaults" \notin DOMAIN document
  <2>1. Defaults(document) = {DefaultService} /\ RequestSize(document) = {0}
    BY <1>1 DEF Defaults, RequestSize, Member
  <2>2. DefaultService.script = <<>>
    BY DEF DefaultService
  <2> QED
    BY <1>1, <2>1, <2>2 DEF DefaultsAre, DefaultScriptFrom, HasDefaultScript
<1>2. CASE "defaults" \in DOMAIN document /\ j.json # "object"
  BY <1>2 DEF DefaultsAre, Defaults, RequestSize, Member, Value, IsDefaults, Is
<1>3. CASE "defaults" \in DOMAIN document /\ j.json = "object"
  <2>1. Defaults(document) = Settings(o, DefaultService, 0) /\ RequestSize(document) = SizeOf(o, "requestSize", 0)
    BY <1>3 DEF Defaults, RequestSize, Member, Value
  <2>2. FieldsAreTyped(o)
    BY <1>3, TypedObject DEF ScalarsAreTyped, Optional
  <2>3. Settings(o, DefaultService, 0) # {} <=> HasSettings(o)
    BY <2>2, SettingsAccepted, Zenon
  <2>4. SizeOf(o, "requestSize", 0) # {} <=> ("requestSize" \in DOMAIN o => IsSize(o["requestSize"]))
    BY <2>2, SizeMember, Zenon DEF FieldsAreTyped
  <2>5. IsDefaults(j) <=> HasSettings(o) /\ ("requestSize" \in DOMAIN o => IsSize(o["requestSize"]))
    BY <1>3, Zenon DEF IsDefaults, Is, Optional
  <2>6. ASSUME NEW default \in Settings(o, DefaultService, 0) PROVE DefaultScriptFrom(default, document)
    <3>1. ReadFrom(default, o, DefaultService, 0)
      BY SettingsRead
    <3>2. DefaultService.script = <<>>
      BY DEF DefaultService
    <3> QED
      BY <1>3, <3>1, <3>2 DEF ReadFrom, DefaultScriptFrom, HasDefaultScript
  <2> HIDE DEF j, o
  <2>7. Defaults(document) # {} /\ RequestSize(document) # {} <=>
          ("defaults" \in DOMAIN document => IsDefaults(j))
    BY <1>3, <2>1, <2>3, <2>4, <2>5, Zenon
  <2> QED
    BY <2>1, <2>6, <2>7, Zenon DEF DefaultsAre, j
<1> QED
  BY <1>1, <1>2, <1>3

\* What each service of a list runs.
NamesIn(list) == {list[i].value["name"].value : i \in DOMAIN list}
RunsService(document, list, i) ==
  /\ "script" \in DOMAIN list[i].value => Runs(list[i].value["script"], NamesIn(list))
  /\ "script" \notin DOMAIN list[i].value /\ HasDefaultScript(document) =>
       Runs(document["defaults"].value["script"], NamesIn(list))

LEMMA ServiceRuns ==
  ASSUME NEW document, ScalarsAreTyped(document), NEW list, NEW i, SettingsAreTyped(list[i]),
         NEW default \in Defaults(document), NEW size, NEW s \in ParseService(list[i], default, size)
  PROVE  ValidateCommands(s.script, NamesIn(list)) <=> RunsService(document, list, i)
<1> DEFINE o == list[i].value
           d == document["defaults"].value
           names == NamesIn(list)
<1>1. ScriptFrom(s, o, default, size)
  BY ServiceAccepted DEF ServiceIs
<1>2. list[i].json = "object"
  BY DEF ParseService, Value
<1> HIDE DEF names
<1>3. CASE "script" \in DOMAIN o
  <2>1. s.script \in ParseScript(o["script"], size)
    BY <1>1, <1>3 DEF ScriptFrom
  <2>2. ScriptIs(o["script"], size)
    <3>1. FieldsAreTyped(o)
      BY <1>2, TypedObject
    <3> QED
      BY <1>3, <3>1, ScriptAccepted DEF FieldsAreTyped
  <2>3. ValidateCommands(s.script, names) <=> Runs(o["script"], names)
    BY <2>1, <2>2, Zenon DEF ScriptIs
  <2> QED
    BY <1>3, <2>3, Zenon DEF RunsService, names
<1>4. CASE "script" \notin DOMAIN o /\ HasDefaultScript(document)
  <2>1. s.script \in ParseScript(d["script"], 0)
    <3>1. s.script = default.script
      BY <1>1, <1>4 DEF ScriptFrom
    <3>2. DefaultScriptFrom(default, document)
      BY DefaultsAccepted DEF DefaultsAre
    <3> QED
      BY <1>4, <3>1, <3>2 DEF DefaultScriptFrom
  <2>2. ScriptIs(d["script"], 0)
    <3>1. document["defaults"].json = "object"
      BY <1>4 DEF HasDefaultScript, Defaults, Member, Value
    <3>2. FieldsAreTyped(d)
      BY <1>4, <3>1, TypedObject DEF HasDefaultScript, ScalarsAreTyped, Optional
    <3> QED
      BY <1>4, <3>2, ScriptAccepted DEF FieldsAreTyped, HasDefaultScript
  <2>3. ValidateCommands(s.script, names) <=> Runs(d["script"], names)
    BY <2>1, <2>2, Zenon DEF ScriptIs
  <2> QED
    BY <1>4, <2>3, Zenon DEF RunsService, names
<1>5. CASE "script" \notin DOMAIN o /\ ~HasDefaultScript(document)
  <2>1. s.script = <<>>
    <3>1. s.script = default.script
      BY <1>1, <1>5 DEF ScriptFrom
    <3>2. DefaultScriptFrom(default, document)
      BY DefaultsAccepted DEF DefaultsAre
    <3> QED
      BY <1>5, <3>1, <3>2 DEF DefaultScriptFrom
  <2>2. ValidateCommands(<<>>, names)
    BY DEF ValidateCommands, DefinedCalls
  <2> QED
    BY <1>5, <2>1, <2>2 DEF RunsService, names
<1> QED
  BY <1>3, <1>4, <1>5

\* The reference, with the names of this proof.
LEMMA Reference ==
  ASSUME NEW document
  PROVE  WellFormed(document) <=>
           /\ "defaults" \in DOMAIN document => IsDefaults(document["defaults"])
           /\ "services" \in DOMAIN document =>
                /\ document["services"].json = "array"
                /\ \A i \in DOMAIN document["services"].value : IsService(document["services"].value[i])
                /\ \A i \in DOMAIN document["services"].value :
                     RunsService(document, document["services"].value, i)
BY Zenon DEF WellFormed, Optional, Is, RunsService, NamesIn, HasDefaultScript

\* Of every document: the parser accepts it exactly if TopologyFormat says that
\* it is a topology.
THEOREM AcceptsWellFormed ==
  ASSUME NEW document, ScalarsAreTyped(document)
  PROVE  Unmarshal(document) # {} <=> WellFormed(document)
<1>1. DefaultsAre(document)
  BY DefaultsAccepted
<1> DEFINE DefaultsOK == "defaults" \in DOMAIN document => IsDefaults(document["defaults"])
<1>2. Defaults(document) # {} /\ RequestSize(document) # {} <=> DefaultsOK
  BY <1>1, Zenon DEF DefaultsAre
<1>3. CASE ~DefaultsOK
  <2>1. Defaults(document) = {} \/ RequestSize(document) = {}
    BY <1>2, <1>3
  <2>2. Unmarshal(document) = {}
    BY <2>1 DEF Unmarshal
  <2> QED
    BY <1>3, <2>2, Reference, Zenon
<1>4. CASE DefaultsOK
  <2>1. PICK default \in Defaults(document), size \in RequestSize(document) : TRUE
    BY <1>2, <1>4
  <2>2. AtMostOne(Defaults(document)) /\ AtMostOne(RequestSize(document))
    BY SettingsAreOne, SizeOfIsOne DEF Defaults, RequestSize, Member, Value, AtMostOne
  <2>3. \A list : ServiceList(document) = {list} =>
          Unmarshal(document) = {graph \in ParseServices(list, default, size) : Validate(graph)}
    BY <2>1, <2>2 DEF Unmarshal, AtMostOne
  <2>4. CASE "services" \notin DOMAIN document
    <3>1. ServiceList(document) = {<<>>}
      BY <2>4 DEF ServiceList, Plain, Member
    <3> DEFINE results == [i \in DOMAIN <<>> |-> ParseService(<<>>[i], default, size)]
    <3>2. DOMAIN results = {}
      OBVIOUS
    <3>3. ParseServices(<<>>, default, size) = All(results)
      BY DEF ParseServices
    <3> HIDE DEF results
    <3>4. All(results) # {} /\ \A graph \in All(results) : DOMAIN graph = {}
      BY <3>2, AllAccepted, AllElements
    <3>5. \A graph \in All(results) : Validate(graph)
      BY <3>4 DEF Validate
    <3>6. Unmarshal(document) # {}
      BY <2>3, <3>1, <3>3, <3>4, <3>5
    <3> QED
      BY <1>4, <2>4, <3>6, Reference, Zenon
  <2>5. CASE "services" \in DOMAIN document /\ document["services"].json # "array"
    <3>1. ServiceList(document) = {}
      BY <2>5 DEF ServiceList, Plain, Member, Value
    <3>2. Unmarshal(document) = {}
      BY <3>1 DEF Unmarshal
    <3> QED
      BY <2>5, <3>2, Reference, Zenon
  <2>6. CASE "services" \in DOMAIN document /\ document["services"].json = "array"
    <3> DEFINE list == document["services"].value
               results == [i \in DOMAIN list |-> ParseService(list[i], default, size)]
               ServicesOK == \A i \in DOMAIN list : IsService(list[i])
               Runnable == \A i \in DOMAIN list : RunsService(document, list, i)
    <3>1. ServiceList(document) = {list}
      BY <2>6 DEF ServiceList, Plain, Member, Value
    <3>2. \A i \in DOMAIN list : SettingsAreTyped(list[i])
      BY <2>6 DEF ScalarsAreTyped, Optional, Is
    <3>3. WellFormed(document) <=> ServicesOK /\ Runnable
      BY <1>4, <2>6, Reference, Zenon
    <3> HIDE DEF list
    <3>4. ParseServices(list, default, size) = All(results)
      BY DEF ParseServices
    <3>5. DOMAIN results = DOMAIN list
          /\ \A i \in DOMAIN list : results[i] = ParseService(list[i], default, size)
      OBVIOUS
    <3> HIDE DEF results
    <3>6. \A i \in DOMAIN list : ServiceIs(list[i], default, size)
      BY <3>2, ServiceAccepted
    <3>7. All(results) # {} <=> ServicesOK
      <4>1. \A i \in DOMAIN list : results[i] # {} <=> IsService(list[i])
        BY <3>5, <3>6, Zenon DEF ServiceIs
      <4> QED
        BY <3>5, <4>1, AllAccepted, Zenon
    <3>8. ASSUME NEW graph \in All(results) PROVE Validate(graph) <=> Runnable
      <4>1. DOMAIN graph = DOMAIN list /\ \A i \in DOMAIN list : graph[i] \in ParseService(list[i], default, size)
        BY <3>5, AllElements
      <4>2. \A i \in DOMAIN list : graph[i].name = list[i].value["name"].value
        BY <3>6, <4>1 DEF ServiceIs
      <4>3. NamesOf(graph) = NamesIn(list)
        BY <4>1, <4>2 DEF NamesOf, NamesIn
      <4>4. \A i \in DOMAIN list :
              ValidateCommands(graph[i].script, NamesIn(list)) <=> RunsService(document, list, i)
        BY <2>1, <3>2, <4>1, ServiceRuns, Zenon
      <4> QED
        BY <4>1, <4>3, <4>4, Zenon DEF Validate
    <3>9. Unmarshal(document) = {graph \in All(results) : Validate(graph)}
      BY <2>3, <3>1, <3>4
    <3> HIDE DEF ServicesOK, Runnable
    <3>10. Unmarshal(document) # {} <=> ServicesOK /\ Runnable
      <4>1. CASE ServicesOK /\ Runnable
        <5>1. PICK graph \in All(results) : TRUE
          BY <3>7, <4>1
        <5>2. graph \in Unmarshal(document)
          BY <3>8, <3>9, <4>1
        <5> QED
          BY <4>1, <5>2
      <4>2. CASE ~(ServicesOK /\ Runnable)
        <5>1. ASSUME NEW graph \in Unmarshal(document) PROVE FALSE
          <6>1. graph \in All(results) /\ Validate(graph)
            BY <3>9
          <6> QED
            BY <3>7, <3>8, <4>2, <6>1
        <5> QED
          BY <4>2, <5>1
      <4> QED
        BY <4>1, <4>2
    <3> QED
      BY <3>3, <3>10, Zenon
  <2> QED
    BY <2>4, <2>5, <2>6
<1> QED
  BY <1>3, <1>4

-----------------------------------------------------------------------------
(***************************************************************************)
(* The manifests of a graph, by their places in the file.                  *)
(***************************************************************************)
ManifestSet(graph, nodes, clientNodes, time) ==
  {MakeNamespace(time), MakeConfigMap(graph, time),
   MakeFortioDeployment(clientNodes, time), MakeFortioService(time)}
    \cup {MakeDeployment(graph[k], nodes, time) : k \in DOMAIN graph}
    \cup {MakeService(graph[k], time) : k \in DOMAIN graph}

OfServices(services, graph, nodes, time, Made) ==
  /\ services \in Seq(Made) /\ Len(services) = 2 * Len(graph)
  /\ \A k \in DOMAIN graph : /\ services[2 * k - 1] = MakeDeployment(graph[k], nodes, time)
                            /\ services[2 * k] = MakeService(graph[k], time)

LEMMA ManifestsOfServicesWritten ==
  ASSUME NEW graph, IsSequence(graph), NEW nodes, NEW clientNodes, NEW time
  PROVE  OfServices(ManifestsOfServices(graph, nodes, time), graph, nodes, time,
                    ManifestSet(graph, nodes, clientNodes, time))
<1> DEFINE at(i) == IF i % 2 = 1 THEN MakeDeployment(graph[(i + 1) \div 2], nodes, time)
                                 ELSE MakeService(graph[i \div 2], time)
           Made == ManifestSet(graph, nodes, clientNodes, time)
           n == Len(graph)
           services == ManifestsOfServices(graph, nodes, time)
<1>1. services = [i \in 1 .. 2 * n |-> at(i)]
  BY DEF ManifestsOfServices
<1>2. DOMAIN graph = 1 .. n /\ n \in Nat
  BY DEF IsSequence
<1> HIDE DEF n
<1>3. ASSUME NEW i \in 1 .. 2 * n PROVE at(i) \in Made
  <2>1. CASE i % 2 = 1
    <3>1. (i + 1) \div 2 \in DOMAIN graph
      BY <1>2, <2>1
    <3> QED
      BY <2>1, <3>1 DEF ManifestSet
  <2>2. CASE i % 2 # 1
    <3>1. i \div 2 \in DOMAIN graph
      BY <1>2, <2>2
    <3> QED
      BY <2>2, <3>1 DEF ManifestSet
  <2> QED
    BY <2>1, <2>2
<1>4. ASSUME NEW k \in 1 .. n
      PROVE  /\ 2 * k - 1 \in 1 .. 2 * n /\ at(2 * k - 1) = MakeDeployment(graph[k], nodes, time)
             /\ 2 * k \in 1 .. 2 * n /\ at(2 * k) = MakeService(graph[k], time)
  <2>1. (2 * k - 1) % 2 = 1 /\ ((2 * k - 1) + 1) \div 2 = k /\ (2 * k) % 2 = 0 /\ (2 * k) \div 2 = k
    BY <1>2
  <2> QED
    BY <1>2, <2>1
<1>5. 2 * n \in Nat
  BY <1>2
<1> HIDE DEF at, Made, services
<1>6. services \in Seq(Made) /\ Len(services) = 2 * n
  BY <1>1, <1>3, <1>5
<1> QED
  BY <1>1, <1>2, <1>4, <1>6 DEF Made, services, n, OfServices

Joined(c, a, b, M) ==
  /\ c \in Seq(M) /\ Len(c) = Len(a) + Len(b)
  /\ \A i \in 1 .. Len(a) : c[i] = a[i]
  /\ \A i \in 1 .. Len(b) : c[Len(a) + i] = b[i]

LEMMA Concatenated ==
  ASSUME NEW M, NEW a \in Seq(M), NEW b \in Seq(M)
  PROVE  Joined(a \o b, a, b, M)
<1>1. Len(a) \in Nat /\ Len(b) \in Nat
  OBVIOUS
<1>2. \A i \in 1 .. Len(a) + Len(b) : (a \o b)[i] = IF i <= Len(a) THEN a[i] ELSE b[i - Len(a)]
  OBVIOUS
<1>3. ASSUME NEW i \in 1 .. Len(b) PROVE (a \o b)[Len(a) + i] = b[i]
  <2>1. Len(a) + i \in 1 .. Len(a) + Len(b) /\ ~(Len(a) + i <= Len(a)) /\ (Len(a) + i) - Len(a) = i
    BY <1>1
  <2> QED
    BY <1>2, <2>1
<1>4. a \o b \in Seq(M) /\ Len(a \o b) = Len(a) + Len(b)
  OBVIOUS
<1>5. \A i \in 1 .. Len(a) : (a \o b)[i] = a[i]
  BY <1>1, <1>2
<1> QED
  BY <1>3, <1>4, <1>5 DEF Joined

\* The parts of the file m: the namespace and the config map come first, then
\* two manifests for each of the n services, and the client comes last.
FileParts(m, n, graph, nodes, clientNodes, time) ==
  /\ m \in Seq(ManifestSet(graph, nodes, clientNodes, time)) /\ Len(m) = 2 * n + 4
  /\ m[1] = MakeNamespace(time) /\ m[2] = MakeConfigMap(graph, time)
  /\ \A k \in 1 .. n : /\ m[2 * k + 1] = MakeDeployment(graph[k], nodes, time)
                      /\ m[2 * k + 2] = MakeService(graph[k], time)
  /\ m[2 * n + 3] = MakeFortioDeployment(clientNodes, time)
  /\ m[2 * n + 4] = MakeFortioService(time)

LEMMA ManifestsWritten ==
  ASSUME NEW graph, IsSequence(graph), NEW nodes, NEW clientNodes, NEW time,
         NEW n \in Nat, n = Len(graph),
         NEW m, m = ServiceGraphToKubernetesManifests(graph, nodes, clientNodes, time)
  PROVE  FileParts(m, n, graph, nodes, clientNodes, time)
<1> DEFINE Made == ManifestSet(graph, nodes, clientNodes, time)
           services == ManifestsOfServices(graph, nodes, time)
           client == <<MakeFortioDeployment(clientNodes, time), MakeFortioService(time)>>
           first == <<MakeNamespace(time), MakeConfigMap(graph, time)>>
<1>1. m = first \o services \o client
  BY DEF ServiceGraphToKubernetesManifests, InOrder
<1>2. /\ first \in Seq(Made) /\ Len(first) = 2
      /\ first[1] = MakeNamespace(time) /\ first[2] = MakeConfigMap(graph, time)
      /\ client \in Seq(Made) /\ Len(client) = 2
      /\ client[1] = MakeFortioDeployment(clientNodes, time) /\ client[2] = MakeFortioService(time)
  BY DEF ManifestSet
<1>3. OfServices(services, graph, nodes, time, Made)
  BY ManifestsOfServicesWritten
<1> HIDE DEF Made, services, client, first
<1>a. DOMAIN graph = 1 .. n
  BY DEF IsSequence
<1> DEFINE front == first \o services
<1>4. /\ front \in Seq(Made) /\ Len(front) = 2 + 2 * n
      /\ \A i \in 1 .. 2 : front[i] = first[i]
      /\ \A i \in 1 .. 2 * n : front[2 + i] = services[i]
  <2>1. Joined(front, first, services, Made)
    BY <1>2, <1>3, Concatenated DEF OfServices
  <2> HIDE DEF front
  <2> QED
    BY <1>2, <1>3, <2>1 DEF Joined, OfServices
<1> HIDE DEF front
<1>5. /\ m \in Seq(Made) /\ Len(m) = (2 + 2 * n) + 2
      /\ \A i \in 1 .. 2 + 2 * n : m[i] = front[i]
      /\ \A i \in 1 .. 2 : m[(2 + 2 * n) + i] = client[i]
  <2>1. m = front \o client
    BY <1>1 DEF front
  <2>2. Joined(m, front, client, Made)
    BY <1>2, <1>4, <2>1, Concatenated
  <2> QED
    BY <1>2, <1>4, <2>2 DEF Joined
<1>6. 1 \in 1 .. 2 + 2 * n /\ 2 \in 1 .. 2 + 2 * n /\ 1 \in 1 .. 2 /\ 2 \in 1 .. 2
  OBVIOUS
<1>7. m[1] = MakeNamespace(time) /\ m[2] = MakeConfigMap(graph, time)
  BY <1>2, <1>4, <1>5, <1>6
<1>8. ASSUME NEW k \in 1 .. n
      PROVE  /\ m[2 * k + 1] = MakeDeployment(graph[k], nodes, time)
             /\ m[2 * k + 2] = MakeService(graph[k], time)
  <2>1. /\ 2 * k - 1 \in 1 .. 2 * n /\ 2 * k \in 1 .. 2 * n
        /\ 2 + (2 * k - 1) = 2 * k + 1 /\ 2 + 2 * k = 2 * k + 2
        /\ 2 * k + 1 \in 1 .. 2 + 2 * n /\ 2 * k + 2 \in 1 .. 2 + 2 * n
    OBVIOUS
  <2>2. m[2 * k + 1] = services[2 * k - 1] /\ m[2 * k + 2] = services[2 * k]
    BY <1>4, <1>5, <2>1
  <2> QED
    BY <1>3, <1>a, <2>2 DEF OfServices
<1>9. /\ m[2 * n + 3] = MakeFortioDeployment(clientNodes, time)
      /\ m[2 * n + 4] = MakeFortioService(time)
  <2>1. (2 + 2 * n) + 1 = 2 * n + 3 /\ (2 + 2 * n) + 2 = 2 * n + 4
    OBVIOUS
  <2> QED
    BY <1>2, <1>5, <1>6, <2>1
<1>10. (2 + 2 * n) + 2 = 2 * n + 4
  OBVIOUS
<1> QED
  BY <1>5, <1>7, <1>8, <1>9, <1>10 DEF Made, FileParts
=============================================================================
