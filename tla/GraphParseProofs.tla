-------------------------- MODULE GraphParseProofs --------------------------
(***************************************************************************)
(* Proofs about GraphParse, for any number of goroutines and any documents.*)
(***************************************************************************)
EXTENDS GraphParse, SequenceTheorems, TLAPS

\* What ParseAssumption says of the document a parser was given.
LEMMA DocumentFacts ==
  ASSUME TypeOK, NEW p \in Parsers
  PROVE  /\ doc[p].wellFormed \in BOOLEAN /\ doc[p].setting \in Settings
         /\ doc[p].requestSize \in Sizes /\ doc[p].script \in Script
         /\ doc[p].services \in Seq(Entries)
<1>1. doc[p] \in Document
  BY ParseAssumption DEF TypeOK
<1>2. QED
  BY <1>1 DEF Document

\* Filling in sizes leaves no omission.
LEMMA SizedType ==
  ASSUME NEW s \in Script, NEW size, \A k \in DOMAIN s.calls : size[k] \in Sizes
  PROVE  Sized(s, size) \in ParsedScript
<1> DEFINE call(k) == [service |-> s.calls[k].service,
                       size |-> IF s.calls[k].size = Omitted THEN size[k] ELSE s.calls[k].size]
<1>1. s.calls \in Seq(Calls) /\ s.nested \in BOOLEAN
  BY DEF Script
<1>2. DOMAIN s.calls = 1 .. Len(s.calls) /\ Len(s.calls) \in Nat
  BY <1>1
<1>3. ASSUME NEW k \in 1 .. Len(s.calls) PROVE call(k) \in [service : Names, size : Sizes]
  <2>1. s.calls[k] \in Calls
    BY <1>1, <1>2
  <2>2. size[k] \in Sizes
    BY <1>2
  <2>3. QED
    BY <2>1, <2>2 DEF Calls
<1> HIDE DEF call
<1>4. [k \in 1 .. Len(s.calls) |-> call(k)] \in Seq([service : Names, size : Sizes])
  BY <1>2, <1>3, IsASeq
<1>5. QED
  BY <1>1, <1>2, <1>4 DEF Sized, ParsedScript, call

LEMMA InitIInv == Init => IInv
<1> SUFFICES ASSUME Init PROVE IInv
  OBVIOUS
<1>1. NoScript \in ParsedScript
  BY DEF NoScript, ParsedScript
<1>2. OriginalService \in ServiceValues
  BY <1>1, ParseAssumption DEF OriginalService, ServiceValues
<1>3. TypeOK
  BY <1>2, ParseAssumption DEF Init, TypeOK, Labels
<1>4. ASSUME NEW p \in Parsers PROVE Exclusion(p) /\ Progress(p)
  <2>1. pc[p] = "metadata" /\ read[p] = <<>> /\ parsed[p] = <<>> /\ err[p] = "nil"
    BY DEF Init
  <2>2. mutex # p
    BY NoParserAssumption DEF Init
  <2>3. doc[p].script.calls \in Seq(Calls) /\ Len(doc[p].services) \in Nat
    BY <1>3, DocumentFacts DEF Script
  <2>4. QED
    BY <2>1, <2>2, <2>3 DEF Exclusion, Progress, Critical
<1>5. OwnDefaults
  BY DEF Init, OwnDefaults
<1>6. QED
  BY <1>3, <1>4, <1>5 DEF IInv, Init, DefaultsRestored

-----------------------------------------------------------------------------
\* The service that the variables give is the one the document asks for.
LEMMA ParsedFromOwnDocument ==
  ASSUME NEW p \in Parsers, Exclusion(p), pc[p] = "parse", NEW s
  PROVE  Parsed(s) = ServiceOf(doc[p], s, read[p])
  BY DEF Exclusion, Parsed, ServiceOf

LEMMA ParsedType ==
  ASSUME TypeOK, NEW s \in Entries, s.name # NoName
  PROVE  Parsed(s) \in ParsedService
<1>1. defaultService \in ServiceValues /\ defaultRequest \in Sizes
  BY DEF TypeOK
<1>2. s.name \in Names /\ s.setting \in Settings \cup {Omitted} /\ s.script \in Script \cup {Omitted}
  BY DEF Entries
<1>3. (IF s.setting = Omitted THEN defaultService.setting ELSE s.setting) \in Settings
  BY <1>1, <1>2 DEF ServiceValues
<1> DEFINE script == IF s.script = Omitted THEN defaultService.script
                     ELSE Sized(s.script, [k \in DOMAIN s.script.calls |-> defaultRequest])
<1>4. script \in ParsedScript
  <2>1. CASE s.script = Omitted
    BY <1>1, <2>1 DEF ServiceValues
  <2>2. CASE s.script # Omitted
    <3>1. s.script \in Script
      BY <1>2, <2>2
    <3>2. \A k \in DOMAIN s.script.calls :
            [l \in DOMAIN s.script.calls |-> defaultRequest][k] \in Sizes
      BY <1>1
    <3>3. QED
      BY <2>2, <3>1, <3>2, SizedType
  <2>3. QED
    BY <2>1, <2>2
<1> HIDE DEF script
<1>5. [name |-> s.name,
       setting |-> IF s.setting = Omitted THEN defaultService.setting ELSE s.setting,
       script |-> script] \in ParsedService
  BY <1>2, <1>3, <1>4 DEF ParsedService
<1>6. QED
  BY <1>5 DEF Parsed, script

LEMMA TypeStep ==
  ASSUME IInv, NEW p \in Parsers, UnmarshalJSON(p)
  PROVE  TypeOK'
<1> USE DEF IInv
<1>t. TypeOK /\ Exclusion(p) /\ Progress(p)
  OBVIOUS
<1>d. /\ doc[p].setting \in Settings /\ doc[p].requestSize \in Sizes
      /\ doc[p].script \in Script
      /\ doc[p].services \in Seq(Entries)
  BY DocumentFacts
<1>1. CASE RejectMetadata(p)
  BY <1>1, <1>t DEF RejectMetadata, Goto, TypeOK, Labels
<1>2. CASE ReadMetadataCall(p)
  <2>1. Append(read[p], defaultRequest) \in Seq(Sizes)
    BY <1>t DEF TypeOK
  <2>2. QED
    BY <1>2, <1>t, <2>1 DEF ReadMetadataCall, TypeOK
<1>3. CASE Lock(p)
  BY <1>3, <1>t DEF Lock, Goto, TypeOK, Labels
<1>4. CASE SetDefaults(p)
  <2>1. Sized(doc[p].script, read[p]) \in ParsedScript
    <3>1. doc[p].script.calls \in Seq(Calls) /\ read[p] \in Seq(Sizes)
      BY <1>d, <1>t DEF Script, TypeOK
    <3>2. Len(read[p]) = Len(doc[p].script.calls)
      BY <1>4, <1>t DEF SetDefaults, Progress
    <3>3. \A k \in DOMAIN doc[p].script.calls : read[p][k] \in Sizes
      BY <3>1, <3>2
    <3>4. QED
      BY <1>d, <3>3, SizedType
  <2>2. [setting |-> doc[p].setting, script |-> Sized(doc[p].script, read[p])] \in ServiceValues
    BY <1>d, <2>1 DEF ServiceValues
  <2>3. [service |-> defaultService, request |-> defaultRequest]
          \in [service : ServiceValues, request : Sizes]
    BY <1>t DEF TypeOK
  <2>4. QED
    BY <1>4, <1>d, <1>t, <2>2, <2>3 DEF SetDefaults, Goto, TypeOK, Labels
<1>5. CASE ParseService(p)
  <2>1. parsed[p] \in Seq(ParsedService)
    BY <1>t DEF TypeOK
  <2>2. Len(parsed[p]) + 1 \in DOMAIN doc[p].services
    BY <1>5, <1>d, <2>1 DEF ParseService
  <2>3. NextService(p) \in Entries
    BY <1>d, <2>2 DEF NextService
  <2>4. Parsed(NextService(p)) \in ParsedService
    BY <1>5, <1>t, <2>3, ParsedType DEF ParseService
  <2>5. Append(parsed[p], Parsed(NextService(p))) \in Seq(ParsedService)
    BY <2>1, <2>4
  <2>6. QED
    BY <1>5, <1>t, <2>5 DEF ParseService, TypeOK
<1>6. CASE RejectService(p)
  BY <1>6, <1>t DEF RejectService, Goto, TypeOK, Labels
<1>7. CASE ParseEnds(p)
  BY <1>7, <1>t DEF ParseEnds, Goto, TypeOK, Labels
<1>8. CASE RestoreDefaults(p)
  BY <1>8, <1>t DEF RestoreDefaults, Goto, TypeOK, Labels
<1>9. CASE Unlock(p)
  BY <1>9, <1>t DEF Unlock, Goto, TypeOK, Labels
<1>10. CASE Assign(p)
  <2>1. <<>> \in Seq(ParsedService)
    OBVIOUS
  <2>2. QED
    BY <1>10, <1>t, <2>1 DEF Assign, Goto, TypeOK, Labels
<1>11. QED
  BY <1>1, <1>2, <1>3, <1>4, <1>5, <1>6, <1>7, <1>8, <1>9, <1>10 DEF UnmarshalJSON

\* A step of p leaves alone what belongs to another parser.
LEMMA OthersKeep ==
  ASSUME TypeOK, NEW p \in Parsers, UnmarshalJSON(p), NEW q \in Parsers, q # p
  PROVE  /\ doc' = doc /\ pc'[q] = pc[q] /\ read'[q] = read[q] /\ orig'[q] = orig[q]
         /\ parsed'[q] = parsed[q] /\ graph'[q] = graph[q] /\ err'[q] = err[q]
<1> USE DEF TypeOK, Goto
<1>1. CASE RejectMetadata(p) \/ ReadMetadataCall(p) \/ Lock(p) \/ SetDefaults(p) \/ ParseService(p)
  BY <1>1 DEF RejectMetadata, ReadMetadataCall, Lock, SetDefaults, ParseService
<1>2. CASE RejectService(p) \/ ParseEnds(p) \/ RestoreDefaults(p) \/ Unlock(p) \/ Assign(p)
  BY <1>2 DEF RejectService, ParseEnds, RestoreDefaults, Unlock, Assign
<1>3. QED
  BY <1>1, <1>2 DEF UnmarshalJSON

LEMMA ExclusionStep ==
  ASSUME IInv, NEW p \in Parsers, UnmarshalJSON(p)
  PROVE  DefaultsRestored' /\ \A q \in Parsers : Exclusion(q)'
<1> USE DEF IInv
<1>t. /\ TypeOK /\ DefaultsRestored /\ Exclusion(p)
      /\ \A q \in Parsers : Exclusion(q)
  OBVIOUS
<1>p. pc' \in [Parsers -> Labels] /\ pc \in [Parsers -> Labels]
  BY TypeStep, <1>t DEF TypeOK
<1>1. CASE RejectMetadata(p) \/ ReadMetadataCall(p) \/ ParseService(p)
           \/ RejectService(p) \/ ParseEnds(p) \/ Assign(p)
  <2>1. UNCHANGED <<doc, mutex, defaultService, defaultRequest, orig>>
    BY <1>1 DEF RejectMetadata, ReadMetadataCall, ParseService, RejectService, ParseEnds, Assign
  <2>2. /\ pc'[p] \in Critical <=> pc[p] \in Critical
        /\ pc'[p] \notin {"set", "unlock"}
        /\ pc'[p] \in {"parse", "restore"} => pc[p] = "parse" /\ read'[p] = read[p]
    BY <1>1, <1>p DEF RejectMetadata, ReadMetadataCall, ParseService, RejectService, ParseEnds,
                      Assign, Goto, Critical
  <2>3. Exclusion(p)'
    BY <1>t, <2>1, <2>2 DEF Exclusion
  <2>4. ASSUME NEW q \in Parsers, q # p PROVE Exclusion(q)'
    BY <1>t, <2>1, <2>4, OthersKeep DEF Exclusion
  <2>5. QED
    BY <1>t, <2>1, <2>3, <2>4 DEF DefaultsRestored
<1>2. CASE Lock(p)
  <2>1. /\ mutex = NoParser /\ mutex' = p /\ pc'[p] = "set"
        /\ UNCHANGED <<defaultService, defaultRequest, orig>>
    BY <1>2, <1>p DEF Lock, Goto
  <2>2. Exclusion(p)'
    BY <1>t, <2>1 DEF Exclusion, DefaultsRestored, Critical
  <2>3. ASSUME NEW q \in Parsers, q # p PROVE Exclusion(q)'
    <3>1. pc[q] \notin Critical
      BY <1>t, <2>1, NoParserAssumption DEF Exclusion
    <3>2. pc'[q] = pc[q]
      BY <1>t, <2>3, OthersKeep
    <3>3. QED
      BY <2>1, <2>3, <3>1, <3>2 DEF Exclusion, Critical
  <2>4. QED
    BY <2>1, <2>2, <2>3, NoParserAssumption DEF DefaultsRestored
<1>3. CASE SetDefaults(p) \/ RestoreDefaults(p) \/ Unlock(p)
  <2>1. pc[p] \in Critical /\ mutex = p
    BY <1>3, <1>t DEF SetDefaults, RestoreDefaults, Unlock, Exclusion, Critical
  <2>2. \A q \in Parsers : q # p => pc[q] \notin Critical
    BY <1>t, <2>1 DEF Exclusion
  <2>3. mutex' = p \/ mutex' = NoParser
    BY <1>3, <2>1 DEF SetDefaults, RestoreDefaults, Unlock
  <2>4. ASSUME NEW q \in Parsers, q # p PROVE Exclusion(q)'
    <3>1. pc'[q] = pc[q] /\ pc[q] \notin Critical
      BY <1>t, <2>2, <2>4, OthersKeep
    <3>2. mutex' # q
      BY <2>3, <2>4, NoParserAssumption
    <3>3. QED
      BY <3>1, <3>2 DEF Exclusion, Critical
  <2>5. Exclusion(p)' /\ DefaultsRestored'
    <3>1. CASE SetDefaults(p)
      <4>1. /\ pc'[p] = "parse" /\ mutex' = p /\ pc[p] = "set"
            /\ orig'[p] = [service |-> defaultService, request |-> defaultRequest]
            /\ defaultService' = [setting |-> doc[p].setting,
                                  script |-> Sized(doc[p].script, read[p])]
            /\ defaultRequest' = doc[p].requestSize /\ doc' = doc /\ read' = read
        BY <1>p, <1>t, <2>1, <3>1 DEF SetDefaults, Goto, TypeOK
      <4>2. defaultService = OriginalService /\ defaultRequest = Zero
        BY <1>t, <4>1 DEF Exclusion
      <4>3. Exclusion(p)'
        BY <4>1, <4>2 DEF Exclusion, Critical, Sized, OriginalService
      <4>4. QED
        BY <4>1, <4>3, NoParserAssumption DEF DefaultsRestored
    <3>2. CASE RestoreDefaults(p)
      <4>1. /\ pc'[p] = "unlock" /\ mutex' = p /\ pc[p] = "restore"
            /\ defaultService' = orig[p].service /\ defaultRequest' = orig[p].request
        BY <1>p, <2>1, <3>2 DEF RestoreDefaults, Goto
      <4>2. orig[p] = [service |-> OriginalService, request |-> Zero]
        BY <1>t, <4>1 DEF Exclusion
      <4>3. Exclusion(p)'
        BY <4>1, <4>2 DEF Exclusion, Critical, OriginalService
      <4>4. QED
        BY <4>1, <4>3, NoParserAssumption DEF DefaultsRestored
    <3>3. CASE Unlock(p)
      <4>1. /\ pc'[p] = "assign" /\ mutex' = NoParser /\ pc[p] = "unlock"
            /\ defaultService' = defaultService /\ defaultRequest' = defaultRequest
        BY <1>p, <3>3 DEF Unlock, Goto
      <4>2. defaultService = OriginalService /\ defaultRequest = Zero
        BY <1>t, <4>1 DEF Exclusion
      <4>3. QED
        BY <4>1, <4>2, NoParserAssumption DEF Exclusion, DefaultsRestored, Critical, OriginalService
    <3>4. QED
      BY <1>3, <3>1, <3>2, <3>3
  <2>6. QED
    BY <2>4, <2>5
<1>4. QED
  BY <1>1, <1>2, <1>3 DEF UnmarshalJSON

LEMMA ProgressStep ==
  ASSUME IInv, NEW p \in Parsers, UnmarshalJSON(p)
  PROVE  \A q \in Parsers : Progress(q)'
<1> USE DEF IInv
<1>t. TypeOK /\ Progress(p) /\ Exclusion(p)
  OBVIOUS
<1>d. /\ doc[p].services \in Seq(Entries) /\ doc[p].script.calls \in Seq(Calls)
      /\ parsed[p] \in Seq(ParsedService) /\ read[p] \in Seq(Sizes)
  BY DocumentFacts DEF TypeOK, Script
<1>l. /\ Len(doc[p].services) \in Nat /\ Len(doc[p].script.calls) \in Nat
      /\ Len(parsed[p]) \in Nat /\ Len(read[p]) \in Nat
  BY <1>d
<1>1. ASSUME NEW q \in Parsers, q # p PROVE Progress(q)'
  <2>1. Progress(q) /\ doc' = doc /\ pc'[q] = pc[q] /\ read'[q] = read[q]
        /\ parsed'[q] = parsed[q] /\ err'[q] = err[q]
    BY <1>t, <1>1, OthersKeep
  <2>2. QED
    BY <2>1 DEF Progress
<1>2. ASSUME UNCHANGED <<doc, read, parsed>>,
             pc'[p] \in {"set", "parse", "restore", "unlock", "assign"} =>
               Len(read[p]) = Len(doc[p].script.calls),
             pc'[p] # "metadata",
             pc'[p] \in {"set", "parse"} => err'[p] = "nil",
             pc'[p] \in {"restore", "unlock", "assign"} =>
               err'[p] = "parse" \/ (err'[p] = "nil" /\ Len(parsed[p]) = Len(doc[p].services))
      PROVE  Progress(p)'
  <2>1. pc'[p] \in Labels
    BY TypeStep DEF TypeOK
  <2>2. QED
    BY <1>t, <1>2, <2>1 DEF Progress, Labels
<1>3. ASSUME RejectMetadata(p) \/ Lock(p) \/ SetDefaults(p) \/ RejectService(p) \/ ParseEnds(p)
             \/ RestoreDefaults(p) \/ Unlock(p) \/ Assign(p)
      PROVE  Progress(p)'
  <2>1. pc \in [Parsers -> Labels] /\ err \in [Parsers -> {"nil", "metadata", "parse", "invalid"}]
    BY <1>t DEF TypeOK
  <2>2. CASE RejectMetadata(p) \/ Assign(p)
    BY <1>2, <2>1, <2>2 DEF RejectMetadata, Assign, Goto
  <2>3. CASE Lock(p) \/ SetDefaults(p)
    BY <1>2, <1>t, <2>1, <2>3 DEF Lock, SetDefaults, Goto, Progress
  <2>4. CASE RejectService(p) \/ ParseEnds(p)
    BY <1>2, <1>t, <2>1, <2>4 DEF RejectService, ParseEnds, Goto, Progress
  <2>5. CASE RestoreDefaults(p) \/ Unlock(p)
    BY <1>2, <1>t, <2>1, <2>5 DEF RestoreDefaults, Unlock, Goto, Progress
  <2>6. QED
    BY <1>3, <2>2, <2>3, <2>4, <2>5
<1>4. ASSUME ReadMetadataCall(p) PROVE Progress(p)'
  <2>1. /\ pc[p] = "metadata" /\ UNCHANGED <<doc, pc, parsed, err>>
        /\ read'[p] = Append(read[p], defaultRequest)
        /\ Len(read[p]) < Len(doc[p].script.calls)
    BY <1>4, <1>t DEF ReadMetadataCall, TypeOK
  <2>2. Len(read'[p]) = Len(read[p]) + 1
    BY <1>d, <1>t, <2>1, AppendProperties DEF TypeOK
  <2>3. parsed[p] = <<>> /\ err[p] = "nil"
    BY <1>t, <2>1 DEF Progress
  <2>4. Len(parsed'[p]) = 0 /\ Len(parsed[p]) = 0
    BY <2>1, <2>3
  <2>5. QED
    BY <1>l, <2>1, <2>2, <2>3, <2>4 DEF Progress
<1>5. ASSUME ParseService(p) PROVE Progress(p)'
  <2> DEFINE n == Len(parsed[p])
             x == ServiceOf(doc[p], doc[p].services[n + 1], read[p])
  <2>1. /\ pc[p] = "parse" /\ UNCHANGED <<doc, pc, read, err>> /\ n < Len(doc[p].services)
        /\ parsed'[p] = Append(parsed[p], Parsed(NextService(p)))
    BY <1>5, <1>t DEF ParseService, TypeOK
  <2>2. Parsed(NextService(p)) = x
    BY <1>t, <2>1, ParsedFromOwnDocument DEF NextService
  <2>3. x \in ParsedService
    <3>1. n + 1 \in DOMAIN doc[p].services
      BY <1>d, <1>l, <2>1
    <3>2. NextService(p) \in Entries
      BY <1>d, <3>1 DEF NextService
    <3>3. QED
      BY <1>5, <1>t, <2>2, <3>2, ParsedType DEF ParseService
  <2> HIDE DEF x
  <2>4. parsed'[p] = Append(parsed[p], x)
    BY <2>1, <2>2
  <2>5. /\ Len(parsed'[p]) = n + 1
        /\ \A k \in 1 .. n : parsed'[p][k] = parsed[p][k]
        /\ parsed'[p][n + 1] = x
    BY <1>d, <2>3, <2>4, AppendProperties
  <2>6. \A k \in 1 .. n + 1 :
          parsed'[p][k] = ServiceOf(doc[p], doc[p].services[k], read[p])
    <3>1. \A k \in 1 .. n + 1 : k = n + 1 \/ k \in 1 .. n
      BY <1>l
    <3>2. QED
      BY <1>t, <2>5, <3>1 DEF Progress, x
  <2>7. \A k : ServiceOf(doc[p], doc[p].services[k], read[p])'
               = ServiceOf(doc[p], doc[p].services[k], read[p])
    BY <2>1 DEF ServiceOf, Sized
  <2>8. \A k \in 1 .. Len(parsed'[p]) :
          parsed'[p][k] = ServiceOf(doc[p], doc[p].services[k], read[p])'
    BY <2>5, <2>6, <2>7
  <2>9. Len(parsed'[p]) <= Len(doc'[p].services)
    BY <1>l, <2>1, <2>5
  <2>10. QED
    BY <1>t, <2>1, <2>8, <2>9 DEF Progress
<1>6. Progress(p)'
  BY <1>3, <1>4, <1>5 DEF UnmarshalJSON
<1>7. QED
  BY <1>1, <1>6

LEMMA OwnDefaultsStep ==
  ASSUME IInv, NEW p \in Parsers, UnmarshalJSON(p)
  PROVE  OwnDefaults'
<1> USE DEF IInv
<1> DEFINE due(q) == [k \in DOMAIN doc[q].services |->
                        ServiceOf(doc[q], doc[q].services[k], read[q])]
           owned(q) == pc[q] = "done" /\ err[q] \in {"nil", "invalid"} => graph[q] = due(q)
<1>t. TypeOK /\ Progress(p)
  OBVIOUS
<1>1. ASSUME NEW q \in Parsers, q # p PROVE owned(q)'
  <2>1. owned(q) /\ doc' = doc /\ pc'[q] = pc[q] /\ read'[q] = read[q]
        /\ graph'[q] = graph[q] /\ err'[q] = err[q]
    BY <1>t, <1>1, OthersKeep DEF OwnDefaults
  <2>2. due(q)' = due(q)
    BY <2>1 DEF ServiceOf, Sized
  <2>3. QED
    BY <2>1, <2>2
<1>2. owned(p)'
  <2>1. pc \in [Parsers -> Labels] /\ err \in [Parsers -> {"nil", "metadata", "parse", "invalid"}]
    BY <1>t DEF TypeOK
  <2>2. CASE ~Assign(p)
    <3>1. pc'[p] = "done" => err'[p] = "metadata"
      BY <2>1, <2>2 DEF UnmarshalJSON, Goto, RejectMetadata, ReadMetadataCall, Lock, SetDefaults,
                        ParseService, RejectService, ParseEnds, RestoreDefaults, Unlock
    <3>2. QED
      BY <3>1
  <2>3. CASE Assign(p)
    <3>1. /\ pc[p] = "assign" /\ UNCHANGED <<doc, read>>
          /\ graph'[p] = IF err[p] = "nil" THEN parsed[p] ELSE <<>>
          /\ err'[p] = IF err[p] = "nil" /\ ~Valid(parsed[p]) THEN "invalid" ELSE err[p]
      BY <1>t, <2>3 DEF Assign, TypeOK
    <3>2. due(p)' = due(p)
      BY <3>1 DEF ServiceOf, Sized
    <3>3. CASE err[p] = "parse"
      BY <3>1, <3>3
    <3>4. CASE err[p] # "parse"
      <4>1. err[p] = "nil" /\ Len(parsed[p]) = Len(doc[p].services)
        BY <1>t, <3>1, <3>4 DEF Progress
      <4>2. parsed[p] \in Seq(ParsedService) /\ doc[p].services \in Seq(Entries)
        BY <1>t, DocumentFacts DEF TypeOK
      <4>3. DOMAIN parsed[p] = DOMAIN doc[p].services
            /\ DOMAIN parsed[p] = 1 .. Len(parsed[p])
        BY <4>1, <4>2
      <4>4. \A k \in DOMAIN parsed[p] :
              parsed[p][k] = ServiceOf(doc[p], doc[p].services[k], read[p])
        BY <1>t, <4>3 DEF Progress
      <4>5. parsed[p] = [k \in DOMAIN parsed[p] |-> parsed[p][k]]
        BY <4>2
      <4>6. parsed[p] = due(p)
        BY <4>3, <4>4, <4>5
      <4>7. QED
        BY <3>1, <3>2, <4>1, <4>6
    <3>5. QED
      BY <3>3, <3>4
  <2>4. QED
    BY <2>2, <2>3
<1>3. QED
  BY <1>1, <1>2 DEF OwnDefaults

LEMMA StepIInv == IInv /\ [Next]_vars => IInv'
<1> SUFFICES ASSUME IInv, [Next]_vars PROVE IInv'
  OBVIOUS
<1>1. CASE Next
  <2>1. PICK p \in Parsers : UnmarshalJSON(p)
    BY <1>1 DEF Next
  <2>2. QED
    BY <2>1, TypeStep, ExclusionStep, ProgressStep, OwnDefaultsStep DEF IInv
<1>2. CASE UNCHANGED vars
  <2> USE <1>2 DEF vars
  <2>1. TypeOK' /\ DefaultsRestored'
    BY DEF IInv, TypeOK, DefaultsRestored
  <2>2. ASSUME NEW p \in Parsers PROVE Exclusion(p)' /\ Progress(p)'
    <3>1. Exclusion(p) /\ Progress(p)
      BY DEF IInv
    <3>2. QED
      BY <3>1 DEF Exclusion, Progress
  <2>3. OwnDefaults'
    BY DEF IInv, OwnDefaults
  <2>4. QED
    BY <2>1, <2>2, <2>3 DEF IInv
<1>3. QED
  BY <1>1, <1>2

THEOREM ParseInvariance == Spec => []IInv
<1>1. Init => IInv
  BY InitIInv
<1>2. IInv /\ [Next]_vars => IInv'
  BY StepIInv
<1>3. QED
  BY <1>1, <1>2, PTL DEF Spec

\* The variables have their types: what is parsed from any document is a
\* service with a name, a setting and a size for every call.
THEOREM ParseTypeCorrect == Spec => []TypeOK
<1>1. IInv => TypeOK
  BY DEF IInv
<1>2. QED
  BY <1>1, ParseInvariance, PTL

\* Whoever finds the mutex free finds the original defaults, for any number of
\* goroutines and any documents (unmarshal.go:73-96).
THEOREM DefaultsAreRestored == Spec => []DefaultsRestored
<1>1. IInv => DefaultsRestored
  BY DEF IInv
<1>2. QED
  BY <1>1, ParseInvariance, PTL

\* Every parsed graph is the one its own document describes, whatever is parsed
\* at the same time, but for the calls of the default script (unmarshal.go:36-48).
THEOREM GraphsHaveOwnDefaults == Spec => []OwnDefaults
<1>1. IInv => OwnDefaults
  BY DEF IInv
<1>2. QED
  BY <1>1, ParseInvariance, PTL
=============================================================================
