----------------------------- MODULE GraphParse -----------------------------
(***************************************************************************)
(* Parsing of topology documents by concurrent goroutines.                 *)
(*                                                                         *)
(* ServiceGraph.UnmarshalJSON passes the defaults of a document to the     *)
(* parsers of services and commands through two package variables,         *)
(* svc.DefaultService and script.DefaultRequestCommand, which it sets for  *)
(* as long as it holds defaultMutex.  It reads the document's defaults map *)
(* before it takes the mutex, and the calls of the default script in that  *)
(* map read script.DefaultRequestCommand all the same.                     *)
(*                                                                         *)
(* Of a document the model keeps what the two variables can influence: one *)
(* setting that stands for type, numReplicas, errorRate and responseSize,  *)
(* and the calls of a script in the order of the text, with their sizes.   *)
(***************************************************************************)
EXTENDS Naturals, Sequences

CONSTANTS
  Parsers,   (* goroutines that unmarshal one document each                *)
  Docs,      (* the documents they may be given                            *)
  Settings,  (* values of the representative setting                       *)
  Names,     (* names that calls and services may have                     *)
  Original,  (* its value in svc.DefaultService and in defaultDefaults     *)
  Sizes,     (* sizes of requests                                          *)
  Zero,      (* the size in script.DefaultRequestCommand                   *)
  Omitted    (* stands for a setting the document does not give            *)

NoName == ""

Calls == [service : Names, size : Sizes \cup {Omitted}]

\* nested: the script has a concurrent command inside a concurrent command.
Script == [calls : Seq(Calls), nested : BOOLEAN]

\* An entry of the services list.
Entries == [name : Names \cup {NoName}, setting : Settings \cup {Omitted},
            script : Script \cup {Omitted}]

\* A document: its defaults map (well-formed or not) and its services.
Document ==
  [wellFormed : BOOLEAN, setting : Settings, requestSize : Sizes, script : Script,
   services : Seq(Entries)]

ASSUME ParseAssumption ==
  /\ Docs \subseteq Document
  /\ Original \in Settings
  /\ Zero \in Sizes
  /\ Omitted \notin Settings \cup Sizes \cup Script
  /\ NoName \notin Names

NoParser == "no parser"
ASSUME NoParserAssumption == NoParser \notin Parsers

VARIABLES
  doc,             (* doc[p]: the document p unmarshals                    *)
  pc,              (* pc[p]: what p does next                              *)
  read,            (* read[p]: size each call of the default script found  *)
  mutex,           (* defaultMutex: its holder                             *)
  defaultService,  (* svc.DefaultService                                   *)
  defaultRequest,  (* script.DefaultRequestCommand: its size               *)
  orig,            (* orig[p]: both as p found them                        *)
  parsed,          (* parsed[p]: services of p's document parsed so far    *)
  graph,           (* graph[p]: the receiver of UnmarshalJSON              *)
  err              (* err[p]: its error                                    *)

vars == <<doc, pc, read, mutex, defaultService, defaultRequest, orig, parsed, graph, err>>

NoScript == [calls |-> <<>>, nested |-> FALSE]
OriginalService == [setting |-> Original, script |-> NoScript]

-----------------------------------------------------------------------------
Init ==
  /\ doc \in [Parsers -> Docs]
  /\ pc = [p \in Parsers |-> "metadata"]
  /\ read = [p \in Parsers |-> <<>>]
  /\ mutex = NoParser
  /\ defaultService = OriginalService
  /\ defaultRequest = Zero
  /\ orig = [p \in Parsers |-> [service |-> OriginalService, request |-> Zero]]
  /\ parsed = [p \in Parsers |-> <<>>]
  /\ graph = [p \in Parsers |-> <<>>]
  /\ err = [p \in Parsers |-> "nil"]

Goto(p, label) == pc' = [pc EXCEPT ![p] = label]

\* Mutant: a call without a size is left without one.
SizedIfGiven(s, size) == s

\* The k-th call of the script s gets size[k] if it has none of its own.
Sized(s, size) ==
  [calls  |-> [k \in DOMAIN s.calls |->
                 [service |-> s.calls[k].service,
                  size |-> IF s.calls[k].size = Omitted THEN size[k] ELSE s.calls[k].size]],
   nested |-> s.nested]

\* json.Unmarshal(b, &metadata) fails: UnmarshalJSON returns.
RejectMetadata(p) ==
  /\ pc[p] = "metadata" /\ ~doc[p].wellFormed
  /\ err' = [err EXCEPT ![p] = "metadata"]
  /\ Goto(p, "done")
  /\ UNCHANGED <<doc, read, mutex, defaultService, defaultRequest, orig, parsed, graph>>

\* RequestCommand.UnmarshalJSON on the next call of the default script: it
\* starts from DefaultRequestCommand, with no lock held.
ReadMetadataCall(p) ==
  /\ pc[p] = "metadata" /\ doc[p].wellFormed
  /\ Len(read[p]) < Len(doc[p].script.calls)
  /\ read' = [read EXCEPT ![p] = Append(@, defaultRequest)]
  /\ UNCHANGED <<doc, pc, mutex, defaultService, defaultRequest, orig, parsed, graph, err>>

\* Mutant: there is no mutex.
LockAtOnce(p) ==
  /\ pc[p] = "metadata" /\ doc[p].wellFormed
  /\ Len(read[p]) = Len(doc[p].script.calls)
  /\ mutex' = p
  /\ Goto(p, "set")
  /\ UNCHANGED <<doc, read, defaultService, defaultRequest, orig, parsed, graph, err>>

\* The metadata is complete; withGlobalDefaults acquires the mutex.
Lock(p) ==
  /\ pc[p] = "metadata" /\ doc[p].wellFormed
  /\ Len(read[p]) = Len(doc[p].script.calls)
  /\ mutex = NoParser
  /\ mutex' = p
  /\ Goto(p, "set")
  /\ UNCHANGED <<doc, read, defaultService, defaultRequest, orig, parsed, graph, err>>

\* Mutant: the variables are set before they are saved.
SetDefaultsBeforeSaving(p) ==
  /\ pc[p] = "set"
  /\ defaultService' = [setting |-> doc[p].setting, script |-> Sized(doc[p].script, read[p])]
  /\ defaultRequest' = doc[p].requestSize
  /\ orig' = [orig EXCEPT ![p] = [service |-> defaultService', request |-> defaultRequest']]
  /\ Goto(p, "parse")
  /\ UNCHANGED <<doc, read, mutex, parsed, graph, err>>

\* withGlobalDefaults saves the two variables and sets them.
SetDefaults(p) ==
  /\ pc[p] = "set"
  /\ orig' = [orig EXCEPT ![p] = [service |-> defaultService, request |-> defaultRequest]]
  /\ defaultService' = [setting |-> doc[p].setting, script |-> Sized(doc[p].script, read[p])]
  /\ defaultRequest' = doc[p].requestSize
  /\ Goto(p, "parse")
  /\ UNCHANGED <<doc, read, mutex, parsed, graph, err>>

\* Service.UnmarshalJSON: what the document omits is as in DefaultService, and
\* a call without a size gets that of DefaultRequestCommand.
Parsed(s) ==
  [name    |-> s.name,
   setting |-> IF s.setting = Omitted THEN defaultService.setting ELSE s.setting,
   script  |-> IF s.script = Omitted THEN defaultService.script
               ELSE Sized(s.script, [k \in DOMAIN s.script.calls |-> defaultRequest])]

NextService(p) == doc[p].services[Len(parsed[p]) + 1]

\* json.Unmarshal(b, &unmarshallable), one service after the other.
ParseService(p) ==
  /\ pc[p] = "parse"
  /\ Len(parsed[p]) < Len(doc[p].services)
  /\ NextService(p).name # NoName
  /\ parsed' = [parsed EXCEPT ![p] = Append(@, Parsed(NextService(p)))]
  /\ UNCHANGED <<doc, pc, read, mutex, defaultService, defaultRequest, orig, graph, err>>

\* Mutant: the error is returned at once.
RejectServiceAndReturn(p) ==
  /\ pc[p] = "parse"
  /\ Len(parsed[p]) < Len(doc[p].services)
  /\ NextService(p).name = NoName
  /\ err' = [err EXCEPT ![p] = "parse"]
  /\ Goto(p, "assign")
  /\ UNCHANGED <<doc, read, mutex, defaultService, defaultRequest, orig, parsed, graph>>

\* ErrEmptyName: sg stays empty, err becomes innerErr.
RejectService(p) ==
  /\ pc[p] = "parse"
  /\ Len(parsed[p]) < Len(doc[p].services)
  /\ NextService(p).name = NoName
  /\ err' = [err EXCEPT ![p] = "parse"]
  /\ Goto(p, "restore")
  /\ UNCHANGED <<doc, read, mutex, defaultService, defaultRequest, orig, parsed, graph>>

ParseEnds(p) ==
  /\ pc[p] = "parse"
  /\ Len(parsed[p]) = Len(doc[p].services)
  /\ Goto(p, "restore")
  /\ UNCHANGED <<doc, read, mutex, defaultService, defaultRequest, orig, parsed, graph, err>>

\* f() has returned: both variables are as p found them.
RestoreDefaults(p) ==
  /\ pc[p] = "restore"
  /\ defaultService' = orig[p].service
  /\ defaultRequest' = orig[p].request
  /\ Goto(p, "unlock")
  /\ UNCHANGED <<doc, read, mutex, orig, parsed, graph, err>>

Unlock(p) ==
  /\ pc[p] = "unlock"
  /\ mutex' = NoParser
  /\ Goto(p, "assign")
  /\ UNCHANGED <<doc, read, defaultService, defaultRequest, orig, parsed, graph, err>>

\* validate(), seen from here: no call of an undefined service, no nesting.
Valid(services) ==
  \A k \in DOMAIN services :
    /\ ~services[k].script.nested
    /\ \A l \in DOMAIN services[k].script.calls :
         \E m \in DOMAIN services : services[m].name = services[k].script.calls[l].service

\* The receiver gets the result, the empty graph of an error or an invalid one
\* included, and validate has the last word.
Assign(p) ==
  /\ pc[p] = "assign"
  /\ graph' = [graph EXCEPT ![p] = IF err[p] = "nil" THEN parsed[p] ELSE <<>>]
  /\ err' = [err EXCEPT ![p] = IF @ = "nil" /\ ~Valid(parsed[p]) THEN "invalid" ELSE @]
  /\ Goto(p, "done")
  /\ UNCHANGED <<doc, read, mutex, defaultService, defaultRequest, orig, parsed>>

-----------------------------------------------------------------------------
UnmarshalJSON(p) ==
  \/ RejectMetadata(p)
  \/ ReadMetadataCall(p)
  \/ Lock(p)
  \/ SetDefaults(p)
  \/ ParseService(p)
  \/ RejectService(p)
  \/ ParseEnds(p)
  \/ RestoreDefaults(p)
  \/ Unlock(p)
  \/ Assign(p)

Next == \E p \in Parsers : UnmarshalJSON(p)

Spec == Init /\ [][Next]_vars

\* The Go scheduler runs every goroutine that can run, and the mutex does not
\* starve a goroutine that waits for it.
FairSpec == Spec /\ \A p \in Parsers : WF_vars(UnmarshalJSON(p))

-----------------------------------------------------------------------------
ParsedScript == [calls : Seq([service : Names, size : Sizes]), nested : BOOLEAN]
ServiceValues == [setting : Settings, script : ParsedScript]
ParsedService == [name : Names, setting : Settings, script : ParsedScript]
Labels == {"metadata", "set", "parse", "restore", "unlock", "assign", "done"}
Critical == {"set", "parse", "restore", "unlock"}

TypeOK ==
  /\ doc \in [Parsers -> Docs]
  /\ pc \in [Parsers -> Labels]
  /\ read \in [Parsers -> Seq(Sizes)]
  /\ mutex \in Parsers \cup {NoParser}
  /\ defaultService \in ServiceValues
  /\ defaultRequest \in Sizes
  /\ orig \in [Parsers -> [service : ServiceValues, request : Sizes]]
  /\ parsed \in [Parsers -> Seq(ParsedService)]
  /\ graph \in [Parsers -> Seq(ParsedService)]
  /\ err \in [Parsers -> {"nil", "metadata", "parse", "invalid"}]

\* Whenever the mutex is free the package variables have their original values,
\* whatever was parsed before and however it failed (unmarshal.go:73-96).
DefaultsRestored ==
  mutex = NoParser => defaultService = OriginalService /\ defaultRequest = Zero

\* A service parsed from document d, whose default script's calls found sizes.
ServiceOf(d, s, sizes) ==
  [name    |-> s.name,
   setting |-> IF s.setting = Omitted THEN d.setting ELSE s.setting,
   script  |-> IF s.script = Omitted THEN Sized(d.script, sizes)
               ELSE Sized(s.script, [k \in DOMAIN s.script.calls |-> d.requestSize])]

\* A document's services get the defaults of that document and never those of
\* one that is parsed at the same time, for every setting and for every call
\* but those of the default script (unmarshal.go:36-48, 73-96).
OwnDefaults ==
  \A p \in Parsers :
    pc[p] = "done" /\ err[p] \in {"nil", "invalid"} =>
      graph[p] = [k \in DOMAIN doc[p].services |->
                    ServiceOf(doc[p], doc[p].services[k], read[p])]

\* README.md:200-201: defaults "indicate settings which should hold for omitted
\* settings for its current and nested scopes": the calls of an inherited
\* default script have the requestSize of the same document.
DefaultScriptSizes ==
  \A p \in Parsers :
    pc[p] = "done" /\ err[p] = "nil" =>
      \A k \in DOMAIN doc[p].services :
        doc[p].services[k].script = Omitted =>
          graph[p][k].script = Sized(doc[p].script, [l \in DOMAIN doc[p].script.calls |-> doc[p].requestSize])

-----------------------------------------------------------------------------
(***************************************************************************)
(* The inductive invariant behind them.                                    *)
(***************************************************************************)
\* The mutex is held by the one parser that is between Lock and Unlock, and
\* only there do the package variables differ from their original values.
Exclusion(p) ==
  /\ pc[p] \in Critical <=> mutex = p
  /\ pc[p] \in {"set", "unlock"} =>
       defaultService = OriginalService /\ defaultRequest = Zero
  /\ pc[p] \in {"parse", "restore"} =>
       /\ orig[p] = [service |-> OriginalService, request |-> Zero]
       /\ defaultService = [setting |-> doc[p].setting, script |-> Sized(doc[p].script, read[p])]
       /\ defaultRequest = doc[p].requestSize

\* What p has parsed so far is what its own document says.
Progress(p) ==
  /\ Len(read[p]) <= Len(doc[p].script.calls)
  /\ pc[p] \notin {"metadata", "done"} => Len(read[p]) = Len(doc[p].script.calls)
  /\ Len(parsed[p]) <= Len(doc[p].services)
  /\ \A k \in 1 .. Len(parsed[p]) :
       parsed[p][k] = ServiceOf(doc[p], doc[p].services[k], read[p])
  /\ pc[p] = "metadata" => parsed[p] = <<>>
  /\ pc[p] \in {"metadata", "set", "parse"} => err[p] = "nil"
  /\ pc[p] \in {"restore", "unlock", "assign"} =>
       err[p] = "parse" \/ (err[p] = "nil" /\ Len(parsed[p]) = Len(doc[p].services))

IInv ==
  /\ TypeOK
  /\ DefaultsRestored
  /\ \A p \in Parsers : Exclusion(p) /\ Progress(p)
  /\ OwnDefaults

-----------------------------------------------------------------------------
\* Every parse ends: no error leaves the mutex locked.
EveryParseEnds == \A p \in Parsers : <>(pc[p] = "done")
=============================================================================
