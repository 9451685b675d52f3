------------------------------ MODULE Graphviz ------------------------------
(***************************************************************************)
(* ServiceGraphToGraph (convert/pkg/graphviz): a node with its steps for   *)
(* each service, an edge for each call.  The template that prints them is  *)
(* left out; it uses an edge's step index as the port of its node.         *)
(***************************************************************************)
EXTENDS Topology, SequencesExt

NonConcurrentCommandToString(cmd) ==
  CASE cmd.op = "sleep" -> {[text |-> "SLEEP"]}
    [] cmd.op = "call"  -> {[text |-> "CALL", service |-> cmd.service, size |-> String(cmd.size)]}
    [] OTHER            -> {}

ExecutableToStrings(cmd) ==
  All([j \in DOMAIN Subcommands(cmd) |-> NonConcurrentCommandToString(Subcommands(cmd)[j])])

\* The edge of a command that is not concurrent, from step idx, counted from zero.
EdgesOfSingleCommand(cmd, idx, from) ==
  IF cmd.op = "call" THEN <<[from |-> from, to |-> cmd.service, stepIndex |-> idx]>> ELSE <<>>

\* getEdgesFromExe.  Mutant: without a look into concurrent commands.
EdgesFromExe(cmd, idx, from) ==
  FlattenSeq([j \in DOMAIN Subcommands(cmd) |-> EdgesOfSingleCommand(Subcommands(cmd)[j], idx, from)])

ToGraphvizNode(s) ==
  {[name |-> s.name, type |-> s.type, errorRate |-> s.errorRate,
    responseSize |-> String(s.responseSize), steps |-> steps]
   : steps \in All([i \in DOMAIN s.script |-> ExecutableToStrings(s.script[i])])}

EdgesOf(s) == FlattenSeq([i \in DOMAIN s.script |-> EdgesFromExe(s.script[i], i - 1, s.name)])

ServiceGraphToGraph(graph) ==
  {[nodes |-> nodes, edges |-> FlattenSeq([k \in DOMAIN graph |-> EdgesOf(graph[k])])]
   : nodes \in All([k \in DOMAIN graph |-> ToGraphvizNode(graph[k])])}
=============================================================================
