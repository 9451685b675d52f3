---------------------------- MODULE Conversions ----------------------------
(***************************************************************************)
(* The files that the commands read and write: a topology, which somebody  *)
(* has written or create_tree_topology.py generates, and what              *)
(* "convert graphviz" and "convert kubernetes" make of it.  A file is the  *)
(* set of its contents: {} while it does not exist.                        *)
(***************************************************************************)
EXTENDS Manifests, Graphviz, TreeTopology, TopologyFormat, FiniteSets, TLC

CONSTANTS
  Documents,      (* the topologies somebody may have written              *)
  NodeSelectors   (* the arguments for node selectors, split by "="        *)

\* A document has its numbers and texts in the form of Scalars; a list in it is
\* finite, and its sizes are within their bound.
ASSUME DocumentsAssumption ==
  \A d \in Documents :
    ScalarsAreTyped(d) /\ \A graph \in Unmarshal(d) : ListsAreSequences(graph) /\ SizesFit(graph)

\* 'svc-{}'.format('-'.join(path)), which tells paths apart.
ServiceName(path) == ToString(path)
ASSUME NamesAssumption ==
  \A s \in Shapes : \A p, q \in Paths(s) :
    ServiceName(p) # NoName /\ (ServiceName(p) = ServiceName(q) => p = q)

VARIABLES
  topology,   (* the YAML file                                             *)
  dot,        (* the Graphviz file                                         *)
  manifests,  (* the Kubernetes manifests                                  *)
  exit        (* the last command, whether it succeeded, what it has read  *)

convertVars == <<topology, dot, manifests, exit>>
vars == <<topology, dot, manifests, exit, shape, queue, services>>

NoCommand == [command |-> "none", ok |-> TRUE, read |-> {}]

\* The generator is only run where there is no topology, any shape stands for
\* its program otherwise.
Init ==
  /\ topology \in {{}} \cup {{d} : d \in Documents}
  /\ dot = {} /\ manifests = {} /\ exit = NoCommand
  /\ TreeInit
  /\ topology # {} => shape = CHOOSE s \in Shapes : TRUE

-----------------------------------------------------------------------------
Generate == topology = {} /\ Grow /\ UNCHANGED convertVars

\* yaml.dump of main
GeneratedService(s) ==
  LET object == [name |-> Str(ServiceName(s.path)), isEntrypoint |-> Bool(TRUE),
                 script |-> Array(<<Array([i \in DOMAIN s.calls |-> Object([call |-> Str(ServiceName(s.calls[i]))])])>>)]
      absent == (IF s.path = Root THEN {} ELSE {"isEntrypoint"}) \cup (IF s.calls = <<>> THEN {"script"} ELSE {})
  IN  Object(Restrict(object, DOMAIN object \ absent))
Generated ==
  [defaults |-> Object([requestSize |-> Num(128), responseSize |-> Num(128), numReplicas |-> Num(1)]),
   services |-> Array([k \in DOMAIN services |-> GeneratedService(services[k])])]

WriteYAML ==
  /\ topology = {} /\ Grown
  /\ topology' = {Generated}
  /\ UNCHANGED <<dot, manifests, exit, treeVars>>

Ends(command, output) == exit' = [command |-> command, ok |-> output # {}, read |-> topology]

\* graphvizCmd
ConvertGraphviz ==
  LET output == UNION {ServiceGraphToGraph(graph) : graph \in UNION {Unmarshal(d) : d \in topology}}
  IN  /\ Ends("graphviz", output)
      /\ dot' = IF output = {} THEN dot ELSE output
      /\ UNCHANGED <<topology, manifests, treeVars>>

\* kubernetesCmd
ConvertKubernetes ==
  \E serviceNodes, clientNodes \in NodeSelectors :
    LET output == UNION {KubernetesCmd(d, serviceNodes, clientNodes, 1) : d \in topology}
    IN  /\ Ends("kubernetes", output)
        /\ manifests' = IF output = {} THEN manifests ELSE output
        /\ UNCHANGED <<topology, dot, treeVars>>

Next == Generate \/ WriteYAML \/ ConvertGraphviz \/ ConvertKubernetes

Spec == Init /\ [][Next]_vars

-----------------------------------------------------------------------------
\* convert graphviz succeeds exactly for the documents that TopologyFormat
\* describes, which knows nothing of Go's decoders, of the keys and brackets
\* that tell commands apart or of defaults that are set in between.
AcceptsExactlyTheWellFormed ==
  exit.command = "graphviz" => (exit.ok <=> \E d \in exit.read : WellFormed(d))

\* The commands of step i, counted from zero, of the services named from that
\* call to.
CallsFrom(graph, from, i, to) ==
  UNION {LET cmds == Subcommands(graph[k].script[i + 1])
         IN  {<<k, j>> : j \in {l \in DOMAIN cmds : cmds[l].op = "call" /\ cmds[l].service = to}}
         : k \in {l \in DOMAIN graph : graph[l].name = from /\ i + 1 \in DOMAIN graph[l].script}}

\* The drawing has one edge for each call of each script, concurrent ones
\* included, from the port of its step, which exists, to a node that exists.
EdgesAreCalls ==
  \A d \in topology, drawing \in dot : \A graph \in Unmarshal(d) :
    /\ \A e \in DOMAIN drawing.edges :
         LET edge == drawing.edges[e]
         IN  /\ \E n \in DOMAIN drawing.nodes : drawing.nodes[n].name = edge.to
             /\ \E n \in DOMAIN drawing.nodes :
                  drawing.nodes[n].name = edge.from /\ edge.stepIndex + 1 \in DOMAIN drawing.nodes[n].steps
    /\ \A k, l \in DOMAIN graph : \A i \in DOMAIN graph[k].script :
         Cardinality(CallsFrom(graph, graph[k].name, i - 1, graph[l].name)) =
           Cardinality({e \in DOMAIN drawing.edges :
                          drawing.edges[e] = [from |-> graph[k].name, to |-> graph[l].name, stepIndex |-> i - 1]})

\* The config map holds the graph that was converted: a pod reads as many
\* services from it, in their order, of the same names and types, with the
\* same scripts and rates and with sizes as near as four digits can say.
ConfigMapKeepsGraph ==
  \A d \in topology, list \in manifests : \A i \in DOMAIN list : list[i].kind = "ConfigMap" =>
    \A graph \in Unmarshal(d) :
      \E copy \in Unmarshal(list[i].spec.data[ServiceGraphConfigMapKey]) : EmulatesAll(copy, graph)

\* The scripts of what a pod reads are those that the mock services are
\* verified for: each call names a service that there is, at no more than one
\* level of concurrency.
AcceptedScriptsAreValid ==
  \A d \in topology : \A graph \in Unmarshal(d) : \A k \in DOMAIN graph :
    ValidScript(graph[k].script, NamesOf(graph))

\* What the generator writes is a topology, with its one entrypoint, in which
\* all services but that one are called once.
GeneratedIsTopology ==
  Grown =>
    \A d \in topology : \E graph \in Unmarshal(d) :
      /\ Len(graph) = NumServices(shape)
      /\ \A k \in DOMAIN graph :
           /\ graph[k].isEntrypoint <=> k = 1
           /\ LET calls == {c \in (DOMAIN graph) \X (1 .. shape.branches) :
                              \E i \in DOMAIN graph[c[1]].script :
                                c[2] \in DOMAIN Subcommands(graph[c[1]].script[i])
                                /\ Subcommands(graph[c[1]].script[i])[c[2]].service = graph[k].name}
              IN  Cardinality(calls) = IF k = 1 THEN 0 ELSE 1
=============================================================================
