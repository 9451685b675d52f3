----------------------------- MODULE Manifests -----------------------------
(***************************************************************************)
(* The manifests of a graph (convert/pkg/kubernetes, convert/cmd), the     *)
(* graph that a pod reads from them (service/main.go, pkg/srv/graph.go)    *)
(* and the monitors that find its pods (runner/prometheus.py, wait.py).    *)
(*                                                                         *)
(* A label map is a function.  "created" is the timestamp; that of a pod   *)
(* template counts.                                                        *)
(***************************************************************************)
EXTENDS Topology, Sequences

(* consts.go of convert and the older copy of it that service is built     *)
(* with have these in common, consts.py repeats the first three.           *)
ServicePort == 8080
ServiceGraphNamespace == "service-graph"
FortioMetricsPort == 42422
DefaultNamespace == "default"
ServiceNameEnvKey == "SERVICE_NAME"
ConfigPath == "/etc/config"
ServiceGraphYAMLFileName == "service-graph.yaml"
ServiceGraphConfigMapKey == "service-graph"
ConfigName == "service-graph-config"

AppLabels == [app |-> "service-graph"]
ClientLabels == [app |-> "client"]
NodeLabels(name) == [role |-> "service", name |-> name]

\* A selector of labels.
Selects(selector, labels) ==
  \A k \in DOMAIN selector : k \in DOMAIN labels /\ labels[k] = selector[k]

-----------------------------------------------------------------------------
(* Objects                                                                 *)

Manifest(kind, namespace, name, labels, time, spec) ==
  [kind |-> kind, namespace |-> namespace, name |-> name, labels |-> labels,
   created |-> time, spec |-> spec]

MakeNamespace(time) ==
  Manifest("Namespace", NoName, ServiceGraphNamespace, [istioInjection |-> "enabled"], time, <<>>)

MakeConfigMap(graph, time) ==
  Manifest("ConfigMap", ServiceGraphNamespace, ConfigName, AppLabels, time,
           [data |-> [k \in {ServiceGraphConfigMapKey} |-> Marshal(graph)]])

MakeService(s, time) ==
  Manifest("Service", ServiceGraphNamespace, s.name, AppLabels, time,
           [ports |-> {ServicePort}, selector |-> [name |-> s.name]])

ConfigVolume ==
  [mountPath |-> ConfigPath, configMap |-> ConfigName,
   items |-> {[key |-> ServiceGraphConfigMapKey, path |-> ServiceGraphYAMLFileName]}]

PodTemplate(labels, time, nodeSelector, env, volumes, ports) ==
  [labels |-> labels, created |-> time, nodeSelector |-> nodeSelector, env |-> env,
   volumes |-> volumes, ports |-> ports]

\* Mutants: a template that is the same whenever it is made, pods without the role.
TemplateWithoutTimestamp(name, nodeSelector, time) ==
  PodTemplate(NodeLabels(name), 0, nodeSelector, [k \in {ServiceNameEnvKey} |-> name],
              {ConfigVolume}, {ServicePort})
TemplateWithoutRole(name, nodeSelector, time) ==
  PodTemplate([name |-> name], time, nodeSelector, [k \in {ServiceNameEnvKey} |-> name],
              {ConfigVolume}, {ServicePort})

TemplateOf(name, nodeSelector, time) ==
  PodTemplate(NodeLabels(name), time, nodeSelector, [k \in {ServiceNameEnvKey} |-> name],
              {ConfigVolume}, {ServicePort})

MakeDeployment(s, nodeSelector, time) ==
  Manifest("Deployment", ServiceGraphNamespace, s.name, AppLabels, time,
           [replicas |-> s.numReplicas, selector |-> [name |-> s.name],
            template |-> TemplateOf(s.name, nodeSelector, time)])

\* The Fortio client.  The API server fills in its one replica.
MakeFortioDeployment(nodeSelector, time) ==
  Manifest("Deployment", DefaultNamespace, "client", ClientLabels, time,
           [replicas |-> 1, selector |-> ClientLabels,
            template |-> PodTemplate(ClientLabels, time, nodeSelector, <<>>, {},
                                     {ServicePort, FortioMetricsPort})])

MakeFortioService(time) ==
  Manifest("Service", DefaultNamespace, "client", ClientLabels, time,
           [ports |-> {ServicePort}, selector |-> ClientLabels])

\* Mutant: the config map comes after the deployments that mount it.
ConfigMapLast(namespace, configMap, services, client) ==
  <<namespace>> \o services \o <<configMap>> \o client

InOrder(namespace, configMap, services, client) ==
  <<namespace, configMap>> \o services \o client

\* For each service its Deployment, then its Service.
ManifestsOfServices(graph, nodeSelector, time) ==
  [n \in 1 .. 2 * Len(graph) |-> IF n % 2 = 1 THEN MakeDeployment(graph[(n + 1) \div 2], nodeSelector, time)
                                 ELSE MakeService(graph[n \div 2], time)]

ServiceGraphToKubernetesManifests(graph, nodeSelector, clientNodeSelector, time) ==
  InOrder(MakeNamespace(time), MakeConfigMap(graph, time),
          ManifestsOfServices(graph, nodeSelector, time),
          <<MakeFortioDeployment(clientNodeSelector, time), MakeFortioService(time)>>)

-----------------------------------------------------------------------------
(* convert kubernetes: exits on the first error, and writes the file last. *)

\* A node selector argument, as its parts between equals signs.
SplitByEquals(parts) == IF Len(parts) = 2 THEN {parts} ELSE {}
ExtractNodeSelector(parts) ==
  {[k \in {pair[1]} |-> pair[2]] : pair \in SplitByEquals(parts)}

KubernetesCmd(document, serviceParts, clientParts, time) ==
  {ServiceGraphToKubernetesManifests(graph, nodes, clientNodes, time)
   : nodes \in ExtractNodeSelector(serviceParts), clientNodes \in ExtractNodeSelector(clientParts),
     graph \in Unmarshal(document)}

-----------------------------------------------------------------------------
(* The start of the service in a pod.                                      *)

\* What is at a path of the pod's file system, given the volume's config map.
ReadFile(template, configMap, directory, name) ==
  {configMap.spec.data[item.key] : item \in
     UNION {{i \in v.items : v.mountPath = directory /\ i.path = name /\ i.key \in DOMAIN configMap.spec.data}
            : v \in template.volumes}}

\* Mutants: the first whatever its name, all of that name.
ExtractFirstService(graph, name) == {graph[k] : k \in DOMAIN graph \cap {1}}
ExtractAllServices(graph, name) == {graph[k] : k \in {l \in DOMAIN graph : graph[l].name = name}}

\* extractService: the first of that name.
ExtractService(graph, name) ==
  {graph[k] : k \in {l \in DOMAIN graph : graph[l].name = name /\ \A m \in 1 .. l - 1 : graph[m].name # name}}

\* HandlerFromServiceGraphYAML, for a process with this template's environment
\* and volume: the service it emulates, or {} and the process exits.
HandlerFromServiceGraphYAML(template, configMap) ==
  UNION {UNION {ExtractService(graph, template.env[ServiceNameEnvKey]) : graph \in Unmarshal(document)}
         : document \in ReadFile(template, configMap, ConfigPath, ServiceGraphYAMLFileName)}

-----------------------------------------------------------------------------
(* Who looks for the pods and the services.                                *)

\* _get_prometheus_config: a monitor selects services by label and scrapes a
\* container port of their pods.
ServiceMonitors ==
  {[port |-> 8080, namespace |-> "service-graph", selector |-> [app |-> "service-graph"]],
   [port |-> 42422, namespace |-> "default", selector |-> [app |-> "client"]]}

\* SERVICE_GRAPH_SERVICE_SELECTOR of consts.py, which the wait for readiness uses.
ServiceSelector == [role |-> "service"]
=============================================================================
