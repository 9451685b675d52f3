----------------------------- MODULE Deployment -----------------------------
(***************************************************************************)
(* From a topology to pods that emulate its services.  convert writes the  *)
(* manifests of a document to a file, kubectl applies them one by one to   *)
(* a cluster where earlier ones may still be deployed, each accepted or    *)
(* rejected on its own, the controllers of Kubernetes replace the pods of  *)
(* a Deployment whose template has changed, and every process reads the    *)
(* graph from the config map mounted in its pod, once, when it starts.     *)
(* Processes may die and are started again.                                *)
(*                                                                         *)
(* The cluster is modelled from what its users rely on: a pod's volume has *)
(* the config map's contents as of the first start or newer ones, template *)
(* timestamps included in the comparison that replaces pods.  A deletion   *)
(* is complete at once: Pipeline has the waits that make it so.            *)
(***************************************************************************)
EXTENDS Manifests, FiniteSets

CONSTANTS
  Documents,       (* the topologies that may be converted                 *)
  MaxConversions,  (* bound: conversions that succeed                      *)
  MaxCrashes,      (* bound: processes that die                            *)
  MaxRejections    (* bound: manifests rejected though nothing is missing  *)

\* A list in a document is finite, and its sizes are within their bound.
ASSUME DocumentsAssumption ==
  \A d \in Documents : \A graph \in Unmarshal(d) : IsSequence(graph) /\ SizesFit(graph)

ASSUME BoundsAssumption == MaxConversions \in Nat

VARIABLES
  clock,    (* successful conversions, the time of their timestamps        *)
  graphs,   (* history: the graphs that were converted                     *)
  file,     (* the manifests in the file                                   *)
  applied,  (* how many of them kubectl has applied                        *)
  rejected, (* history: which manifests were rejected, of which conversion *)
  objects,  (* the cluster's objects                                       *)
  pods,     (* the mock services' pods, a function from their names        *)
  crashes

vars == <<clock, graphs, file, applied, rejected, objects, pods, crashes>>

Key(m) == <<m.kind, m.namespace, m.name>>
NamespaceKey == <<"Namespace", NoName, ServiceGraphNamespace>>
ConfigMapKey == <<"ConfigMap", ServiceGraphNamespace, ConfigName>>

Running(p) == pods[p].state = "running"

\* The node selectors of pipeline.py.
ServicePool == <<"cloud.google.com/gke-nodepool", "service-graph-pool">>
ClientPool == <<"cloud.google.com/gke-nodepool", "client-pool">>

Init ==
  /\ clock = 0 /\ graphs = <<>>
  /\ file = <<>> /\ applied = 0 /\ rejected = {}
  /\ objects = <<>>
  /\ pods = <<>>
  /\ crashes = 0

-----------------------------------------------------------------------------
(* The user and kubectl                                                    *)

\* A conversion that fails leaves the file as it is.
Convert ==
  /\ clock < MaxConversions
  /\ \E document \in Documents :
       \E graph \in Unmarshal(document),
          manifests \in KubernetesCmd(document, ServicePool, ClientPool, clock + 1) :
         /\ graphs' = Append(graphs, graph)
         /\ file' = manifests
  /\ clock' = clock + 1
  /\ applied' = 0
  /\ UNCHANGED <<rejected, objects, pods, crashes>>

\* The namespace of a manifest is there (the default one always is).
HasNamespace(m) == m.namespace = ServiceGraphNamespace => NamespaceKey \in DOMAIN objects

\* The manifest creates the object or replaces it.
Accept(m) ==
  /\ HasNamespace(m)
  /\ objects' = [k \in DOMAIN objects \cup {Key(m)} |-> IF k = Key(m) THEN m ELSE objects[k]]
  /\ UNCHANGED rejected

\* Without its namespace, or for any reason of the API server's.
Reject(m) ==
  /\ HasNamespace(m) => Cardinality(rejected) < MaxRejections
  /\ rejected' = rejected \cup {<<Key(m), clock>>}
  /\ UNCHANGED objects

\* kubectl apply of the next manifest.  After a rejected one kubectl goes on,
\* and fails only at the end.
ApplyNext ==
  /\ applied < Len(file)
  /\ Accept(file[applied + 1]) \/ Reject(file[applied + 1])
  /\ applied' = applied + 1
  /\ UNCHANGED <<clock, graphs, file, pods, crashes>>

\* kubectl delete of the file, complete with the namespace and its contents.
Delete ==
  /\ file # <<>> /\ applied = Len(file)
  /\ objects' = <<>>
  /\ pods' = <<>>
  /\ file' = <<>> /\ applied' = 0
  /\ UNCHANGED <<clock, graphs, rejected, crashes>>

-----------------------------------------------------------------------------
(* Kubernetes                                                              *)

\* Those of the mock services.  The client's pod is not followed.
Deployments ==
  {k \in DOMAIN objects : objects[k].kind = "Deployment" /\ objects[k].namespace = ServiceGraphNamespace}

\* The pods that a Deployment is to have: so many, of its template as it is now.
Wanted(k) ==
  {[deployment |-> k, created |-> objects[k].spec.template.created, ordinal |-> i]
   : i \in 1 .. objects[k].spec.replicas}

CreatePod ==
  \E k \in Deployments : \E p \in Wanted(k) \ DOMAIN pods :
    /\ pods' = [q \in DOMAIN pods \cup {p} |->
                  IF q = p THEN [state |-> "created", template |-> objects[k].spec.template,
                                 volume |-> {}, serves |-> {}]
                  ELSE pods[q]]
    /\ UNCHANGED <<clock, graphs, file, applied, rejected, objects, crashes>>

\* A pod of an older template goes, before or after its successor is there.
RemovePod(p) ==
  /\ p \notin Wanted(p.deployment)
  /\ pods' = Restrict(pods, DOMAIN pods \ {p})
  /\ UNCHANGED <<clock, graphs, file, applied, rejected, objects, crashes>>

\* What the volume of a pod may contain when its process starts.
Mounted(p) ==
  pods[p].volume \cup {objects[k] : k \in DOMAIN objects \cap {ConfigMapKey}}

\* The process runs main: it serves, or it exits if there is no service of its
\* name.  A process that has exited is started again.
Start(p) ==
  /\ ~Running(p)
  /\ \E configMap \in Mounted(p) :
       LET service == HandlerFromServiceGraphYAML(pods[p].template, configMap)
       IN  pods' = [pods EXCEPT ![p] = [state |-> IF service = {} THEN "exited" ELSE "running",
                                        template |-> @.template, volume |-> {configMap}, serves |-> service]]
  /\ UNCHANGED <<clock, graphs, file, applied, rejected, objects, crashes>>

Crash(p) ==
  /\ Running(p) /\ crashes < MaxCrashes
  /\ pods' = [pods EXCEPT ![p] = [state |-> "exited", template |-> @.template, volume |-> @.volume,
                                  serves |-> {}]]
  /\ crashes' = crashes + 1
  /\ UNCHANGED <<clock, graphs, file, applied, rejected, objects>>

-----------------------------------------------------------------------------
RemovePods == \E p \in DOMAIN pods : RemovePod(p)
StartPods == \E p \in DOMAIN pods : Start(p)
CrashPods == \E p \in DOMAIN pods : Crash(p)

Next == Convert \/ ApplyNext \/ Delete \/ CreatePod \/ RemovePods \/ StartPods \/ CrashPods

Spec == Init /\ [][Next]_vars

\* While kubectl is not at the end of the file or a controller or kubelet has
\* something to do, one of them does.  (Each of these steps brings the cluster
\* nearer to where none is left, so more need not be assumed.)
FairSpec == Spec /\ WF_vars(ApplyNext \/ CreatePod \/ RemovePods \/ StartPods)

-----------------------------------------------------------------------------
Deployed == file # <<>> /\ applied = Len(file)

\* The manifest of the object k, in the file that was converted last.
Rejected(k) == <<k, clock>> \in rejected

\* The graph of p was converted last.
UpToDatePod(p) == Running(p) /\ \A configMap \in pods[p].volume : configMap.created = clock

TypeOK ==
  /\ clock \in 0 .. MaxConversions /\ clock = Len(graphs)
  /\ applied \in 0 .. Len(file)
  /\ \A k \in DOMAIN objects : Key(objects[k]) = k /\ objects[k].created \in 1 .. clock
  /\ \A p \in DOMAIN pods :
       /\ p.deployment \in Deployments /\ p.created = pods[p].template.created
       /\ pods[p].state \in {"created", "running", "exited"}
       /\ Running(p) => Cardinality(pods[p].serves) = 1 /\ Cardinality(pods[p].volume) = 1

\* A process never works on a graph that is older than the pod template it
\* was started from: the config map is applied before the Deployments that
\* mount it (kubernetes.go:59-94), whatever is deployed over it, however far
\* kubectl came and whenever the process starts.  Only if the config map was
\* rejected, which makes kubectl fail, may the template go ahead of it.
NeverOlder ==
  \A p \in DOMAIN pods : <<ConfigMapKey, p.created>> \notin rejected =>
    \A configMap \in pods[p].volume : configMap.created >= p.created

\* What the pod of a Deployment emulates is the service of the Deployment's
\* name in the graph that was converted when the config map was made: the
\* same type, script and rates, and sizes as near as they are printed.
PodsEmulateTheirService ==
  \A p \in DOMAIN pods : Running(p) =>
    \A configMap \in pods[p].volume, s \in pods[p].serves :
      LET graph == graphs[configMap.created]
      IN  \E k \in DOMAIN graph :
            graph[k].name = objects[p.deployment].name /\ Emulates(s, graph[k])

\* A request to http://name:8080 finds pods: there is a Service of that name,
\* and it selects the pods of a Deployment that listen there.
Resolves(name) ==
  \E k, l \in DOMAIN objects :
    /\ k = <<"Service", ServiceGraphNamespace, name>>
    /\ ServicePort \in objects[k].spec.ports
    /\ l \in Deployments
    /\ Selects(objects[k].spec.selector, objects[l].spec.template.labels)
    /\ ServicePort \in objects[l].spec.template.ports

\* Once the file is applied, all that a process of its graph calls is there,
\* on top of whatever was deployed before, save what was rejected itself.  (A
\* pod of an earlier file, whose application was interrupted, may call what
\* never came.)
CallsResolve ==
  Deployed =>
    \A p \in DOMAIN pods : UpToDatePod(p) =>
      \A s \in pods[p].serves : \A i \in DOMAIN s.script : \A j \in DOMAIN Subcommands(s.script[i]) :
        LET cmd == Subcommands(s.script[i])[j]
        IN  cmd.op = "call" =>
              \/ Resolves(cmd.service)
              \/ \E kind \in {"Service", "Deployment"} : Rejected(<<kind, ServiceGraphNamespace, cmd.service>>)

\* One of Prometheus' monitors scrapes the pods of the Deployment k.
Scraped(k) ==
  \E monitor \in ServiceMonitors, l \in DOMAIN objects :
    /\ objects[l].kind = "Service"
    /\ objects[l].namespace = monitor.namespace /\ objects[k].namespace = monitor.namespace
    /\ Selects(monitor.selector, objects[l].labels)
    /\ Selects(objects[l].spec.selector, objects[k].spec.template.labels)
    /\ monitor.port \in objects[k].spec.template.ports

\* The labels and ports that convert gives to objects are those that
\* prometheus.py and wait.py look for: once the file is applied, the pods of
\* its Deployments are scraped, the client's included, unless the Service
\* beside them was rejected, and the wait for readiness looks at the mock
\* services'.
EveryPodIsFound ==
  Deployed =>
    \A k \in DOMAIN objects : objects[k].kind = "Deployment" /\ objects[k].created = clock =>
      /\ Scraped(k) \/ Rejected(<<"Service", objects[k].namespace, objects[k].name>>)
      /\ k \in Deployments => Selects(ServiceSelector, objects[k].spec.template.labels)

\* In the end the services of the last graph have as many pods as they are to
\* have, all of them working on that graph, whatever was deployed before,
\* whatever has crashed and whatever was rejected, save the config map and the
\* service's own Deployment.
UpToDate ==
  <>[](Deployed /\ ~Rejected(ConfigMapKey) =>
         \A n \in DOMAIN graphs[clock] :
           LET s == graphs[clock][n]
               deployment == <<"Deployment", ServiceGraphNamespace, s.name>>
               serving == {p \in DOMAIN pods : p.deployment = deployment}
           IN  /\ \A m \in DOMAIN graphs[clock] : graphs[clock][m].name = s.name => m = n
               /\ ~Rejected(deployment)
               => Cardinality(serving) = s.numReplicas /\ \A p \in serving : UpToDatePod(p))
=============================================================================
