------------------------------ MODULE Pipeline ------------------------------
(***************************************************************************)
(* The test runner: run_tests.py and the package runner/.                  *)
(*                                                                         *)
(* One process walks through the planned tests (every topology under every *)
(* environment).  For each it labels Prometheus, sets up the environment,  *)
(* deploys the service graph, runs the load test and takes everything down *)
(* again, by way of two nested context managers whose finally blocks also  *)
(* run when a step raises.  Kubernetes deletes namespaces, starts pods and *)
(* Prometheus reloads its configuration at their own pace.  The process    *)
(* may raise at every step, it may be killed, and it may be run again.     *)
(* The Kubernetes API may be gone for good, the ingress may never get an   *)
(* address, and the answer of the client may be lost.                      *)
(*                                                                         *)
(* A call that finds the API refusing connections for a while only, and a  *)
(* request that does not reach the client, are repeated without any        *)
(* effect: these are stutterings.                                          *)
(***************************************************************************)
EXTENDS Naturals, Sequences

CONSTANTS
  Topologies,    (* the topologies of the configuration                    *)
  Plan,          (* main's nested loops: the tests, in order               *)
  Pods,          (* pods of a service graph, one per Deployment            *)
  SleepsSuffice, (* Prometheus reloads within the sleep that awaits it     *)
  MaxRuns,       (* bound: how often run_tests.py is started               *)
  MaxLoads       (* bound: how often the load of a test is started; it     *)
                 (* also says that not every answer is lost                *)

Environments == {"NONE", "ISTIO"}
Namespaces == {"service-graph", "istio-system"}

\* A topology under an environment.
Tests == [topology : Topologies, env : Environments]

ASSUME PlanAssumption ==
  /\ Plan \in Seq(Tests)
  /\ SleepsSuffice \in BOOLEAN
  /\ MaxRuns \in Nat
  /\ MaxLoads \in Nat

\* How far cluster.set_up has come: its steps, up to the one named.
Steps == <<"cluster", "credentials", "role binding", "volume", "helm", "operator",
           "prometheus", "graph pool", "client pool">>
OperatorInstalled == 6
PrometheusInstalled == 7
GraphPoolCreated == 8
ClusterComplete == Len(Steps)

\* The steps that need the Kubernetes API; gcloud does the others.
ApiSteps == 3..7

\* What is in a test's result file: the run that has opened it, and whether its
\* contents are there.
NoResult == [by |-> 0, whole |-> FALSE]

VARIABLES
  pc,        (* what the runner does next                                  *)
  raised,    (* an exception is on its way out of main                     *)
  test,      (* index in Plan of the current test                          *)
  runs,      (* how often run_tests.py was started                         *)
  results,   (* what is in the result file of a test                       *)
  cluster,   (* how many steps of cluster.set_up are done                  *)
  ns,        (* namespaces: absent, active or terminating                  *)
  graph,     (* topologies with objects in the service-graph namespace     *)
  pods,      (* what the pods of the service graph report                  *)
  injected,  (* the pods were created with Istio's sidecars                *)
  mesh,      (* Istio's resources: absent, in part or installed            *)
  address,   (* the ingress gateway has an address                         *)
  release,   (* the test whose labels the Helm release has; 0: none        *)
  inForce,   (* the test whose labels Prometheus puts on its samples       *)
  api,       (* the Kubernetes API accepts connections                     *)
  forward,   (* the kubectl port-forward process: none, up or dead         *)
  loads,     (* how often the load of the current test was started         *)
  abandoned  (* what should have been deleted and was not                  *)

runner == <<pc, raised, test, runs, results>>
deployment == <<graph, pods, injected>>
istio == <<mesh, address>>
labels == <<release, inForce>>
client == <<forward, loads>>
resources == <<cluster, ns, deployment, istio, labels, api, client, abandoned>>
vars == <<runner, resources>>

Init ==
  /\ pc = "set_up_if_not_exists" /\ raised = FALSE /\ test = 1 /\ runs = 1
  /\ results = [t \in Tests |-> NoResult]
  /\ cluster = 0
  /\ ns = [n \in Namespaces |-> "absent"]
  /\ graph = {} /\ pods = [p \in Pods |-> "pending"] /\ injected = FALSE
  /\ mesh = "absent" /\ address = FALSE
  /\ release = 0 /\ inForce = 0
  /\ api = TRUE
  /\ forward = "none" /\ loads = 0
  /\ abandoned = {}

Env == Plan[test].env

-----------------------------------------------------------------------------
(* Exceptions                                                              *)

\* The body of the with statement of kubectl.manifest, of Environment.context
\* (set_up included), and the steps outside of both.
InManifest == {"apply_file", "until_deployments_are_ready", "until_service_graph_is_ready",
               "port_forward", "http_get", "await_result", "open_file", "write_file",
               "until_prometheus_has_scraped"}
InEnvironment == {"download", "create_namespace", "install", "until_istio_is_deployed",
                  "ingress_rules", "ingress_url", "until_namespace_is_deleted"}
Outside == {"set_up_if_not_exists", "set_up", "for test", "prometheus.apply", "reload",
            "until_stateful_sets_are_ready", "until_torn_down"}

\* Mutation of Handler: set_up is called before the try statement.
HandlerSetUpOutsideTry ==
  CASE pc \in InManifest -> "delete_file"
    [] pc = "until_namespace_is_deleted" /\ Env = "ISTIO" -> "tear_down"
    [] OTHER -> "exited"

\* Which finally block an exception meets first.
Handler ==
  CASE pc \in InManifest -> "delete_file"
    [] pc \in InEnvironment /\ Env = "ISTIO" -> "tear_down"
    [] OTHER -> "exited"

\* A finally block is done: the exception goes on, or main's loop does.
EndTest ==
  IF raised THEN pc' = "exited" /\ UNCHANGED test
            ELSE pc' = "for test" /\ test' = test + 1

\* A checked call fails, or the operator interrupts: the step has no effect.
Raise ==
  /\ pc \in InManifest \cup InEnvironment \cup Outside
  /\ pc' = Handler
  /\ raised' = TRUE
  /\ loads' = 0
  /\ UNCHANGED <<test, runs, results, cluster, ns, deployment, istio, labels, api, forward, abandoned>>

\* What a run should delete and is still there.
StillThere ==
  (IF ns["service-graph"] = "active" THEN {"manifest"} ELSE {})
  \cup (IF mesh # "absent" THEN {"mesh"} ELSE {})
  \cup (IF ns["istio-system"] = "active" THEN {"istio-system"} ELSE {})

\* What the rest of a finally block would delete.
LeftToDelete ==
  CASE pc = "delete_file" -> {"manifest"}
    [] pc = "tear_down" -> {"mesh", "istio-system"}
    [] OTHER -> {"istio-system"}

\* An exception inside of a finally block: the rest of the block is left out,
\* and the block around it comes next.
RaiseInFinally ==
  /\ pc \in {"delete_file", "tear_down", "delete_namespace"}
  /\ pc' = IF pc = "delete_file" /\ Env = "ISTIO" THEN "tear_down" ELSE "exited"
  /\ raised' = TRUE
  /\ abandoned' = abandoned \cup (StillThere \cap LeftToDelete)
  /\ UNCHANGED <<test, runs, results, cluster, ns, deployment, istio, labels, api, client>>

\* The runner dies without running its finally blocks.
Kill ==
  /\ pc # "exited"
  /\ pc' = "exited"
  /\ raised' = TRUE
  /\ abandoned' = abandoned \cup StillThere
  /\ loads' = 0
  /\ UNCHANGED <<test, runs, results, cluster, ns, deployment, istio, labels, api, forward>>

-----------------------------------------------------------------------------
(* The cluster                                                             *)

\* The name is in the list of clusters as soon as the first step is done.
SetUpIfNotExists ==
  /\ pc = "set_up_if_not_exists"
  /\ pc' = IF cluster = 0 THEN "set_up" ELSE "for test"
  /\ UNCHANGED <<raised, test, runs, results, resources>>

\* The next step of set_up.
SetUp ==
  /\ pc = "set_up"
  /\ cluster' = cluster + 1
  /\ pc' = IF cluster' = ClusterComplete THEN "for test" ELSE "set_up"
  /\ UNCHANGED <<raised, test, runs, results, ns, deployment, istio, labels, api, client, abandoned>>

-----------------------------------------------------------------------------
(* A test, up to its environment                                           *)

\* Mutation of ForTest: one test too many.
ForTestOffByOne ==
  /\ pc = "for test"
  /\ pc' = IF test > Len(Plan) + 1 THEN "exited" ELSE "prometheus.apply"
  /\ UNCHANGED <<raised, test, runs, results, resources>>

\* extract_name, for_state and _gen_yaml, or the end of the loops.
ForTest ==
  /\ pc = "for test"
  /\ pc' = IF test > Len(Plan) THEN "exited" ELSE "prometheus.apply"
  /\ UNCHANGED <<raised, test, runs, results, resources>>

\* Helm upgrades the release if there is one and installs it if not.
ApplyLabels ==
  /\ pc = "prometheus.apply"
  /\ cluster >= OperatorInstalled
  /\ release' = test
  /\ pc' = IF cluster >= PrometheusInstalled \/ release # 0
            THEN "reload" ELSE "until_stateful_sets_are_ready"
  /\ UNCHANGED <<raised, test, runs, results, cluster, ns, deployment, istio, inForce, api, client, abandoned>>

EnterEnvironment ==
  /\ pc' = IF Env = "ISTIO" THEN "download" ELSE "apply_file"
  /\ UNCHANGED <<raised, test, runs, results, resources>>

\* Mutation of AwaitReload: no sleep after the upgrade.
GoOnAtOnce ==
  /\ pc = "reload"
  /\ EnterEnvironment

\* The sleep after an upgrade.
AwaitReload ==
  /\ pc = "reload"
  /\ SleepsSuffice => inForce = release
  /\ EnterEnvironment

\* The wait for Prometheus after an installation.
UntilStatefulSetsAreReady ==
  /\ pc = "until_stateful_sets_are_ready"
  /\ SleepsSuffice => inForce = release
  /\ EnterEnvironment

Download ==
  /\ pc = "download"
  /\ pc' = "create_namespace"
  /\ UNCHANGED <<raised, test, runs, results, resources>>

\* kubectl create namespace, unchecked: it changes nothing if the namespace
\* is still there, and it may fail.
CreateNamespace ==
  /\ pc = "create_namespace"
  /\ ns' \in {ns, [ns EXCEPT !["istio-system"] = IF @ = "absent" THEN "active" ELSE @]}
  /\ pc' = "install"
  /\ UNCHANGED <<raised, test, runs, results, cluster, deployment, istio, labels, api, client, abandoned>>

\* kubectl apply of Istio's resources: checked, and in part if it fails.  No
\* object can be created in a namespace that is not active.
Install ==
  /\ pc = "install"
  /\ \/ /\ ns["istio-system"] = "active"
        /\ mesh' = "installed"
        /\ pc' = "until_istio_is_deployed"
        /\ UNCHANGED raised
     \/ /\ mesh' = "in part"
        /\ pc' = Handler
        /\ raised' = TRUE
  /\ UNCHANGED <<test, runs, results, cluster, ns, deployment, address, labels, api, client, abandoned>>

\* A rollout that fails is logged and taken off the list.
UntilIstioIsDeployed ==
  /\ pc = "until_istio_is_deployed"
  /\ pc' = "ingress_rules"
  /\ UNCHANGED <<raised, test, runs, results, resources>>

IngressRules ==
  /\ pc = "ingress_rules"
  /\ pc' = "ingress_url"
  /\ UNCHANGED <<raised, test, runs, results, resources>>

\* kubectl get, unchecked, until it prints an address.
IngressURL ==
  /\ pc = "ingress_url"
  /\ api /\ address
  /\ pc' = "apply_file"
  /\ UNCHANGED <<raised, test, runs, results, resources>>

-----------------------------------------------------------------------------
(* _test_service_graph                                                     *)

\* kubectl apply of the manifest: it adds to what is there, and it may fail
\* half-way.  Sidecars are injected into new pods if Istio is there.
ApplyFile ==
  /\ pc = "apply_file"
  /\ ns["service-graph"] # "terminating"
  /\ ns' = [ns EXCEPT !["service-graph"] = "active"]
  /\ graph' = graph \cup {Plan[test].topology}
  /\ IF Plan[test].topology \in graph
     THEN UNCHANGED <<pods, injected>>
     ELSE /\ pods' = [p \in Pods |-> "pending"]
          /\ injected' = (mesh # "absent")
  /\ \/ pc' = "until_deployments_are_ready" /\ UNCHANGED raised
     \/ pc' = Handler /\ raised' = TRUE
  /\ UNCHANGED <<test, runs, results, cluster, istio, labels, api, client, abandoned>>

\* A rollout that fails, at its deadline too, is logged and taken off the list.
UntilDeploymentsAreReady ==
  /\ pc = "until_deployments_are_ready"
  /\ pc' = "until_service_graph_is_ready"
  /\ UNCHANGED <<raised, test, runs, results, resources>>

\* The status of the Ready conditions: pending pods have none.
Reported == {pods[p] : p \in Pods} \ {"pending"}
ServiceGraphIsReady == Reported # {} /\ "unready" \notin Reported

UntilServiceGraphIsReady ==
  /\ pc = "until_service_graph_is_ready"
  /\ ServiceGraphIsReady
  /\ pc' = "port_forward"
  /\ UNCHANGED <<raised, test, runs, results, resources>>

\* A process that lives for a second is taken for a port-forward, whether the
\* client runs in its node pool or not.
Forwarding ==
  /\ pc = "port_forward"
  /\ forward' = IF api /\ cluster = ClusterComplete THEN "up" ELSE "dead"
  /\ pc' = "http_get"

\* Mutation of PortForward: the result file is opened around the load test.
PortForwardWithFileOpen ==
  /\ Forwarding
  /\ results' = [results EXCEPT ![Plan[test]] = [by |-> runs, whole |-> FALSE]]
  /\ UNCHANGED <<raised, test, runs, cluster, ns, deployment, istio, labels, api, loads, abandoned>>

PortForward ==
  /\ Forwarding
  /\ UNCHANGED <<raised, test, runs, results, cluster, ns, deployment, istio, labels, api, loads, abandoned>>

\* The GET reaches the client, which starts the load.
SendGET ==
  /\ pc = "http_get"
  /\ forward = "up"
  /\ loads' = loads + 1
  /\ pc' = "await_result"
  /\ UNCHANGED <<raised, test, runs, results, cluster, ns, deployment, istio, labels, api, forward, abandoned>>

\* The connection is lost before the answer: the GET is sent again.
LoseAnswer ==
  /\ pc = "await_result"
  /\ forward = "dead" \/ loads < MaxLoads
  /\ pc' = "http_get"
  /\ UNCHANGED <<raised, test, runs, results, resources>>

\* The client answers when the load is over; the port-forward is terminated.
HTTPGet ==
  /\ pc = "await_result"
  /\ forward = "up"
  /\ forward' = "none"
  /\ pc' = "open_file"
  /\ UNCHANGED <<raised, test, runs, results, cluster, ns, deployment, istio, labels, api, loads, abandoned>>

\* Mutation of OpenFile: a file that is there is kept.
OpenNewFile ==
  /\ pc = "open_file"
  /\ IF results[Plan[test]] = NoResult
     THEN /\ results' = [results EXCEPT ![Plan[test]] = [by |-> runs, whole |-> FALSE]]
          /\ pc' = "write_file"
          /\ UNCHANGED loads
     ELSE /\ pc' = "until_prometheus_has_scraped"
          /\ loads' = 0
          /\ UNCHANGED results
  /\ UNCHANGED <<raised, test, runs, cluster, ns, deployment, istio, labels, api, forward, abandoned>>

\* _write_to_file, to {topology_name}_{env.name}.json: open truncates it,
OpenFile ==
  /\ pc = "open_file"
  /\ results' = [results EXCEPT ![Plan[test]] = [by |-> runs, whole |-> FALSE]]
  /\ pc' = "write_file"
  /\ UNCHANGED <<raised, test, runs, resources>>

\* and writelines fills it.
WriteFile ==
  /\ pc = "write_file"
  /\ results' = [results EXCEPT ![Plan[test]] = [by |-> runs, whole |-> TRUE]]
  /\ loads' = 0
  /\ pc' = "until_prometheus_has_scraped"
  /\ UNCHANGED <<raised, test, runs, cluster, ns, deployment, istio, labels, api, forward, abandoned>>

UntilPrometheusHasScraped ==
  /\ pc = "until_prometheus_has_scraped"
  /\ pc' = "delete_file"
  /\ UNCHANGED <<raised, test, runs, results, resources>>

\* kubectl delete, unchecked.
DeleteOrAbandon ==
  IF ns["service-graph"] = "active"
  THEN \/ /\ ns' = [ns EXCEPT !["service-graph"] = "terminating"]
          /\ abandoned' = abandoned \ {"manifest"}
       \/ /\ abandoned' = abandoned \cup {"manifest"}
          /\ UNCHANGED ns
  ELSE UNCHANGED <<ns, abandoned>>

AfterManifest ==
  /\ pc = "delete_file"
  /\ pc' = IF raised THEN IF Env = "ISTIO" THEN "tear_down" ELSE "exited"
                     ELSE "until_namespace_is_deleted"
  /\ UNCHANGED <<raised, test, runs, results, cluster, deployment, istio, labels, api, client>>

\* Mutations of DeleteFile: the code after the yield runs without an exception
\* only, the code of an except clause with an exception only.
DeleteFileUnlessRaised ==
  /\ AfterManifest
  /\ IF raised THEN UNCHANGED <<ns, abandoned>> ELSE DeleteOrAbandon
DeleteFileIfRaised ==
  /\ AfterManifest
  /\ IF raised THEN DeleteOrAbandon ELSE UNCHANGED <<ns, abandoned>>

\* The finally block of kubectl.manifest.
DeleteFile == AfterManifest /\ DeleteOrAbandon

\* What comes after a wait for the end of the namespace.
AfterWait ==
  /\ IF pc = "until_namespace_is_deleted" /\ Env = "ISTIO"
     THEN pc' = "tear_down" /\ UNCHANGED test
     ELSE EndTest
  /\ UNCHANGED <<raised, runs, results, resources>>

UntilNamespaceIsDeleted ==
  /\ pc = "until_namespace_is_deleted"
  /\ ns["service-graph"] = "absent"
  /\ AfterWait

\* kubectl get namespace fails for another reason than a missing namespace.
GetNamespaceFails ==
  /\ pc \in {"until_namespace_is_deleted", "until_torn_down"}
  /\ ns["service-graph"] # "absent"
  /\ AfterWait

-----------------------------------------------------------------------------
(* The finally block of Environment.context, under ISTIO                   *)

\* Mutation of TearDown: the namespace is all that is deleted.
TearDownNamespaceOnly ==
  /\ pc = "tear_down"
  /\ pc' = "delete_namespace"
  /\ UNCHANGED <<raised, test, runs, results, resources>>

TearDown ==
  /\ pc = "tear_down"
  /\ pc' = "delete_namespace"
  /\ IF mesh # "absent"
     THEN \/ /\ mesh' = "absent" /\ address' = FALSE
             /\ abandoned' = abandoned \ {"mesh"}
          \/ /\ abandoned' = abandoned \cup {"mesh"}
             /\ UNCHANGED istio
     ELSE UNCHANGED <<istio, abandoned>>
  /\ UNCHANGED <<raised, test, runs, results, cluster, ns, deployment, labels, api, client>>

DeleteNamespace ==
  /\ pc = "delete_namespace"
  /\ pc' = "until_torn_down"
  /\ IF ns["istio-system"] = "active"
     THEN \/ /\ ns' = [ns EXCEPT !["istio-system"] = "terminating"]
             /\ abandoned' = abandoned \ {"istio-system"}
          \/ /\ abandoned' = abandoned \cup {"istio-system"}
             /\ UNCHANGED ns
     ELSE UNCHANGED <<ns, abandoned>>
  /\ UNCHANGED <<raised, test, runs, results, cluster, deployment, istio, labels, api, client>>

\* The namespace awaited is the service graph's.
UntilTornDown ==
  /\ pc = "until_torn_down"
  /\ ns["service-graph"] = "absent"
  /\ AfterWait

-----------------------------------------------------------------------------
(* The world                                                               *)

FinishDeletion ==
  \E n \in Namespaces :
    /\ ns[n] = "terminating"
    /\ ns' = [ns EXCEPT ![n] = "absent"]
    /\ IF n = "service-graph"
       THEN /\ graph' = {} /\ pods' = [p \in Pods |-> "pending"] /\ injected' = FALSE
            /\ UNCHANGED address
       ELSE /\ address' = FALSE
            /\ UNCHANGED deployment
    /\ UNCHANGED <<runner, cluster, mesh, labels, api, client, abandoned>>

\* A pod is scheduled, which needs the node pool, and then gets ready.
PodProgresses ==
  \E p \in Pods :
    /\ ns["service-graph"] = "active"
    /\ cluster >= GraphPoolCreated
    /\ \/ pods[p] = "pending" /\ pods' = [pods EXCEPT ![p] = "unready"]
       \/ pods[p] = "unready" /\ pods' = [pods EXCEPT ![p] = "ready"]
    /\ UNCHANGED <<runner, cluster, ns, graph, injected, istio, labels, api, client, abandoned>>

\* The load balancer of the ingress gateway gets an address, if ever.
AssignAddress ==
  /\ mesh # "absent" /\ ns["istio-system"] = "active" /\ ~address
  /\ address' = TRUE
  /\ UNCHANGED <<runner, cluster, ns, deployment, mesh, labels, api, client, abandoned>>

PrometheusReloads ==
  /\ inForce # release
  /\ inForce' = release
  /\ UNCHANGED <<runner, cluster, ns, deployment, istio, release, api, client, abandoned>>

ForwardBreaks ==
  /\ forward = "up"
  /\ forward' = "dead"
  /\ UNCHANGED <<runner, cluster, ns, deployment, istio, labels, api, loads, abandoned>>

\* From now on every connection to the API is refused.
ApiGone ==
  /\ api
  /\ api' = FALSE
  /\ UNCHANGED <<runner, cluster, ns, deployment, istio, labels, client, abandoned>>

\* run_tests.py is started again.
Rerun ==
  /\ pc = "exited"
  /\ runs < MaxRuns
  /\ runs' = runs + 1
  /\ pc' = "set_up_if_not_exists" /\ raised' = FALSE /\ test' = 1
  /\ UNCHANGED <<results, resources>>

-----------------------------------------------------------------------------
(* Specification                                                           *)

\* Steps that cannot succeed: they raise.
Doomed ==
  \/ pc = "prometheus.apply" /\ cluster < OperatorInstalled
  \/ pc = "apply_file" /\ ns["service-graph"] = "terminating"

\* Calls by way of sh.run_with_k8s_api, which repeats them while the API refuses
\* connections.
ThroughApi ==
  \/ pc = "set_up" /\ cluster + 1 \in ApiSteps
  \/ pc \in {"prometheus.apply", "until_stateful_sets_are_ready", "create_namespace", "install",
            "until_istio_is_deployed", "ingress_rules", "apply_file",
            "until_deployments_are_ready", "until_service_graph_is_ready", "delete_file",
            "until_namespace_is_deleted", "tear_down", "delete_namespace", "until_torn_down"}

RunnerStep ==
  /\ ThroughApi => api
  /\ \/ SetUpIfNotExists \/ SetUp
     \/ ForTest \/ ApplyLabels \/ AwaitReload \/ UntilStatefulSetsAreReady
     \/ Download \/ CreateNamespace \/ Install \/ UntilIstioIsDeployed
     \/ IngressRules \/ IngressURL
     \/ ApplyFile \/ UntilDeploymentsAreReady \/ UntilServiceGraphIsReady
     \/ PortForward \/ SendGET \/ LoseAnswer \/ HTTPGet \/ OpenFile \/ WriteFile
     \/ UntilPrometheusHasScraped
     \/ DeleteFile \/ UntilNamespaceIsDeleted
     \/ TearDown \/ DeleteNamespace \/ UntilTornDown

World == FinishDeletion \/ PodProgresses \/ PrometheusReloads

Fault == Raise \/ RaiseInFinally \/ Kill \/ GetNamespaceFails \/ ForwardBreaks \/ ApiGone

Next == RunnerStep \/ Fault \/ World \/ AssignAddress \/ Rerun

Spec == Init /\ [][Next]_vars

\* kubectl rollout status on objects without a deadline may never return: those
\* of Istio's archive, and the stateful sets of Prometheus.
AwaitsRollout ==
  \/ pc \in {"until_istio_is_deployed", "until_stateful_sets_are_ready"}
  \/ pc = "set_up" /\ cluster + 1 = PrometheusInstalled

\* The runner goes on, and fails where it must; so do Kubernetes and Prometheus.
FairSpec ==
  /\ Spec
  /\ WF_vars((~AwaitsRollout /\ RunnerStep) \/ (Doomed /\ Raise))
  /\ WF_vars(FinishDeletion)
  /\ WF_vars(PodProgresses)
  /\ WF_vars(PrometheusReloads)

-----------------------------------------------------------------------------
(* Correctness                                                             *)

Positions ==
  InManifest \cup InEnvironment \cup Outside \cup {"delete_file", "tear_down",
                                                   "delete_namespace", "exited"}
InTest == InManifest \cup InEnvironment \cup {"prometheus.apply", "reload",
                                             "until_stateful_sets_are_ready", "delete_file",
                                             "tear_down", "delete_namespace", "until_torn_down"}
LoadTest == {"http_get", "await_result", "open_file", "write_file"}

\* The runner is never past the end of the plan with a test under way.
ControlOK == pc \in Positions /\ raised \in BOOLEAN

CountersOK ==
  /\ test \in 1..(Len(Plan) + 1) /\ runs \in Nat
  /\ pc \in InTest => test <= Len(Plan)
  /\ cluster \in 0..ClusterComplete
  /\ pc = "set_up" => cluster < ClusterComplete
  /\ release \in 0..Len(Plan) /\ inForce \in 0..Len(Plan)
  /\ loads \in Nat

ResourcesOK ==
  /\ ns \in [Namespaces -> {"absent", "active", "terminating"}]
  /\ graph \subseteq Topologies /\ injected \in BOOLEAN
  /\ pods \in [Pods -> {"pending", "unready", "ready"}]
  /\ mesh \in {"absent", "in part", "installed"} /\ address \in BOOLEAN
  /\ api \in BOOLEAN
  /\ forward \in {"none", "up", "dead"}
  /\ abandoned \subseteq {"manifest", "mesh", "istio-system"}

\* The variables have the values the code and Kubernetes give them.
TypeOK == ControlOK /\ CountersOK /\ ResourcesOK

\* While the load test runs, from the port-forward to the last scrape, the
\* namespace has the services of this test's topology and no others, with
\* sidecars and an Istio behind them exactly if the environment is ISTIO, and
\* Prometheus has this test's labels, whatever earlier tests and earlier runs
\* raised, unless a deletion failed or never happened.
TestedAsPlanned ==
  pc \in LoadTest \cup {"port_forward", "until_prometheus_has_scraped"} /\ abandoned = {} =>
    /\ graph = {Plan[test].topology} /\ ns["service-graph"] = "active"
    /\ injected <=> Env = "ISTIO"
    /\ Env = "ISTIO" => mesh = "installed" /\ ns["istio-system"] = "active"
    /\ SleepsSuffice => inForce = test

\* What Prometheus scrapes from a deployed graph, at any time until its
\* deletion begins, is labelled with that graph's test.
SamplesLabelled ==
  SleepsSuffice /\ ns["service-graph"] = "active" /\ "manifest" \notin abandoned =>
    /\ inForce = test /\ test <= Len(Plan)
    /\ graph = {Plan[test].topology}

\* When the runner ends, at the end of the plan or by an exception from any
\* step, set_up included, it leaves nothing behind but what it could not
\* delete.
CleanedUp ==
  pc = "exited" =>
    /\ ns["service-graph"] = "active" => "manifest" \in abandoned
    /\ mesh # "absent" => "mesh" \in abandoned
    /\ ns["istio-system"] = "active" => "istio-system" \in abandoned

\* If the runner ends without an exception, the result file of every planned
\* test is there, whole and of this run: no test is skipped, and none of an
\* earlier run or torn by it is taken for one of this run, whatever failed
\* before.
ResultsComplete ==
  pc = "exited" /\ ~raised =>
    \A i \in 1..Len(Plan) : results[Plan[i]] = [by |-> runs, whole |-> TRUE]

\* The inductive invariant: what is there, and in whose name, at each point of
\* the two nested with statements.
SettingUp == {"download", "create_namespace", "install", "until_istio_is_deployed",
              "ingress_rules", "ingress_url"}
TearingDown == {"tear_down", "delete_namespace", "until_torn_down"}
Deployed == InManifest \ {"apply_file"}

\* The service graph is the current test's, or was abandoned.
GraphInv ==
  /\ ns["service-graph"] = "absent" => graph = {}
  /\ pc \in Deployed => ns["service-graph"] = "active"
  /\ ns["service-graph"] = "active" =>
       \/ "manifest" \in abandoned
       \/ pc \in Deployed \cup {"delete_file"} /\ graph = {Plan[test].topology}
  /\ pc \in Deployed /\ abandoned = {} => (injected <=> Env = "ISTIO")

\* Istio is there for a test under ISTIO, or was abandoned.
MeshInv ==
  /\ pc \in SettingUp \cup TearingDown => Env = "ISTIO"
  /\ mesh # "absent" =>
       \/ "mesh" \in abandoned
       \/ /\ Env = "ISTIO"
          /\ pc \in InManifest \cup {"until_istio_is_deployed", "ingress_rules", "ingress_url",
                                    "delete_file", "tear_down", "until_namespace_is_deleted"}
  /\ pc \in InManifest \cup {"until_istio_is_deployed", "ingress_rules", "ingress_url"}
     /\ Env = "ISTIO" =>
       mesh = "installed" /\ ns["istio-system"] = "active"
  /\ ns["istio-system"] = "active" =>
       \/ "istio-system" \in abandoned
       \/ /\ Env = "ISTIO"
          /\ pc \in (InManifest \cup InEnvironment \cup TearingDown \cup {"delete_file"})
                     \ {"until_torn_down"}

\* From the reload to the end of the test Prometheus has its labels.
LabelsInv ==
  /\ pc \in {"reload", "until_stateful_sets_are_ready"} => release = test
  /\ pc \in InManifest \cup InEnvironment \cup TearingDown \cup {"delete_file"} =>
       /\ release = test
       /\ SleepsSuffice => inForce = test

\* Tests that this run has measured, while no exception is on its way.
AfterLoadTest == TearingDown \cup {"until_prometheus_has_scraped", "delete_file", "until_namespace_is_deleted"}
Measured == IF pc \in AfterLoadTest THEN test ELSE test - 1

\* An exception is on its way in finally blocks only, or at the end.
RaisedOK == raised => pc \in TearingDown \cup {"delete_file", "exited"}

\* Loads are those of the test that is being measured.
LoadsOK ==
  /\ pc \notin LoadTest => loads = 0
  /\ pc \in LoadTest \ {"http_get"} => loads > 0

\* Without an exception, the results of what was measured are of this run, and
\* the only file it may have torn is the current test's, between open and write.
ResultsInv ==
  /\ RaisedOK /\ LoadsOK
  /\ results \in [Tests -> [by : Nat, whole : BOOLEAN]]
  /\ \A t \in Tests : results[t].by <= runs
  /\ ~raised =>
       /\ pc = "exited" => test > Len(Plan)
       /\ \A t \in Tests : (results[t] = [by |-> runs, whole |-> FALSE])
                            <=> (pc = "write_file" /\ t = Plan[test])
       /\ \A i \in 1..Measured : results[Plan[i]].by = runs

IInv == TypeOK /\ GraphInv /\ MeshInv /\ LabelsInv

\* What has been measured and written by a run, however it was begun.
P == INSTANCE TestPlan WITH
       run <- runs,
       state <- IF raised THEN "failed" ELSE IF pc = "exited" THEN "complete" ELSE "under way",
       measured <- IF raised \/ pc = "exited" THEN 0 ELSE Measured,
       answered <- pc \in {"open_file", "write_file"}

\* The runner, with its exceptions, its nested contexts and what it waits for,
\* does nothing but to measure the tests of the plan in their order.
ImplementsTestPlan == P!Spec

\* Where the runner may wait for ever: for an API that is gone, for a rollout
\* without a deadline, for an ingress that gets no address, for pods that have
\* no nodes, for the end of a namespace that it failed to delete, and for an
\* answer through a port-forward that is gone.
Stuck ==
  \/ ThroughApi /\ ~api
  \/ AwaitsRollout
  \/ pc = "ingress_url" /\ ~(api /\ address)
  \/ pc = "until_service_graph_is_ready" /\ cluster < GraphPoolCreated
  \/ pc \in {"until_namespace_is_deleted", "until_torn_down"} /\ "manifest" \in abandoned
  \/ pc = "http_get" /\ forward = "dead"

\* Every run ends, or waits in one of those places for ever.
EndsOrIsStuck == [](pc # "exited" => <>(pc = "exited" \/ []Stuck))

\* "Deletes the Istio resources and namespace.": after tear_down the namespace
\* is gone, where the deletion did not fail.  tear_down awaits the end of the
\* service graph's namespace instead.
EnvironmentDeleted ==
  pc = "for test" /\ "istio-system" \notin abandoned => ns["istio-system"] = "absent"

\* "Blocks until each node in the service graph reports readiness."
BlocksUntilReady ==
  [][UntilServiceGraphIsReady => \A p \in Pods : pods[p] = "ready"]_vars
=============================================================================
