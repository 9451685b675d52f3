# Isotope: specifications, model checking and proofs

Isotope load-tests service meshes. A *topology* (YAML) describes services and the
scripts they run; `convert/` turns it into Kubernetes manifests; every pod runs
`service/`, which emulates its service of the topology; `run_tests.py` and
`runner/` deploy topologies one after another, with and without Istio, drive them
with Fortio and let Prometheus collect the metrics.

The numbers isotope produces are worth something only if

1. a pod really does what its script says, and reports and counts it truthfully,
2. the graph a process works on is the graph of its own document, and
3. each load test meets the graph, the mesh and the labels it is filed under.

The five parts of this project model and prove these: the **mock service** (1),
**unmarshalling with defaults**, the **conversions** and the **deployment** (2),
and the **test runner** (3).

| part | modules | checked by | proved in |
|---|---|---|---|
| mock service | `ServiceGraph`, `MockService`, `ScriptRun` (abstract), `MockServiceRefinement`, `MCMockService` | `canonical`, `fan_crash`, `traces`, `sent_counter`, `error_rate` | `MockServiceProofs`, `MockServiceTreeProofs`, `MockServiceRefinementProofs` |
| unmarshalling | `GraphParse`, `MCGraphParse` | `parse`, `parse_sizes` | `GraphParseProofs` |
| conversions | `Scalars`, `Topology`, `TopologyFormat` (what is well-formed), `Graphviz`, `Manifests`, `TreeTopology`, `Conversions`, `MCConversions` | `convert` | `TopologyProofs`, `ConversionsProofs` |
| deployment | `Manifests`, `Deployment`, `MCDeployment` | `deploy` | `TopologyProofs`, `DeploymentProofs` |
| test runner | `Pipeline`, `TestPlan` (abstract), `MCPipeline` | `pipeline`, `pipeline_teardown`, `pipeline_ready` | `PipelineProofs` |

`tlc -config X.cfg M` runs one configuration; `tlapm M.tla` checks the proofs of a
module. `PROJECT.json` lists every run with its properties, the lines each
definition models, the hazards and the properties that answer them.

## 1. Inventory

### 1.1 The system's parts

| component | state | operations | talks to |
|---|---|---|---|
| **mock service: handler** `service/pkg/srv/handler.go, executable.go, header.go, request.go` | one `ServeHTTP` goroutine per request, its step of the script, `errs` and a `WaitGroup` per concurrent step | receive, run steps, start and join goroutines, sleep, send a request, respond | other pods by HTTP; metrics |
| **mock service: metrics** `service/pkg/srv/prometheus/` | process-wide counters and histograms | `RecordRequestReceived`, `RecordRequestSent`, `RecordResponseSent` | scraped by Prometheus |
| **mock service: start** `service/main.go, srv/graph.go` | none before the server runs | read the graph, find this pod's service and its destinations | the graph's ConfigMap |
| **topology documents** `convert/pkg/graph/unmarshal.go, svc/, script/` | package variables `svc.DefaultService`, `script.DefaultRequestCommand` and the mutex around them | unmarshal metadata, set and restore defaults, unmarshal services, validate | `convert` and every pod |
| **script commands** `script/command.go, ...` | none | choose a command by its JSON key; durations, lists | unmarshalling |
| **validation** `graph/validation.go` | none | reject undefined destinations and nested concurrency | unmarshalling |
| **scalar settings** `size/, pct/, svctype/` | none | parse and print sizes, percentages, types | unmarshalling, manifests |
| **manifests** `convert/pkg/kubernetes/` | none | graph to Namespace, ConfigMap, Services, Deployments | the runner applies them |
| **Graphviz** `convert/pkg/graphviz/` | none | graph to dot text | users |
| **convert commands** `convert/cmd/` | the files they read and write | `graphviz`, `kubernetes` | users, the runner |
| **deployment**: `kubectl apply` of the manifests, the cluster, `service/main.go` in its pods | objects, pods, mounted config maps | apply, replace, start | the runner |
| **runner: main and pipeline** `run_tests.py, runner/pipeline.py` | position in the plan, in two nested context managers | label, set up, deploy, test, tear down | all below |
| **runner: environments** `runner/mesh.py, istio.py` | Istio's resources and namespace | set up, ingress, tear down | Kubernetes |
| **runner: kubectl, waits, shell** `runner/kubectl.py, wait.py, sh.py` | port-forward process | apply, delete, forward, poll until ... | Kubernetes |
| **runner: Prometheus** `runner/prometheus.py` | Helm release | apply labels, sleep | Prometheus operator |
| **runner: cluster** `runner/cluster.py` | the cluster, half-way or complete | `set_up_if_not_exists`, `set_up` | GKE, Helm |
| **runner: config, entrypoint, md5** | none | read TOML and YAML | main |
| **tree generator** `create_tree_topology.py` | a deque | breadth-first generation | users |

### 1.2 What is hard in it

* *Interleaving.* Every request is a tree of goroutines over several pods; the
  goroutines of a concurrent step append to `errs` without a lock; concurrent
  unmarshals communicate through package variables, in part without the mutex.
* *Failure.* Pods die and restart with fresh counters; requests and responses are
  lost at any point; a proxy may answer in place of a pod, and only status 500 counts as an
  error; of a file's manifests some may be rejected; every step of the runner
  may raise, in its finally blocks, too, deletions are unchecked, the runner may be killed and
  run again.
* *Order.* A response's header arrives before its handler has ended; a request is
  counted as sent after it was served; namespaces are deleted, pods get ready and
  Prometheus reloads long after the call that asked for it.
* *Agreement by repetition.* Ports, labels, names, paths and keys are repeated as literals
  in Go (twice: `service/` is built with an older copy of `convert/`) and in Python.
* *Printing and reading again.* A pod reads a graph that went through two JSON forms
  which round sizes and drop zeros.
* *Waiting.* HTTP without a timeout, `WaitGroup`, a mutex released without
  `defer`, `wait.until` and `wait.until_output` without a limit, calls repeated for as long as
  the Kubernetes API refuses connections.

### 1.3 What makes each part correct

* *Handler*: steps run in order and stop at the first failed one; 500 exactly for
  a failed command; no goroutine outlives the response; a 200 at the top means
  200s all the way down, save where a proxy answered for a callee; a trace's headers reach the
  whole tree and no other; every request is answered.
* *Metrics*: received = responses + in progress, for each process; sent and received agree.
* *Unmarshalling*: each document gets its own defaults, the variables come back, nobody waits for ever.
* *Runner*: every test meets its own graph, mesh and labels; whatever happens is
  torn down; no result is lost or taken for another's; it ends, or waits in a known place.
* *Conversions*: exactly the well-formed topologies are accepted; what is read back is
  what was converted, sizes up to their printed precision; every call has an edge.
* *Deployment*: a pod emulates the service of its Deployment, from the graph it was
  deployed with or a newer one; what it calls resolves; monitors and the readiness
  check find it.

## 2. The plan

In order of importance, all done: `MockService` with its abstract specification
`ScriptRun`; `GraphParse`; `Pipeline` with its abstract specification `TestPlan`;
`Topology` on top of `Scalars` and its converse, the format's description
`TopologyFormat`; `Manifests`, `Graphviz` and `TreeTopology`, composed to `Conversions`
(the files between the commands) and, with a cluster, to `Deployment` (the manifests
between `convert`, `kubectl` and the pods).

What ties the parts: `Topology` and `MockService` share the commands of `ServiceGraph`,
and `AcceptedScriptsRun` proves that every script `Topology` lets through is a
`ValidScript`, which is what the proofs about `MockService` assume (`ScriptAssumption`).
`GraphParse` has several parsers with one setting, `Topology` one parser with all of
them. `Deployment` ends where `MockService` begins (a process that serves), and has a deletion
as one step; `Pipeline` has its phases and waits.

What could follow: a `MockService` whose pods restart with a newer graph, and the pods of `Deployment` with
a readiness of their own.

## 3. The mock service

### State and actions

A call is named by its path from the client: `<<client>>` for a request of the load
test, `Append(r, <<i, j>>)` for command `j` of step `i` of the script that request `r`
runs. `task[c]` is the caller's side (the goroutine that executes the command, or the
client), `handler[c]` the callee's (`ServeHTTP`), so caller and callee fail
independently. `wire` holds what is on its way.

| code | model |
|---|---|
| `ServeHTTP`: `RecordRequestReceived`, headers, start of the loop | `Deliver` (a pod of the destination, whatever became of the caller) |
| one round of the loop: `execute`, `executeConcurrentCommand` | `StartStep`, then one task per command, then `Join` (`wg.Wait()`; for a single command, the call's return) |
| append to `errs`, `wg.Done()` | `Finish`: keeps the new error and *any* of those stored before (unlocked appends) |
| `executeSleepCommand` | `Sleep` |
| `executeRequestCommand`: `Do`, `RecordRequestSent`, `readAllAndClose`, status | `SendRequest`, `DoFails`/`DoReturns`, `ReadBody`, `ProxyReply` (the mesh's 503 or 504) |
| `respond`, `RecordResponseSent`, return | `EndScript` or `Join`, `WriteResponse`, `ReturnResponse` |
| the process ends or starts | `Crash`, `Restart` |

The data race on `errs` is a choice over the outcomes of an unsynchronised append: the
slice keeps the writer's own error and a subset of the others. A race detector's
outcome and a torn slice header (pointer of one append, length of another, which
differ only if the slices were reallocated) are left out.

A sidecar answers 503 or 504 when it cannot reach the upstream, and also after the request was delivered,
when the upstream resets or takes too long. `ProxyReply` may come at any time
before the callee's answer; the request may still be on its way, be served or have died with
its pod. `executable.go:63` takes the answer for a success. So a handler may answer 200 while one below it
fails or still runs, and the properties say exactly where: a call with status 503 (`Masked`).

`ScriptRun` is what the emulation promises, one variable: accepted requests, each
doing the commands of its current step in any order, once each, leaving at the first
failed step, answering 200 or 500. `MockServiceRefinement` maps `MockService` to it.
The mapping computes the failed commands from the tasks and not from `errs`, so the
refinement states that lost appends never hide a failure. A call that a proxy answered is `masked` in
the abstract run: it is done, and its sub-request may be accepted or go on later.

### Runs

* `canonical`: the topology of `example-topologies/canonical.yaml` (four services,
  nested calls, a concurrent step) with one crash and one fault anywhere (972 850 states).
  `StepsInOrder`, `ResponseIsFinal`, `MetricsAgree` (without failures nobody is reported to
  have been sent more than it received, and in the end exactly as much) and `OnlyProxiesHideFailures`: under
  a request answered with 200 every request at any depth was answered with 200, unless a proxy answered a call on the way to it.
* `fan_crash`: a concurrent step of a sleep and two calls of a service with two
  replicas, an empty concurrent step; one crash, restarts, one fault (133 714).
  `StatusFaithful`, `NoStrayGoroutine`, `RequestsConserved`, the inductive invariant
  `TreeInv`, `ImplementsScriptRun`, and under fairness `EveryClientAnswered` and `EveryHandlerEnds`,
  the handlers whose callers have died or given up included.
* `traces`: two clients choosing any of two headers, one of them forwardable, through a chain of three services, the last with a
  sleep (123 904): `TracePropagated`.
* `sent_counter` and `error_rate` find disagreements with the documentation, see section 8.

*Bounds.* `MaxFaults` and `MaxCrashes` bound failures, the clients bound the load; the
scripts are finite and acyclic, so the rest is finite. One fault and one crash reach every
pair of a lost message and a dying process, in `canonical` also of a caller and its
callee at three levels. Two siblings in one step are what a lost append needs, two replicas what
`boot` and per-pod counters need, three services are the least with a pod
that is caller and callee, two clients the least that can be mixed up.

*Fairness.* `WF_vars(Work)`: as long as some goroutine can run, or some message can
arrive or is refused, something of this happens: the Go scheduler and TCP. Nothing is assumed
of crashes, restarts and faults. That a caller without a timeout is answered rests on the
dead pod's connection being reset (`DoFails`); a machine that vanishes without a reset
is outside of the model.

`CHECK_DEADLOCK FALSE`: a bounded load comes to its end, and nothing is left to do.

### Proofs

For every topology, deployment, load and number of failures, `MockServiceProofs` proves

* `TypeCorrect`, `Invariance`: `Spec => []TypeOK`, `Spec => []Inv`;
* `StatusIsFaithful`, `NoGoroutineLeaks`, `ScriptInOrder`: the safety invariants of those names' runs;
* `ResponseFinal`: the action property `ResponseIsFinal`.

`StatusFaithful` is not inductive: that a 200 means that all commands succeeded
needs that `errs` is non-empty whenever a command of the current step failed
(`ErrsKept`), that all commands of earlier steps were started and succeeded
(`Progress`), that a task belongs to the step its path says (`Naming`), and that
live goroutines only exist under a handler that waits (`TaskFates`). `HandlerFates`
ties the response code to the handler's position. `Inv` is the conjunction; the proof has one
lemma per action, and per action one step per conjunct it can disturb.

`MockServiceTreeProofs` goes from one handler to the tree of calls: `TracePropagated`
(`TraceIsPropagated`), `OnlyProxiesHideFailures` (`FailuresHiddenByProxiesOnly`), `RequestsConserved`
(`CountersBalance`) and `MetricsAgree` (`CallersAndCalleesAgree`). `TreeInv` adds to `Inv` that a call carries the forwardable headers of the client's request it
descends from (`Traces`), that all requests on the way down to it were delivered and each
is the owner of the next (`Ancestry`), that it goes where its command says (`Destinations`), that a handler
neither over nor dead runs in the present process of its pod (`Housing`), and what each counter says
of the requests there were as long as nothing crashed or was lost (`Counting`). Under it each action
keeps `OnlyProxiesHideFailures` and `RequestsConserved`: where a handler decides on a 200 its commands have succeeded, so the handlers
they reached have decided on 200 before, or their status is a proxy's (`TaskFates`); where a counter changes, the set of requests it
balances with grows or shrinks by one. `MetricsAgree` compares sums of counters over pods: `SumOfParts` has
that numbers which are each the size of a part sum up to the size of the union of the parts, whose
proof looks at a least set of pods for which this fails.

`MockServiceRefinementProofs`: `Refinement` (each action is, under `TreeInv`, a step of `ScriptRun`
or a stutter), and for the abstract specification `NoLevelHidesAFailure`, which so carries
over to the detailed one: an answer 200 over an accepted sub-request without one needs a masked call.

Assumptions: `ConstantsAssumption`, `PodsAssumption` (finitely many replicas), `ScriptAssumption` (pods only run scripts `validate`
accepted; `NoService`, the destination of a sleep, is no service); nothing about cycles or finiteness of the topology.

Only model-checked: liveness.

## 4. Unmarshalling with defaults

### State and actions

Each goroutine of `Parsers` unmarshals one document: metadata first, without the lock
(`ReadMetadataCall` reads `script.DefaultRequestCommand` for each call of the default
script, `RejectMetadata` is the early return), then `withGlobalDefaults`: `Lock`,
`SetDefaults` (save and set), `ParseService`/`RejectService`/`ParseEnds`, `RestoreDefaults`,
`Unlock`, and outside again `Assign` (the receiver and `validate`). One setting stands for the four that
`svc.DefaultService` copies alike (type, replicas, error rate, response size);
request sizes are kept apart since they take the other variable.
In the programs of this repository one goroutine parses one document; the mutex
shows that the package is meant for more, and this is how it is checked.

### Runs

* `parse`: three goroutines, any of five documents each (inheriting, plain, with a
  nameless service, with an undefined call, malformed): 107 682 states.
  `TypeOK`, `DefaultsRestored`, `OwnDefaults`, `IInv`, and under fairness `EveryParseEnds`.
* `parse_sizes`: finds `DefaultScriptSizes` violated, section 8.

*Bounds.* Three goroutines: one inside, one between metadata and lock, one that has
finished. The five documents meet every exit.
*Fairness.* Weak fairness of each goroutine; `sync.Mutex` hands over to waiters
after a millisecond, and each parser locks once, so weak fairness is enough.
*Deadlock* is off because all parses end.

### Proofs

`GraphParseProofs`: `ParseTypeCorrect`, `DefaultsAreRestored`, `GraphsHaveOwnDefaults` and `ParseInvariance`, for any
number of goroutines and any documents. The invariant `IInv` adds to them `Exclusion` (who
is between `Lock` and `Unlock` is the holder, with the originals saved and the
document's defaults set) and `Progress` (what was parsed so far is what the
document says; a clean exit has parsed all). `Sized`, the filling of omitted
sizes, has lemmas of its own for its type. `OwnDefaults` leaves out, on purpose, what the calls of the
default script found, which no lock protects (section 8).

## 5. The conversions

### State and actions

A parser is an operator that returns a set: the one value it has read, or `{}` for an
error; so an error of a part is an error of the whole without a case for it.

| code | model |
|---|---|
| `size`, `pct`, `svctype`: `UnmarshalJSON`, `String`, `MarshalJSON` | `Scalars`: `ByteSize`, `String`, `Percentage`, `ServiceType`, `LowerCase` |
| `script`: `unmarshallableCommand`, `parseJSONCommandKey`, the three commands and their JSON | `Topology`: `ParseCommand`, `ParseSingle`, `ParseRequest`, `MarshalCommand` |
| `graph`, `svc`: `UnmarshalJSON`, `validate`, `omitempty` | `Topology`: `Unmarshal`, `Validate`, `Marshal`, `Empty` |
| `graphviz.ServiceGraphToGraph` | `Graphviz` |
| `kubernetes.ServiceGraphToKubernetesManifests`, `cmd/kubernetes.go` | `Manifests` |
| `create_tree_topology.py` | `TreeTopology`: `Grow` is one round of the loop |
| the commands and their files | `Conversions`: `ConvertGraphviz`, `ConvertKubernetes`, `Generate`, `WriteYAML` |

A text that stands for a size is kept as its digits, how many are decimals, and its unit,
which is what `%.4g` decides and `RAMInBytes` reads; a duration as whether it parses.

### Run

`convert` (1 594 states): 231 documents, each a small topology with one part varied over
everything that part may look like (in a service, in the defaults, in a request), and
five shapes of generated trees. For each, both commands in any order, with good and malformed
node selectors.

* `AcceptsExactlyTheWellFormed`: what is accepted is what `TopologyFormat` describes, in terms of
  the format and not of decoders, keys set in between or recursion.
* `ConfigMapKeepsGraph`: what a pod reads from the config map is what was converted, with its scripts,
  and sizes equal below a KiB and otherwise near (1066 becomes 1.041KiB and then 1065).
* `EdgesAreCalls`: the drawing has one edge per call, from the port of its step.
* `AcceptedScriptsAreValid`: the assumption of the mock services' proofs.
* `CompleteTree`, `NeverPopsEmpty`, `GeneratedIsTopology`, `TreeTypeOK`: what the generator's docstring
  promises, that its deque suffices, and that its output is a topology with one entrypoint
  where every other service is called once.

*Bounds.* No state is shared between documents, so one varied part at a time meets each
branch; the sizes lie around each border of `%.4g` and on its ties. The shapes have one
to four levels and one to five branches. *Deadlock* is off: the commands end.

### Proofs

`ConversionsProofs`, for all documents, selectors and shapes:

* `DequeSuffices` and `TreeTypeCorrect`: the loop's invariant `TreeInv` says that named services never
  exceed `NUM_SERVICES`, and that the queue is empty only if all of them are done.
* `TreeIsComplete`. Counting says how many services there are, not which. The invariant `BreadthFirst` numbers
  all that are named, done or waiting (`Named`): after `d` rounds they are 1 + d * branches, at most
  `NUM_SERVICES` (`Total`), and the i-th child of the k-th has the number 1 + (k - 1) * branches + i. From this, level
  by level (`LevelOf`), the numbers of a level and the paths of its length are one to one; the levels' sizes
  (`Levels`) come from the recurrence `NUM_SERVICES` is computed by.
* `TreeIsTopology`: what the generator's document is read as (`GraphOfTree`, by the parser's operators one after the other), then
  that names tell paths apart and that each number but 1 is a child's exactly once. `GeneratedInv` has that the topology
  there is after the loop is the generated one.
* `AcceptedScriptsRun`: lemma by lemma from `ParseSingle` to `Unmarshal`, what is parsed are commands of
  the three kinds, and what `Validate` leaves is a `ValidScript`.
* `ConvertAcceptsTopologies`, from `AcceptsWellFormed` of `TopologyProofs`: `Unmarshal(document)` is non-empty if and only if
  the document is `WellFormed`, for every document whose scalars are any that can be written (`ScalarsAreTyped`: a size is a
  number, or digits and a unit; nothing else is assumed of the document, which may have any keys and brackets). The
  proof has one acceptance lemma per setting, command, list and scope, and that defaults only ever stand in for what a
  service leaves out, so that a default script must run for exactly the services that have none.
* `ConfigMapIsFaithful`: `ConfigMapKeepsGraph`. It is `RoundTrip` of `TopologyProofs` applied to what `ConvertKubernetes`
  writes: a graph that was read, printed and read again is accepted and has the same services with the same scripts and rates,
  and sizes `Near`. It rests on `UnmarshalIsOne` (a parser returns at most one value) and on
* `PrintedSizesAreNear`: for every size below a GiB, what `String` prints is read by
  `RAMInBytes` as the same up to half a unit of the fourth digit, and exactly below a KiB; by `Rounding`, a lemma on
  division, once for each number of decimals.

* `DrawingIsFaithful`: `EdgesAreCalls`. The edges are three nested flattenings (commands of a step, steps of a script,
  services). `CountOfFlattened` says how often an element is in a flattened sequence: as often as in all parts together,
  given for each part a set of that many elements, disjoint from the others. It is applied once per
  nesting, with the sets of calls (`StepCalls`, `ScriptCalls`, `GraphCalls`), so that the number of equal edges is the number of calls
  and not only not zero.

`ConfigMapKeepsGraph` and `EdgesAreCalls` speak of files: `KeepInv` says that the manifests and the drawing are made from what the topology is read
as, by whatever order of commands.

The sum in `NUM_SERVICES` and the fold that flattens are recursions over numbers. The provers have no induction on a
predicate; `NatSet` says instead that a set of numbers with 0 and each successor is all of them, by way of a least number
missing from it.

Assumptions: `DocumentsAssumption` (lists are finite and counted from one, sizes are below `SizeLimit`, section 9, and
scalars are written as `ScalarsAreTyped` says, which is how the model keeps YAML's), `ShapesAssumption` (positive numbers of
levels and branches, as the code's constants are) and `NamesAssumption` (joining a path's numbers by dashes tells paths apart and
is never empty).

## 6. The deployment

### State and actions

`Convert` writes the manifests of a document to the file, with the time of their timestamps;
`ApplyNext` is `kubectl apply` of the next manifest, which the API server accepts (`Accept`) or rejects (`Reject`: without
its namespace always, otherwise for any reason), and kubectl goes on with the one after it in both cases; `Delete` removes all.
`rejected` is a history variable: which object's manifest was rejected, and of which conversion. In the end kubectl fails if there was one, and the
runner raises (`Pipeline`'s half-way `ApplyFile`), but what was applied is there until it is deleted.
`CreatePod` and `RemovePod` are the controllers, which replace the pods of a Deployment whose template has
changed; `Start` is `main` of the service in its pod: it reads the graph from the mounted config map,
takes its service and serves, or exits. `Crash` ends a process, which is started again in the same pod.

kubectl, the controllers and the kubelet are external: modelled from what `runner/` and `service/` rely on. A
volume has the config map as of the first start or, after a restart, that or the
current one, since it is refreshed in its own time.

### Run

`deploy` (118 596 states): four documents (a concurrent call of a service that is scaled to nothing, a service that calls
itself with two replicas, a call that nobody serves, a name that occurs twice), any two of them converted and applied, the second over the
first, over half of it, or after a deletion; one crash and one rejected manifest anywhere, and all that a missing namespace rejects besides.

* `NeverOlder`: no process works on a graph older than its pod's template, for the config map is
  applied before the Deployments. A rejected config map is the exception, and the only one.
* `PodsEmulateTheirService`: type, script and rates are those of the service in the graph that was
  converted, across two JSON forms; of two services of one name, too, though the pod takes the first and their Deployments
  overwrite each other, as it speaks of some service of the name.
* `CallsResolve`, `EveryPodIsFound`: names, ports and labels that are repeated as literals agree. What fails to be called
  or scraped has its own Service or Deployment rejected: one rejection takes nothing else with it.
* `UpToDate`, under fairness: in the end all pods of the last file whose Deployment and config map were accepted are there and work on its graph, because the timestamp
  in the template replaces them (nothing else would, `convert` run on a changed script only changes the config map). Of a name that
  occurs twice the number of pods is left open.

*Bounds.* Two conversions make one change, and each change is applied in every state of the
first; `MaxCrashes` = 1 has a process start twice in one pod, the least that can read two graphs; `MaxRejections` = 1 takes away any one manifest, the one thing whose
lack each property has to survive. (Rejections for want of the namespace are not counted.)

*Fairness.* `WF_vars(ApplyNext \/ CreatePod \/ RemovePods \/ StartPods)`: while kubectl is not through, or a controller or
the kubelet has something to do, one of them does. Weak fairness of each would be justified as well; since each step
brings the cluster nearer to where none is left, the weaker assumption is enough. Nothing is assumed of
the user and of crashes, which are bounded. *Deadlock* is off: a deployed cluster rests.

### Proofs

`DeploymentProofs`, for any documents, number of conversions, rejections and crashes: all safety properties of the run.

* `GraphsAreNeverOlder`. The invariant `OrderInv` relates the file to
  the cluster: the file is one conversion's, with the config map second (`FileInv`); `NewConfigMap(t)` says that the cluster has a config
  map of time t or later, or that the one of t was rejected, and holds of this conversion's time once kubectl is past its second manifest (`AppliedInv`), of each Deployment's
  time (`ObjectsInv`) and of each pod's, whose volume is not older either (`PodsInv`).
* `PodsEmulate`, `AppliedCallsResolve`, `AppliedPodsAreFound`, `DeploymentTypeOK`. They need to know what is in all these
  places, not only how old it is: `MadeInv` says that every graph in the history was read from a document (`GraphsInv`), the file
  is the manifests of the newest (`FileMade`), of the key of each of the first
  `applied` the cluster has an object of this file, that one or a later, or it was rejected (`AppliedMade`), every object in the cluster is a manifest of some graph that was converted
  (`ObjectsMade`), and so is what pods were made from and have mounted (`PodsMade`). What a pod serves is then a service of
  a graph read from a printed one, and `RoundTrip` says that it emulates what was converted; what it calls is defined
  because `Validate` saw to it, so the file has its Service, and what the file has is applied or rejected. The labels and ports are
  compared manifest by manifest (`FileParts`).

`DocumentsAssumption`: a graph is a finite list and its sizes are below `SizeLimit`, as section 9 says. `BoundsAssumption`: the number of conversions is bounded by a
number, any number.

Only model-checked: `UpToDate`, which is liveness.

## 7. The test runner

### State and actions

`pc` is the next call of the runner; the two nested context managers
(`Environment.context` around `kubectl.manifest`) are `Handler`, the finally block an
exception meets first, and `EndTest`, where it goes on. `Raise` is any checked call
failing, or ctrl-C, at any step; `Install` and `ApplyFile` may also fail half-way;
`CreateNamespace`, `DeleteFile`, `TearDown` and `DeleteNamespace` are unchecked calls which may
silently do nothing; `RaiseInFinally` is an exception inside a finally block, which leaves out the rest of that block and goes on with
the one around it. `Kill` ends the process without the finally blocks, `Rerun`
starts it again on what is there. `abandoned` is a history variable: what a deletion failed to delete, or an
exception or a kill kept from being deleted.

| code | model |
|---|---|
| `istio.py:43-49`, `wait.until_output`: polled, unchecked, until there is an ingress address | `IngressURL`, with `AssignAddress` of the world, which may never come |
| `sh.run_with_k8s_api`: repeated while the API refuses connections | `ThroughApi => api` in `RunnerStep`; `ApiGone` |
| `wait._until_rollouts_complete`: `kubectl rollout status` | `UntilIstioIsDeployed`, `UntilStatefulSetsAreReady`, `UntilDeploymentsAreReady` |
| `wait.py:86-88`: any failure of `kubectl get namespace` is taken for a deletion | `UntilNamespaceIsDeleted`, `UntilTornDown`, `GetNamespaceFails` |
| `pipeline.py:139-161`: port-forward, GET, retried while the connection fails | `PortForward`, `SendGET` (starts a load, counted in `loads`), `LoseAnswer` (back to the GET, which starts another), `HTTPGet` |
| `pipeline.py:166-167`: `open(path, 'w')`, `write` | `OpenFile` (the file of an earlier run is gone), `WriteFile` |

`results` has, for each test, the run that opened its result file last, and whether the result is in it (`whole`); a file that was opened and
not written is torn.

The world: `FinishDeletion` (namespaces terminate on their own time; a manifest's
namespace takes its objects along), `PodProgresses` (pending, unready, ready, and only with a node
pool), `PrometheusReloads`, `AssignAddress`, `ForwardBreaks`, `ApiGone` (for good: a shorter outage only delays).

Each step of `cluster.set_up` is a step of `SetUp`; the cluster is listed, and set-up
skipped on the next start, as soon as the first is done.

### Runs

* `pipeline`: two topologies under NONE and ISTIO, two starts, two pods (398 100 states).
  `TestedAsPlanned`: during the load test the graph is this test's alone, with sidecars exactly
  under ISTIO, and its labels are in force, unless something was abandoned.
  `SamplesLabelled`: a deployed graph is never scraped with another test's labels. `CleanedUp`: however the runner ended, what
  it leaves it could not delete. `EndsOrIsStuck`: it ends or waits in one of six places (`Stuck`; each is reached): for an API that is
  gone, for a rollout that has no deadline (Istio's, of its archive, and Prometheus' stateful sets), for an ingress that gets no address, for pods of a
  half-made cluster, for a namespace it failed to delete, for an answer through a dead port-forward. `ResultsComplete`: a run that has passed its last test
  has written every result itself and whole, though old ones and torn ones lie about. `ImplementsTestPlan`:
  whatever fails, each run measures the tests of the plan in their order, none left out
  or twice, and only ends well after the last. A load may be started again as long as no answer has come and never after; a test's earlier result stays
  until there is an answer; a failure tears at most the file that was about to be written. (`TestPlan`, six variables; the mapping reads
  the position in the plan.) What `TestPlan` allows is what the code does, not what one would wish: a repeated load disturbs
  the samples of its test, and an earlier result is lost between open and write.
* `pipeline_teardown`, `pipeline_ready`: disagreements, section 8.

*Bounds.* Four tests have every change of topology and environment; two starts let the
second meet all leftovers of the first, and only what a run leaves, not its number, reaches the next; two loads of one test are the least that
can overlap; two pods are the least of which one may be overlooked. `MaxLoads` also says that the runner does not lose every answer to
a connection that works: without it, it could send the GET for ever.

*Fairness.* The runner goes on, that is, every call it makes returns and a step that cannot succeed (`Doomed`) raises, except at the
rollouts without a deadline (`AwaitsRollout`), of which nothing is assumed. Kubernetes
finishes deletions and starts pods that have nodes; Prometheus reloads. Nothing is
assumed of the ingress address, exceptions, kills, the API's end, broken port-forwards and reruns.
`SleepsSuffice` states the assumption of `prometheus.py`: a reload is over after
the fixed sleep. It is TRUE in the runs; without it `SamplesLabelled` says nothing.
*Deadlock* is off because the runner ends, or waits for ever.

### Proofs

`PipelineProofs`, for every plan, set of pods and number of runs: `PipelineTypeCorrect`,
`EveryTestIsAsPlanned`, `EverySampleIsLabelled`, `EveryRunCleansUp`, `EveryResultIsWritten`, all from `PipelineInvariance`,
and `RunnerImplementsTestPlan`: initial states map to initial states and each action, under the invariant,
to a step of `TestPlan` or a stutter. The
invariant says at each position of the nested with statements what is deployed and in whose name:
`GraphInv` (an active namespace is the current test's between apply and delete, or was
abandoned), `MeshInv` (Istio is there only inside an ISTIO test's try statement, or was
abandoned), `LabelsInv` (from the reload on the labels are the test's). It is needed because the
properties speak of the load test and of the end, while the namespaces they speak of change
elsewhere. `ResultsInv` adds, for the results, whose each file is, that the only file this run may have torn is the current test's between open and
write, that an exception is on its way only in finally blocks (`RaisedOK`) and that loads are those of the test at hand (`LoadsOK`). `EndsOrIsStuck` is only model-checked.

## 8. Where the code and its documentation disagree

Each has a run in which TLC finds the property violated.

* `sent_counter`: *"a counter of requests sent to other services"*
  (`service/README.md:19`). A request whose response is lost was sent, and may have been
  served, but `executable.go:54` returns before it is counted.
* `error_rate`: `ErrorRate` *"is the percentage chance between 0 and 1 that this service
  should respond with a 500"* (`svc/service.go:25-26`). No code of the service reads it;
  a service with errorRate 100% answers 200.
* `parse_sizes`: defaults *"hold for omitted settings for [their] current and nested
  scopes"* (`README.md:200-201`, abridged). The defaults' own script is read before its document's
  `requestSize` is set, so its calls get size 0, or that of a document another goroutine is parsing.
* `pipeline_teardown`: `tear_down` *"Deletes the Istio resources and namespace."*
  (`istio.py:189`). It waits for the end of `service-graph`, not of `istio-system`, so the next
  set-up may start in a terminating namespace.
* `pipeline_ready`: *"Blocks until each node in the service graph reports readiness."*
  (`wait.py:92`). A pod without a Ready condition is not looked at.

`TestedAsPlanned` holds in spite of the fourth: a load test only starts if Istio's
resources were accepted, which a terminating namespace refuses, so the price is a
test run that raises and not a wrong result.

## 9. What is not modelled

* *Libraries*: `net/http`'s transparent resending of idempotent requests on a reused
  connection; connection pools and their limits; of `encoding/json` that field names match in any case, that `null` leaves
  a field alone and that of a key that occurs twice the last one counts. `kubectl delete` is asynchronous, as the
  code's own waits suppose.
* *Data no property is about*: payload bytes, durations and histogram buckets, wording and
  logging, Helm values, URLs, file formats, image building, dashboards; of the manifests images, arguments and resource limits; of
  the drawing the template that lays it out.
* *Sizes* of a GiB and more, for TLC's integers have 32 bits (`SizeLimit`). From an EiB on a printed size could
  not be read again: `RAMInBytes` knows the units up to PiB.
* *Lists nested deeper* than a list in a list in a script: the code parses any depth, and `validate` rejects them all.
* *Words of the documentation* that no run refutes: the grammar in the repository's `README.md` (184, 210-223, 271)
  has the keys `default` and `payloadSize`, which nothing reads (unknown keys are ignored), for `defaults` and
  `size`, and calls `services` required, which it is not. The model has what the code reads.
* *The older copy of `convert/`* that `service/vendor` has: it differs in not knowing `numReplicas`, which pods do not
  read; `Manifests` uses one reader for both.
* *Cyclic topologies*: `validate` accepts them and a request to one never ends; the
  state space is infinite. The proofs of safety cover them (no assumption excludes them), the runs do not.
* *The runner*: pods that become unready again; the status of the client's response, which is not checked, so that an
  error page would be written as a result; topologies of one base name in two
  directories, whose results overwrite each other; reading of the configuration and paths; calls of gcloud, Helm or kubectl that never return, other than
  the rollouts named in section 7. A call that is repeated because the API refuses connections for a while is a stuttering. That repetition
  is a recursion, in `wait` without a sleep, so an API that is gone may also end a run by `RecursionError`: `Raise` and `RaiseInFinally` cover it.
* *Deployment*: the phases of a deletion (`Pipeline` has them), rolling updates that keep some of the old pods
  until the new ones are ready (any order is possible here), the Fortio client's own pod.
* *Out of the prover's reach*: liveness under fairness. `EveryClientAnswered`, `EveryHandlerEnds`, `EveryParseEnds`, `UpToDate` and
  `EndsOrIsStuck` stay with TLC. Every invariant, action property and refinement that a run checks is also a theorem.
