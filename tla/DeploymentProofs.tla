-------------------------- MODULE DeploymentProofs --------------------------
(***************************************************************************)
(* Whatever the documents, however many conversions and crashes: a pod's   *)
(* graph is never older than its template, every pod emulates its service  *)
(* of a graph that was converted, and once a file is applied what its pods *)
(* call is there, and its pods are found by those who look for them.       *)
(***************************************************************************)
EXTENDS Deployment, TopologyProofs, FiniteSetTheorems

TemplateTime(m) == m.spec.template.created
ConfigMapTime == objects[ConfigMapKey].created

\* The file: its namespace and its config map come first.
FileInv ==
  /\ clock \in Nat /\ Len(file) \in Nat /\ applied \in 0 .. Len(file)
  /\ \A i \in 1 .. Len(file) :
       /\ file[i].created = clock
       /\ file[i].kind = "Deployment" => TemplateTime(file[i]) = clock
       /\ i = 1 => Key(file[i]) = NamespaceKey
       /\ i = 2 => Key(file[i]) = ConfigMapKey

\* Either the config map of a time was rejected, or one as new is there.
NewConfigMap(time) ==
  \/ <<ConfigMapKey, time>> \in rejected
  \/ ConfigMapKey \in DOMAIN objects /\ time <= ConfigMapTime

\* How far kubectl came.
AppliedInv == applied >= 2 => NewConfigMap(clock)

\* The cluster: a Deployment is there with a config map as new.
ObjectsInv ==
  /\ ConfigMapKey \in DOMAIN objects => ConfigMapTime \in Nat /\ ConfigMapTime <= clock
  /\ \A k \in Deployments :
       TemplateTime(objects[k]) \in Nat /\ NewConfigMap(TemplateTime(objects[k]))

PodsInv ==
  \A p \in DOMAIN pods :
    /\ p.created \in Nat /\ NewConfigMap(p.created)
    /\ \A configMap \in pods[p].volume :
         configMap.created \in Nat /\ (<<ConfigMapKey, p.created>> \in rejected \/ p.created <= configMap.created)

OrderInv == FileInv /\ AppliedInv /\ ObjectsInv /\ PodsInv

-----------------------------------------------------------------------------
(* What convert writes                                                     *)

\* Each manifest has the time of its conversion.
LEMMA MadeTimes ==
  ASSUME NEW graph, NEW nodes, NEW clientNodes, NEW time, NEW m \in ManifestSet(graph, nodes, clientNodes, time)
  PROVE  m.created = time /\ (m.kind = "Deployment" => TemplateTime(m) = time)
BY DEF ManifestSet, MakeNamespace, MakeConfigMap, MakeDeployment, MakeService, MakeFortioDeployment,
       MakeFortioService, Manifest, TemplateTime, TemplateOf, PodTemplate

LEMMA Written ==
  ASSUME NEW graph, IsSequence(graph), NEW nodes, NEW clientNodes, NEW time \in Nat,
         NEW manifests,
         manifests = ServiceGraphToKubernetesManifests(graph, nodes, clientNodes, time)
  PROVE  /\ Len(manifests) \in Nat
         /\ \A i \in 1 .. Len(manifests) :
              /\ manifests[i].created = time
              /\ manifests[i].kind = "Deployment" => TemplateTime(manifests[i]) = time
              /\ i = 1 => Key(manifests[i]) = NamespaceKey
              /\ i = 2 => Key(manifests[i]) = ConfigMapKey
<1> DEFINE Made == ManifestSet(graph, nodes, clientNodes, time)
<1>1. Len(graph) \in Nat
  BY DEF IsSequence
<1>2. /\ manifests \in Seq(Made) /\ Len(manifests) \in Nat
      /\ manifests[1] = MakeNamespace(time) /\ manifests[2] = MakeConfigMap(graph, time)
  <2>1. FileParts(manifests, Len(graph), graph, nodes, clientNodes, time)
    BY <1>1, ManifestsWritten
  <2> QED
    BY <1>1, <2>1 DEF FileParts
<1>3. Key(MakeNamespace(time)) = NamespaceKey /\ Key(MakeConfigMap(graph, time)) = ConfigMapKey
  BY DEF MakeNamespace, MakeConfigMap, Manifest, Key, NamespaceKey, ConfigMapKey
<1> HIDE DEF Made
<1>4. \A i \in 1 .. Len(manifests) : manifests[i] \in Made
  BY <1>2
<1> QED
  BY <1>2, <1>3, <1>4, MadeTimes DEF Made

-----------------------------------------------------------------------------
(* The invariant                                                           *)

LEMMA OrderInit == Init => OrderInv
BY DEF Init, OrderInv, FileInv, AppliedInv, ObjectsInv, PodsInv, Deployments

LEMMA ConvertStep == OrderInv /\ Convert => OrderInv'
<1> SUFFICES ASSUME OrderInv, Convert PROVE OrderInv'
  OBVIOUS
<1>1. /\ clock \in Nat /\ clock' = clock + 1 /\ applied' = 0
      /\ objects' = objects /\ pods' = pods /\ rejected' = rejected
  BY DEF OrderInv, FileInv, Convert
<1>2. PICK document \in Documents :
        \E graph \in Unmarshal(document) :
          \E manifests \in KubernetesCmd(document, ServicePool, ClientPool, clock + 1) : file' = manifests
  BY DEF Convert
<1>3. PICK graph \in Unmarshal(document) :
        \E nodes, clientNodes :
          file' = ServiceGraphToKubernetesManifests(graph, nodes, clientNodes, clock + 1)
  BY <1>2 DEF KubernetesCmd
<1>4. FileInv'
  <2>1. IsSequence(graph)
    BY DocumentsAssumption
  <2>2. /\ Len(file') \in Nat
        /\ \A i \in 1 .. Len(file') :
             /\ file'[i].created = clock'
             /\ file'[i].kind = "Deployment" => TemplateTime(file'[i]) = clock'
             /\ i = 1 => Key(file'[i]) = NamespaceKey
             /\ i = 2 => Key(file'[i]) = ConfigMapKey
    <3>1. PICK nodes, clientNodes :
            file' = ServiceGraphToKubernetesManifests(graph, nodes, clientNodes, clock + 1)
      BY <1>3
    <3>2. clock' \in Nat
      BY <1>1
    <3> QED
      BY <1>1, <2>1, <3>1, <3>2, Written
  <2> QED
    BY <1>1, <2>2 DEF FileInv, TemplateTime
<1>5. AppliedInv'
  BY <1>1 DEF AppliedInv
<1>6. ObjectsInv'
  BY <1>1 DEF OrderInv, ObjectsInv, Deployments, TemplateTime, ConfigMapTime, NewConfigMap
<1>7. PodsInv'
  BY <1>1 DEF OrderInv, PodsInv, ConfigMapTime, NewConfigMap
<1> QED
  BY <1>4, <1>5, <1>6, <1>7 DEF OrderInv

LEMMA ApplyStep == OrderInv /\ ApplyNext => OrderInv'
<1> SUFFICES ASSUME OrderInv, ApplyNext PROVE OrderInv'
  OBVIOUS
<1> DEFINE m == file[applied + 1]
<1>1. /\ applied' = applied + 1 /\ applied \in Nat /\ applied + 1 \in 1 .. Len(file)
      /\ clock' = clock /\ clock \in Nat /\ file' = file /\ pods' = pods
  BY DEF OrderInv, FileInv, ApplyNext
<1>2. /\ m.created = clock
      /\ m.kind = "Deployment" => TemplateTime(m) = clock
      /\ applied = 0 => Key(m) = NamespaceKey
      /\ applied = 1 => Key(m) = ConfigMapKey
  BY <1>1 DEF OrderInv, FileInv
<1>3. FileInv'
  BY <1>1 DEF OrderInv, FileInv, TemplateTime
<1>4. CASE Reject(m)
  <2>1. objects' = objects /\ rejected' = rejected \cup {<<Key(m), clock>>}
    BY <1>4 DEF Reject
  <2> HIDE DEF m
  <2>2. \A time : NewConfigMap(time) => NewConfigMap(time)'
    BY <2>1 DEF NewConfigMap, ConfigMapTime, ConfigMapKey
  <2>3. AppliedInv'
    <3>1. CASE applied = 1
      BY <1>1, <1>2, <2>1, <3>1 DEF AppliedInv, NewConfigMap, ConfigMapKey
    <3>2. CASE applied # 1
      <4>1. applied' >= 2 => NewConfigMap(clock)
        BY <1>1, <3>2 DEF OrderInv, AppliedInv
      <4> QED
        BY <1>1, <2>2, <4>1 DEF AppliedInv
    <3> QED
      BY <3>1, <3>2
  <2>4. ObjectsInv'
    <3>1. Deployments' = Deployments
      BY <2>1 DEF Deployments
    <3>2. ASSUME NEW k \in Deployments
          PROVE  TemplateTime(objects[k]) \in Nat /\ NewConfigMap(TemplateTime(objects[k]))'
      BY <2>1, <2>2 DEF OrderInv, ObjectsInv, TemplateTime
    <3>3. ASSUME NEW k \in Deployments'
          PROVE  TemplateTime(objects[k])' \in Nat /\ NewConfigMap(TemplateTime(objects[k]))'
      <4>1. k \in Deployments
        BY <3>1
      <4> QED
        BY <4>1, <3>2, <2>1 DEF TemplateTime
    <3>4. ConfigMapKey \in DOMAIN objects' => ConfigMapTime' \in Nat /\ ConfigMapTime' <= clock'
      BY <1>1, <2>1 DEF OrderInv, ObjectsInv, ConfigMapTime, ConfigMapKey
    <3> QED
      BY <3>3, <3>4 DEF ObjectsInv, ConfigMapKey
  <2>5. PodsInv'
    <3>1. ASSUME NEW p \in DOMAIN pods
          PROVE  /\ p.created \in Nat /\ NewConfigMap(p.created)'
                 /\ \A configMap \in pods[p].volume :
                      /\ configMap.created \in Nat
                      /\ <<ConfigMapKey, p.created>> \in rejected' \/ p.created <= configMap.created
      BY <2>1, <2>2 DEF OrderInv, PodsInv
    <3> QED
      BY <1>1, <3>1 DEF PodsInv, ConfigMapKey
  <2> QED
    BY <1>3, <2>3, <2>4, <2>5 DEF OrderInv
<1>5. CASE Accept(m)
  <2>1. /\ objects' = [k \in DOMAIN objects \cup {Key(m)} |-> IF k = Key(m) THEN m ELSE objects[k]]
        /\ rejected' = rejected
    BY <1>5 DEF Accept
  <2> HIDE DEF m
  <2>2. DOMAIN objects' = DOMAIN objects \cup {Key(m)}
    BY <2>1
  <2>3. objects'[Key(m)] = m /\ \A k \in DOMAIN objects : k # Key(m) => objects'[k] = objects[k]
    BY <2>1
  <2>4. ConfigMapKey \in DOMAIN objects' =>
          /\ (objects'[ConfigMapKey]).created \in Nat /\ (objects'[ConfigMapKey]).created <= clock
          /\ ConfigMapKey \in DOMAIN objects => ConfigMapTime <= (objects'[ConfigMapKey]).created
    BY <1>1, <1>2, <2>2, <2>3 DEF OrderInv, ObjectsInv, ConfigMapTime
  <2>a. ASSUME NEW time \in Nat, NewConfigMap(time)
        PROVE  \/ <<ConfigMapKey, time>> \in rejected
               \/ ConfigMapKey \in DOMAIN objects' /\ time <= (objects'[ConfigMapKey]).created
    <3>1. CASE <<ConfigMapKey, time>> \in rejected
      BY <3>1
    <3>2. CASE ConfigMapKey \in DOMAIN objects /\ time <= ConfigMapTime
      <4>1. ConfigMapTime \in Nat
        BY <3>2 DEF OrderInv, ObjectsInv
      <4> QED
        BY <2>2, <2>4, <3>2, <4>1
    <3> QED
      BY <2>a, <3>1, <3>2 DEF NewConfigMap
  <2>b. applied' >= 2 =>
          \/ <<ConfigMapKey, clock>> \in rejected
          \/ ConfigMapKey \in DOMAIN objects' /\ clock <= (objects'[ConfigMapKey]).created
    <3>1. CASE applied = 1
      BY <1>1, <1>2, <2>2, <2>3, <3>1
    <3>2. CASE applied # 1
      <4>1. applied' >= 2 => NewConfigMap(clock)
        BY <1>1, <3>2 DEF OrderInv, AppliedInv
      <4> QED
        BY <1>1, <2>a, <4>1
    <3> QED
      BY <3>1, <3>2
  <2>5. AppliedInv'
    BY <1>1, <2>1, <2>b DEF AppliedInv, NewConfigMap, ConfigMapTime, ConfigMapKey
  <2>6. ASSUME NEW k \in Deployments'
        PROVE  /\ TemplateTime(objects'[k]) \in Nat
               /\ \/ <<ConfigMapKey, TemplateTime(objects'[k])>> \in rejected
                  \/ /\ ConfigMapKey \in DOMAIN objects'
                     /\ TemplateTime(objects'[k]) <= (objects'[ConfigMapKey]).created
    <3>1. CASE k = Key(m)
      <4>1. m.kind = "Deployment" /\ TemplateTime(m) = clock
        BY <1>2, <2>3, <2>6, <3>1 DEF Deployments
      <4>2. applied >= 2
        BY <1>1, <1>2, <4>1 DEF Key, NamespaceKey, ConfigMapKey
      <4>3. applied' >= 2
        BY <1>1, <4>2
      <4> QED
        BY <1>1, <2>3, <2>b, <3>1, <4>1, <4>3
    <3>2. CASE k # Key(m)
      <4>1. k \in Deployments /\ objects'[k] = objects[k]
        BY <2>2, <2>3, <2>6, <3>2 DEF Deployments
      <4>2. TemplateTime(objects[k]) \in Nat /\ NewConfigMap(TemplateTime(objects[k]))
        BY <4>1 DEF OrderInv, ObjectsInv
      <4> QED
        BY <2>a, <4>1, <4>2
    <3> QED
      BY <3>1, <3>2
  <2>7. ObjectsInv'
    BY <1>1, <2>1, <2>4, <2>6 DEF ObjectsInv, NewConfigMap, ConfigMapTime, TemplateTime, ConfigMapKey
  <2>8. PodsInv'
    <3>1. ASSUME NEW p \in DOMAIN pods
          PROVE  /\ p.created \in Nat
                 /\ \/ <<ConfigMapKey, p.created>> \in rejected
                    \/ ConfigMapKey \in DOMAIN objects' /\ p.created <= (objects'[ConfigMapKey]).created
      <4>1. p.created \in Nat /\ NewConfigMap(p.created)
        BY <3>1 DEF OrderInv, PodsInv
      <4> QED
        BY <2>a, <4>1
    <3> QED
      BY <1>1, <2>1, <3>1 DEF OrderInv, PodsInv, NewConfigMap, ConfigMapTime, ConfigMapKey
  <2> QED
    BY <1>3, <2>5, <2>7, <2>8 DEF OrderInv
<1> QED
  BY <1>4, <1>5 DEF ApplyNext

LEMMA DeleteStep == OrderInv /\ Delete => OrderInv'
BY DEF OrderInv, FileInv, AppliedInv, ObjectsInv, PodsInv, Deployments, Delete

\* Steps that change pods alone.
LEMMA PodSteps ==
  ASSUME OrderInv, clock' = clock, file' = file, applied' = applied, rejected' = rejected, objects' = objects,
         PodsInv'
  PROVE  OrderInv'
BY DEF OrderInv, FileInv, AppliedInv, ObjectsInv, Deployments, TemplateTime, ConfigMapTime, NewConfigMap

LEMMA CreateStep == OrderInv /\ CreatePod => OrderInv'
<1> SUFFICES ASSUME OrderInv, CreatePod PROVE PodsInv'
  BY PodSteps DEF CreatePod
<1>1. objects' = objects /\ rejected' = rejected
  BY DEF CreatePod
<1> DEFINE Added(k, p) ==
      pods' = [q \in DOMAIN pods \cup {p} |->
                   IF q = p THEN [state |-> "created", template |-> objects[k].spec.template,
                                  volume |-> {}, serves |-> {}]
                   ELSE pods[q]]
<1>a. PICK k \in Deployments : \E p \in Wanted(k) : Added(k, p)
  BY DEF CreatePod
<1>2. PICK p \in Wanted(k) : Added(k, p)
  BY <1>a
<1>3. p.created = TemplateTime(objects[k])
  BY DEF Wanted, TemplateTime
<1>4. ASSUME NEW q \in DOMAIN pods'
      PROVE  /\ q.created \in Nat /\ NewConfigMap(q.created)
             /\ \A configMap \in pods'[q].volume :
                  /\ configMap.created \in Nat
                  /\ <<ConfigMapKey, q.created>> \in rejected \/ q.created <= configMap.created
  <2>1. CASE q = p
    BY <1>2, <1>3, <2>1 DEF OrderInv, ObjectsInv
  <2>2. CASE q # p
    BY <1>2, <2>2 DEF OrderInv, PodsInv
  <2> QED
    BY <2>1, <2>2
<1> QED
  BY <1>1, <1>4 DEF PodsInv, NewConfigMap, ConfigMapTime

LEMMA RemoveStep == OrderInv /\ RemovePods => OrderInv'
<1> SUFFICES ASSUME OrderInv, NEW p \in DOMAIN pods, RemovePod(p) PROVE PodsInv'
  BY PodSteps DEF RemovePods, RemovePod
<1>1. objects' = objects /\ rejected' = rejected /\ pods' = [q \in DOMAIN pods \ {p} |-> pods[q]]
  BY DEF RemovePod, Restrict
<1> QED
  BY <1>1 DEF OrderInv, PodsInv, NewConfigMap, ConfigMapTime

LEMMA StartStep == OrderInv /\ StartPods => OrderInv'
<1> SUFFICES ASSUME OrderInv, NEW p \in DOMAIN pods, Start(p) PROVE PodsInv'
  BY PodSteps DEF StartPods, Start
<1>1. PICK configMap \in Mounted(p) :
        pods' = [pods EXCEPT ![p] =
                   [state |-> IF HandlerFromServiceGraphYAML(pods[p].template, configMap) = {}
                              THEN "exited" ELSE "running",
                    template |-> @.template, volume |-> {configMap},
                    serves |-> HandlerFromServiceGraphYAML(pods[p].template, configMap)]]
  BY DEF Start
<1>2. objects' = objects /\ rejected' = rejected
  BY DEF Start
<1>3. /\ configMap.created \in Nat
      /\ <<ConfigMapKey, p.created>> \in rejected \/ p.created <= configMap.created
  <2>1. configMap \in pods[p].volume \/ (ConfigMapKey \in DOMAIN objects /\ configMap = objects[ConfigMapKey])
    BY <1>1 DEF Mounted
  <2> QED
    BY <2>1 DEF OrderInv, ObjectsInv, PodsInv, NewConfigMap, ConfigMapTime
<1>4. DOMAIN pods' = DOMAIN pods /\ pods'[p].volume = {configMap}
  BY <1>1
<1>5. \A q \in DOMAIN pods : q # p => pods'[q] = pods[q]
  BY <1>1
<1> QED
  BY <1>2, <1>3, <1>4, <1>5 DEF OrderInv, PodsInv, NewConfigMap, ConfigMapTime

LEMMA CrashStep == OrderInv /\ CrashPods => OrderInv'
<1> SUFFICES ASSUME OrderInv, NEW p \in DOMAIN pods, Crash(p) PROVE PodsInv'
  BY PodSteps DEF CrashPods, Crash
<1>1. DOMAIN pods' = DOMAIN pods /\ objects' = objects /\ rejected' = rejected
  BY DEF Crash
<1>2. \A q \in DOMAIN pods : pods'[q].volume = pods[q].volume
  BY DEF Crash
<1> QED
  BY <1>1, <1>2 DEF OrderInv, PodsInv, NewConfigMap, ConfigMapTime

LEMMA OrderInvariance == Spec => []OrderInv
<1>1. Init => OrderInv
  BY OrderInit
<1>2. OrderInv /\ [Next]_vars => OrderInv'
  <2>1. OrderInv /\ UNCHANGED vars => OrderInv'
    BY DEF vars, OrderInv, FileInv, AppliedInv, ObjectsInv, PodsInv, Deployments, TemplateTime, ConfigMapTime,
           NewConfigMap
  <2> QED
    BY <2>1, ConvertStep, ApplyStep, DeleteStep, CreateStep, RemoveStep, StartStep, CrashStep DEF Next
<1> QED
  BY <1>1, <1>2, PTL DEF Spec

\* For every set of documents and every number of conversions, rejections and
\* crashes: a process never works on a graph older than its pod's template,
\* unless the config map of the template's time was rejected.
THEOREM GraphsAreNeverOlder == Spec => []NeverOlder
<1>1. OrderInv => NeverOlder
  BY DEF OrderInv, PodsInv, NeverOlder
<1> QED
  BY <1>1, OrderInvariance, PTL
-----------------------------------------------------------------------------
(***************************************************************************)
(* What the cluster is made of: every object is a manifest of one of the   *)
(* graphs, of the time of its conversion, and every process reads the      *)
(* config map of one of them.  The file is that of the last graph, or it   *)
(* is empty.                                                               *)
(***************************************************************************)
ServiceNodes == [k \in {ServicePool[1]} |-> ServicePool[2]]
ClientNodes == [k \in {ClientPool[1]} |-> ClientPool[2]]

\* The graphs that convert accepts, and what it makes of the one of a time.
AllGraphs == UNION {Unmarshal(d) : d \in Documents}
MadeAt(time) == ManifestSet(graphs[time], ServiceNodes, ClientNodes, time)
ConfigMaps == {MakeConfigMap(graphs[t], t) : t \in 1 .. clock}

GraphsInv ==
  /\ graphs \in Seq(AllGraphs)
  /\ clock = Len(graphs) /\ clock \in 0 .. MaxConversions

FileMade ==
  /\ file # <<>> => /\ clock \in 1 .. MaxConversions
                   /\ file = ServiceGraphToKubernetesManifests(graphs[clock], ServiceNodes, ClientNodes, clock)
  /\ Len(file) \in Nat /\ applied \in 0 .. Len(file)

\* What kubectl has applied is there, as it is in the file or replaced by a
\* later one of its name, or it was rejected.
IsThere(k) == k \in DOMAIN objects /\ objects[k].created = clock
AppliedMade == \A i \in 1 .. applied : IsThere(Key(file[i])) \/ Rejected(Key(file[i]))

ObjectsMade ==
  \A k \in DOMAIN objects : Key(objects[k]) = k /\ \E t \in 1 .. clock : objects[k] \in MadeAt(t)

\* The pod of a Deployment whose name its process looks for.
PodMade(p) ==
  /\ p.deployment \in DOMAIN objects
  /\ pods[p].state \in {"created", "running", "exited"}
  /\ \E name :
       /\ p.deployment = <<"Deployment", ServiceGraphNamespace, name>>
       /\ pods[p].template = TemplateOf(name, ServiceNodes, p.created)
  /\ pods[p].volume \subseteq ConfigMaps
  /\ Running(p) => \E c \in ConfigMaps :
       /\ pods[p].volume = {c}
       /\ pods[p].serves = HandlerFromServiceGraphYAML(pods[p].template, c)
       /\ pods[p].serves # {}
PodsMade == \A p \in DOMAIN pods : PodMade(p)

MadeInv == GraphsInv /\ FileMade /\ AppliedMade /\ ObjectsMade /\ PodsMade

-----------------------------------------------------------------------------
LEMMA NodesAre ==
  /\ ExtractNodeSelector(ServicePool) = {ServiceNodes}
  /\ ExtractNodeSelector(ClientPool) = {ClientNodes}
<1>1. Len(ServicePool) = 2 /\ Len(ClientPool) = 2
  BY DEF ServicePool, ClientPool
<1>2. SplitByEquals(ServicePool) = {ServicePool} /\ SplitByEquals(ClientPool) = {ClientPool}
  BY <1>1 DEF SplitByEquals
<1> QED
  BY <1>2 DEF ExtractNodeSelector, ServiceNodes, ClientNodes

\* convert writes the manifests of the one graph that it reads.
LEMMA ConvertWrites ==
  ASSUME NEW document, NEW graph \in Unmarshal(document), NEW time,
         NEW m \in KubernetesCmd(document, ServicePool, ClientPool, time)
  PROVE  m = ServiceGraphToKubernetesManifests(graph, ServiceNodes, ClientNodes, time)
<1>1. PICK nodes \in ExtractNodeSelector(ServicePool), clientNodes \in ExtractNodeSelector(ClientPool),
           other \in Unmarshal(document) :
        m = ServiceGraphToKubernetesManifests(other, nodes, clientNodes, time)
  BY DEF KubernetesCmd
<1>2. other = graph
  BY UnmarshalIsOne DEF AtMostOne
<1>3. nodes = ServiceNodes /\ clientNodes = ClientNodes
  BY NodesAre
<1> QED
  BY <1>1, <1>2, <1>3

\* All of the file is of the set of manifests, and the namespace is its first.
LEMMA FileIsMade ==
  ASSUME NEW graph, IsSequence(graph), NEW nodes, NEW clientNodes, NEW time,
         NEW m, m = ServiceGraphToKubernetesManifests(graph, nodes, clientNodes, time)
  PROVE  /\ Len(m) \in Nat /\ m # <<>>
         /\ \A i \in 1 .. Len(m) : m[i] \in ManifestSet(graph, nodes, clientNodes, time)
         /\ Key(m[1]) = NamespaceKey
<1> DEFINE Made == ManifestSet(graph, nodes, clientNodes, time)
<1>1. Len(graph) \in Nat
  BY DEF IsSequence
<1>2. m \in Seq(Made) /\ Len(m) = 2 * Len(graph) + 4 /\ m[1] = MakeNamespace(time)
  <2>1. FileParts(m, Len(graph), graph, nodes, clientNodes, time)
    BY <1>1, ManifestsWritten
  <2> QED
    BY <2>1 DEF FileParts
<1>3. Key(MakeNamespace(time)) = NamespaceKey
  BY DEF MakeNamespace, Manifest, Key, NamespaceKey
<1> HIDE DEF Made
<1>4. Len(m) \in Nat /\ Len(m) >= 4 /\ \A i \in 1 .. Len(m) : m[i] \in Made
  BY <1>1, <1>2
<1>5. Len(<<>>) = 0
  OBVIOUS
<1> QED
  BY <1>2, <1>3, <1>4, <1>5 DEF Made

\* A manifest is known by its kind and namespace.
LEMMA KindsAre ==
  ASSUME NEW graph, NEW nodes, NEW clientNodes, NEW time,
         NEW m \in ManifestSet(graph, nodes, clientNodes, time)
  PROVE  /\ m.kind = "Deployment" /\ m.namespace = ServiceGraphNamespace =>
              \E k \in DOMAIN graph : m = MakeDeployment(graph[k], nodes, time)
         /\ m.kind = "Service" /\ m.namespace = ServiceGraphNamespace =>
              \E k \in DOMAIN graph : m = MakeService(graph[k], time)
         /\ m.kind = "ConfigMap" => m = MakeConfigMap(graph, time)
         /\ m.kind = "Deployment" /\ m.namespace # ServiceGraphNamespace =>
              m = MakeFortioDeployment(clientNodes, time)
         /\ m.kind = "Service" /\ m.namespace # ServiceGraphNamespace =>
              m = MakeFortioService(time)
<1>1. DefaultNamespace # ServiceGraphNamespace
  BY DEF DefaultNamespace, ServiceGraphNamespace
<1>2. CASE m = MakeNamespace(time)
  BY <1>2 DEF MakeNamespace, Manifest
<1>3. CASE m = MakeConfigMap(graph, time)
  BY <1>3 DEF MakeConfigMap, Manifest
<1>4. CASE m = MakeFortioDeployment(clientNodes, time)
  <2>1. m.kind = "Deployment" /\ m.namespace = DefaultNamespace
    BY <1>4 DEF MakeFortioDeployment, Manifest
  <2> QED
    BY <1>1, <1>4, <2>1
<1>5. CASE m = MakeFortioService(time)
  <2>1. m.kind = "Service" /\ m.namespace = DefaultNamespace
    BY <1>5 DEF MakeFortioService, Manifest
  <2> QED
    BY <1>1, <1>5, <2>1
<1>6. CASE \E k \in DOMAIN graph : m = MakeDeployment(graph[k], nodes, time)
  <2>1. m.kind = "Deployment" /\ m.namespace = ServiceGraphNamespace
    BY <1>6 DEF MakeDeployment, Manifest
  <2> QED
    BY <1>6, <2>1
<1>7. CASE \E k \in DOMAIN graph : m = MakeService(graph[k], time)
  <2>1. m.kind = "Service" /\ m.namespace = ServiceGraphNamespace
    BY <1>7 DEF MakeService, Manifest
  <2> QED
    BY <1>7, <2>1
<1> QED
  BY <1>2, <1>3, <1>4, <1>5, <1>6, <1>7 DEF ManifestSet

\* Every graph that was converted came from a document.
LEMMA GraphOfTime ==
  ASSUME GraphsInv, NEW t \in 1 .. clock
  PROVE  /\ \E d \in Documents : graphs[t] \in Unmarshal(d)
         /\ IsSequence(graphs[t]) /\ SizesFit(graphs[t])
<1>1. graphs[t] \in AllGraphs
  BY DEF GraphsInv
<1> QED
  BY <1>1, DocumentsAssumption DEF AllGraphs

LEMMA MadeInit == Init => MadeInv
<1> SUFFICES ASSUME Init PROVE MadeInv
  OBVIOUS
<1>1. GraphsInv
  BY BoundsAssumption DEF Init, GraphsInv
<1>2. FileMade /\ AppliedMade
  BY DEF Init, FileMade, AppliedMade
<1>3. ObjectsMade /\ PodsMade
  BY DEF Init, ObjectsMade, PodsMade
<1> QED
  BY <1>1, <1>2, <1>3 DEF MadeInv

\* A later conversion changes nothing that was made before.
LEMMA MadeConvert == MadeInv /\ Convert => MadeInv'
<1> SUFFICES ASSUME MadeInv, Convert PROVE MadeInv'
  OBVIOUS
<1>1. /\ clock \in 0 .. MaxConversions /\ clock < MaxConversions /\ MaxConversions \in Nat
      /\ clock' = clock + 1 /\ applied' = 0
      /\ objects' = objects /\ pods' = pods
      /\ graphs \in Seq(AllGraphs) /\ clock = Len(graphs)
  BY BoundsAssumption DEF MadeInv, GraphsInv, Convert
<1>a. PICK document \in Documents :
        \E graph \in Unmarshal(document),
           manifests \in KubernetesCmd(document, ServicePool, ClientPool, clock + 1) :
          graphs' = Append(graphs, graph) /\ file' = manifests
  BY DEF Convert
<1>2. PICK graph \in Unmarshal(document),
           manifests \in KubernetesCmd(document, ServicePool, ClientPool, clock + 1) :
        graphs' = Append(graphs, graph) /\ file' = manifests
  BY <1>a
<1>3. graph \in AllGraphs
  BY <1>2 DEF AllGraphs
<1>4. GraphsInv' /\ clock' \in 1 .. MaxConversions /\ graphs'[clock'] = graph
  BY <1>1, <1>2, <1>3 DEF GraphsInv, AllGraphs
<1>5. \A t \in 1 .. clock : t \in 1 .. clock' /\ graphs'[t] = graphs[t]
  BY <1>1, <1>2, <1>3
<1>6. FileMade'
  <2>1. file' = ServiceGraphToKubernetesManifests(graphs'[clock'], ServiceNodes, ClientNodes, clock')
    BY <1>1, <1>2, <1>4, ConvertWrites
  <2>2. IsSequence(graph)
    BY <1>2, DocumentsAssumption
  <2>3. Len(file') \in Nat
    BY <1>4, <2>1, <2>2, FileIsMade
  <2> QED
    BY <1>1, <1>4, <2>1, <2>3 DEF FileMade, ServiceNodes, ClientNodes
<1>7. AppliedMade'
  BY <1>1 DEF AppliedMade
<1>8. ObjectsMade'
  <2>1. ASSUME NEW k \in DOMAIN objects
        PROVE  Key(objects[k]) = k /\ \E t \in 1 .. clock' : objects[k] \in MadeAt(t)'
    <3>1. PICK t \in 1 .. clock : objects[k] \in MadeAt(t)
      BY <2>1 DEF MadeInv, ObjectsMade
    <3>2. objects[k] \in MadeAt(t)'
      BY <1>5, <3>1 DEF MadeAt, ServiceNodes, ClientNodes
    <3> QED
      BY <1>5, <2>1, <3>2 DEF MadeInv, ObjectsMade
  <2> QED
    BY <1>1, <2>1 DEF ObjectsMade, Key
<1>9. PodsMade'
  <2>1. ConfigMaps \subseteq ConfigMaps'
    BY <1>5 DEF ConfigMaps
  <2>2. ASSUME NEW p \in DOMAIN pods PROVE PodMade(p)'
    <3>1. PodMade(p)
      BY <2>2 DEF MadeInv, PodsMade
    <3> QED
      BY <1>1, <2>1, <3>1 DEF PodMade, Running, ServiceNodes
  <2> QED
    BY <1>1, <2>2 DEF PodsMade
<1> QED
  BY <1>4, <1>6, <1>7, <1>8, <1>9 DEF MadeInv

\* A pod that is as it was.
LEMMA PodAsItWas ==
  ASSUME clock' = clock, graphs' = graphs, objects' = objects,
         NEW p, PodMade(p), pods'[p] = pods[p]
  PROVE  PodMade(p)'
<1>1. ConfigMaps' = ConfigMaps
  BY DEF ConfigMaps
<1> QED
  BY <1>1 DEF PodMade, Running, ServiceNodes

LEMMA MadeApply == MadeInv /\ ApplyNext => MadeInv'
<1> SUFFICES ASSUME MadeInv, ApplyNext PROVE MadeInv'
  OBVIOUS
<1> DEFINE m == file[applied + 1]
<1>1. /\ applied' = applied + 1 /\ applied \in Nat /\ Len(file) \in Nat /\ applied + 1 \in 1 .. Len(file)
      /\ clock' = clock /\ graphs' = graphs /\ file' = file /\ pods' = pods
  BY DEF MadeInv, FileMade, ApplyNext
<1>2. file # <<>>
  <2>1. Len(<<>>) = 0
    OBVIOUS
  <2> QED
    BY <1>1, <2>1
<1>3. /\ clock \in 1 .. MaxConversions
      /\ file = ServiceGraphToKubernetesManifests(graphs[clock], ServiceNodes, ClientNodes, clock)
  BY <1>2 DEF MadeInv, FileMade
<1>4. clock \in Nat /\ clock \in 1 .. clock
  BY <1>3, BoundsAssumption
<1>5. m \in MadeAt(clock)
  <2>1. IsSequence(graphs[clock])
    BY <1>4, GraphOfTime DEF MadeInv
  <2> QED
    BY <1>1, <1>3, <2>1, FileIsMade DEF MadeAt
<1>6. m.created = clock
  BY <1>5, MadeTimes DEF MadeAt
<1>7. GraphsInv'
  BY <1>1 DEF MadeInv, GraphsInv, AllGraphs
<1>8. FileMade'
  BY <1>1 DEF MadeInv, FileMade, ServiceNodes, ClientNodes
<1>9. \A i \in 1 .. applied' : i \in 1 .. applied \/ file[i] = m
  BY <1>1
<1> HIDE DEF m
<1>10. CASE Reject(m)
  <2>1. objects' = objects /\ rejected' = rejected \cup {<<Key(m), clock>>}
    BY <1>10 DEF Reject
  <2>2. AppliedMade'
    <3>1. ASSUME NEW i \in 1 .. applied'
          PROVE  \/ Key(file[i]) \in DOMAIN objects /\ objects[Key(file[i])].created = clock
                 \/ <<Key(file[i]), clock>> \in rejected'
      <4>1. CASE i \in 1 .. applied
        BY <2>1, <4>1 DEF MadeInv, AppliedMade, IsThere, Rejected
      <4>2. CASE file[i] = m
        BY <2>1, <4>2
      <4> QED
        BY <1>9, <4>1, <4>2
    <3> QED
      BY <1>1, <2>1, <3>1 DEF AppliedMade, IsThere, Rejected, Key
  <2>3. ObjectsMade'
    BY <1>1, <2>1 DEF MadeInv, ObjectsMade, MadeAt, Key, ServiceNodes, ClientNodes
  <2>4. PodsMade'
    BY <1>1, <2>1, PodAsItWas DEF MadeInv, PodsMade
  <2> QED
    BY <1>7, <1>8, <2>2, <2>3, <2>4 DEF MadeInv
<1>11. CASE Accept(m)
  <2>1. /\ objects' = [k \in DOMAIN objects \cup {Key(m)} |-> IF k = Key(m) THEN m ELSE objects[k]]
        /\ rejected' = rejected
    BY <1>11 DEF Accept
  <2>2. /\ DOMAIN objects' = DOMAIN objects \cup {Key(m)} /\ objects'[Key(m)] = m
        /\ \A k \in DOMAIN objects : k # Key(m) => objects'[k] = objects[k]
    BY <2>1
  <2>3. AppliedMade'
    <3>1. ASSUME NEW i \in 1 .. applied'
          PROVE  \/ Key(file[i]) \in DOMAIN objects' /\ objects'[Key(file[i])].created = clock
                 \/ <<Key(file[i]), clock>> \in rejected
      <4>1. CASE Key(file[i]) = Key(m)
        BY <1>6, <2>2, <4>1
      <4>2. CASE Key(file[i]) # Key(m)
        <5>1. i \in 1 .. applied
          BY <1>9, <4>2
        <5>2. IsThere(Key(file[i])) \/ Rejected(Key(file[i]))
          BY <5>1 DEF MadeInv, AppliedMade
        <5> QED
          BY <2>2, <4>2, <5>2 DEF IsThere, Rejected
      <4> QED
        BY <4>1, <4>2
    <3> QED
      BY <1>1, <2>1, <3>1 DEF AppliedMade, IsThere, Rejected, Key
  <2>4. ObjectsMade'
    <3>1. ASSUME NEW k \in DOMAIN objects'
          PROVE  Key(objects'[k]) = k /\ \E t \in 1 .. clock : objects'[k] \in MadeAt(t)
      <4>1. CASE k = Key(m)
        BY <1>4, <1>5, <2>2, <4>1
      <4>2. CASE k # Key(m)
        BY <2>2, <3>1, <4>2 DEF MadeInv, ObjectsMade
      <4> QED
        BY <4>1, <4>2
    <3> QED
      BY <1>1, <3>1 DEF ObjectsMade, MadeAt, Key, ServiceNodes, ClientNodes
  <2>5. PodsMade'
    <3>1. ASSUME NEW p \in DOMAIN pods PROVE PodMade(p)'
      <4>1. PodMade(p)
        BY <3>1 DEF MadeInv, PodsMade
      <4>2. ConfigMaps' = ConfigMaps
        BY <1>1 DEF ConfigMaps
      <4> QED
        BY <1>1, <2>2, <4>1, <4>2 DEF PodMade, Running, ServiceNodes
    <3> QED
      BY <1>1, <3>1 DEF PodsMade
  <2> QED
    BY <1>7, <1>8, <2>3, <2>4, <2>5 DEF MadeInv
<1> QED
  BY <1>10, <1>11 DEF ApplyNext, m

LEMMA MadeDelete == MadeInv /\ Delete => MadeInv'
<1> SUFFICES ASSUME MadeInv, Delete PROVE MadeInv'
  OBVIOUS
<1>1. /\ objects' = <<>> /\ pods' = <<>> /\ file' = <<>> /\ applied' = 0
      /\ clock' = clock /\ graphs' = graphs
  BY DEF Delete
<1>2. GraphsInv'
  BY <1>1 DEF MadeInv, GraphsInv, AllGraphs
<1>3. FileMade' /\ AppliedMade'
  BY <1>1 DEF FileMade, AppliedMade
<1>4. ObjectsMade' /\ PodsMade'
  BY <1>1 DEF ObjectsMade, PodsMade
<1> QED
  BY <1>2, <1>3, <1>4 DEF MadeInv

\* Steps that change pods alone.
LEMMA MadePods ==
  ASSUME MadeInv, clock' = clock, graphs' = graphs, file' = file, applied' = applied, rejected' = rejected,
         objects' = objects, PodsMade'
  PROVE  MadeInv'
<1>1. GraphsInv'
  BY DEF MadeInv, GraphsInv, AllGraphs
<1>2. FileMade' /\ AppliedMade'
  BY DEF MadeInv, FileMade, AppliedMade, IsThere, Rejected, Key, ServiceNodes, ClientNodes
<1>3. ObjectsMade'
  BY DEF MadeInv, ObjectsMade, MadeAt, Key, ServiceNodes, ClientNodes
<1> QED
  BY <1>1, <1>2, <1>3 DEF MadeInv

\* A Deployment of the namespace is that of a service.
LEMMA DeploymentIs ==
  ASSUME MadeInv, NEW k \in Deployments
  PROVE  \E t \in 1 .. clock : \E n \in DOMAIN graphs[t] :
           /\ objects[k] = MakeDeployment(graphs[t][n], ServiceNodes, t)
           /\ k = <<"Deployment", ServiceGraphNamespace, graphs[t][n].name>>
<1>1. /\ k \in DOMAIN objects /\ objects[k].kind = "Deployment"
      /\ objects[k].namespace = ServiceGraphNamespace
  BY DEF Deployments
<1>2. PICK t \in 1 .. clock : objects[k] \in MadeAt(t)
  BY <1>1 DEF MadeInv, ObjectsMade
<1>3. PICK n \in DOMAIN graphs[t] : objects[k] = MakeDeployment(graphs[t][n], ServiceNodes, t)
  BY <1>1, <1>2, KindsAre DEF MadeAt
<1>4. Key(objects[k]) = k
  BY <1>1 DEF MadeInv, ObjectsMade
<1>5. objects[k].name = graphs[t][n].name
  BY <1>3 DEF MakeDeployment, Manifest
<1> QED
  BY <1>1, <1>3, <1>4, <1>5 DEF Key

LEMMA MadeCreate == MadeInv /\ CreatePod => MadeInv'
<1> SUFFICES ASSUME MadeInv, CreatePod PROVE PodsMade'
  BY MadePods DEF CreatePod
<1>1. clock' = clock /\ graphs' = graphs /\ objects' = objects
  BY DEF CreatePod
<1> DEFINE Fresh(k) == [state |-> "created", template |-> objects[k].spec.template,
                        volume |-> {}, serves |-> {}]
           Added(k, p) == pods' = [q \in DOMAIN pods \cup {p} |-> IF q = p THEN Fresh(k) ELSE pods[q]]
<1>a. PICK k \in Deployments : \E p \in Wanted(k) : Added(k, p)
  BY DEF CreatePod
<1>2. PICK p \in Wanted(k) : Added(k, p)
  BY <1>a
<1>3. DOMAIN pods' = DOMAIN pods \cup {p} /\ pods'[p] = Fresh(k)
      /\ \A q \in DOMAIN pods : q # p => pods'[q] = pods[q]
  BY <1>2
<1>4. PodMade(p)'
  <2>1. p.deployment = k /\ p.created = objects[k].spec.template.created
    BY DEF Wanted
  <2>2. PICK t \in 1 .. clock : \E n \in DOMAIN graphs[t] :
          /\ objects[k] = MakeDeployment(graphs[t][n], ServiceNodes, t)
          /\ k = <<"Deployment", ServiceGraphNamespace, graphs[t][n].name>>
    BY DeploymentIs
  <2>3. PICK n \in DOMAIN graphs[t] :
          /\ objects[k] = MakeDeployment(graphs[t][n], ServiceNodes, t)
          /\ k = <<"Deployment", ServiceGraphNamespace, graphs[t][n].name>>
    BY <2>2
  <2>4. objects[k].spec.template = TemplateOf(graphs[t][n].name, ServiceNodes, t)
    BY <2>3 DEF MakeDeployment, Manifest
  <2>5. (objects[k].spec.template).created = t
    BY <2>4 DEF TemplateOf, PodTemplate
  <2>6. k \in DOMAIN objects
    BY DEF Deployments
  <2>7. /\ pods'[p].state = "created" /\ pods'[p].volume = {}
        /\ pods'[p].template = TemplateOf(graphs[t][n].name, ServiceNodes, p.created)
    BY <1>3, <2>1, <2>4, <2>5
  <2> QED
    BY <1>1, <2>1, <2>3, <2>6, <2>7 DEF PodMade, Running, ServiceNodes
<1>5. \A q \in DOMAIN pods : q # p => PodMade(q)'
  BY <1>1, <1>3, PodAsItWas DEF MadeInv, PodsMade
<1> QED
  BY <1>3, <1>4, <1>5 DEF PodsMade

LEMMA MadeRemove == MadeInv /\ RemovePods => MadeInv'
<1> SUFFICES ASSUME MadeInv, NEW p \in DOMAIN pods, RemovePod(p) PROVE PodsMade'
  BY MadePods DEF RemovePods, RemovePod
<1>1. /\ clock' = clock /\ graphs' = graphs /\ objects' = objects
      /\ pods' = [q \in DOMAIN pods \ {p} |-> pods[q]]
  BY DEF RemovePod, Restrict
<1>2. \A q \in DOMAIN pods' : q \in DOMAIN pods /\ pods'[q] = pods[q]
  BY <1>1
<1> QED
  BY <1>1, <1>2, PodAsItWas DEF MadeInv, PodsMade

\* The config map of the cluster is that of one of the graphs.
LEMMA MountedIs ==
  ASSUME MadeInv, NEW p \in DOMAIN pods, NEW c \in Mounted(p)
  PROVE  c \in ConfigMaps
<1>1. CASE c \in pods[p].volume
  BY <1>1 DEF MadeInv, PodsMade, PodMade
<1>2. CASE ConfigMapKey \in DOMAIN objects /\ c = objects[ConfigMapKey]
  <2>1. PICK t \in 1 .. clock : c \in MadeAt(t)
    BY <1>2 DEF MadeInv, ObjectsMade
  <2>2. c.kind = "ConfigMap"
    <3>1. Key(c) = ConfigMapKey
      BY <1>2 DEF MadeInv, ObjectsMade
    <3> QED
      BY <3>1 DEF Key, ConfigMapKey
  <2> QED
    BY <2>1, <2>2, KindsAre DEF MadeAt, ConfigMaps
<1> QED
  BY <1>1, <1>2 DEF Mounted

LEMMA MadeStart == MadeInv /\ StartPods => MadeInv'
<1> SUFFICES ASSUME MadeInv, NEW p \in DOMAIN pods, Start(p) PROVE PodsMade'
  BY MadePods DEF StartPods, Start
<1>1. clock' = clock /\ graphs' = graphs /\ objects' = objects
  BY DEF Start
<1> DEFINE Served(c) == HandlerFromServiceGraphYAML(pods[p].template, c)
<1>2. PICK c \in Mounted(p) :
        pods' = [pods EXCEPT ![p] = [state |-> IF Served(c) = {} THEN "exited" ELSE "running",
                                     template |-> @.template, volume |-> {c}, serves |-> Served(c)]]
  BY DEF Start
<1>3. c \in ConfigMaps
  BY MountedIs
<1>4. /\ DOMAIN pods' = DOMAIN pods
      /\ pods'[p].state = (IF Served(c) = {} THEN "exited" ELSE "running")
      /\ pods'[p].template = pods[p].template
      /\ pods'[p].volume = {c} /\ pods'[p].serves = Served(c)
      /\ \A q \in DOMAIN pods : q # p => pods'[q] = pods[q]
  <2> HIDE DEF Served
  <2> QED
    BY <1>2
<1>5. PodMade(p)'
  <2>1. PodMade(p)
    BY DEF MadeInv, PodsMade
  <2>2. ConfigMaps' = ConfigMaps
    BY <1>1 DEF ConfigMaps
  <2>3. Running(p)' => pods'[p].serves # {}
    BY <1>4 DEF Running
  <2>4. pods'[p].serves = HandlerFromServiceGraphYAML(pods'[p].template, c)
    BY <1>4
  <2> QED
    BY <1>1, <1>3, <1>4, <2>1, <2>2, <2>3, <2>4 DEF PodMade, ServiceNodes
<1>6. \A q \in DOMAIN pods : q # p => PodMade(q)'
  BY <1>1, <1>4, PodAsItWas DEF MadeInv, PodsMade
<1> QED
  BY <1>4, <1>5, <1>6 DEF PodsMade

LEMMA MadeCrash == MadeInv /\ CrashPods => MadeInv'
<1> SUFFICES ASSUME MadeInv, NEW p \in DOMAIN pods, Crash(p) PROVE PodsMade'
  BY MadePods DEF CrashPods, Crash
<1>1. clock' = clock /\ graphs' = graphs /\ objects' = objects
  BY DEF Crash
<1>2. /\ DOMAIN pods' = DOMAIN pods
      /\ pods'[p].state = "exited" /\ pods'[p].template = pods[p].template
      /\ pods'[p].volume = pods[p].volume
      /\ \A q \in DOMAIN pods : q # p => pods'[q] = pods[q]
  BY DEF Crash
<1>3. PodMade(p)'
  <2>1. PodMade(p)
    BY DEF MadeInv, PodsMade
  <2>2. ConfigMaps' = ConfigMaps
    BY <1>1 DEF ConfigMaps
  <2> QED
    BY <1>1, <1>2, <2>1, <2>2 DEF PodMade, Running, ServiceNodes
<1>4. \A q \in DOMAIN pods : q # p => PodMade(q)'
  BY <1>1, <1>2, PodAsItWas DEF MadeInv, PodsMade
<1> QED
  BY <1>2, <1>3, <1>4 DEF PodsMade

LEMMA MadeInvariance == Spec => []MadeInv
<1>1. MadeInv /\ [Next]_vars => MadeInv'
  <2>1. MadeInv /\ UNCHANGED vars => MadeInv'
    <3> SUFFICES ASSUME MadeInv, UNCHANGED vars PROVE PodsMade'
      BY MadePods DEF vars
    <3>1. clock' = clock /\ graphs' = graphs /\ objects' = objects /\ pods' = pods
      BY DEF vars
    <3> QED
      BY <3>1, PodAsItWas DEF MadeInv, PodsMade
  <2> QED
    BY <2>1, MadeConvert, MadeApply, MadeDelete, MadeCreate, MadeRemove, MadeStart, MadeCrash DEF Next
<1> QED
  BY <1>1, MadeInit, PTL DEF Spec

-----------------------------------------------------------------------------
(* What a process reads                                                    *)

\* The pod's environment and volume lead the process to its service in the
\* graph as it is in the config map.
LEMMA HandlerReads ==
  ASSUME NEW name, NEW nodes, NEW time, NEW graph, NEW t
  PROVE  HandlerFromServiceGraphYAML(TemplateOf(name, nodes, time), MakeConfigMap(graph, t))
           = UNION {ExtractService(copy, name) : copy \in Unmarshal(Marshal(graph))}
<1> DEFINE template == TemplateOf(name, nodes, time)
           configMap == MakeConfigMap(graph, t)
           item == [key |-> ServiceGraphConfigMapKey, path |-> ServiceGraphYAMLFileName]
<1>1. template.env[ServiceNameEnvKey] = name
  BY DEF TemplateOf, PodTemplate
<1>2. template.volumes = {ConfigVolume}
  BY DEF TemplateOf, PodTemplate
<1>3. /\ configMap.spec.data = [k \in {ServiceGraphConfigMapKey} |-> Marshal(graph)]
  BY DEF MakeConfigMap, Manifest
<1>4. ConfigVolume.items = {item} /\ ConfigVolume.mountPath = ConfigPath
  BY DEF ConfigVolume
<1>5. item.key = ServiceGraphConfigMapKey /\ item.path = ServiceGraphYAMLFileName
  OBVIOUS
<1> HIDE DEF template, configMap, item
<1>6. /\ DOMAIN configMap.spec.data = {ServiceGraphConfigMapKey}
      /\ configMap.spec.data[ServiceGraphConfigMapKey] = Marshal(graph)
  BY <1>3
<1>7. {i \in ConfigVolume.items : /\ ConfigVolume.mountPath = ConfigPath
                                  /\ i.path = ServiceGraphYAMLFileName
                                  /\ i.key \in DOMAIN configMap.spec.data} = {item}
  BY <1>4, <1>5, <1>6
<1>8. ReadFile(template, configMap, ConfigPath, ServiceGraphYAMLFileName) = {Marshal(graph)}
  <2>1. UNION {{i \in v.items : /\ v.mountPath = ConfigPath
                                /\ i.path = ServiceGraphYAMLFileName
                                /\ i.key \in DOMAIN configMap.spec.data} : v \in template.volumes} = {item}
    BY <1>2, <1>7
  <2> QED
    BY <2>1, <1>5, <1>6 DEF ReadFile
<1> QED
  BY <1>1, <1>8 DEF HandlerFromServiceGraphYAML, template, configMap

\* The process serves the copy of a service of its Deployment's name, in the
\* graph of the config map that its pod has.
ServesCopy(s, name, graph) ==
  \E copy \in Unmarshal(Marshal(graph)) : EmulatesAll(copy, graph) /\ s \in ExtractService(copy, name)

Reads(p, t, name) ==
  /\ p.deployment = <<"Deployment", ServiceGraphNamespace, name>>
  /\ pods[p].volume = {MakeConfigMap(graphs[t], t)}
  /\ pods[p].serves # {} /\ AtMostOne(pods[p].serves)
  /\ \A s \in pods[p].serves : ServesCopy(s, name, graphs[t])

LEMMA ExtractsOne ==
  ASSUME NEW graph, DOMAIN graph \subseteq Nat \ {0}, NEW name
  PROVE  AtMostOne(ExtractService(graph, name))
<1> SUFFICES ASSUME NEW r \in ExtractService(graph, name), NEW s \in ExtractService(graph, name) PROVE r = s
  BY DEF AtMostOne
<1> DEFINE First(l) == /\ l \in DOMAIN graph /\ graph[l].name = name
                       /\ \A m \in 1 .. l - 1 : graph[m].name # name
<1>1. PICK k : First(k) /\ r = graph[k]
  BY DEF ExtractService
<1>2. PICK l : First(l) /\ s = graph[l]
  BY DEF ExtractService
<1>3. k \in Nat /\ l \in Nat /\ k >= 1 /\ l >= 1
  BY <1>1, <1>2
<1>4. k = l
  BY <1>1, <1>2, <1>3
<1> QED
  BY <1>1, <1>2, <1>4

LEMMA PodReads ==
  ASSUME MadeInv, NEW p \in DOMAIN pods, Running(p)
  PROVE  \E t \in 1 .. clock : \E name : Reads(p, t, name)
<1>1. PodMade(p)
  BY DEF MadeInv, PodsMade
<1>2. PICK c \in ConfigMaps :
        /\ pods[p].volume = {c}
        /\ pods[p].serves = HandlerFromServiceGraphYAML(pods[p].template, c)
        /\ pods[p].serves # {}
  BY <1>1 DEF PodMade
<1>3. PICK t \in 1 .. clock : c = MakeConfigMap(graphs[t], t)
  BY <1>2 DEF ConfigMaps
<1>4. PICK name :
        /\ p.deployment = <<"Deployment", ServiceGraphNamespace, name>>
        /\ pods[p].template = TemplateOf(name, ServiceNodes, p.created)
  BY <1>1 DEF PodMade
<1> DEFINE graph == graphs[t]
           copies == Unmarshal(Marshal(graph))
<1>5. pods[p].serves = UNION {ExtractService(copy, name) : copy \in copies}
  BY <1>2, <1>3, <1>4, HandlerReads
<1>6. (\E d \in Documents : graph \in Unmarshal(d)) /\ IsSequence(graph) /\ SizesFit(graph)
  BY GraphOfTime DEF MadeInv
<1>7. \A copy \in copies : EmulatesAll(copy, graph)
  BY <1>6, RoundTrip
<1>8. AtMostOne(copies)
  BY UnmarshalIsOne
<1> HIDE DEF copies
<1>9. \A copy \in copies : DOMAIN copy \subseteq Nat \ {0}
  BY <1>6, <1>7 DEF EmulatesAll, IsSequence
<1>10. AtMostOne(pods[p].serves)
  BY <1>5, <1>8, <1>9, ExtractsOne DEF AtMostOne
<1>11. \A s \in pods[p].serves : ServesCopy(s, name, graph)
  BY <1>5, <1>7 DEF ServesCopy, copies
<1> QED
  BY <1>2, <1>3, <1>4, <1>10, <1>11 DEF Reads

-----------------------------------------------------------------------------
(* The cluster                                                             *)

\* A pod's Deployment stays where it is, under its name.
LEMMA DeploymentOfPod ==
  ASSUME MadeInv, NEW k \in DOMAIN objects, NEW name, k = <<"Deployment", ServiceGraphNamespace, name>>
  PROVE  k \in Deployments /\ objects[k].name = name
<1>1. Key(objects[k]) = k
  BY DEF MadeInv, ObjectsMade
<1> QED
  BY <1>1 DEF Key, Deployments

\* The state is well-formed, for all documents and bounds: every object is
\* there under its own name and of a time that has been, every pod belongs to
\* a Deployment, and a process that runs has read one graph and found one
\* service in it.
THEOREM DeploymentTypeOK == Spec => []TypeOK
<1>1. MadeInv => TypeOK
  <2> SUFFICES ASSUME MadeInv PROVE TypeOK
    OBVIOUS
  <2>1. clock \in 0 .. MaxConversions /\ clock = Len(graphs) /\ applied \in 0 .. Len(file)
    BY DEF MadeInv, GraphsInv, FileMade
  <2>2. ASSUME NEW k \in DOMAIN objects
        PROVE  Key(objects[k]) = k /\ objects[k].created \in 1 .. clock
    <3>1. PICK t \in 1 .. clock : objects[k] \in MadeAt(t)
      BY DEF MadeInv, ObjectsMade
    <3>2. objects[k].created = t
      BY <3>1, MadeTimes DEF MadeAt
    <3> QED
      BY <3>2 DEF MadeInv, ObjectsMade
  <2>3. ASSUME NEW p \in DOMAIN pods
        PROVE  /\ p.deployment \in Deployments /\ p.created = pods[p].template.created
               /\ pods[p].state \in {"created", "running", "exited"}
    <3>1. PodMade(p)
      BY DEF MadeInv, PodsMade
    <3>2. PICK name :
            /\ p.deployment = <<"Deployment", ServiceGraphNamespace, name>>
            /\ pods[p].template = TemplateOf(name, ServiceNodes, p.created)
      BY <3>1 DEF PodMade
    <3>3. pods[p].template.created = p.created
      BY <3>2 DEF TemplateOf, PodTemplate
    <3> QED
      BY <3>1, <3>2, <3>3, DeploymentOfPod DEF PodMade
  <2>4. ASSUME NEW p \in DOMAIN pods, Running(p)
        PROVE  Cardinality(pods[p].serves) = 1 /\ Cardinality(pods[p].volume) = 1
    <3>1. PICK t \in 1 .. clock : \E name : Reads(p, t, name)
      BY <2>4, PodReads
    <3>a. PICK s \in pods[p].serves : TRUE
      BY <3>1 DEF Reads
    <3>2. pods[p].serves = {s}
      <4>1. \A r \in pods[p].serves : r = s
        BY <3>1, <3>a DEF Reads, AtMostOne
      <4> QED
        BY <3>a, <4>1
    <3>3. \E c : pods[p].volume = {c}
      BY <3>1 DEF Reads
    <3> QED
      BY <3>2, <3>3, FS_Singleton
  <2> QED
    BY <2>1, <2>2, <2>3, <2>4 DEF TypeOK
<1> QED
  BY <1>1, MadeInvariance, PTL

\* What a pod emulates is the service of its Deployment's name, in the graph
\* of the config map that it has read: for every document, however often the
\* file was converted, applied over another one and deleted.
THEOREM PodsEmulate == Spec => []PodsEmulateTheirService
<1>1. MadeInv => PodsEmulateTheirService
  <2> SUFFICES ASSUME MadeInv, NEW p \in DOMAIN pods, Running(p),
                      NEW c \in pods[p].volume, NEW s \in pods[p].serves
               PROVE  \E k \in DOMAIN graphs[c.created] :
                        /\ graphs[c.created][k].name = objects[p.deployment].name
                        /\ Emulates(s, graphs[c.created][k])
    BY DEF PodsEmulateTheirService
  <2>1. PICK t \in 1 .. clock : \E n : Reads(p, t, n)
    BY PodReads
  <2>2. PICK name : Reads(p, t, name)
    BY <2>1
  <2>3. c.created = t
    BY <2>2 DEF Reads, MakeConfigMap, Manifest
  <2>4. PICK copy \in Unmarshal(Marshal(graphs[t])) :
          EmulatesAll(copy, graphs[t]) /\ s \in ExtractService(copy, name)
    BY <2>2 DEF Reads, ServesCopy
  <2>5. PICK k \in DOMAIN copy : s = copy[k] /\ copy[k].name = name
    BY <2>4 DEF ExtractService
  <2>6. k \in DOMAIN graphs[t] /\ Emulates(s, graphs[t][k]) /\ graphs[t][k].name = name
    BY <2>4, <2>5 DEF EmulatesAll, Emulates
  <2>7. objects[p.deployment].name = name
    <3>1. p.deployment \in DOMAIN objects
      BY DEF MadeInv, PodsMade, PodMade
    <3> QED
      BY <2>2, <3>1, DeploymentOfPod DEF Reads
  <2> QED
    BY <2>3, <2>6, <2>7
<1> QED
  BY <1>1, MadeInvariance, PTL

-----------------------------------------------------------------------------
(* Who finds whom                                                          *)

\* Once the file is applied, each of its manifests that was not rejected is
\* there, or another of the same file that has its name.
LEMMA FileIsThere ==
  ASSUME MadeInv, Deployed, NEW i \in 1 .. Len(file), ~Rejected(Key(file[i]))
  PROVE  Key(file[i]) \in DOMAIN objects /\ objects[Key(file[i])] \in MadeAt(clock)
<1> DEFINE k == Key(file[i])
<1>1. k \in DOMAIN objects /\ objects[k].created = clock
  BY DEF Deployed, MadeInv, AppliedMade, IsThere
<1>2. PICK t \in 1 .. clock : objects[k] \in MadeAt(t)
  BY <1>1 DEF MadeInv, ObjectsMade
<1>3. objects[k].created = t
  BY <1>2, MadeTimes DEF MadeAt
<1> QED
  BY <1>1, <1>2, <1>3

\* The Deployment and the Service of a name.
DeploymentIsThere(name) ==
  /\ <<"Deployment", ServiceGraphNamespace, name>> \in DOMAIN objects
  /\ \E s : s.name = name /\ objects[<<"Deployment", ServiceGraphNamespace, name>>]
                               = MakeDeployment(s, ServiceNodes, clock)
ServiceIsThere(name) ==
  /\ <<"Service", ServiceGraphNamespace, name>> \in DOMAIN objects
  /\ \E s : s.name = name /\ objects[<<"Service", ServiceGraphNamespace, name>>] = MakeService(s, clock)

LEMMA FileOfClock ==
  ASSUME MadeInv, Deployed
  PROVE  /\ clock \in 1 .. clock /\ IsSequence(graphs[clock])
         /\ file = ServiceGraphToKubernetesManifests(graphs[clock], ServiceNodes, ClientNodes, clock)
<1>1. /\ clock \in 1 .. MaxConversions
      /\ file = ServiceGraphToKubernetesManifests(graphs[clock], ServiceNodes, ClientNodes, clock)
  BY DEF MadeInv, FileMade, Deployed
<1>2. clock \in 1 .. clock
  BY <1>1, BoundsAssumption
<1> QED
  BY <1>1, <1>2, GraphOfTime DEF MadeInv

LEMMA ServicesAreThere ==
  ASSUME MadeInv, Deployed, NEW k \in DOMAIN graphs[clock]
  PROVE  /\ ~Rejected(<<"Deployment", ServiceGraphNamespace, graphs[clock][k].name>>) =>
              DeploymentIsThere(graphs[clock][k].name)
         /\ ~Rejected(<<"Service", ServiceGraphNamespace, graphs[clock][k].name>>) =>
              ServiceIsThere(graphs[clock][k].name)
<1> DEFINE graph == graphs[clock]
           name == graph[k].name
           deployment == <<"Deployment", ServiceGraphNamespace, name>>
           service == <<"Service", ServiceGraphNamespace, name>>
<1>1. Len(graph) \in Nat /\ DOMAIN graph = 1 .. Len(graph)
  BY FileOfClock DEF IsSequence
<1>2. PICK n \in Nat : n = Len(graph)
  BY <1>1
<1>3. /\ Len(file) = 2 * n + 4
      /\ \A l \in 1 .. n : /\ file[2 * l + 1] = MakeDeployment(graph[l], ServiceNodes, clock)
                          /\ file[2 * l + 2] = MakeService(graph[l], clock)
  <2>1. IsSequence(graph) /\ file = ServiceGraphToKubernetesManifests(graph, ServiceNodes, ClientNodes, clock)
    BY FileOfClock
  <2> HIDE DEF graph
  <2>2. FileParts(file, n, graph, ServiceNodes, ClientNodes, clock)
    BY <1>2, <2>1, ManifestsWritten
  <2> QED
    BY <2>2 DEF FileParts
<1>4. /\ 2 * k + 1 \in 1 .. Len(file) /\ 2 * k + 2 \in 1 .. Len(file) /\ k \in 1 .. n
  BY <1>1, <1>2, <1>3
<1>5. Key(file[2 * k + 1]) = deployment /\ Key(file[2 * k + 2]) = service
  <2>1. Key(MakeDeployment(graph[k], ServiceNodes, clock)) = deployment
    BY DEF MakeDeployment, Manifest, Key
  <2>2. Key(MakeService(graph[k], clock)) = service
    BY DEF MakeService, Manifest, Key
  <2> QED
    BY <1>3, <1>4, <2>1, <2>2
<1>6. ASSUME ~Rejected(deployment) PROVE DeploymentIsThere(name)
  <2>1. deployment \in DOMAIN objects /\ objects[deployment] \in MadeAt(clock)
    BY <1>4, <1>5, <1>6, FileIsThere
  <2>2. Key(objects[deployment]) = deployment
    BY <2>1 DEF MadeInv, ObjectsMade
  <2>3. /\ objects[deployment].kind = "Deployment" /\ objects[deployment].namespace = ServiceGraphNamespace
        /\ objects[deployment].name = name
    BY <2>2 DEF Key
  <2>4. PICK l \in DOMAIN graph : objects[deployment] = MakeDeployment(graph[l], ServiceNodes, clock)
    BY <2>1, <2>3, KindsAre DEF MadeAt
  <2>5. MakeDeployment(graph[l], ServiceNodes, clock).name = graph[l].name
    BY DEF MakeDeployment, Manifest
  <2> QED
    BY <2>1, <2>3, <2>4, <2>5 DEF DeploymentIsThere
<1>7. ASSUME ~Rejected(service) PROVE ServiceIsThere(name)
  <2>1. service \in DOMAIN objects /\ objects[service] \in MadeAt(clock)
    BY <1>4, <1>5, <1>7, FileIsThere
  <2>2. Key(objects[service]) = service
    BY <2>1 DEF MadeInv, ObjectsMade
  <2>3. /\ objects[service].kind = "Service" /\ objects[service].namespace = ServiceGraphNamespace
        /\ objects[service].name = name
    BY <2>2 DEF Key
  <2>4. PICK l \in DOMAIN graph : objects[service] = MakeService(graph[l], clock)
    BY <2>1, <2>3, KindsAre DEF MadeAt
  <2>5. MakeService(graph[l], clock).name = graph[l].name
    BY DEF MakeService, Manifest
  <2> QED
    BY <2>1, <2>3, <2>4, <2>5 DEF ServiceIsThere
<1> QED
  BY <1>6, <1>7

\* What is there under a service's name can be called.
LEMMA ThereResolves ==
  ASSUME NEW name, ServiceIsThere(name), DeploymentIsThere(name) PROVE Resolves(name)
<1> DEFINE k == <<"Service", ServiceGraphNamespace, name>>
           l == <<"Deployment", ServiceGraphNamespace, name>>
<1>1. PICK s : s.name = name /\ objects[k] = MakeService(s, clock)
  BY DEF ServiceIsThere
<1>2. PICK d : d.name = name /\ objects[l] = MakeDeployment(d, ServiceNodes, clock)
  BY DEF DeploymentIsThere
<1>3. k \in DOMAIN objects /\ l \in DOMAIN objects
  BY DEF ServiceIsThere, DeploymentIsThere
<1>4. objects[k].spec.ports = {ServicePort} /\ objects[k].spec.selector = [name |-> name]
  BY <1>1 DEF MakeService, Manifest
<1>5. /\ objects[l].kind = "Deployment" /\ objects[l].namespace = ServiceGraphNamespace
      /\ objects[l].spec.template = TemplateOf(name, ServiceNodes, clock)
  BY <1>2 DEF MakeDeployment, Manifest
<1>6. /\ objects[l].spec.template.labels = [role |-> "service", name |-> name]
      /\ objects[l].spec.template.ports = {ServicePort}
  BY <1>5 DEF TemplateOf, PodTemplate, NodeLabels
<1>7. Selects([name |-> name], [role |-> "service", name |-> name])
  BY DEF Selects
<1>8. l \in Deployments
  BY <1>3, <1>5 DEF Deployments
<1>9. Selects(objects[k].spec.selector, objects[l].spec.template.labels)
  BY <1>4, <1>6, <1>7
<1>10. ServicePort \in objects[k].spec.ports /\ ServicePort \in objects[l].spec.template.ports
  BY <1>4, <1>6
<1> HIDE DEF l
<1> QED
  BY <1>3, <1>8, <1>9, <1>10 DEF Resolves

\* Once the file is applied, every call of an up-to-date process finds a
\* Service and a Deployment behind it, whatever the documents were and
\* whatever was deployed before, unless one of these two was rejected.
THEOREM AppliedCallsResolve == Spec => []CallsResolve
<1>1. MadeInv => CallsResolve
  <2> SUFFICES ASSUME MadeInv, Deployed, NEW p \in DOMAIN pods, UpToDatePod(p),
                      NEW s \in pods[p].serves, NEW i \in DOMAIN s.script,
                      NEW j \in DOMAIN Subcommands(s.script[i]),
                      Subcommands(s.script[i])[j].op = "call",
                      \A kind \in {"Service", "Deployment"} :
                        ~Rejected(<<kind, ServiceGraphNamespace, Subcommands(s.script[i])[j].service>>)
               PROVE  Resolves(Subcommands(s.script[i])[j].service)
    BY DEF CallsResolve
  <2> DEFINE callee == Subcommands(s.script[i])[j].service
             graph == graphs[clock]
  <2>1. PICK t \in 1 .. clock : \E n : Reads(p, t, n)
    BY PodReads DEF UpToDatePod
  <2>2. PICK name : Reads(p, t, name)
    BY <2>1
  <2>3. t = clock
    <3>1. MakeConfigMap(graphs[t], t) \in pods[p].volume
      BY <2>2 DEF Reads
    <3>2. MakeConfigMap(graphs[t], t).created = t
      BY DEF MakeConfigMap, Manifest
    <3> QED
      BY <3>1, <3>2 DEF UpToDatePod
  <2>4. PICK copy \in Unmarshal(Marshal(graph)) : EmulatesAll(copy, graph) /\ s \in ExtractService(copy, name)
    BY <2>2, <2>3 DEF Reads, ServesCopy
  <2>5. PICK l \in DOMAIN copy : s = copy[l]
    BY <2>4 DEF ExtractService
  <2>6. callee \in NamesOf(copy)
    <3>1. ValidScript(s.script, NamesOf(copy))
      BY <2>5, AcceptedIsValid
    <3> QED
      BY <3>1 DEF ValidScript
  <2>7. PICK k \in DOMAIN graph : callee = graph[k].name
    BY <2>4, <2>6 DEF NamesOf, EmulatesAll, Emulates
  <2>8. ~Rejected(<<"Service", ServiceGraphNamespace, callee>>)
        /\ ~Rejected(<<"Deployment", ServiceGraphNamespace, callee>>)
    OBVIOUS
  <2>9. ServiceIsThere(callee) /\ DeploymentIsThere(callee)
    <3> HIDE DEF callee
    <3> QED
      BY <2>7, <2>8, ServicesAreThere
  <2> QED
    BY <2>9, ThereResolves
<1> QED
  BY <1>1, MadeInvariance, PTL

\* The Service of the client.
ClientKey == <<"Service", DefaultNamespace, "client">>
LEMMA ClientIsThere ==
  ASSUME MadeInv, Deployed, ~Rejected(ClientKey)
  PROVE  ClientKey \in DOMAIN objects /\ objects[ClientKey] = MakeFortioService(clock)
<1> DEFINE graph == graphs[clock]
<1>1. IsSequence(graph) /\ file = ServiceGraphToKubernetesManifests(graph, ServiceNodes, ClientNodes, clock)
  BY FileOfClock
<1> HIDE DEF graph
<1>2. PICK n \in Nat : n = Len(graph)
  BY <1>1 DEF IsSequence
<1>3. FileParts(file, n, graph, ServiceNodes, ClientNodes, clock)
  BY <1>1, <1>2, ManifestsWritten
<1>4. Len(file) = 2 * n + 4 /\ file[2 * n + 4] = MakeFortioService(clock)
  BY <1>3 DEF FileParts
<1>5. Len(file) \in 1 .. Len(file)
  BY <1>2, <1>4
<1>6. Key(MakeFortioService(clock)) = ClientKey
  BY DEF MakeFortioService, Manifest, Key, ClientKey
<1>7. ClientKey \in DOMAIN objects /\ objects[ClientKey] \in MadeAt(clock)
  BY <1>4, <1>5, <1>6, FileIsThere
<1>8. Key(objects[ClientKey]) = ClientKey
  BY <1>7 DEF MadeInv, ObjectsMade
<1>9. objects[ClientKey].kind = "Service" /\ objects[ClientKey].namespace # ServiceGraphNamespace
  BY <1>8 DEF Key, ClientKey, DefaultNamespace, ServiceGraphNamespace
<1> QED
  BY <1>7, <1>9, KindsAre DEF MadeAt

\* Once the file is applied, Prometheus' monitors scrape the pods of all its
\* Deployments whose Services were not rejected, and the wait for readiness
\* selects the mock services'.
THEOREM AppliedPodsAreFound == Spec => []EveryPodIsFound
<1>1. MadeInv => EveryPodIsFound
  <2> SUFFICES ASSUME MadeInv, Deployed, NEW k \in DOMAIN objects,
                      objects[k].kind = "Deployment", objects[k].created = clock
               PROVE  /\ Scraped(k) \/ Rejected(<<"Service", objects[k].namespace, objects[k].name>>)
                      /\ k \in Deployments => Selects(ServiceSelector, objects[k].spec.template.labels)
    BY DEF EveryPodIsFound
  <2>1. objects[k] \in MadeAt(clock)
    <3>1. PICK t \in 1 .. clock : objects[k] \in MadeAt(t)
      BY DEF MadeInv, ObjectsMade
    <3>2. objects[k].created = t
      BY <3>1, MadeTimes DEF MadeAt
    <3> QED
      BY <3>1, <3>2
  <2>2. CASE objects[k].namespace = ServiceGraphNamespace
    <3>1. PICK n \in DOMAIN graphs[clock] : objects[k] = MakeDeployment(graphs[clock][n], ServiceNodes, clock)
      BY <2>1, <2>2, KindsAre DEF MadeAt
    <3> DEFINE name == graphs[clock][n].name
               l == <<"Service", ServiceGraphNamespace, name>>
               monitor == [port |-> 8080, namespace |-> "service-graph", selector |-> [app |-> "service-graph"]]
    <3>a. objects[k].namespace = ServiceGraphNamespace /\ objects[k].name = name
      BY <3>1 DEF MakeDeployment, Manifest
    <3>b. SUFFICES /\ ~Rejected(l) => Scraped(k)
                   /\ Selects(ServiceSelector, objects[k].spec.template.labels)
      BY <3>a
    <3>4. ASSUME ~Rejected(l)
          PROVE  /\ l \in DOMAIN objects
                 /\ objects[l].kind = "Service" /\ objects[l].namespace = "service-graph"
                 /\ objects[l].labels = [app |-> "service-graph"]
                 /\ objects[l].spec.selector = [name |-> name]
      <4>1. l \in DOMAIN objects /\ \E s : s.name = name /\ objects[l] = MakeService(s, clock)
        BY <3>4, ServicesAreThere DEF ServiceIsThere
      <4>2. PICK s : s.name = name /\ objects[l] = MakeService(s, clock)
        BY <4>1
      <4> QED
        BY <4>1, <4>2 DEF MakeService, Manifest, ServiceGraphNamespace, AppLabels
    <3>5. /\ objects[k].namespace = "service-graph"
          /\ objects[k].spec.template = TemplateOf(name, ServiceNodes, clock)
      BY <3>1 DEF MakeDeployment, Manifest, ServiceGraphNamespace
    <3>6. /\ objects[k].spec.template.labels = [role |-> "service", name |-> name]
          /\ objects[k].spec.template.ports = {8080}
      BY <3>5 DEF TemplateOf, PodTemplate, NodeLabels, ServicePort
    <3>7. /\ Selects([app |-> "service-graph"], [app |-> "service-graph"])
          /\ Selects([name |-> name], [role |-> "service", name |-> name])
          /\ Selects([role |-> "service"], [role |-> "service", name |-> name])
      BY DEF Selects
    <3>8. /\ monitor \in ServiceMonitors /\ monitor.port = 8080 /\ monitor.namespace = "service-graph"
          /\ monitor.selector = [app |-> "service-graph"]
      BY DEF ServiceMonitors
    <3> HIDE DEF monitor, l
    <3>9. ~Rejected(l) => Scraped(k)
      BY <3>4, <3>5, <3>6, <3>7, <3>8 DEF Scraped
    <3> QED
      BY <3>6, <3>7, <3>9 DEF ServiceSelector
  <2>3. CASE objects[k].namespace # ServiceGraphNamespace
    <3>1. objects[k] = MakeFortioDeployment(ClientNodes, clock)
      BY <2>1, <2>3, KindsAre DEF MadeAt
    <3> DEFINE labels == [app |-> "client"]
               monitor == [port |-> 42422, namespace |-> "default", selector |-> labels]
    <3>a. <<"Service", objects[k].namespace, objects[k].name>> = ClientKey
      BY <3>1 DEF MakeFortioDeployment, Manifest, ClientKey
    <3>b. k \notin Deployments
      BY <2>3 DEF Deployments
    <3>c. SUFFICES ASSUME ~Rejected(ClientKey) PROVE Scraped(k)
      BY <3>a, <3>b
    <3>2. ClientKey \in DOMAIN objects /\ objects[ClientKey] = MakeFortioService(clock)
      BY <3>c, ClientIsThere
    <3>3. /\ objects[ClientKey].kind = "Service" /\ objects[ClientKey].namespace = "default"
          /\ objects[ClientKey].labels = labels /\ objects[ClientKey].spec.selector = labels
      BY <3>2 DEF MakeFortioService, Manifest, DefaultNamespace, ClientLabels
    <3>4. /\ objects[k].namespace = "default"
          /\ objects[k].spec.template = PodTemplate(labels, clock, ClientNodes, <<>>, {}, {8080, 42422})
      BY <3>1 DEF MakeFortioDeployment, Manifest, DefaultNamespace, ClientLabels, ServicePort, FortioMetricsPort
    <3>5. objects[k].spec.template.labels = labels /\ objects[k].spec.template.ports = {8080, 42422}
      BY <3>4 DEF PodTemplate
    <3>6. Selects(labels, labels)
      BY DEF Selects
    <3>7. /\ monitor \in ServiceMonitors /\ monitor.port = 42422 /\ monitor.namespace = "default"
          /\ monitor.selector = labels
      BY DEF ServiceMonitors
    <3> HIDE DEF monitor, labels
    <3>8. Scraped(k)
      BY <3>2, <3>3, <3>4, <3>5, <3>6, <3>7 DEF Scraped
    <3> QED
      BY <3>8
  <2> QED
    BY <2>2, <2>3
<1> QED
  BY <1>1, MadeInvariance, PTL
=============================================================================
