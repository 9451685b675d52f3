--------------------------- MODULE PipelineProofs ---------------------------
(***************************************************************************)
(* Proofs about the test runner, for every plan.                           *)
(***************************************************************************)
EXTENDS Pipeline, TLAPS

\* Facts about the constants.
LEMMA PlanLength == Len(Plan) \in Nat
BY PlanAssumption

LEMMA PlanElements == \A i \in 1..Len(Plan) : Plan[i].topology \in Topologies
<1> TAKE i \in 1..Len(Plan)
<1>1. Plan[i] \in Tests
  BY PlanAssumption
<1> QED
  BY <1>1 DEF Tests

LEMMA NumberOfSteps == ClusterComplete \in Nat /\ 0 < ClusterComplete
BY DEF ClusterComplete, Steps

\* The definitions that every step needs.
USE DEF InManifest, InEnvironment, Outside, SettingUp, TearingDown, Deployed, Positions, InTest, LoadTest, Env,
        Namespaces, runner, deployment, istio, labels, client, resources

LEMMA InitIInv == Init => IInv
<1> SUFFICES ASSUME Init PROVE IInv
  OBVIOUS
<1> USE PlanLength, NumberOfSteps DEF Init
<1>1. ControlOK
  BY DEF ControlOK
<1>6. CountersOK
  BY DEF CountersOK
<1>5. ResourcesOK
  BY DEF ResourcesOK
<1>2. GraphInv
  BY DEF GraphInv
<1>3. MeshInv
  BY DEF MeshInv
<1>4. LabelsInv
  BY DEF LabelsInv
<1> QED
  BY <1>1, <1>2, <1>3, <1>4, <1>5, <1>6 DEF IInv, TypeOK

LEMMA Inductive == IInv /\ [Next]_vars => IInv'
<1> SUFFICES ASSUME IInv, [Next]_vars PROVE IInv'
  OBVIOUS
<1> USE PlanLength, NumberOfSteps
<1>1. CASE SetUpIfNotExists
  <2>1. ControlOK'
    BY <1>1 DEF IInv, TypeOK, ControlOK, SetUpIfNotExists
  <2>2. CountersOK'
    BY <1>1 DEF IInv, TypeOK, CountersOK, LabelsInv, SetUpIfNotExists
  <2>3. ResourcesOK'
    BY <1>1 DEF IInv, TypeOK, CountersOK, ResourcesOK, SetUpIfNotExists
  <2>4. GraphInv'
    BY <1>1 DEF IInv, TypeOK, ControlOK, CountersOK, ResourcesOK, GraphInv, MeshInv, SetUpIfNotExists
  <2>5. MeshInv'
    BY <1>1 DEF IInv, TypeOK, ControlOK, CountersOK, ResourcesOK, GraphInv, MeshInv, SetUpIfNotExists
  <2>6. LabelsInv'
    BY <1>1 DEF IInv, TypeOK, ControlOK, CountersOK, LabelsInv, SetUpIfNotExists
  <2> QED  BY <2>1, <2>2, <2>3, <2>4, <2>5, <2>6 DEF IInv, TypeOK
<1>2. CASE SetUp
  <2>1. ControlOK'
    BY <1>2 DEF IInv, TypeOK, ControlOK, SetUp
  <2>2. CountersOK'
    <3>1. cluster \in 0..ClusterComplete /\ cluster < ClusterComplete
      <4>1. pc = "set_up"
        BY <1>2 DEF SetUp
      <4> QED
        BY <4>1 DEF IInv, TypeOK, CountersOK
    <3>2. /\ cluster' \in 0..ClusterComplete
          /\ cluster' # ClusterComplete => cluster' < ClusterComplete
      <4>1. cluster' = cluster + 1
        BY <1>2 DEF SetUp
      <4> QED
        BY <3>1, <4>1
    <3>3. pc' = "set_up" => cluster' # ClusterComplete
      BY <1>2 DEF SetUp
    <3>4. pc' \notin InTest /\ UNCHANGED <<test, runs, release, inForce, loads>>
      BY <1>2 DEF SetUp
    <3> QED
      BY <3>2, <3>3, <3>4 DEF IInv, TypeOK, CountersOK
  <2>3. ResourcesOK'
    BY <1>2 DEF IInv, TypeOK, CountersOK, ResourcesOK, SetUp
  <2>4. GraphInv'
    BY <1>2 DEF IInv, TypeOK, ControlOK, CountersOK, ResourcesOK, GraphInv, MeshInv, SetUp
  <2>5. MeshInv'
    BY <1>2 DEF IInv, TypeOK, ControlOK, CountersOK, ResourcesOK, GraphInv, MeshInv, SetUp
  <2>6. LabelsInv'
    BY <1>2 DEF IInv, TypeOK, ControlOK, CountersOK, LabelsInv, SetUp
  <2> QED  BY <2>1, <2>2, <2>3, <2>4, <2>5, <2>6 DEF IInv, TypeOK
<1>3. CASE ForTest
  <2>1. ControlOK'
    BY <1>3 DEF IInv, TypeOK, ControlOK, ForTest
  <2>2. CountersOK'
    <3>1. UNCHANGED <<test, runs, cluster, release, inForce, loads>> /\ pc' # "set_up"
      BY <1>3 DEF ForTest
    <3>2. pc' \in InTest => ~ test > Len(Plan)
      BY <1>3 DEF ForTest
    <3>3. ~ test > Len(Plan) => test <= Len(Plan)
      BY DEF IInv, TypeOK, CountersOK
    <3> QED
      BY <3>1, <3>2, <3>3 DEF IInv, TypeOK, CountersOK
  <2>3. ResourcesOK'
    BY <1>3 DEF IInv, TypeOK, CountersOK, ResourcesOK, ForTest
  <2>4. GraphInv'
    BY <1>3 DEF IInv, TypeOK, ControlOK, CountersOK, ResourcesOK, GraphInv, MeshInv, ForTest
  <2>5. MeshInv'
    BY <1>3 DEF IInv, TypeOK, ControlOK, CountersOK, ResourcesOK, GraphInv, MeshInv, ForTest
  <2>6. LabelsInv'
    BY <1>3 DEF IInv, TypeOK, ControlOK, CountersOK, LabelsInv, ForTest
  <2> QED  BY <2>1, <2>2, <2>3, <2>4, <2>5, <2>6 DEF IInv, TypeOK
<1>4. CASE ApplyLabels
  <2>1. ControlOK'
    BY <1>4 DEF IInv, TypeOK, ControlOK, ApplyLabels
  <2>2. CountersOK'
    BY <1>4 DEF IInv, TypeOK, CountersOK, LabelsInv, ApplyLabels
  <2>3. ResourcesOK'
    BY <1>4 DEF IInv, TypeOK, CountersOK, ResourcesOK, ApplyLabels
  <2>4. GraphInv'
    BY <1>4 DEF IInv, TypeOK, ControlOK, CountersOK, ResourcesOK, GraphInv, MeshInv, ApplyLabels
  <2>5. MeshInv'
    BY <1>4 DEF IInv, TypeOK, ControlOK, CountersOK, ResourcesOK, GraphInv, MeshInv, ApplyLabels
  <2>6. LabelsInv'
    BY <1>4 DEF IInv, TypeOK, ControlOK, CountersOK, LabelsInv, ApplyLabels
  <2> QED  BY <2>1, <2>2, <2>3, <2>4, <2>5, <2>6 DEF IInv, TypeOK
<1>5. CASE AwaitReload
  <2>1. ControlOK'
    BY <1>5 DEF IInv, TypeOK, ControlOK, AwaitReload, EnterEnvironment
  <2>2. CountersOK'
    BY <1>5 DEF IInv, TypeOK, CountersOK, LabelsInv, AwaitReload, EnterEnvironment
  <2>3. ResourcesOK'
    BY <1>5 DEF IInv, TypeOK, CountersOK, ResourcesOK, AwaitReload, EnterEnvironment
  <2>4. GraphInv'
    BY <1>5 DEF IInv, TypeOK, ControlOK, CountersOK, ResourcesOK, GraphInv, MeshInv, AwaitReload, EnterEnvironment
  <2>5. MeshInv'
    BY <1>5 DEF IInv, TypeOK, ControlOK, CountersOK, ResourcesOK, GraphInv, MeshInv, AwaitReload, EnterEnvironment
  <2>6. LabelsInv'
    BY <1>5 DEF IInv, TypeOK, ControlOK, CountersOK, LabelsInv, AwaitReload, EnterEnvironment
  <2> QED  BY <2>1, <2>2, <2>3, <2>4, <2>5, <2>6 DEF IInv, TypeOK
<1>6. CASE UntilStatefulSetsAreReady
  <2>1. ControlOK'
    BY <1>6 DEF IInv, TypeOK, ControlOK, UntilStatefulSetsAreReady, EnterEnvironment
  <2>2. CountersOK'
    BY <1>6 DEF IInv, TypeOK, CountersOK, LabelsInv, UntilStatefulSetsAreReady, EnterEnvironment
  <2>3. ResourcesOK'
    BY <1>6 DEF IInv, TypeOK, CountersOK, ResourcesOK, UntilStatefulSetsAreReady, EnterEnvironment
  <2>4. GraphInv'
    BY <1>6 DEF IInv, TypeOK, ControlOK, CountersOK, ResourcesOK, GraphInv, MeshInv, UntilStatefulSetsAreReady, EnterEnvironment
  <2>5. MeshInv'
    BY <1>6 DEF IInv, TypeOK, ControlOK, CountersOK, ResourcesOK, GraphInv, MeshInv, UntilStatefulSetsAreReady, EnterEnvironment
  <2>6. LabelsInv'
    BY <1>6 DEF IInv, TypeOK, ControlOK, CountersOK, LabelsInv, UntilStatefulSetsAreReady, EnterEnvironment
  <2> QED  BY <2>1, <2>2, <2>3, <2>4, <2>5, <2>6 DEF IInv, TypeOK
<1>7. CASE Download
  <2>1. ControlOK'
    BY <1>7 DEF IInv, TypeOK, ControlOK, Download
  <2>2. CountersOK'
    BY <1>7 DEF IInv, TypeOK, CountersOK, LabelsInv, Download
  <2>3. ResourcesOK'
    BY <1>7 DEF IInv, TypeOK, CountersOK, ResourcesOK, Download
  <2>4. GraphInv'
    BY <1>7 DEF IInv, TypeOK, ControlOK, CountersOK, ResourcesOK, GraphInv, MeshInv, Download
  <2>5. MeshInv'
    BY <1>7 DEF IInv, TypeOK, ControlOK, CountersOK, ResourcesOK, GraphInv, MeshInv, Download
  <2>6. LabelsInv'
    BY <1>7 DEF IInv, TypeOK, ControlOK, CountersOK, LabelsInv, Download
  <2> QED  BY <2>1, <2>2, <2>3, <2>4, <2>5, <2>6 DEF IInv, TypeOK
<1>8. CASE CreateNamespace
  <2>0. ns'["service-graph"] = ns["service-graph"]
    BY <1>8 DEF IInv, TypeOK, ResourcesOK, CreateNamespace
  <2>1. ControlOK'
    BY <1>8 DEF IInv, TypeOK, ControlOK, CreateNamespace
  <2>2. CountersOK'
    BY <1>8 DEF IInv, TypeOK, CountersOK, LabelsInv, CreateNamespace
  <2>3. ResourcesOK'
    BY <1>8 DEF IInv, TypeOK, CountersOK, ResourcesOK, CreateNamespace
  <2>4. GraphInv'
    BY <1>8, <2>0 DEF IInv, GraphInv, CreateNamespace
  <2>5. MeshInv'
    BY <1>8 DEF IInv, TypeOK, ControlOK, CountersOK, ResourcesOK, GraphInv, MeshInv, CreateNamespace
  <2>6. LabelsInv'
    BY <1>8 DEF IInv, TypeOK, ControlOK, CountersOK, LabelsInv, CreateNamespace
  <2> QED  BY <2>1, <2>2, <2>3, <2>4, <2>5, <2>6 DEF IInv, TypeOK
<1>9. CASE Install
  <2>1. ControlOK'
    BY <1>9 DEF IInv, TypeOK, ControlOK, Install, Handler
  <2>2. CountersOK'
    BY <1>9 DEF IInv, TypeOK, CountersOK, LabelsInv, Install, Handler
  <2>3. ResourcesOK'
    BY <1>9 DEF IInv, TypeOK, CountersOK, ResourcesOK, Install, Handler
  <2>4. GraphInv'
    BY <1>9 DEF IInv, TypeOK, ControlOK, CountersOK, ResourcesOK, GraphInv, MeshInv, Install, Handler
  <2>5. MeshInv'
    BY <1>9 DEF IInv, TypeOK, ControlOK, CountersOK, ResourcesOK, GraphInv, MeshInv, Install, Handler
  <2>6. LabelsInv'
    BY <1>9 DEF IInv, TypeOK, ControlOK, CountersOK, LabelsInv, Install, Handler
  <2> QED  BY <2>1, <2>2, <2>3, <2>4, <2>5, <2>6 DEF IInv, TypeOK
<1>10. CASE UntilIstioIsDeployed
  <2>1. ControlOK'
    BY <1>10 DEF IInv, TypeOK, ControlOK, UntilIstioIsDeployed
  <2>2. CountersOK'
    BY <1>10 DEF IInv, TypeOK, CountersOK, LabelsInv, UntilIstioIsDeployed
  <2>3. ResourcesOK'
    BY <1>10 DEF IInv, TypeOK, CountersOK, ResourcesOK, UntilIstioIsDeployed
  <2>4. GraphInv'
    BY <1>10 DEF IInv, TypeOK, ControlOK, CountersOK, ResourcesOK, GraphInv, MeshInv, UntilIstioIsDeployed
  <2>5. MeshInv'
    BY <1>10 DEF IInv, TypeOK, ControlOK, CountersOK, ResourcesOK, GraphInv, MeshInv, UntilIstioIsDeployed
  <2>6. LabelsInv'
    BY <1>10 DEF IInv, TypeOK, ControlOK, CountersOK, LabelsInv, UntilIstioIsDeployed
  <2> QED  BY <2>1, <2>2, <2>3, <2>4, <2>5, <2>6 DEF IInv, TypeOK
<1>11. CASE IngressRules
  <2>1. ControlOK'
    BY <1>11 DEF IInv, TypeOK, ControlOK, IngressRules
  <2>2. CountersOK'
    BY <1>11 DEF IInv, TypeOK, CountersOK, LabelsInv, IngressRules
  <2>3. ResourcesOK'
    BY <1>11 DEF IInv, TypeOK, CountersOK, ResourcesOK, IngressRules
  <2>4. GraphInv'
    BY <1>11 DEF IInv, TypeOK, ControlOK, CountersOK, ResourcesOK, GraphInv, MeshInv, IngressRules
  <2>5. MeshInv'
    BY <1>11 DEF IInv, TypeOK, ControlOK, CountersOK, ResourcesOK, GraphInv, MeshInv, IngressRules
  <2>6. LabelsInv'
    BY <1>11 DEF IInv, TypeOK, ControlOK, CountersOK, LabelsInv, IngressRules
  <2> QED  BY <2>1, <2>2, <2>3, <2>4, <2>5, <2>6 DEF IInv, TypeOK
<1>12. CASE IngressURL
  <2>1. ControlOK'
    BY <1>12 DEF IInv, TypeOK, ControlOK, IngressURL
  <2>2. CountersOK'
    BY <1>12 DEF IInv, TypeOK, CountersOK, LabelsInv, IngressURL
  <2>3. ResourcesOK'
    BY <1>12 DEF IInv, TypeOK, CountersOK, ResourcesOK, IngressURL
  <2>4. GraphInv'
    BY <1>12 DEF IInv, TypeOK, ControlOK, CountersOK, ResourcesOK, GraphInv, MeshInv, IngressURL
  <2>5. MeshInv'
    BY <1>12 DEF IInv, TypeOK, ControlOK, CountersOK, ResourcesOK, GraphInv, MeshInv, IngressURL
  <2>6. LabelsInv'
    BY <1>12 DEF IInv, TypeOK, ControlOK, CountersOK, LabelsInv, IngressURL
  <2> QED  BY <2>1, <2>2, <2>3, <2>4, <2>5, <2>6 DEF IInv, TypeOK
<1>13. CASE ApplyFile
  <2>1. ControlOK'
    BY <1>13 DEF IInv, TypeOK, ControlOK, ApplyFile, Handler
  <2>2. CountersOK'
    BY <1>13 DEF IInv, TypeOK, CountersOK, LabelsInv, ApplyFile, Handler
  <2>3. ResourcesOK'
    <3>1. Plan[test].topology \in Topologies
      BY <1>13, PlanElements DEF IInv, TypeOK, CountersOK, ApplyFile
    <3>2. ns' \in [Namespaces -> {"absent", "active", "terminating"}]
      BY <1>13 DEF IInv, TypeOK, ResourcesOK, ApplyFile
    <3>3. graph' \subseteq Topologies /\ injected' \in BOOLEAN
      BY <1>13, <3>1 DEF IInv, TypeOK, ResourcesOK, ApplyFile
    <3>4. pods' \in [Pods -> {"pending", "unready", "ready"}]
      BY <1>13 DEF IInv, TypeOK, ResourcesOK, ApplyFile
    <3>5. UNCHANGED <<istio, api, forward, abandoned>>
      BY <1>13 DEF ApplyFile
    <3> QED
      BY <3>2, <3>3, <3>4, <3>5 DEF IInv, TypeOK, ResourcesOK
  <2>4. GraphInv'
    BY <1>13 DEF IInv, TypeOK, ControlOK, CountersOK, ResourcesOK, GraphInv, MeshInv, ApplyFile, Handler
  <2>5. MeshInv'
    BY <1>13 DEF IInv, TypeOK, ControlOK, CountersOK, ResourcesOK, GraphInv, MeshInv, ApplyFile, Handler
  <2>6. LabelsInv'
    BY <1>13 DEF IInv, TypeOK, ControlOK, CountersOK, LabelsInv, ApplyFile, Handler
  <2> QED  BY <2>1, <2>2, <2>3, <2>4, <2>5, <2>6 DEF IInv, TypeOK
<1>14. CASE UntilDeploymentsAreReady
  <2>1. ControlOK'
    BY <1>14 DEF IInv, TypeOK, ControlOK, UntilDeploymentsAreReady
  <2>2. CountersOK'
    BY <1>14 DEF IInv, TypeOK, CountersOK, LabelsInv, UntilDeploymentsAreReady
  <2>3. ResourcesOK'
    BY <1>14 DEF IInv, TypeOK, CountersOK, ResourcesOK, UntilDeploymentsAreReady
  <2>4. GraphInv'
    BY <1>14 DEF IInv, TypeOK, ControlOK, CountersOK, ResourcesOK, GraphInv, MeshInv, UntilDeploymentsAreReady
  <2>5. MeshInv'
    BY <1>14 DEF IInv, TypeOK, ControlOK, CountersOK, ResourcesOK, GraphInv, MeshInv, UntilDeploymentsAreReady
  <2>6. LabelsInv'
    BY <1>14 DEF IInv, TypeOK, ControlOK, CountersOK, LabelsInv, UntilDeploymentsAreReady
  <2> QED  BY <2>1, <2>2, <2>3, <2>4, <2>5, <2>6 DEF IInv, TypeOK
<1>15. CASE UntilServiceGraphIsReady
  <2>1. ControlOK'
    BY <1>15 DEF IInv, TypeOK, ControlOK, UntilServiceGraphIsReady
  <2>2. CountersOK'
    BY <1>15 DEF IInv, TypeOK, CountersOK, LabelsInv, UntilServiceGraphIsReady
  <2>3. ResourcesOK'
    BY <1>15 DEF IInv, TypeOK, CountersOK, ResourcesOK, UntilServiceGraphIsReady
  <2>4. GraphInv'
    BY <1>15 DEF IInv, TypeOK, ControlOK, CountersOK, ResourcesOK, GraphInv, MeshInv, UntilServiceGraphIsReady
  <2>5. MeshInv'
    BY <1>15 DEF IInv, TypeOK, ControlOK, CountersOK, ResourcesOK, GraphInv, MeshInv, UntilServiceGraphIsReady
  <2>6. LabelsInv'
    BY <1>15 DEF IInv, TypeOK, ControlOK, CountersOK, LabelsInv, UntilServiceGraphIsReady
  <2> QED  BY <2>1, <2>2, <2>3, <2>4, <2>5, <2>6 DEF IInv, TypeOK
<1>16. CASE PortForward
  <2>1. ControlOK'
    BY <1>16 DEF IInv, TypeOK, ControlOK, PortForward, Forwarding
  <2>2. CountersOK'
    BY <1>16 DEF IInv, TypeOK, CountersOK, LabelsInv, PortForward, Forwarding
  <2>3. ResourcesOK'
    BY <1>16 DEF IInv, TypeOK, CountersOK, ResourcesOK, PortForward, Forwarding
  <2>4. GraphInv'
    BY <1>16 DEF IInv, TypeOK, ControlOK, CountersOK, ResourcesOK, GraphInv, MeshInv, PortForward, Forwarding
  <2>5. MeshInv'
    BY <1>16 DEF IInv, TypeOK, ControlOK, CountersOK, ResourcesOK, GraphInv, MeshInv, PortForward, Forwarding
  <2>6. LabelsInv'
    BY <1>16 DEF IInv, TypeOK, ControlOK, CountersOK, LabelsInv, PortForward, Forwarding
  <2> QED  BY <2>1, <2>2, <2>3, <2>4, <2>5, <2>6 DEF IInv, TypeOK
<1>17. CASE SendGET
  <2>1. ControlOK'
    BY <1>17 DEF IInv, TypeOK, ControlOK, SendGET
  <2>2. CountersOK'
    BY <1>17 DEF IInv, TypeOK, CountersOK, LabelsInv, SendGET
  <2>3. ResourcesOK'
    BY <1>17 DEF IInv, TypeOK, CountersOK, ResourcesOK, SendGET
  <2>4. GraphInv'
    BY <1>17 DEF IInv, TypeOK, ControlOK, CountersOK, ResourcesOK, GraphInv, MeshInv, SendGET
  <2>5. MeshInv'
    BY <1>17 DEF IInv, TypeOK, ControlOK, CountersOK, ResourcesOK, GraphInv, MeshInv, SendGET
  <2>6. LabelsInv'
    BY <1>17 DEF IInv, TypeOK, ControlOK, CountersOK, LabelsInv, SendGET
  <2> QED  BY <2>1, <2>2, <2>3, <2>4, <2>5, <2>6 DEF IInv, TypeOK
<1>18. CASE LoseAnswer
  <2>1. ControlOK'
    BY <1>18 DEF IInv, TypeOK, ControlOK, LoseAnswer
  <2>2. CountersOK'
    BY <1>18 DEF IInv, TypeOK, CountersOK, LabelsInv, LoseAnswer
  <2>3. ResourcesOK'
    BY <1>18 DEF IInv, TypeOK, CountersOK, ResourcesOK, LoseAnswer
  <2>4. GraphInv'
    BY <1>18 DEF IInv, TypeOK, ControlOK, CountersOK, ResourcesOK, GraphInv, MeshInv, LoseAnswer
  <2>5. MeshInv'
    BY <1>18 DEF IInv, TypeOK, ControlOK, CountersOK, ResourcesOK, GraphInv, MeshInv, LoseAnswer
  <2>6. LabelsInv'
    BY <1>18 DEF IInv, TypeOK, ControlOK, CountersOK, LabelsInv, LoseAnswer
  <2> QED  BY <2>1, <2>2, <2>3, <2>4, <2>5, <2>6 DEF IInv, TypeOK
<1>19. CASE HTTPGet
  <2>1. ControlOK'
    BY <1>19 DEF IInv, TypeOK, ControlOK, HTTPGet
  <2>2. CountersOK'
    BY <1>19 DEF IInv, TypeOK, CountersOK, LabelsInv, HTTPGet
  <2>3. ResourcesOK'
    BY <1>19 DEF IInv, TypeOK, CountersOK, ResourcesOK, HTTPGet
  <2>4. GraphInv'
    BY <1>19 DEF IInv, TypeOK, ControlOK, CountersOK, ResourcesOK, GraphInv, MeshInv, HTTPGet
  <2>5. MeshInv'
    BY <1>19 DEF IInv, TypeOK, ControlOK, CountersOK, ResourcesOK, GraphInv, MeshInv, HTTPGet
  <2>6. LabelsInv'
    BY <1>19 DEF IInv, TypeOK, ControlOK, CountersOK, LabelsInv, HTTPGet
  <2> QED  BY <2>1, <2>2, <2>3, <2>4, <2>5, <2>6 DEF IInv, TypeOK
<1>20. CASE OpenFile
  <2>1. ControlOK'
    BY <1>20 DEF IInv, TypeOK, ControlOK, OpenFile
  <2>2. CountersOK'
    BY <1>20 DEF IInv, TypeOK, CountersOK, LabelsInv, OpenFile
  <2>3. ResourcesOK'
    BY <1>20 DEF IInv, TypeOK, CountersOK, ResourcesOK, OpenFile
  <2>4. GraphInv'
    BY <1>20 DEF IInv, TypeOK, ControlOK, CountersOK, ResourcesOK, GraphInv, MeshInv, OpenFile
  <2>5. MeshInv'
    BY <1>20 DEF IInv, TypeOK, ControlOK, CountersOK, ResourcesOK, GraphInv, MeshInv, OpenFile
  <2>6. LabelsInv'
    BY <1>20 DEF IInv, TypeOK, ControlOK, CountersOK, LabelsInv, OpenFile
  <2> QED  BY <2>1, <2>2, <2>3, <2>4, <2>5, <2>6 DEF IInv, TypeOK
<1>21. CASE WriteFile
  <2>1. ControlOK'
    BY <1>21 DEF IInv, TypeOK, ControlOK, WriteFile
  <2>2. CountersOK'
    BY <1>21 DEF IInv, TypeOK, CountersOK, LabelsInv, WriteFile
  <2>3. ResourcesOK'
    BY <1>21 DEF IInv, TypeOK, CountersOK, ResourcesOK, WriteFile
  <2>4. GraphInv'
    BY <1>21 DEF IInv, TypeOK, ControlOK, CountersOK, ResourcesOK, GraphInv, MeshInv, WriteFile
  <2>5. MeshInv'
    BY <1>21 DEF IInv, TypeOK, ControlOK, CountersOK, ResourcesOK, GraphInv, MeshInv, WriteFile
  <2>6. LabelsInv'
    BY <1>21 DEF IInv, TypeOK, ControlOK, CountersOK, LabelsInv, WriteFile
  <2> QED  BY <2>1, <2>2, <2>3, <2>4, <2>5, <2>6 DEF IInv, TypeOK
<1>22. CASE UntilPrometheusHasScraped
  <2>1. ControlOK'
    BY <1>22 DEF IInv, TypeOK, ControlOK, UntilPrometheusHasScraped
  <2>2. CountersOK'
    BY <1>22 DEF IInv, TypeOK, CountersOK, LabelsInv, UntilPrometheusHasScraped
  <2>3. ResourcesOK'
    BY <1>22 DEF IInv, TypeOK, CountersOK, ResourcesOK, UntilPrometheusHasScraped
  <2>4. GraphInv'
    BY <1>22 DEF IInv, TypeOK, ControlOK, CountersOK, ResourcesOK, GraphInv, MeshInv, UntilPrometheusHasScraped
  <2>5. MeshInv'
    BY <1>22 DEF IInv, TypeOK, ControlOK, CountersOK, ResourcesOK, GraphInv, MeshInv, UntilPrometheusHasScraped
  <2>6. LabelsInv'
    BY <1>22 DEF IInv, TypeOK, ControlOK, CountersOK, LabelsInv, UntilPrometheusHasScraped
  <2> QED  BY <2>1, <2>2, <2>3, <2>4, <2>5, <2>6 DEF IInv, TypeOK
<1>23. CASE DeleteFile
  <2>a. /\ ns' \in [Namespaces -> {"absent", "active", "terminating"}]
        /\ ns'["istio-system"] = ns["istio-system"]
        /\ ns'["service-graph"] = "active" => "manifest" \in abandoned'
        /\ ns["service-graph"] # "active" => ns'["service-graph"] = ns["service-graph"]
        /\ ns'["service-graph"] = "absent" => ns["service-graph"] = "absent"
    <3>1. ns \in [Namespaces -> {"absent", "active", "terminating"}]
      BY DEF IInv, TypeOK, ResourcesOK
    <3>2. CASE ns' = [ns EXCEPT !["service-graph"] = "terminating"]
      BY <3>1, <3>2, <1>23 DEF DeleteFile, DeleteOrAbandon
    <3>3. CASE ns' = ns
      BY <3>1, <3>3, <1>23 DEF DeleteFile, DeleteOrAbandon
    <3> QED
      BY <3>2, <3>3, <1>23 DEF DeleteFile, DeleteOrAbandon
  <2>b. /\ abandoned' \in SUBSET {"manifest", "mesh", "istio-system"}
        /\ "mesh" \in abandoned => "mesh" \in abandoned'
        /\ "istio-system" \in abandoned => "istio-system" \in abandoned'
    <3>1. abandoned \in SUBSET {"manifest", "mesh", "istio-system"}
      BY DEF IInv, TypeOK, ResourcesOK
    <3>2. \/ abandoned' = abandoned \ {"manifest"}
          \/ abandoned' = abandoned \cup {"manifest"}
          \/ abandoned' = abandoned
      BY <1>23 DEF DeleteFile, DeleteOrAbandon
    <3> QED
      BY <3>1, <3>2
  <2>c. /\ UNCHANGED <<test, graph, pods, injected, istio, api, forward>>
        /\ pc = "delete_file"
        /\ \/ Env = "ISTIO" /\ pc' = "tear_down"
           \/ Env # "ISTIO" /\ pc' = "exited"
           \/ pc' = "until_namespace_is_deleted"
    BY <1>23 DEF DeleteFile, AfterManifest
  <2>1. ControlOK'
    BY <1>23 DEF IInv, TypeOK, ControlOK, DeleteFile, AfterManifest, DeleteOrAbandon
  <2>2. CountersOK'
    BY <1>23 DEF IInv, TypeOK, CountersOK, LabelsInv, DeleteFile, AfterManifest, DeleteOrAbandon
  <2>3. ResourcesOK'
    BY <2>a, <2>b, <2>c DEF IInv, TypeOK, ResourcesOK
  <2>4. GraphInv'
    BY <2>a, <2>c DEF IInv, GraphInv
  <2>5. MeshInv'
    BY <2>a, <2>b, <2>c DEF IInv, MeshInv
  <2>6. LabelsInv'
    BY <1>23 DEF IInv, TypeOK, ControlOK, CountersOK, LabelsInv, DeleteFile, AfterManifest, DeleteOrAbandon
  <2> QED  BY <2>1, <2>2, <2>3, <2>4, <2>5, <2>6 DEF IInv, TypeOK
<1>24. CASE UntilNamespaceIsDeleted
  <2>1. ControlOK'
    BY <1>24 DEF IInv, TypeOK, ControlOK, UntilNamespaceIsDeleted, AfterWait, EndTest
  <2>2. CountersOK'
    <3>1. test <= Len(Plan) /\ UNCHANGED <<runs, cluster, release, inForce, loads>> /\ pc' # "set_up"
      BY <1>24 DEF IInv, TypeOK, CountersOK, UntilNamespaceIsDeleted, AfterWait, EndTest
    <3>2. \/ test' = test
          \/ test' = test + 1 /\ pc' = "for test"
      BY <1>24 DEF UntilNamespaceIsDeleted, AfterWait, EndTest
    <3>3. test' \in 1..(Len(Plan) + 1)
      <4>1. test \in 1..(Len(Plan) + 1)
        BY DEF IInv, TypeOK, CountersOK
      <4>2. test' = test \/ test' = test + 1
        BY <3>2
      <4> QED
        BY <3>1, <4>1, <4>2
    <3>4. pc' \in InTest => test' <= Len(Plan)
      BY <3>1, <3>2
    <3> QED
      BY <3>1, <3>3, <3>4 DEF IInv, TypeOK, CountersOK
  <2>3. ResourcesOK'
    BY <1>24 DEF IInv, TypeOK, CountersOK, ResourcesOK, UntilNamespaceIsDeleted, AfterWait, EndTest
  <2>4. GraphInv'
    BY <1>24 DEF IInv, TypeOK, ControlOK, CountersOK, ResourcesOK, GraphInv, MeshInv, UntilNamespaceIsDeleted, AfterWait, EndTest
  <2>5. MeshInv'
    BY <1>24 DEF IInv, TypeOK, ControlOK, CountersOK, ResourcesOK, GraphInv, MeshInv, UntilNamespaceIsDeleted, AfterWait, EndTest
  <2>6. LabelsInv'
    BY <1>24 DEF IInv, TypeOK, ControlOK, CountersOK, LabelsInv, UntilNamespaceIsDeleted, AfterWait, EndTest
  <2> QED  BY <2>1, <2>2, <2>3, <2>4, <2>5, <2>6 DEF IInv, TypeOK
<1>25. CASE TearDown
  <2>a. /\ UNCHANGED <<test, ns, graph, injected>>
        /\ pc = "tear_down" /\ pc' = "delete_namespace"
    BY <1>25 DEF TearDown
  <2>b. /\ "manifest" \in abandoned => "manifest" \in abandoned'
        /\ "istio-system" \in abandoned => "istio-system" \in abandoned'
        /\ mesh' # "absent" => "mesh" \in abandoned'
    BY <1>25 DEF TearDown
  <2>1. ControlOK'
    BY <1>25 DEF IInv, TypeOK, ControlOK, TearDown
  <2>2. CountersOK'
    BY <1>25 DEF IInv, TypeOK, CountersOK, LabelsInv, TearDown
  <2>3. ResourcesOK'
    BY <1>25 DEF IInv, TypeOK, CountersOK, ResourcesOK, TearDown
  <2>4. GraphInv'
    BY <2>a, <2>b DEF IInv, GraphInv
  <2>5. MeshInv'
    BY <2>a, <2>b DEF IInv, MeshInv
  <2>6. LabelsInv'
    BY <1>25 DEF IInv, TypeOK, ControlOK, CountersOK, LabelsInv, TearDown
  <2> QED  BY <2>1, <2>2, <2>3, <2>4, <2>5, <2>6 DEF IInv, TypeOK
<1>26. CASE DeleteNamespace
  <2>a. /\ ns' \in [Namespaces -> {"absent", "active", "terminating"}]
        /\ ns'["service-graph"] = ns["service-graph"]
        /\ ns'["istio-system"] = "active" => "istio-system" \in abandoned'
    <3>1. ns \in [Namespaces -> {"absent", "active", "terminating"}]
      BY DEF IInv, TypeOK, ResourcesOK
    <3>2. CASE ns' = [ns EXCEPT !["istio-system"] = "terminating"]
      BY <3>1, <3>2, <1>26 DEF DeleteNamespace
    <3>3. CASE ns' = ns
      BY <3>1, <3>3, <1>26 DEF DeleteNamespace
    <3> QED
      BY <3>2, <3>3, <1>26 DEF DeleteNamespace
  <2>b. /\ abandoned' \in SUBSET {"manifest", "mesh", "istio-system"}
        /\ "manifest" \in abandoned => "manifest" \in abandoned'
        /\ "mesh" \in abandoned => "mesh" \in abandoned'
    <3>1. abandoned \in SUBSET {"manifest", "mesh", "istio-system"}
      BY DEF IInv, TypeOK, ResourcesOK
    <3>2. \/ abandoned' = abandoned \ {"istio-system"}
          \/ abandoned' = abandoned \cup {"istio-system"}
          \/ abandoned' = abandoned
      BY <1>26 DEF DeleteNamespace
    <3> QED
      BY <3>1, <3>2
  <2>c. /\ UNCHANGED <<test, graph, pods, injected, istio, api, forward>>
        /\ pc = "delete_namespace" /\ pc' = "until_torn_down"
    BY <1>26 DEF DeleteNamespace
  <2>1. ControlOK'
    BY <1>26 DEF IInv, TypeOK, ControlOK, DeleteNamespace
  <2>2. CountersOK'
    BY <1>26 DEF IInv, TypeOK, CountersOK, LabelsInv, DeleteNamespace
  <2>3. ResourcesOK'
    BY <2>a, <2>b, <2>c DEF IInv, TypeOK, ResourcesOK
  <2>4. GraphInv'
    BY <2>a, <2>b, <2>c DEF IInv, GraphInv
  <2>5. MeshInv'
    BY <2>a, <2>b, <2>c DEF IInv, MeshInv
  <2>6. LabelsInv'
    BY <1>26 DEF IInv, TypeOK, ControlOK, CountersOK, LabelsInv, DeleteNamespace
  <2> QED  BY <2>1, <2>2, <2>3, <2>4, <2>5, <2>6 DEF IInv, TypeOK
<1>27. CASE UntilTornDown
  <2>1. ControlOK'
    BY <1>27 DEF IInv, TypeOK, ControlOK, UntilTornDown, AfterWait, EndTest
  <2>2. CountersOK'
    <3>1. test <= Len(Plan) /\ UNCHANGED <<runs, cluster, release, inForce, loads>> /\ pc' # "set_up"
      BY <1>27 DEF IInv, TypeOK, CountersOK, UntilTornDown, AfterWait, EndTest
    <3>2. \/ test' = test
          \/ test' = test + 1 /\ pc' = "for test"
      BY <1>27 DEF UntilTornDown, AfterWait, EndTest
    <3>3. test' \in 1..(Len(Plan) + 1)
      <4>1. test \in 1..(Len(Plan) + 1)
        BY DEF IInv, TypeOK, CountersOK
      <4>2. test' = test \/ test' = test + 1
        BY <3>2
      <4> QED
        BY <3>1, <4>1, <4>2
    <3>4. pc' \in InTest => test' <= Len(Plan)
      BY <3>1, <3>2
    <3> QED
      BY <3>1, <3>3, <3>4 DEF IInv, TypeOK, CountersOK
  <2>3. ResourcesOK'
    BY <1>27 DEF IInv, TypeOK, CountersOK, ResourcesOK, UntilTornDown, AfterWait, EndTest
  <2>4. GraphInv'
    BY <1>27 DEF IInv, TypeOK, ControlOK, CountersOK, ResourcesOK, GraphInv, MeshInv, UntilTornDown, AfterWait, EndTest
  <2>5. MeshInv'
    BY <1>27 DEF IInv, TypeOK, ControlOK, CountersOK, ResourcesOK, GraphInv, MeshInv, UntilTornDown, AfterWait, EndTest
  <2>6. LabelsInv'
    BY <1>27 DEF IInv, TypeOK, ControlOK, CountersOK, LabelsInv, UntilTornDown, AfterWait, EndTest
  <2> QED  BY <2>1, <2>2, <2>3, <2>4, <2>5, <2>6 DEF IInv, TypeOK
<1>28. CASE Raise
  <2>1. ControlOK'
    BY <1>28 DEF IInv, TypeOK, ControlOK, Raise, Handler
  <2>2. CountersOK'
    BY <1>28 DEF IInv, TypeOK, CountersOK, LabelsInv, Raise, Handler
  <2>3. ResourcesOK'
    BY <1>28 DEF IInv, TypeOK, CountersOK, ResourcesOK, Raise, Handler
  <2>4. GraphInv'
    BY <1>28 DEF IInv, TypeOK, ControlOK, CountersOK, ResourcesOK, GraphInv, MeshInv, Raise, Handler
  <2>5. MeshInv'
    BY <1>28 DEF IInv, TypeOK, ControlOK, CountersOK, ResourcesOK, GraphInv, MeshInv, Raise, Handler
  <2>6. LabelsInv'
    BY <1>28 DEF IInv, TypeOK, ControlOK, CountersOK, LabelsInv, Raise, Handler
  <2> QED  BY <2>1, <2>2, <2>3, <2>4, <2>5, <2>6 DEF IInv, TypeOK
<1>29. CASE RaiseInFinally
  <2>1. ControlOK'
    BY <1>29 DEF IInv, TypeOK, ControlOK, RaiseInFinally
  <2>2. CountersOK'
    BY <1>29 DEF IInv, TypeOK, CountersOK, LabelsInv, RaiseInFinally
  <2>3. ResourcesOK'
    <3>1. abandoned' \subseteq {"manifest", "mesh", "istio-system"}
      <4>1. StillThere \subseteq {"manifest", "mesh", "istio-system"}
        BY DEF StillThere
      <4>2. abandoned' = abandoned \cup (StillThere \cap LeftToDelete)
        BY <1>29 DEF RaiseInFinally
      <4> QED
        BY <4>1, <4>2 DEF IInv, TypeOK, ResourcesOK
    <3>2. UNCHANGED <<ns, deployment, istio, api, forward>>
      BY <1>29 DEF RaiseInFinally
    <3> QED
      BY <3>1, <3>2 DEF IInv, TypeOK, ResourcesOK
  <2>a. /\ pc \in {"delete_file", "tear_down", "delete_namespace"}
        /\ pc' = IF pc = "delete_file" /\ Env = "ISTIO" THEN "tear_down" ELSE "exited"
        /\ UNCHANGED <<test, ns, deployment, istio, labels>>
        /\ abandoned' = abandoned \cup (StillThere \cap LeftToDelete)
    BY <1>29 DEF RaiseInFinally
  <2>b. /\ ns["service-graph"] = "active" => "manifest" \in abandoned'
        /\ mesh # "absent" => "mesh" \in abandoned' \/ (Env = "ISTIO" /\ pc' = "tear_down")
        /\ ns["istio-system"] = "active" =>
             "istio-system" \in abandoned' \/ (Env = "ISTIO" /\ pc' = "tear_down")
    <3>1. CASE pc = "delete_file"
      BY <2>a, <3>1 DEF StillThere, LeftToDelete, IInv, MeshInv
    <3>2. CASE pc = "tear_down"
      BY <2>a, <3>2 DEF StillThere, LeftToDelete, IInv, GraphInv
    <3>3. CASE pc = "delete_namespace"
      BY <2>a, <3>3 DEF StillThere, LeftToDelete, IInv, GraphInv, MeshInv
    <3> QED
      BY <2>a, <3>1, <3>2, <3>3
  <2>4. GraphInv'
    BY <2>a, <2>b DEF IInv, GraphInv
  <2>5. MeshInv'
    BY <2>a, <2>b DEF IInv, MeshInv
  <2>6. LabelsInv'
    BY <2>a DEF IInv, LabelsInv
  <2> QED  BY <2>1, <2>2, <2>3, <2>4, <2>5, <2>6 DEF IInv, TypeOK
<1>30. CASE Kill
  <2>1. ControlOK'
    BY <1>30 DEF IInv, TypeOK, ControlOK, Kill, StillThere
  <2>2. CountersOK'
    BY <1>30 DEF IInv, TypeOK, CountersOK, LabelsInv, Kill, StillThere
  <2>3. ResourcesOK'
    BY <1>30 DEF IInv, TypeOK, CountersOK, ResourcesOK, Kill, StillThere
  <2>4. GraphInv'
    BY <1>30 DEF IInv, TypeOK, ControlOK, CountersOK, ResourcesOK, GraphInv, MeshInv, Kill, StillThere
  <2>5. MeshInv'
    BY <1>30 DEF IInv, TypeOK, ControlOK, CountersOK, ResourcesOK, GraphInv, MeshInv, Kill, StillThere
  <2>6. LabelsInv'
    BY <1>30 DEF IInv, TypeOK, ControlOK, CountersOK, LabelsInv, Kill, StillThere
  <2> QED  BY <2>1, <2>2, <2>3, <2>4, <2>5, <2>6 DEF IInv, TypeOK
<1>31. CASE GetNamespaceFails
  <2>1. ControlOK'
    BY <1>31 DEF IInv, TypeOK, ControlOK, GetNamespaceFails, AfterWait, EndTest
  <2>2. CountersOK'
    <3>1. test <= Len(Plan) /\ UNCHANGED <<runs, cluster, release, inForce, loads>> /\ pc' # "set_up"
      BY <1>31 DEF IInv, TypeOK, CountersOK, GetNamespaceFails, AfterWait, EndTest
    <3>2. \/ test' = test
          \/ test' = test + 1 /\ pc' = "for test"
      BY <1>31 DEF GetNamespaceFails, AfterWait, EndTest
    <3>3. test' \in 1..(Len(Plan) + 1)
      <4>1. test \in 1..(Len(Plan) + 1)
        BY DEF IInv, TypeOK, CountersOK
      <4>2. test' = test \/ test' = test + 1
        BY <3>2
      <4> QED
        BY <3>1, <4>1, <4>2
    <3>4. pc' \in InTest => test' <= Len(Plan)
      BY <3>1, <3>2
    <3> QED
      BY <3>1, <3>3, <3>4 DEF IInv, TypeOK, CountersOK
  <2>3. ResourcesOK'
    BY <1>31 DEF IInv, TypeOK, CountersOK, ResourcesOK, GetNamespaceFails, AfterWait, EndTest
  <2>4. GraphInv'
    BY <1>31 DEF IInv, TypeOK, ControlOK, CountersOK, ResourcesOK, GraphInv, MeshInv, GetNamespaceFails, AfterWait, EndTest
  <2>5. MeshInv'
    BY <1>31 DEF IInv, TypeOK, ControlOK, CountersOK, ResourcesOK, GraphInv, MeshInv, GetNamespaceFails, AfterWait, EndTest
  <2>6. LabelsInv'
    BY <1>31 DEF IInv, TypeOK, ControlOK, CountersOK, LabelsInv, GetNamespaceFails, AfterWait, EndTest
  <2> QED  BY <2>1, <2>2, <2>3, <2>4, <2>5, <2>6 DEF IInv, TypeOK
<1>32. CASE ForwardBreaks
  <2>1. ControlOK'
    BY <1>32 DEF IInv, TypeOK, ControlOK, ForwardBreaks
  <2>2. CountersOK'
    BY <1>32 DEF IInv, TypeOK, CountersOK, LabelsInv, ForwardBreaks
  <2>3. ResourcesOK'
    BY <1>32 DEF IInv, TypeOK, CountersOK, ResourcesOK, ForwardBreaks
  <2>4. GraphInv'
    BY <1>32 DEF IInv, TypeOK, ControlOK, CountersOK, ResourcesOK, GraphInv, MeshInv, ForwardBreaks
  <2>5. MeshInv'
    BY <1>32 DEF IInv, TypeOK, ControlOK, CountersOK, ResourcesOK, GraphInv, MeshInv, ForwardBreaks
  <2>6. LabelsInv'
    BY <1>32 DEF IInv, TypeOK, ControlOK, CountersOK, LabelsInv, ForwardBreaks
  <2> QED  BY <2>1, <2>2, <2>3, <2>4, <2>5, <2>6 DEF IInv, TypeOK
<1>33. CASE ApiGone
  <2>1. ControlOK'
    BY <1>33 DEF IInv, TypeOK, ControlOK, ApiGone
  <2>2. CountersOK'
    BY <1>33 DEF IInv, TypeOK, CountersOK, LabelsInv, ApiGone
  <2>3. ResourcesOK'
    BY <1>33 DEF IInv, TypeOK, CountersOK, ResourcesOK, ApiGone
  <2>4. GraphInv'
    BY <1>33 DEF IInv, TypeOK, ControlOK, CountersOK, ResourcesOK, GraphInv, MeshInv, ApiGone
  <2>5. MeshInv'
    BY <1>33 DEF IInv, TypeOK, ControlOK, CountersOK, ResourcesOK, GraphInv, MeshInv, ApiGone
  <2>6. LabelsInv'
    BY <1>33 DEF IInv, TypeOK, ControlOK, CountersOK, LabelsInv, ApiGone
  <2> QED  BY <2>1, <2>2, <2>3, <2>4, <2>5, <2>6 DEF IInv, TypeOK
<1>34. CASE FinishDeletion
  <2>1. ControlOK'
    BY <1>34 DEF IInv, TypeOK, ControlOK, FinishDeletion
  <2>2. CountersOK'
    BY <1>34 DEF IInv, TypeOK, CountersOK, LabelsInv, FinishDeletion
  <2>3. ResourcesOK'
    <3>1. ns' \in [Namespaces -> {"absent", "active", "terminating"}]
      BY <1>34 DEF IInv, TypeOK, ResourcesOK, FinishDeletion
    <3>2. graph' \subseteq Topologies /\ injected' \in BOOLEAN
      BY <1>34 DEF IInv, TypeOK, ResourcesOK, FinishDeletion
    <3>3. pods' \in [Pods -> {"pending", "unready", "ready"}]
      <4>1. pods' = [p \in Pods |-> "pending"] \/ pods' = pods
        BY <1>34 DEF FinishDeletion
      <4> QED
        BY <4>1 DEF IInv, TypeOK, ResourcesOK
    <3>4. UNCHANGED <<mesh, api, forward, abandoned>> /\ (address' = FALSE \/ address' = address)
      BY <1>34 DEF FinishDeletion
    <3> QED
      BY <3>1, <3>2, <3>3, <3>4 DEF IInv, TypeOK, ResourcesOK
  <2>4. GraphInv'
    BY <1>34 DEF IInv, TypeOK, ControlOK, CountersOK, ResourcesOK, GraphInv, MeshInv, FinishDeletion
  <2>5. MeshInv'
    BY <1>34 DEF IInv, TypeOK, ControlOK, CountersOK, ResourcesOK, GraphInv, MeshInv, FinishDeletion
  <2>6. LabelsInv'
    BY <1>34 DEF IInv, TypeOK, ControlOK, CountersOK, LabelsInv, FinishDeletion
  <2> QED  BY <2>1, <2>2, <2>3, <2>4, <2>5, <2>6 DEF IInv, TypeOK
<1>35. CASE PodProgresses
  <2>1. ControlOK'
    BY <1>35 DEF IInv, TypeOK, ControlOK, PodProgresses
  <2>2. CountersOK'
    BY <1>35 DEF IInv, TypeOK, CountersOK, LabelsInv, PodProgresses
  <2>3. ResourcesOK'
    BY <1>35 DEF IInv, TypeOK, CountersOK, ResourcesOK, PodProgresses
  <2>4. GraphInv'
    <3>1. UNCHANGED <<pc, test, ns, graph, injected, abandoned>>
      BY <1>35 DEF PodProgresses
    <3> QED
      BY <3>1 DEF IInv, GraphInv
  <2>5. MeshInv'
    BY <1>35 DEF IInv, TypeOK, ControlOK, CountersOK, ResourcesOK, GraphInv, MeshInv, PodProgresses
  <2>6. LabelsInv'
    BY <1>35 DEF IInv, TypeOK, ControlOK, CountersOK, LabelsInv, PodProgresses
  <2> QED  BY <2>1, <2>2, <2>3, <2>4, <2>5, <2>6 DEF IInv, TypeOK
<1>36. CASE PrometheusReloads
  <2>1. ControlOK'
    BY <1>36 DEF IInv, TypeOK, ControlOK, PrometheusReloads
  <2>2. CountersOK'
    BY <1>36 DEF IInv, TypeOK, CountersOK, LabelsInv, PrometheusReloads
  <2>3. ResourcesOK'
    BY <1>36 DEF IInv, TypeOK, CountersOK, ResourcesOK, PrometheusReloads
  <2>4. GraphInv'
    BY <1>36 DEF IInv, TypeOK, ControlOK, CountersOK, ResourcesOK, GraphInv, MeshInv, PrometheusReloads
  <2>5. MeshInv'
    BY <1>36 DEF IInv, TypeOK, ControlOK, CountersOK, ResourcesOK, GraphInv, MeshInv, PrometheusReloads
  <2>6. LabelsInv'
    BY <1>36 DEF IInv, TypeOK, ControlOK, CountersOK, LabelsInv, PrometheusReloads
  <2> QED  BY <2>1, <2>2, <2>3, <2>4, <2>5, <2>6 DEF IInv, TypeOK
<1>37. CASE AssignAddress
  <2>1. ControlOK'
    BY <1>37 DEF IInv, TypeOK, ControlOK, AssignAddress
  <2>2. CountersOK'
    BY <1>37 DEF IInv, TypeOK, CountersOK, LabelsInv, AssignAddress
  <2>3. ResourcesOK'
    BY <1>37 DEF IInv, TypeOK, CountersOK, ResourcesOK, AssignAddress
  <2>4. GraphInv'
    BY <1>37 DEF IInv, TypeOK, ControlOK, CountersOK, ResourcesOK, GraphInv, MeshInv, AssignAddress
  <2>5. MeshInv'
    BY <1>37 DEF IInv, TypeOK, ControlOK, CountersOK, ResourcesOK, GraphInv, MeshInv, AssignAddress
  <2>6. LabelsInv'
    BY <1>37 DEF IInv, TypeOK, ControlOK, CountersOK, LabelsInv, AssignAddress
  <2> QED  BY <2>1, <2>2, <2>3, <2>4, <2>5, <2>6 DEF IInv, TypeOK
<1>38. CASE Rerun
  <2>1. ControlOK'
    BY <1>38 DEF IInv, TypeOK, ControlOK, Rerun
  <2>2. CountersOK'
    BY <1>38 DEF IInv, TypeOK, CountersOK, LabelsInv, Rerun
  <2>3. ResourcesOK'
    BY <1>38 DEF IInv, TypeOK, CountersOK, ResourcesOK, Rerun
  <2>4. GraphInv'
    BY <1>38 DEF IInv, TypeOK, ControlOK, CountersOK, ResourcesOK, GraphInv, MeshInv, Rerun
  <2>5. MeshInv'
    BY <1>38 DEF IInv, TypeOK, ControlOK, CountersOK, ResourcesOK, GraphInv, MeshInv, Rerun
  <2>6. LabelsInv'
    BY <1>38 DEF IInv, TypeOK, ControlOK, CountersOK, LabelsInv, Rerun
  <2> QED  BY <2>1, <2>2, <2>3, <2>4, <2>5, <2>6 DEF IInv, TypeOK
<1>39. CASE UNCHANGED vars
  <2>1. ControlOK' /\ CountersOK'
    BY <1>39 DEF vars, IInv, TypeOK, ControlOK, CountersOK
  <2>5. ResourcesOK'
    BY <1>39 DEF vars, IInv, TypeOK, ResourcesOK
  <2>2. GraphInv'
    BY <1>39 DEF vars, IInv, GraphInv
  <2>3. MeshInv'
    BY <1>39 DEF vars, IInv, MeshInv
  <2>4. LabelsInv'
    BY <1>39 DEF vars, IInv, LabelsInv
  <2> QED  BY <2>1, <2>2, <2>3, <2>4, <2>5 DEF IInv, TypeOK
<1> QED
  BY <1>1, <1>2, <1>3, <1>4, <1>5, <1>6, <1>7, <1>8, <1>9, <1>10, <1>11, <1>12, <1>13, <1>14, <1>15, <1>16, <1>17, <1>18, <1>19, <1>20, <1>21, <1>22, <1>23, <1>24, <1>25, <1>26, <1>27, <1>28, <1>29, <1>30, <1>31, <1>32, <1>33, <1>34, <1>35, <1>36, <1>37, <1>38, <1>39 DEF Next, RunnerStep, World, Fault

\* The invariant holds however often the runner raises, is killed and is
\* started again.
THEOREM PipelineInvariance == Spec => []IInv
BY InitIInv, Inductive, PTL DEF Spec

\* The variables of the runner, of Kubernetes and of Prometheus keep to their
\* types, and the runner to its plan.
THEOREM PipelineTypeCorrect == Spec => []TypeOK
<1>1. IInv => TypeOK
  BY DEF IInv
<1> QED
  BY <1>1, PipelineInvariance, PTL

\* While a load test runs, the deployed graph, the mesh and the labels are those
\* of the test, unless a deletion failed or never happened.
THEOREM EveryTestIsAsPlanned == Spec => []TestedAsPlanned
<1>1. ASSUME IInv PROVE TestedAsPlanned
  <2> SUFFICES ASSUME pc \in LoadTest \cup {"port_forward", "until_prometheus_has_scraped"},
                      abandoned = {}
               PROVE  /\ graph = {Plan[test].topology} /\ ns["service-graph"] = "active"
                      /\ injected <=> Env = "ISTIO"
                      /\ Env = "ISTIO" => mesh = "installed" /\ ns["istio-system"] = "active"
                      /\ SleepsSuffice => inForce = test
    BY DEF TestedAsPlanned
  <2>1. graph = {Plan[test].topology} /\ ns["service-graph"] = "active"
    BY <1>1 DEF IInv, GraphInv
  <2>2. injected <=> Env = "ISTIO"
    BY <1>1 DEF IInv, GraphInv
  <2>3. Env = "ISTIO" => mesh = "installed" /\ ns["istio-system"] = "active"
    BY <1>1 DEF IInv, MeshInv
  <2>4. SleepsSuffice => inForce = test
    BY <1>1 DEF IInv, LabelsInv
  <2> QED
    BY <2>1, <2>2, <2>3, <2>4
<1> QED
  BY <1>1, PipelineInvariance, PTL

\* Prometheus never puts one test's labels on samples of another test's graph.
THEOREM EverySampleIsLabelled == Spec => []SamplesLabelled
<1>1. ASSUME IInv PROVE SamplesLabelled
  <2> SUFFICES ASSUME SleepsSuffice, ns["service-graph"] = "active", "manifest" \notin abandoned
               PROVE  /\ inForce = test /\ test <= Len(Plan)
                      /\ graph = {Plan[test].topology}
    BY DEF SamplesLabelled
  <2>1. pc \in Deployed \cup {"delete_file"} /\ graph = {Plan[test].topology}
    BY <1>1 DEF IInv, GraphInv
  <2>2. inForce = test
    BY <1>1, <2>1 DEF IInv, LabelsInv
  <2>3. test <= Len(Plan)
    BY <1>1, <2>1 DEF IInv, TypeOK, CountersOK
  <2> QED
    BY <2>1, <2>2, <2>3
<1> QED
  BY <1>1, PipelineInvariance, PTL

\* However a run ends, it leaves nothing behind but what it could not delete.
THEOREM EveryRunCleansUp == Spec => []CleanedUp
<1>1. IInv => CleanedUp
  BY DEF IInv, GraphInv, MeshInv, CleanedUp
<1> QED
  BY <1>1, PipelineInvariance, PTL
-----------------------------------------------------------------------------
(* Results, and the plan that the runner implements                        *)

\* What a step of the runner or of its surroundings may be for the plan.
Answered == pc \in {"open_file", "write_file"}
Stutters ==
  /\ UNCHANGED <<runs, results, raised, loads>>
  /\ ~raised => \/ /\ pc # "exited" /\ pc' # "exited" /\ Measured' = Measured
                   /\ (Answered' <=> Answered)
                   /\ pc # "write_file" /\ pc' # "write_file"
                \/ UNCHANGED <<pc, test>>
LoadsTest ==
  /\ pc = "http_get" /\ pc' = "await_result" /\ loads' = loads + 1
  /\ UNCHANGED <<raised, test, runs, results>>
Answers ==
  /\ pc = "await_result" /\ pc' = "open_file"
  /\ UNCHANGED <<raised, test, runs, results, loads>>
Opens ==
  /\ pc = "open_file" /\ pc' = "write_file"
  /\ results' = [results EXCEPT ![Plan[test]] = [by |-> runs, whole |-> FALSE]]
  /\ UNCHANGED <<raised, test, runs, loads>>
Measures ==
  /\ pc = "write_file" /\ pc' = "until_prometheus_has_scraped"
  /\ results' = [results EXCEPT ![Plan[test]] = [by |-> runs, whole |-> TRUE]]
  /\ loads' = 0
  /\ UNCHANGED <<raised, test, runs>>
Fails == ~raised /\ raised' /\ pc # "exited" /\ loads' = 0 /\ UNCHANGED <<runs, results>>
Completes ==
  /\ pc = "for test" /\ pc' = "exited" /\ test > Len(Plan)
  /\ UNCHANGED <<raised, test, runs, results, loads>>
Restarts ==
  /\ pc = "exited" /\ pc' = "set_up_if_not_exists" /\ raised' = FALSE
  /\ test' = 1 /\ runs' = runs + 1 /\ UNCHANGED <<results, loads>>

StepOfPlan ==
  Stutters \/ LoadsTest \/ Answers \/ Opens \/ Measures \/ Fails \/ Completes \/ Restarts

\* The end of a wait leads to the next test, or to the next finally block: what
\* was measured remains the same.
LEMMA AfterWaitStutters ==
  ASSUME test \in Nat, RaisedOK, LoadsOK, AfterWait,
         pc \in {"until_namespace_is_deleted", "until_torn_down"}
  PROVE  Stutters /\ RaisedOK' /\ LoadsOK'
<1> USE DEF Measured, AfterLoadTest, RaisedOK, LoadsOK, Answered
<1>1. UNCHANGED <<raised, runs, results, loads>> /\ loads = 0
  BY DEF AfterWait
<1>2. CASE raised
  <2>1. pc' = "exited"
    BY <1>2 DEF AfterWait, EndTest
  <2> QED
    BY <1>1, <1>2, <2>1 DEF Stutters
<1>3. CASE ~raised
  <2>1. \/ pc' = "tear_down" /\ test' = test
        \/ pc' = "for test" /\ test' = test + 1
    BY <1>3 DEF AfterWait, EndTest
  <2>2. /\ Measured = test
        /\ pc' = "tear_down" => Measured' = test'
        /\ pc' = "for test" => Measured' = test' - 1
    OBVIOUS
  <2>3. (test + 1) - 1 = test
    OBVIOUS
  <2>4. Measured' = Measured
    BY <2>1, <2>2, <2>3
  <2>5. ~Answered /\ ~Answered' /\ pc' \in {"tear_down", "for test"}
    BY <2>1
  <2>6. (Answered' <=> Answered)
    BY <2>5
  <2> QED
    BY <1>1, <1>3, <2>4, <2>5, <2>6 DEF Stutters
<1> QED
  BY <1>2, <1>3

LEMMA StepForPlan ==
  ASSUME IInv, RaisedOK, LoadsOK, [Next]_vars
  PROVE  StepOfPlan /\ RaisedOK' /\ LoadsOK'
<1> USE DEF Measured, AfterLoadTest, RaisedOK, LoadsOK, Answered, StepOfPlan
<1>0. test \in Nat /\ loads \in Nat /\ raised \in BOOLEAN
  <2>1. test \in 1..(Len(Plan) + 1) /\ loads \in Nat
    BY DEF IInv, TypeOK, CountersOK
  <2>2. raised \in BOOLEAN
    BY DEF IInv, TypeOK, ControlOK
  <2> QED
    BY <2>1, <2>2, PlanLength
<1>1. CASE SetUpIfNotExists
  <2>1. /\ ~raised /\ UNCHANGED <<raised, test, runs, results, loads>>
        /\ pc \in {"set_up_if_not_exists", "set_up"} /\ pc' \in {"set_up", "for test"}
    BY <1>1 DEF SetUpIfNotExists
  <2>2. ~Answered /\ ~Answered'
    BY <2>1
  <2>3. (Answered' <=> Answered) /\ Measured' = Measured
    BY <2>1, <2>2
  <2> QED
    BY <2>1, <2>3 DEF Stutters
<1>2. CASE SetUp
  <2>1. /\ ~raised /\ UNCHANGED <<raised, test, runs, results, loads>>
        /\ pc \in {"set_up_if_not_exists", "set_up"} /\ pc' \in {"set_up", "for test"}
    BY <1>2 DEF SetUp
  <2>2. ~Answered /\ ~Answered'
    BY <2>1
  <2>3. (Answered' <=> Answered) /\ Measured' = Measured
    BY <2>1, <2>2
  <2> QED
    BY <2>1, <2>3 DEF Stutters
<1>3. CASE ForTest
  <2>1. ~raised /\ UNCHANGED <<raised, test, runs, results, loads>> /\ pc = "for test"
    BY <1>3 DEF ForTest
  <2>2. \/ test > Len(Plan) /\ pc' = "exited"
        \/ pc' = "prometheus.apply"
    BY <1>3 DEF ForTest
  <2>3. CASE test > Len(Plan) /\ pc' = "exited"
    BY <2>1, <2>3 DEF Completes
  <2>4. CASE pc' = "prometheus.apply"
    <3>1. ~Answered /\ ~Answered'
      BY <2>1, <2>4
    <3>2. (Answered' <=> Answered) /\ Measured' = Measured
      BY <2>1, <2>4, <3>1
    <3> QED
      BY <2>1, <2>4, <3>2 DEF Stutters
  <2> QED
    BY <2>2, <2>3, <2>4
<1>4. CASE ApplyLabels
  BY <1>0, <1>4 DEF ApplyLabels, Stutters
<1>5. CASE AwaitReload
  BY <1>0, <1>5 DEF AwaitReload, EnterEnvironment, Stutters
<1>6. CASE UntilStatefulSetsAreReady
  BY <1>0, <1>6 DEF UntilStatefulSetsAreReady, EnterEnvironment, Stutters
<1>7. CASE Download
  BY <1>0, <1>7 DEF Download, Stutters
<1>8. CASE CreateNamespace
  BY <1>0, <1>8 DEF CreateNamespace, Stutters
<1>9. CASE Install
  <2>1. pc = "install" /\ UNCHANGED <<test, runs, results, loads>>
    BY <1>9 DEF Install
  <2>2. ~raised /\ loads = 0
    BY <2>1
  <2>3. CASE pc' = "until_istio_is_deployed" /\ UNCHANGED raised
    BY <2>1, <2>2, <2>3 DEF Stutters
  <2>4. CASE pc' = Handler /\ raised' = TRUE
    <3>1. Handler \in {"tear_down", "exited"}
      BY <2>1 DEF Handler
    <3> QED
      BY <2>1, <2>2, <2>4, <3>1 DEF Fails
  <2> QED
    BY <1>9, <2>3, <2>4 DEF Install
<1>10. CASE UntilIstioIsDeployed
  BY <1>0, <1>10 DEF UntilIstioIsDeployed, Stutters
<1>11. CASE IngressRules
  BY <1>0, <1>11 DEF IngressRules, Stutters
<1>12. CASE IngressURL
  BY <1>0, <1>12 DEF IngressURL, Stutters
<1>13. CASE ApplyFile
  BY <1>0, <1>13 DEF ApplyFile, Handler, Stutters, Fails
<1>14. CASE UntilDeploymentsAreReady
  BY <1>0, <1>14 DEF UntilDeploymentsAreReady, Stutters
<1>15. CASE UntilServiceGraphIsReady
  BY <1>0, <1>15 DEF UntilServiceGraphIsReady, Stutters
<1>16. CASE PortForward
  BY <1>0, <1>16 DEF PortForward, Forwarding, Stutters
<1>17. CASE SendGET
  BY <1>0, <1>17 DEF SendGET, LoadsTest
<1>18. CASE LoseAnswer
  BY <1>0, <1>18 DEF LoseAnswer, Stutters
<1>19. CASE HTTPGet
  BY <1>0, <1>19 DEF HTTPGet, Answers
<1>20. CASE OpenFile
  BY <1>0, <1>20 DEF OpenFile, Opens
<1>21. CASE WriteFile
  BY <1>0, <1>21 DEF WriteFile, Measures
<1>22. CASE UntilPrometheusHasScraped
  BY <1>0, <1>22 DEF UntilPrometheusHasScraped, Stutters
<1>23. CASE DeleteFile
  BY <1>0, <1>23 DEF DeleteFile, AfterManifest, Stutters
<1>24. CASE UntilNamespaceIsDeleted
  BY <1>0, <1>24, AfterWaitStutters DEF UntilNamespaceIsDeleted
<1>25. CASE TearDown
  BY <1>0, <1>25 DEF TearDown, Stutters
<1>26. CASE DeleteNamespace
  BY <1>0, <1>26 DEF DeleteNamespace, Stutters
<1>27. CASE UntilTornDown
  BY <1>0, <1>27, AfterWaitStutters DEF UntilTornDown
<1>28. CASE Raise
  BY <1>0, <1>28 DEF Raise, Handler, Fails, Stutters
<1>29. CASE RaiseInFinally
  BY <1>0, <1>29 DEF RaiseInFinally, Fails, Stutters
<1>30. CASE Kill
  BY <1>0, <1>30 DEF Kill, Stutters, Fails
<1>31. CASE GetNamespaceFails
  BY <1>0, <1>31, AfterWaitStutters DEF GetNamespaceFails
<1>32. CASE ForwardBreaks
  BY <1>0, <1>32 DEF ForwardBreaks, Stutters
<1>33. CASE ApiGone
  BY <1>0, <1>33 DEF ApiGone, Stutters
<1>34. CASE FinishDeletion
  BY <1>0, <1>34 DEF FinishDeletion, Stutters
<1>35. CASE PodProgresses
  BY <1>0, <1>35 DEF PodProgresses, Stutters
<1>36. CASE PrometheusReloads
  BY <1>0, <1>36 DEF PrometheusReloads, Stutters
<1>37. CASE AssignAddress
  BY <1>0, <1>37 DEF AssignAddress, Stutters
<1>38. CASE Rerun
  BY <1>0, <1>38 DEF Rerun, Restarts
<1>39. CASE UNCHANGED vars
  BY <1>0, <1>39 DEF vars, Stutters
<1> QED
  BY <1>1, <1>2, <1>3, <1>4, <1>5, <1>6, <1>7, <1>8, <1>9, <1>10, <1>11, <1>12, <1>13, <1>14, <1>15, <1>16, <1>17, <1>18, <1>19, <1>20, <1>21, <1>22, <1>23, <1>24, <1>25, <1>26, <1>27, <1>28, <1>29, <1>30, <1>31, <1>32, <1>33, <1>34, <1>35, <1>36, <1>37, <1>38, <1>39 DEF Next, RunnerStep, World, Fault

\* However often a run was begun, killed or raised: if one ends without an
\* exception, the results of all planned tests are its own.
LEMMA ResultsInvariance == Spec => []ResultsInv
<1>1. Init => ResultsInv
  <2> SUFFICES ASSUME Init PROVE ResultsInv
    OBVIOUS
  <2>1. RaisedOK /\ LoadsOK
    BY DEF Init, RaisedOK, LoadsOK
  <2>2. Measured = 0 /\ pc # "exited" /\ pc # "write_file" /\ runs = 1
    BY DEF Init, Measured, AfterLoadTest
  <2>3. /\ results \in [Tests -> [by : Nat, whole : BOOLEAN]]
        /\ \A t \in Tests : results[t].by = 0
    BY DEF Init, NoResult
  <2>4. \A t \in Tests : results[t] # [by |-> runs, whole |-> FALSE]
    BY <2>2, <2>3
  <2> QED
    BY <2>1, <2>2, <2>3, <2>4 DEF ResultsInv
<1>2. ASSUME IInv, ResultsInv, [Next]_vars PROVE ResultsInv'
  <2> DEFINE File == [by : Nat, whole : BOOLEAN]
             Torn(r) == [by |-> r, whole |-> FALSE]
             Whole(r) == [by |-> r, whole |-> TRUE]
  <2>a. StepOfPlan /\ RaisedOK' /\ LoadsOK'
    BY <1>2, StepForPlan DEF ResultsInv
  <2>b. runs \in Nat /\ test \in 1..(Len(Plan) + 1) /\ Len(Plan) \in Nat
    BY <1>2, PlanLength DEF IInv, TypeOK, CountersOK
  <2>c. \A i \in 1..Len(Plan) : Plan[i] \in Tests
    BY PlanAssumption
  <2>d. /\ results \in [Tests -> File]
        /\ \A t \in Tests : results[t].by <= runs /\ results[t].by \in Nat
    BY <1>2 DEF ResultsInv
  <2>e. /\ Torn(runs) \in File /\ Torn(runs).by = runs /\ Torn(runs).whole = FALSE
        /\ Whole(runs) \in File /\ Whole(runs).by = runs /\ Whole(runs) # Torn(runs)
    BY <2>b
  <2>f. pc \in {"open_file", "write_file"} => test <= Len(Plan) /\ Plan[test] \in Tests
    BY <1>2, <2>b, <2>c DEF IInv, TypeOK, CountersOK
  <2>g. /\ results' \in [Tests -> File]
        /\ \A t \in Tests : results'[t].by <= runs'
    <3>1. CASE Opens
      BY <2>b, <2>d, <2>e, <2>f, <3>1 DEF Opens
    <3>2. CASE Measures
      BY <2>b, <2>d, <2>e, <2>f, <3>2 DEF Measures
    <3>3. CASE Restarts
      <4>1. results' = results /\ runs' = runs + 1
        BY <3>3 DEF Restarts
      <4> QED
        BY <2>b, <2>d, <4>1
    <3>4. CASE Stutters \/ LoadsTest \/ Answers \/ Fails \/ Completes
      BY <2>d, <3>4 DEF Stutters, LoadsTest, Answers, Fails, Completes
    <3> QED
      BY <2>a, <3>1, <3>2, <3>3, <3>4 DEF StepOfPlan
  <2> SUFFICES ASSUME ~raised'
               PROVE  /\ pc' = "exited" => test' > Len(Plan)
                      /\ \A t \in Tests : (results'[t] = Torn(runs'))
                                           <=> (pc' = "write_file" /\ t = Plan[test'])
                      /\ \A i \in 1..Measured' : results'[Plan[i]].by = runs'
    BY <2>a, <2>g DEF ResultsInv
  <2> USE DEF Measured, AfterLoadTest
  <2>1. CASE Stutters
    <3>1. ~raised /\ UNCHANGED <<runs, results>>
      BY <2>1 DEF Stutters
    <3>2. CASE pc' # "exited" /\ Measured' = Measured /\ pc # "write_file" /\ pc' # "write_file"
      BY <1>2, <3>1, <3>2 DEF ResultsInv
    <3>3. CASE UNCHANGED <<pc, test>>
      BY <1>2, <3>1, <3>3 DEF ResultsInv
    <3> QED
      BY <2>1, <3>1, <3>2, <3>3 DEF Stutters
  <2>2. CASE LoadsTest \/ Answers
    <3>1. /\ ~raised /\ UNCHANGED <<test, runs, results>> /\ Measured' = Measured
          /\ pc' \notin {"exited", "write_file"} /\ pc # "write_file"
      BY <2>2 DEF LoadsTest, Answers
    <3> QED
      BY <1>2, <3>1 DEF ResultsInv
  <2>3. CASE Opens
    <3>1. /\ ~raised /\ UNCHANGED <<test, runs>> /\ pc = "open_file" /\ pc' = "write_file"
          /\ results' = [results EXCEPT ![Plan[test]] = Torn(runs)]
      BY <2>3 DEF Opens
    <3>2. Measured' = Measured /\ Measured = test - 1
      BY <3>1
    <3>3. \A t \in Tests : results[t] # Torn(runs)
      BY <1>2, <3>1 DEF ResultsInv
    <3>4. \A t \in Tests : results'[t] = IF t = Plan[test] THEN Torn(runs) ELSE results[t]
      BY <2>d, <2>f, <3>1
    <3>5. \A i \in 1..Measured' : Plan[i] \in Tests /\ results[Plan[i]].by = runs
      BY <1>2, <2>b, <2>c, <2>f, <3>1, <3>2 DEF ResultsInv
    <3>6. \A i \in 1..Measured' : results'[Plan[i]].by = runs
      BY <2>e, <3>4, <3>5
    <3> QED
      BY <3>1, <3>3, <3>4, <3>6
  <2>4. CASE Measures
    <3>1. /\ ~raised /\ UNCHANGED <<test, runs>> /\ pc = "write_file"
          /\ pc' = "until_prometheus_has_scraped"
          /\ results' = [results EXCEPT ![Plan[test]] = Whole(runs)]
      BY <2>4 DEF Measures
    <3>2. Measured = test - 1 /\ Measured' = test
      BY <3>1
    <3>3. \A t \in Tests : results[t] = Torn(runs) <=> t = Plan[test]
      BY <1>2, <3>1 DEF ResultsInv
    <3>4. \A t \in Tests : results'[t] = IF t = Plan[test] THEN Whole(runs) ELSE results[t]
      BY <2>d, <2>f, <3>1
    <3>5. \A t \in Tests : results'[t] # Torn(runs)
      BY <2>e, <3>3, <3>4
    <3>6. \A i \in 1..test : results'[Plan[i]].by = runs
      <4> TAKE i \in 1..test
      <4>1. Plan[i] \in Tests
        BY <2>b, <2>c, <2>f, <3>1
      <4>2. i # test => results[Plan[i]].by = runs
        <5>1. i # test => i \in 1..Measured
          BY <2>b, <3>2
        <5> QED
          BY <1>2, <3>1, <5>1 DEF ResultsInv
      <4> QED
        BY <2>e, <3>4, <4>1, <4>2
    <3> QED
      BY <3>1, <3>2, <3>5, <3>6
  <2>5. CASE Fails
    BY <2>5 DEF Fails
  <2>6. CASE Completes
    <3>1. /\ ~raised /\ UNCHANGED <<test, runs, results>> /\ test > Len(Plan)
          /\ pc # "write_file" /\ pc' = "exited"
      BY <2>6 DEF Completes
    <3>2. Measured' = Measured
      BY <2>6 DEF Completes
    <3> QED
      BY <1>2, <3>1, <3>2 DEF ResultsInv
  <2>7. CASE Restarts
    <3>1. /\ Measured' = 0 /\ pc' \notin {"exited", "write_file"}
          /\ results' = results /\ runs' = runs + 1
      BY <2>7 DEF Restarts
    <3>3. 1..Measured' = {}
      BY <3>1
    <3>2. \A t \in Tests : results'[t] # Torn(runs')
      <4> TAKE t \in Tests
      <4>1. results[t].by <= runs /\ results[t].by \in Nat /\ Torn(runs + 1).by = runs + 1
        BY <2>d
      <4> QED
        BY <2>b, <3>1, <4>1
    <3> HIDE DEF Measured
    <3> QED
      BY <3>1, <3>2, <3>3
  <2> QED
    BY <2>a, <2>1, <2>2, <2>3, <2>4, <2>5, <2>6, <2>7 DEF StepOfPlan
<1> QED
  BY <1>1, <1>2, PipelineInvariance, PTL DEF Spec

\* A run that ends without an exception has written the result of every test.
THEOREM EveryResultIsWritten == Spec => []ResultsComplete
<1>1. ASSUME IInv, ResultsInv PROVE ResultsComplete
  <2> SUFFICES ASSUME pc = "exited", ~raised, NEW i \in 1..Len(Plan)
               PROVE  results[Plan[i]] = [by |-> runs, whole |-> TRUE]
    BY DEF ResultsComplete
  <2>1. test > Len(Plan) /\ test \in 1..(Len(Plan) + 1)
    BY <1>1 DEF IInv, TypeOK, CountersOK, ResultsInv
  <2>2. Measured = Len(Plan)
    BY <2>1, PlanLength DEF Measured, AfterLoadTest
  <2>3. Plan[i] \in Tests
    BY PlanAssumption
  <2>4. /\ results[Plan[i]] \in [by : Nat, whole : BOOLEAN]
        /\ results[Plan[i]].by = runs
        /\ results[Plan[i]] # [by |-> runs, whole |-> FALSE]
    BY <1>1, <2>2, <2>3 DEF ResultsInv
  <2> QED
    BY <2>4
<1> QED
  BY <1>1, PipelineInvariance, ResultsInvariance, PTL

\* The runner implements the plan: every behaviour of it is one of TestPlan.
THEOREM RunnerImplementsTestPlan == Spec => ImplementsTestPlan
<1> USE DEF Measured, AfterLoadTest
<1>1. Init => P!Init
  BY DEF Init, P!Init, NoResult
<1>2. ASSUME IInv, ResultsInv, [Next]_vars PROVE [P!Next]_(P!vars)
  <2>0. RaisedOK /\ LoadsOK
    BY <1>2 DEF ResultsInv
  <2>a. StepOfPlan /\ RaisedOK' /\ LoadsOK'
    BY <1>2, <2>0, StepForPlan
  <2>b. /\ test \in 1..(Len(Plan) + 1) /\ Len(Plan) \in Nat /\ loads \in Nat
        /\ pc \in InTest => test <= Len(Plan)
    BY <1>2, PlanLength DEF IInv, TypeOK, CountersOK
  <2>c. pc \in LoadTest => /\ ~raised /\ test - 1 < Len(Plan) /\ test = (test - 1) + 1
                           /\ Plan[test] \in Tests
    <3>1. pc \in LoadTest => ~raised /\ test <= Len(Plan)
      BY <2>0, <2>b DEF RaisedOK
    <3> QED
      BY <2>b, <3>1, PlanAssumption
  <2>d. pc \in LoadTest => ((results[Plan[test]] = [by |-> runs, whole |-> FALSE])
                             <=> pc = "write_file")
    BY <1>2, <2>c DEF ResultsInv
  <2>1. CASE Stutters
    <3>1. UNCHANGED <<runs, results, raised, loads>>
      BY <2>1 DEF Stutters
    <3>2. CASE raised
      <4>1. ~Answered /\ ~Answered'
        BY <2>0, <2>a, <3>1, <3>2 DEF RaisedOK, Answered
      <4> QED
        BY <3>1, <3>2, <4>1 DEF Answered, P!vars
    <3>3. CASE ~raised /\ UNCHANGED <<pc, test>>
      BY <3>1, <3>3 DEF P!vars
    <3>4. CASE /\ ~raised /\ pc # "exited" /\ pc' # "exited"
               /\ Measured' = Measured /\ (Answered' <=> Answered)
      <4> HIDE DEF Measured
      <4>1. CASE Answered /\ Answered'
        BY <3>1, <3>4, <4>1 DEF Answered, P!vars
      <4>2. CASE ~Answered /\ ~Answered'
        BY <3>1, <3>4, <4>2 DEF Answered, P!vars
      <4> QED
        BY <3>4, <4>1, <4>2
    <3> QED
      BY <2>1, <3>2, <3>3, <3>4 DEF Stutters
  <2>2. CASE LoadsTest
    BY <2>2, <2>c DEF LoadsTest, P!Next, P!Load, P!Testing
  <2>3. CASE Answers
    <3>1. loads > 0
      BY <2>0, <2>3 DEF LoadsOK, Answers
    <3> QED
      BY <2>3, <2>c, <3>1 DEF Answers, P!Next, P!Answer, P!Testing
  <2>4. CASE Opens
    <3>1. Answered /\ Answered' /\ Measured' = Measured
      BY <2>4 DEF Opens, Answered
    <3>2. (pc' \in {"open_file", "write_file"}) = (pc \in {"open_file", "write_file"})
      BY <3>1 DEF Answered
    <3>3. P!Open
      BY <2>4, <2>c, <2>d, <3>1, <3>2 DEF Opens, P!Open, P!Testing, P!Torn, P!Current
    <3> QED
      BY <3>3 DEF P!Next
  <2>5. CASE Measures
    <3>1. ~Answered'
      BY <2>5 DEF Measures, Answered
    <3>2. (pc' \in {"open_file", "write_file"}) = FALSE
      BY <3>1 DEF Answered
    <3>3. P!Measure
      BY <2>5, <2>c, <2>d, <3>2 DEF Measures, P!Measure, P!Testing, P!Torn, P!Whole, P!Current
    <3> QED
      BY <3>3 DEF P!Next
  <2>6. CASE Fails
    <3>1. pc' \notin LoadTest
      BY <2>a, <2>6 DEF RaisedOK, Fails
    <3> QED
      BY <2>6, <3>1 DEF Fails, P!Next, P!Fail
  <2>7. CASE Completes
    <3>1. ~raised
      BY <2>0, <2>7 DEF RaisedOK, Completes
    <3>2. test > Len(Plan)
      BY <2>7 DEF Completes
    <3>3. \A n \in Nat : \A t \in 1..(n + 1) : t > n => t - 1 = n
      OBVIOUS
    <3>4. test - 1 = Len(Plan)
      BY <2>b, <3>2, <3>3
    <3> QED
      <4>1. ~Answered /\ ~Answered'
        BY <2>7 DEF Completes, Answered
      <4>2. (pc' \in {"open_file", "write_file"}) = (pc \in {"open_file", "write_file"})
        BY <4>1 DEF Answered
      <4>3. P!Complete
        BY <2>7, <3>1, <3>4, <4>2 DEF Completes, P!Complete
      <4> QED
        BY <4>3 DEF P!Next
  <2>8. CASE Restarts
    BY <2>8 DEF Restarts, P!Next, P!Again
  <2> QED
    BY <2>a, <2>1, <2>2, <2>3, <2>4, <2>5, <2>6, <2>7, <2>8 DEF StepOfPlan
<1> QED
  BY <1>1, <1>2, PipelineInvariance, ResultsInvariance, PTL DEF Spec, P!Spec, ImplementsTestPlan
=============================================================================
