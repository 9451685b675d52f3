----------------------------- MODULE MCPipeline -----------------------------
(***************************************************************************)
(* Instances of Pipeline for TLC.                                          *)
(***************************************************************************)
EXTENDS Pipeline

CONSTANTS p1, p2

Test(topology, env) == [topology |-> topology, env |-> env]

\* The loops of main over two topologies and the environments of isotope.toml.
FullPlan == <<Test("canonical", "NONE"), Test("canonical", "ISTIO"),
              Test("tree", "NONE"), Test("tree", "ISTIO")>>

\* Two environments that need Istio in succession.
IstioTwice == <<Test("canonical", "ISTIO"), Test("tree", "ISTIO")>>
=============================================================================
