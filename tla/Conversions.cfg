SPECIFICATION Spec
CONSTANTS
  Documents <- AllDocuments
  NodeSelectors <- SomeNodeSelectors
  Shapes <- SomeShapes
INVARIANTS TreeTypeOK NeverPopsEmpty CompleteTree GeneratedIsTopology AcceptsExactlyTheWellFormed EdgesAreCalls ConfigMapKeepsGraph AcceptedScriptsAreValid
CHECK_DEADLOCK FALSE
