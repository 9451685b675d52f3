SPECIFICATION Spec
CONSTANTS
  p1 = p1
  p2 = p2
  Topologies = {"canonical", "tree"}
  Plan <- IstioTwice
  Pods = {p1, p2}
  SleepsSuffice = TRUE
  MaxRuns = 1
  MaxLoads = 2
CHECK_DEADLOCK FALSE
PROPERTY BlocksUntilReady
