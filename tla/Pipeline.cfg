SPECIFICATION FairSpec
CONSTANTS
  p1 = p1
  p2 = p2
  Topologies = {"canonical", "tree"}
  Plan <- FullPlan
  Pods = {p1, p2}
  SleepsSuffice = TRUE
  MaxRuns = 2
  MaxLoads = 2
CHECK_DEADLOCK FALSE
INVARIANTS TypeOK TestedAsPlanned SamplesLabelled CleanedUp ResultsComplete IInv
PROPERTIES EndsOrIsStuck ImplementsTestPlan
