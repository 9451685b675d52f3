CONSTANTS
  Services <- FanServices
  Script <- FanScript
  Pods = {"f1", "l1", "l2"}
  ServiceOf <- FanPods
  Entry = "front"
  HeaderKeys = {}
  Forwardable = {}
  Clients = {k1}
  NoService = none
  MaxFaults = 1
  MaxCrashes = 1
SPECIFICATION FairSpec
INVARIANTS
  TypeOK
  TreeInv
  StatusFaithful
  NoStrayGoroutine
  RequestsConserved
PROPERTIES
  ImplementsScriptRun
  EveryClientAnswered
  EveryHandlerEnds
CHECK_DEADLOCK FALSE
