CONSTANTS
  Services <- ChainServices
  Script <- ChainScript
  Pods <- ChainServices
  ServiceOf <- ChainPods
  Entry = "front"
  HeaderKeys = {}
  Forwardable = {}
  Clients = {k1}
  NoService = none
  MaxFaults = 1
  MaxCrashes = 0
SPECIFICATION Spec
INVARIANTS
  SentRequestsCounted
CHECK_DEADLOCK FALSE
