CONSTANTS
  Services <- ChainServices
  Script <- ChainScript
  Pods <- ChainServices
  ServiceOf <- ChainPods
  Entry = "front"
  HeaderKeys = {}
  Forwardable = {}
  Clients = {k1}
  NoService = none
  MaxFaults = 0
  MaxCrashes = 0
SPECIFICATION Spec
INVARIANTS
  ErrorRateHonoured
CHECK_DEADLOCK FALSE
