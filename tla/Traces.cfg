CONSTANTS
  Services <- ChainServices
  Script <- ChainScript
  Pods <- ChainServices
  ServiceOf <- ChainPods
  Entry = "front"
  HeaderKeys = {"X-Request-Id", "Path-Traces"}
  Forwardable = {"X-Request-Id"}
  Clients = {k1, k2}
  NoService = none
  MaxFaults = 0
  MaxCrashes = 0
SPECIFICATION Spec
INVARIANTS
  TracePropagated
CHECK_DEADLOCK FALSE
