CONSTANTS
  Services <- CanonicalServices
  Script <- CanonicalScript
  Pods <- CanonicalServices
  ServiceOf <- OnePodEach
  Entry = "d"
  HeaderKeys = {}
  Forwardable = {}
  Clients = {k1}
  NoService = none
  MaxFaults = 1
  MaxCrashes = 1
SPECIFICATION Spec
INVARIANTS
  StepsInOrder
  MetricsAgree
  OnlyProxiesHideFailures
PROPERTIES
  ResponseIsFinal
CHECK_DEADLOCK FALSE
