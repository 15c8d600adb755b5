SPECIFICATION Spec
CONSTANTS
  c1 = c1
  c2 = c2
  None = None
  Callers <- OneCaller
  failure_threshold = 2
  recovery_timeout = 1
  MaxFaults = 0
INVARIANT FailedProbeReopens
