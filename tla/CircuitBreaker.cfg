SPECIFICATION FairSpec
CONSTANTS
  c1 = c1
  c2 = c2
  None = None
  Callers <- TwoCallers
  failure_threshold = 2
  recovery_timeout = 1
  MaxFaults = 1
INVARIANTS TypeOK TrippedOnlyByFailures CounterExpires StrandedOnlyForACause
PROPERTIES RecoversUnlessStranded
