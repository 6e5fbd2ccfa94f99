\* One earlier call, and three rounds of probes.
SPECIFICATION ProbeSpec
CONSTANTS
  n0 = n0
  n1 = n1
  Old = {n0}
  This = n1
  MaxProbes = 3
  Nothing = Nothing
INVARIANTS
  HandoffIsOfThisCall
  OkMeansSession
CHECK_DEADLOCK FALSE
