CONSTANTS
  CpuCount = 2
  Present = {0, 1}
  Half = 1
  SumTarget = 5
SPECIFICATION FairSpec
INVARIANT FailureIsTrue
