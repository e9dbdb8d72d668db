\* Three CPUs; loops of 2 * 2 iterations; 1..7 over 3 CPUs leaves a remainder.
CONSTANTS
  CpuCount = 3
  Present = {0, 1, 2}
  Half = 2
  SumTarget = 7
SPECIFICATION FairSpec
INVARIANTS TypeOK SumComplete SecondHalfTogether SuccessIsTrue
PROPERTY TestsEnd
