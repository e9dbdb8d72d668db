SPECIFICATION Spec
CONSTANTS
  CpuCount = 3
  Bsp = 1
  MayFail = {2}
  MayBeLate = {0, 2}
  MaxOverwrites = 1
INVARIANT LockProtects
INVARIANT InTimeStack
INVARIANT NullCallNeedsTwo
PROPERTY InTimeSucceeds
CHECK_DEADLOCK FALSE
