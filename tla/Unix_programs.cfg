SPECIFICATION Spec
CONSTANTS
  Code <- AllCode
  Start <- Started
  Outside <- AllOutside
  Endless <- NeverEnd
  Tasks = {1, 2, 3, 4}
  Few = {1, 2, 3}
  THREAD_NUM = 2
  MaxKeys = 2
  MaxTicks = 3
CHECK_DEADLOCK FALSE
INVARIANTS AsDescribed MaskRestored JumpsLand ShownOnce
PROPERTY NobodyWaitsForEver
