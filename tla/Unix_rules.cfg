SPECIFICATION Spec
CONSTANTS
  Code <- AllCode
  Start <- Started
  Outside <- AllOutside
  Endless <- NeverEnd
  Tasks = {1}
  Few = {1}
  THREAD_NUM = 2
  MaxKeys = 0
  MaxTicks = 0
CHECK_DEADLOCK FALSE
INVARIANT RulesKept
