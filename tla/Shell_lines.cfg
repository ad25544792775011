SPECIFICATION Spec
CONSTANTS
  Meaning <- Meant
  Inputs <- UpToThree
  Echo <- EchoName
  Cat <- CatName
  Wild <- wild
  Capacity = 2
  MaxFds = 9
INVARIANTS OutputAsTyped GivesUpOnlyWhenFull
PROPERTY EveryLineRuns
CHECK_DEADLOCK FALSE
