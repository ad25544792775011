SPECIFICATION Spec
CONSTANTS
  Singles <- AllSingles
  Listed <- AllListed
INVARIANTS ChecksTheRange MarkedAsMeant
CHECK_DEADLOCK FALSE
