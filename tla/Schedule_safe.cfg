SPECIFICATION Spec
CONSTANTS
  Singles <- AllSingles
  Listed <- AllListed
INVARIANT AcceptedIsSafe
CHECK_DEADLOCK FALSE
