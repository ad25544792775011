SPECIFICATION FairSpec
CONSTANTS
  none = none
  Students = {1, 2}
  Questions = {1, 2, 11}
  CFiles = {1, 11}
  Scores = {0, 4, 500}
  Papers <- AllPapers
  Missing = none
  Solutions <- Solved
  Alike <- GrepAlike
  Small <- Letters
  OVER = 1
  Prompt = TRUE
  eOption = TRUE
  mOption = TRUE
  MaxStreams = 2
  MaxRuns = 2
INVARIANTS TableRecovered PointsDeserved RightProgramPaid NoLeftovers
PROPERTY Termination
