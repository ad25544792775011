SPECIFICATION FairSpec
CONSTANTS
  Commands = {backup, mail}
  Careful = TRUE
  MaxLines = 7
  MaxStreams = 4
  MaxCrashes = 1
INVARIANTS Numbered LogAccounts
PROPERTIES CommandTableSpec EofEnds
