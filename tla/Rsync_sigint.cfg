SPECIFICATION Spec
CONSTANTS
  old = old
  new = new
  none = none
  Names <- OneName
  Contents <- OldNew
  Empty = none
  SizeOf <- OwnSize
  Copied <- Text
  Conflicts <- NoConflict
  EditsTick = FALSE
  MaxTime = 1
  MaxTrouble = 1
  MaxSingles = 0
  MaxEdits = 0
  MaxDeaths = 1
INVARIANT RestoredOnSigint
