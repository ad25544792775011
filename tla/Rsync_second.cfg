SPECIFICATION Spec
CONSTANTS
  old = old
  new = new
  none = none
  Names <- OneName
  Contents <- OldNew
  Empty = none
  SizeOf <- SameSizes
  Copied <- Text
  Conflicts <- NoConflict
  EditsTick = FALSE
  MaxTime = 1
  MaxTrouble = 1
  MaxSingles = 0
  MaxEdits = 1
  MaxDeaths = 0
INVARIANT DoneMeansSynced
