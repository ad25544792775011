SPECIFICATION FairSpec
CONSTANTS
  old = old
  new = new
  none = none
  Names <- TwoNames
  Contents <- OldNew
  Empty = none
  SizeOf <- OwnSize
  Copied <- Text
  Conflicts <- SwpName
  EditsTick = FALSE
  MaxTime = 2
  MaxTrouble = 2
  MaxEdits = 2
  MaxDeaths = 2
  MaxSingles = 1
INVARIANTS NoVersionLost DoneMeansSynced OnlyListedChange
PROPERTIES DirectoriesKept Converges
