SPECIFICATION FairSpec
CONSTANTS
  NumUrls = 2
  MaxRetries = 1
  SlotsPerEpoch = 1
  Finalized = TRUE
  MaxSlot = 2
INVARIANTS
  TypeOK
  OnlyFinalizedUsed
PROPERTIES
  LatestNeverGoesBack
  LatestIsFresh
  MissedWasDenied
  HeadIsReached
