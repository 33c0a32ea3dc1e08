SPECIFICATION FairSpec
CONSTANTS
  Operators = {"a", "b"}
  Ongoing <- MCOngoing
  Module = 1
  Configs <- MCConfigs
  Readings <- MCReadings
  DefaultInterval = 3
  IfIncreasedInterval = 1
INVARIANTS
  TypeOK
  LastingIsRepeated
  IncreaseIsReported
  SlashingPostedOnce
PROPERTY
  DeliveredAgain
