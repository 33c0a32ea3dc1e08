SPECIFICATION FairSpec
CONSTANTS
  StartEpoch = 1
  LastEpoch = 3
  DbMaxRetries = 10
  LegacyEpochs = {0, 1}
CONSTRAINT ColdIsShort
INVARIANTS
  TypeOK
  CalculatedImpliesStored
  StoredHasMetadata
  CompleteUnlessRetried
  AlertsInOrder
  NoEpochSkipped
PROPERTIES
  GaugeFollowsStorage
  ImplementsPipeline
  EveryEpochProcessed
