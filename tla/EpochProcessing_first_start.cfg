SPECIFICATION FairSpec
CONSTANTS
  StartEpoch = 1
  LastEpoch = 2
  DbMaxRetries = 10
  LegacyEpochs = {0}
PROPERTY FirstStartRecovers
