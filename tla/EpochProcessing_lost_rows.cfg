SPECIFICATION Spec
CONSTANTS
  StartEpoch = 1
  LastEpoch = 2
  DbMaxRetries = 10
  LegacyEpochs = {0}
INVARIANT StoredIsComplete
