SPECIFICATION FairSpec
CONSTANTS
  a = a
  b = b
  Validators = {v, w}
  Operators = {a, b}
  Other = other
  ModuleOf <- MCModuleOf
  Tasks = {"badSyncParticipationLastNEpoch"}
  Duties <- SyncDuties
  FirstDuties <- SyncFirstDuties
  Lists <- SyncLists
  HighReward <- MCHighReward
  Interval = 2
  Distance = 21
  DeltaEpochs = 2
  Deposit = 2
  LastEpoch <- SyncLastEpoch
  MaxAttempts = 1
CONSTRAINT SyncQuiet
PROPERTY SyncCountAsDocumented
