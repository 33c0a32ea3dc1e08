SPECIFICATION Spec
CONSTANTS
  a = a
  b = b
  Validators = {v, w}
  Operators = {a, b}
  Other = other
  ModuleOf <- MCModuleOf
  Tasks <- AllTasks
  Duties <- MCDuties
  FirstDuties <- MCFirstDuties
  Lists <- MCLists
  HighReward <- MCHighReward
  Interval = 2
  Distance = 0
  DeltaEpochs = 2
  Deposit = 2
  LastEpoch <- MCLastEpoch
  MaxAttempts = 1
SYMMETRY Symmetry
INVARIANTS
  CountedInARow
  BalancesTellRewards
  EveryValidatorCounted
  TotalsAgree
  EpochNumberAfterDuties
