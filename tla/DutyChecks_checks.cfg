SPECIFICATION Spec
CONSTANTS
  regular = regular
  punished = punished
  newcomer = newcomer
  Validators <- MCValidators
  Slashed = {punished}
  Fresh = {newcomer}
  Epoch = 2
  SlotsPerEpoch = 2
  DutySlot <- MCDutySlot
  SourceLimit = 2
  TargetLimit = 2
  Deneb = 2
  Withdrawals <- MCAmounts
  SyncSeats <- MCAmounts
  NumAtts = 2
INVARIANTS
  TypeOK
  VotesAsOnChain
  CreditedToTheFirst
  ParticipationAsOnChain
  RowTellsPreviousVote
  CountedOnce
