SPECIFICATION Spec
CONSTANTS
  MaxSlot = 4
  SlotsPerEpoch = 1
  MaxDeep = 1
  SlotTime = 12
CONSTRAINT ShortWhenLagging
INVARIANTS
  TypeOK
  SearchIsExact
  DeepErrorIsJustified
  MissedMarkIsTrue
