SPECIFICATION FairSpec
CONSTANTS
  LastBlock = 3
  Nonce <- MCNonce
  Owner <- MCOwner
  Deployments <- MCDeployments
  StuckKeys = {1}
INVARIANTS
  TypeOK
  FreshKeys
  MissingOwnerIsNew
  RowsHaveOperators
PROPERTY ChecksServed
CHECK_DEADLOCK FALSE
