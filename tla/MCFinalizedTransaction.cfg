SPECIFICATION FairSpec
CONSTANTS
  MaxHeight = 2
  MaxForks = 3
  MaximumAttempts = 2
INVARIANTS
  TypeOK
  ProofIsFinal
  IntegrityErrorsAreReal
PROPERTIES
  ImplementsOracle
  Terminates
CHECK_DEADLOCK FALSE
