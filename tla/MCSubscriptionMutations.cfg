SPECIFICATION Spec
CONSTANTS
  Accounts = {alice}
  Identities = {i1, i2}
  Actions = {"pause", "resume"}
  Calls = {m1, m2}
  None = None
  IdentityIsSteady = TRUE
  MaxTransactions = 3
  MaxPeriod = 1
  MaxReads = 2
  MaxReloads = 1
SYMMETRY CallSymmetry
INVARIANTS
  TypeOK
  InFlightIsExact
  PendingIsReconcilable
  RecordsBelongToContext
PROPERTIES
  NoBlindSubmission
  FinalizedNotForgotten
