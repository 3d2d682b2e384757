SPECIFICATION Spec
CONSTANTS
  Accounts = {alice}
  Identities = {i1, i2}
  Actions = {"pause", "resume"}
  Calls = {m1, m2}
  None = None
  IdentityIsSteady = FALSE
  MaxTransactions = 2
  MaxPeriod = 0
  MaxReads = 1
  MaxReloads = 0
INVARIANTS
  OneMutationPerScope
