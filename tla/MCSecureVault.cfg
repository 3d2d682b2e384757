SPECIFICATION VaultSpec
CONSTANTS
  Requests = {q1, q2, q3}
  Secrets = {alice}
  ReceiveKeys = {k1, k2, k3}
  Materials = {x, y}
  Unset = Unset
  Capacity = 2
  DirectorySync = TRUE
  MaxCrashes = 2
SYMMETRY VaultSymmetry
INVARIANTS
  VaultTypeOK
  CacheIsFile
  StoredIsKept
PROPERTIES
  BindingsAreForever
  StoresAreAtomic
CHECK_DEADLOCK FALSE
