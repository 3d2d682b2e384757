SPECIFICATION Spec
CONSTANTS
  Scopes = {s1, s2, s3}
  Blocks = {b1, b2}
  Policies = {p1}
  MaxHeight = 2
  MaxVersion = 1
  MaxScopes = 2
  None = None
SYMMETRY HashSymmetry
INVARIANTS
  OwnStateLoads
  AcceptedAgree
PROPERTIES
  WatermarkAdvances
