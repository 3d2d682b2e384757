SPECIFICATION FairSpec
CONSTANTS
  careful = careful
  other = other
  large = large
  small = small
  Users = {careful, other}
  Careful = {careful}
  Operator = careful
  Materials = {m1, m2}
  Governed = m1
  Messages = {large, small}
  Recipient <- RecipientDef
  Amount <- AmountDef
  ChunkCount = 2
  MaxUnits = 2
  Nonces = {n1}
  NoState = NoState
INVARIANTS
  RoutesAgree
  SupplyIsBacked
PROPERTIES
  ImplementsLedger
  MessagesSettle
