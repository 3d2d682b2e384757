SPECIFICATION Spec
CONSTANTS
  Contexts = {cA, cB}
  NoContext = NoContext
  Polls = {p}
  Actions = {a}
  ReceiptPages = {a}
  Readers = {p, a}
  NoReader = NoReader
  MaxVersion = 0
  MaxLeases = 2
  MaxFaults = 1
SYMMETRY ContextSymmetry
INVARIANTS
  TypeOK
  ConnectedHasSession
  TunnelServesSession
  PolledStatusIsOwn
  ReceiptsBelongToContext
  ListsBelongToCaller
PROPERTIES
  ReceiptsSpec
VIEW PageView
