SPECIFICATION Spec
CONSTANTS
  Contexts = {cA}
  NoContext = NoContext
  Polls = {p}
  Actions = {a}
  ReceiptPages = {}
  Readers = {p, a}
  NoReader = NoReader
  MaxVersion = 0
  MaxLeases = 2
  MaxFaults = 0
PROPERTIES
  RefreshAppliesToItsSession
