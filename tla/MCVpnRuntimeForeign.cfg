SPECIFICATION Spec
CONSTANTS
  Contexts = {cA, cB}
  NoContext = NoContext
  Polls = {p}
  Actions = {a}
  ReceiptPages = {}
  Readers = {p, a}
  NoReader = NoReader
  MaxVersion = 0
  MaxLeases = 1
  MaxFaults = 1
PROPERTIES
  StatusHidesForeignSession
