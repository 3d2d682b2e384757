SPECIFICATION FairSpec
CONSTANTS
  Contexts = {cA}
  NoContext = NoContext
  Polls = {p}
  Actions = {a}
  ReceiptPages = {}
  Readers = {p, a}
  NoReader = NoReader
  MaxVersion = 1
  MaxLeases = 1
  MaxFaults = 1
PROPERTIES
  ReceiptsNeverRegress
  OrphanTunnelReported
  ConnectedIsTruthful
