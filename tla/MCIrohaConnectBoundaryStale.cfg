SPECIFICATION Spec
CONSTANTS
  Contexts = {cA}
  NoContext = NoContext
  Calls = {p1}
  MaxSessions = 1
  MaxRequests = 1
  MaxFrames = 1
  MaxGeneration = 3
INVARIANTS
  PairingSignaturesAreCurrent
CHECK_DEADLOCK FALSE
