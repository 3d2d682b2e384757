SPECIFICATION FairSpec
CONSTANTS
  Contexts = {cA, cB}
  NoContext = NoContext
  Calls = {p1, p2}
  MaxSessions = 2
  MaxRequests = 2
  MaxFrames = 2
  MaxGeneration = 2
INVARIANTS
  TypeOK
  OneSession
  KeysLiveWithTheirSession
  RequestSignaturesAreExact
  AnswersAreUnique
PROPERTIES
  FramesOnlyForLiveSession
  RequestsSettle
CHECK_DEADLOCK FALSE
