CONSTANTS
  h1 = h1
  h2 = h2
  e1 = e1
  e2 = e2
  e3 = e3
  NoEvent = NoEvent
  NoHash = NoHash
  NoSeal = NoSeal
  Handles <- MCHandles
  Events <- MCEvents
  MaxRetries = 2
  Limit = 2
  MaxCrashes = 1
  MaxFailures = 1
SPECIFICATION FairSpec
INVARIANTS TypeOK EvidenceIntact AnswersAreTrue ProjectionRecovers
PROPERTIES LogSpec AppendsEnd
CONSTRAINT InOrder
