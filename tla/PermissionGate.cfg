SPECIFICATION FairSpec
CONSTANTS
  a1 = a1
  a2 = a2
  h1 = h1
  h2 = h2
  Asks = {a1, a2}
  Handlers = {h1, h2}
  SessionOf <- MCSessionOf
  PatternOf <- MCPatternOf
  Faults = {"timeout", "interrupt"}
CHECK_DEADLOCK FALSE
INVARIANTS
  NoDuplicateReply
  RejectionSweeps
  AllowedOnlyByReply
  
PROPERTY EveryAskEnds
