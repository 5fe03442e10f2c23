CONSTANTS
  c1 = c1
  c2 = c2
  Calls <- MCCalls
  MaxTurns = 2
  MaxDrains = 2
SPECIFICATION MCSpec
INVARIANTS
  SettledOnce
  EndedStepIsSettled
  SettledBeforeNextRequest
CHECK_DEADLOCK FALSE
PROPERTIES
  CancelledDrainEnds
