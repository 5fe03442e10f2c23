CONSTANTS
  j1 = j1
  c1 = c1
  c2 = c2
  e1 = e1
  e2 = e2
  w1 = w1
  v1 = v1
  None = None
  Ids = {j1}
  Starts = {c1, c2}
  Extends = {e1, e2}
  Waits = {w1}
  Watches = {v1}
  IdOf <- MCIdOf
SPECIFICATION MCSpec
CHECK_DEADLOCK FALSE
INVARIANTS
  CompletesWithLastSegment
  OneSegmentAtATime
PROPERTIES
  OutcomeIsFinal
  WaiterIsTold
