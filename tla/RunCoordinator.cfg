SPECIFICATION FairSpec
CONSTANTS
  k1 = k1
  r1 = r1
  r2 = r2
  w1 = w1
  w2 = w2
  i1 = i1
  None = None
  Keys = {k1}
  Runs = {r1}
  Wakes = {w1}
  Interrupts = {i1}
  DrainLimit = 3
  KeyOf <- MCKeyOf
CHECK_DEADLOCK FALSE
INVARIANTS
  OneDrainPerKey
  ReportedIsOver
  
PROPERTY InterruptsReturn
