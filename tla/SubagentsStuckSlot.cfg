CONSTANTS
  i1 = i1
  c1 = c1
  c2 = c2
  p1 = p1
  p2 = p2
  f1 = f1
  r1 = r1
  None = None
  Ids = {i1}
  Starts = {c1}
  Extends = {}
  Waits = {}
  Watches = {}
  Prompts = {p1}
  Foregrounds = {}
  Routes = {}
  IdOf <- MCIdOf
  ChildOf <- MCChildOf
SPECIFICATION Spec
CHECK_DEADLOCK FALSE
INVARIANTS
  TakenSlotHasRunner
