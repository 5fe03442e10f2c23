SPECIFICATION Spec
CONSTANTS
  s1 = s1
  p1 = p1
  p2 = p2
  Sessions = {s1}
  Prompts = {p1, p2}
  SessionOf <- MCSessionOf
  MaxSteps = 2
  MaxRetries = 0
  MaxRestarts = 0
  Faults = {}
SYMMETRY PromptSymmetry
INVARIANT ContextOnlyPromoted
CHECK_DEADLOCK FALSE
