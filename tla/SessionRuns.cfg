SPECIFICATION FairSpec
CONSTANTS
  s1 = s1
  p1 = p1
  p2 = p2
  Sessions = {s1}
  Prompts = {p1, p2}
  SessionOf <- MCSessionOf
  MaxSteps = 2
  MaxRetries = 1
  MaxRestarts = 1
  Faults = {"abort", "delete", "disconnect", "restart", "decline", "fail"}
INVARIANTS
  OneRunnerPerSession
  
  SteerKeepsRerun
  QueueOrder
  RowsMatchInbox
PROPERTIES
  AnsweredNotReplayed
  ImplementsInbox
  
  
CHECK_DEADLOCK FALSE
