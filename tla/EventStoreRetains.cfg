SPECIFICATION StoreSpec
CONSTANTS
  a1 = a1
  e1 = e1
  e2 = e2
  o1 = o1
  None = None
  Aggregates = {a1}
  Events = {e1, e2}
  Owners = {o1}
  Claims = {}
  Removals = {}
  MaxRestarts = 0
  AggregateOf <- MCAggregateOf
  IdOf <- MCIdOf
INVARIANT LocalEventsAreRetained
CHECK_DEADLOCK FALSE
