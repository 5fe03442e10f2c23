SPECIFICATION MCSpec
CONSTANTS
  a1 = a1
  a2 = a2
  e1 = e1
  e2 = e2
  x1 = x1
  o1 = o1
  o2 = o2
  c1 = c1
  c2 = c2
  r1 = r1
  s1 = s1
  s2 = s2
  d1 = d1
  None = None
  Aggregates = {a1, a2}
  Events = {e1, e2, x1}
  Owners = {o1, o2}
  Claims = {c1, c2}
  Removals = {r1}
  Streams = {s1, s2}
  Clients = {d1}
  MaxRestarts = 1
  PageSize = 1
  MaxCallers = 2
  AggregateOf <- MCAggregateOf
  IdOf <- MCIdOf
SYMMETRY CallerSymmetry
INVARIANTS
  MemoryIsSound
  WrittenThrough
  StreamInOrder
  StreamIsCaughtUp
  ShownIsStored
PROPERTY ImplementsEventLog
CHECK_DEADLOCK FALSE
