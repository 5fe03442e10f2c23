CONSTANTS
  h = h
  r = r
  t = t
  Handshake = h
  Requests = {r}
  Tools = {t}
  Cancellable = {r}
  MaxInflight = 1
  MaxAnswers = 3
SPECIFICATION FairSpec
INVARIANTS
  EndedLeavesNothing
  PendingIsBounded
  NoticeOnlyUnanswered
PROPERTIES
  EveryCallEnds
CHECK_DEADLOCK FALSE
