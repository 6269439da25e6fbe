CONSTANTS
  s1 = s1
  s2 = s2
  r1 = r1
  r2 = r2
  c1 = c1
  t1 = t1
  t2 = t2
  Sessions = {s1}
  Runs = {r1, r2}
  Conns = {c1}
  Streams = {t1}
  MaxRunEvents = 2
  OneRunAtATime = FALSE
  FeedCapacity = 2
  QueueDepth = 2
  ReadsMayFail = FALSE
  ResumePoints = {0}
SPECIFICATION Spec
INVARIANT NothingLeftBehind
CHECK_DEADLOCK FALSE
