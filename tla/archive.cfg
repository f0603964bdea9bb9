\* Two slots and an extra object, one producer, users on several threads, a flush.
CONSTANTS
  s1 = s1  s2 = s2  e1 = e1  p1 = p1  p2 = p2
  Slots = {s1, s2}
  Extras = {e1}
  Producers = {p1}
  MaxQueue = 2
  MaxRef = 2
SPECIFICATION FairSpec
INVARIANTS CountIsExact LifeCycle FlushIsThorough
PROPERTY FlushReturns
