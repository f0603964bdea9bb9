\* Two callers, one option, one subscription at a time.
CONSTANTS
  o1 = o1  o2 = o2  s1 = s1  s2 = s2  c1 = c1  c2 = c2
  Unknown = Unknown  Null = Null
  Options = {o1}
  Slots = {s1}
  Callers = {c1, c2}
  MaxValue = 1
  MaxSkips = 1
SPECIFICATION FairWatcherSpec
INVARIANTS SleepsInformed ThreadIsHeld
PROPERTIES DestructorReturns ChangeIsReported
