\* Two actions, a synchronous call and a flush on a queue of capacity 2.
CONSTANTS
  a1 = a1  a2 = a2  s1 = s1  s2 = s2  f1 = f1
  NoItem = NoItem
  Invokes = {a1, a2}
  Syncs = {s1}
  Flushes = {f1}
  Cap = 2
SPECIFICATION FairSpec
INVARIANTS QueueFollowsState FlushWaits
PROPERTIES QueuedActionLeaves StopEndsWaits
