\* Two writers and two readers on a queue of capacity 2: wake-ups, items, progress.
CONSTANTS
  p1 = p1  p2 = p2  c1 = c1  c2 = c2
  i1 = i1  i2 = i2  i3 = i3  i4 = i4
  NoItem = NoItem
  Producers = {p1, p2}
  Consumers = {c1, c2}
  Item = {i1, i2, i3, i4}
  Cap = 2
SPECIFICATION FairSpec
INVARIANT NobodySleepsInVain
PROPERTIES ImplementsFifo ItemsGetThrough
