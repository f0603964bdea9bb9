\* Three streams' threads, a queue of two matches, a slow user callback.
CONSTANTS
  t1 = t1  t2 = t2  t3 = t3
  Threads = {t1, t2, t3}
  Cap = 2
  MaxMatches = 4
  MaxBurst = 2
SPECIFICATION FairSpec
PROPERTIES DeliveredInOrder MatchIsPickedUp
