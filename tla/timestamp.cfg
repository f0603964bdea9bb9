\* Three streams at one rate, in every order of the map, each with its own phase,
\* jittering, losing frames, pausing or drifting, no frame more than a unit late.
\* The queue is as short as this cutout allows.
CONSTANTS
  depth = depth  color = color  motion = motion
  Streams = {depth, color, motion}
  Gap <- SameRate
  QueueMax = 5
  Cutout = 2
  Jitter = 1
  MaxLate = 1
  MaxTime = 15
SYMMETRY Alike
SPECIFICATION TimestampSpec
CHECK_DEADLOCK FALSE
INVARIANT AlwaysRoom
PROPERTIES FramesetInStep NotLeftBehind
