\* Three streams from frame 0 on, the code's constants: one falls silent, or
\* lags, or loses frames, until a queue overflows behind a frame 0.
CONSTANTS
  depth = depth  ir1 = ir1  ir2 = ir2
  Streams = {depth, ir1, ir2}
  QueueMax = 10
  InactiveGap = 5
  WaitWindow = 4
  MaxNumber = 12
  MaxJump = 2
SYMMETRY Alike
SPECIFICATION FrameNumberSpec
CHECK_DEADLOCK FALSE
INVARIANT NoOverflow
PROPERTY SameNumberTogether
