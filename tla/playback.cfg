\* Two sensors, a file of four frames; for sensors four calls, or three in real time, and two for the device.
CONSTANTS
  s1 = s1  s2 = s2
  None = None
  Sensors = {s1, s2}
  File <- FourFrames
  MaxCalls <- FewCalls
  MaxRequests = 2
SPECIFICATION FairSpec
INVARIANT QuietWhenTold
PROPERTIES EveryFrameShown CallsReturn PlaybackEnds
