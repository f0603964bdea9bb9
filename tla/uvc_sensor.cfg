\* Two pins, one other user of the power, three faults.
CONSTANTS
  d1 = d1  d2 = d2  h1 = h1
  None = None
  Pins = {d1, d2}
  Helpers = {h1}
  MaxFaults = 3
SPECIFICATION FairSpec
INVARIANTS PowerFollowsUsers CaptureIsBacked OpenTellsTheTruth
PROPERTY CallsReturn
