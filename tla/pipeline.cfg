\* A depth sensor, synced, and a gyro: two frames each, two device objects.
CONSTANTS
  Sensors <- DepthAndGyro
  Synced <- DepthOnly
  MaxFrames = 2
  MaxMade = 2
  MaxCalls = 4
  MaxFaults = 2
SPECIFICATION FairSpec
INVARIANTS TypeOK AggregatorIsFresh 
PROPERTIES FramesetsAdvance CallsReturn PlaysAgain
