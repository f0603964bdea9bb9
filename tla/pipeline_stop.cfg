\* As pipeline: what stop() leaves of a file that is repeated.
CONSTANTS
  Sensors <- DepthAndGyro
  Synced <- DepthOnly
  MaxFrames = 2
  MaxMade = 2
  MaxCalls = 4
  MaxFaults = 2
SPECIFICATION Spec
INVARIANT StopStops
