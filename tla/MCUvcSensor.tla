----------------------------- MODULE MCUvcSensor ------------------------------
\* Instances of UvcSensor for TLC.
EXTENDS UvcSensor

CONSTANTS d1, d2, h1
==============================================================================
