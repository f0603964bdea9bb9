------------------------ MODULE MCSingleConsumerQueue ------------------------
\* Instances of SingleConsumerQueue for TLC.
EXTENDS SingleConsumerQueue

CONSTANTS p1, p2, c1, c2, i1, i2, i3, i4
==============================================================================
