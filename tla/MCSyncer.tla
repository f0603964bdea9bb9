------------------------------- MODULE MCSyncer -------------------------------
\* Instances of Syncer for TLC.
EXTENDS Syncer

CONSTANTS t1, t2, t3
==============================================================================
