------------------------ MODULE MCTimestampMatcher --------------------------
\* Instances of TimestampMatcher for TLC.
EXTENDS TimestampMatcher, TLC

CONSTANTS depth, color, motion

\* All at one rate: frames are in step when they are at most one unit apart.
SameRate == [s \in Streams |-> 3]

\* Then the streams, whose order in the map is arbitrary, are alike.
Alike == Permutations(Streams)
==============================================================================
