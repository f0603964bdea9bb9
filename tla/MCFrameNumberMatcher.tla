------------------------ MODULE MCFrameNumberMatcher ------------------------
\* Instances of FrameNumberMatcher for TLC.
EXTENDS FrameNumberMatcher, TLC

CONSTANTS depth, ir1, ir2

\* The streams are alike.
Alike == Permutations(Streams)
==============================================================================
