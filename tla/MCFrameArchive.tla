---------------------------- MODULE MCFrameArchive ----------------------------
\* Instances of FrameArchive for TLC.
EXTENDS FrameArchive

CONSTANTS s1, s2, e1, p1, p2
==============================================================================
