--------------------------- MODULE MCOptionsWatcher ---------------------------
\* Instances of OptionsWatcher for TLC.
EXTENDS OptionsWatcher

CONSTANTS o1, o2, s1, s2, c1, c2
==============================================================================
