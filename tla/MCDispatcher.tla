----------------------------- MODULE MCDispatcher -----------------------------
\* Instances of Dispatcher for TLC.
EXTENDS Dispatcher

CONSTANTS a1, a2, s1, s2, f1
==============================================================================
