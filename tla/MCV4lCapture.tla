----------------------------- MODULE MCV4lCapture -----------------------------
\* Instances of V4lCapture for TLC.
EXTENDS V4lCapture

CONSTANTS b1, b2, b3
==============================================================================
