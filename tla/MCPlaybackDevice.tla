--------------------------- MODULE MCPlaybackDevice ---------------------------
\* Instances of PlaybackDevice for TLC.
EXTENDS PlaybackDevice

CONSTANTS s1, s2

\* Frames of both sensors, two of one of them in a row.
FourFrames == <<s1, s2, s1, s1>>

\* A late frame sets back what others have shown in four calls, when not in real time.
FewCalls == [r \in BOOLEAN |-> IF r THEN 3 ELSE 4]
==============================================================================
