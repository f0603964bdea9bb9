-------------------------- MODULE FrameNumberMatcher --------------------------
(***************************************************************************)
(* frame_number_composite_matcher (src/sync.cpp): matches the streams of   *)
(* one clock by frame number.  A stream that is behind is waited for, but  *)
(* not for long: one that lags by more than InactiveGap frames is declared *)
(* inactive, and one whose next frame is more than WaitWindow away cannot  *)
(* be matched.                                                             *)
(***************************************************************************)
EXTENDS CompositeMatcher

CONSTANTS
  InactiveGap,  \* 5 in clean_inactive_streams
  WaitWindow,   \* 4 in skip_missing_stream
  MaxNumber,    \* bound: the largest frame number sent
  MaxJump       \* bound: a stream loses at most MaxJump - 1 frames in a row,
                \* the first ones included

ASSUME FrameNumberAssumption ==
  {QueueMax, InactiveGap, WaitWindow, MaxNumber, MaxJump} \subseteq Nat \ {0}

VARIABLE lastArrived  \* _last_arrived: 0 before the first frame, and after a frame 0

fvars == <<mvars, lastArrived>>

FrameNumberInit == MatcherInit /\ lastArrived = [s \in Streams |-> 0]

Distance(a, b) == IF a > b THEN a - b ELSE b - a

\* clean_inactive_streams(): the streams too far from the arriving frame,
\* possibly its own.  Number 0 counts as "nothing came yet".
Stale(n) == {s \in Streams : lastArrived[s] # 0 /\ Distance(n, lastArrived[s]) > InactiveGap}

\* Each stream delivers its frames in order from number 0, possibly losing
\* some.  A stream is in the map once a frame of it was dispatched.
Upcoming(s) == IF s \in known THEN lastArrived[s] + 1 ELSE 0

FrameArrives(s) ==
  /\ \E jump \in 1..MaxJump :
       Upcoming(s) + jump <= MaxNumber + 1 /\ Arrive(s, Upcoming(s) + jump - 1)
  /\ UNCHANGED lastArrived

\* Mutant: the streams left behind are emptied but stay active.
Dispatch_StillActive ==
  /\ FindAndEnqueue({}, frame.stamp + 1)
  /\ lastArrived' = [lastArrived EXCEPT ![frame.stream] = frame.stamp]

\* dispatch(), update_last_arrived(), update_next_expected().
Dispatch ==
  /\ FindAndEnqueue(Stale(frame.stamp), frame.stamp + 1)
  /\ lastArrived' = [lastArrived EXCEPT ![frame.stream] = frame.stamp]

\* Mutant: is_smaller_than compares the wrong way round.
Synced_Latest ==
  {s \in Arrived : \A t \in Arrived : Head(fq[t]) <= Head(fq[s])}

\* are_equivalent() and is_smaller_than() order the heads by number: the
\* loop over frames_arrived is left with those of the smallest number.
Synced ==
  {s \in Arrived : \A t \in Arrived : Head(fq[s]) <= Head(fq[t])}

\* skip_missing_stream() for a frameset of number n.
Skip(m, n) ==
  \/ m \notin active
  \/ n > expected[m] + WaitWindow
  \/ n < expected[m]

\* One iteration of the loop of sync().  The missing streams are looked at
\* only when all the heads match.
MustWait ==
  \/ Arrived = {}
  \/ Synced = Arrived /\ \E m \in Missing, s \in Synced : ~Skip(m, Head(fq[s]))

SyncIteration ==
  /\ \/ ~MustWait /\ Release(Synced)
     \/ MustWait /\ Wait
  /\ UNCHANGED <<known, active, lastArrived>>

Stop == ~stopped /\ StopMatcher /\ UNCHANGED lastArrived

FrameNumberNext ==
  \/ \E s \in Streams : FrameArrives(s)
  \/ Dispatch
  \/ SyncIteration
  \/ Stop

FrameNumberSpec == FrameNumberInit /\ [][FrameNumberNext]_fvars

-------------------------------------------------------------------------------
\* Types of the queues, the activity flags, and _last_arrived.
FrameNumberTypeOK == MatcherTypeOK /\ lastArrived \in [Streams -> Nat]

\* A stream that is waited for although only its frame 0 has come:
\* clean_inactive_streams() never takes it for a silent one.
StuckAtZero == \E m \in Missing \cap active : lastArrived[m] = 0

\* However the streams interleave, lag and lose frames, no more than
\* InactiveGap frames of a stream wait between two calls of dispatch(), so
\* that the next frame drops none from a full queue (and a blocking enqueue
\* under the syncer's mutex does not block).  The exception is the code's: a
\* stream that fell silent after frame 0 is waited for until the frames that
\* wait are WaitWindow past its next one, if need be until the full queue has
\* dropped those that are not.
NoOverflow ==
  /\ FrameNumberTypeOK
  /\ phase # "sync" => \A s \in Streams :
       \/ Len(fq[s]) <= InactiveGap
       \/ StuckAtZero /\ Head(fq[s]) <= WaitWindow + 1

\* Frames of the same number that are queued together leave together.
SameNumberTogether ==
  [][\A s \in DOMAIN out', t \in Streams :
       (\E k \in 1..Len(fq[t]) : fq[t][k] = out'[s]) => t \in DOMAIN out']_fvars
==============================================================================
