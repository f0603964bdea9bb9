--------------------------- MODULE TimestampMatcher ---------------------------
(***************************************************************************)
(* timestamp_composite_matcher (src/sync.cpp): matches streams of possibly *)
(* different frame rates by timestamp.  Time is counted in a unit small    *)
(* enough for every gap (1000 / fps) to be a whole number of units.  The   *)
(* streams share one timestamp domain and nothing else: each has its own   *)
(* phase, its frames come somewhat early or late, and some never come.     *)
(***************************************************************************)
EXTENDS CompositeMatcher

CONSTANTS
  Gap,       \* stream |-> 1000 / fps
  Cutout,    \* 7 in skip_missing_stream: how many gaps a stream is waited for
  Jitter,    \* how much less than a gap may lie between two frames of a stream
  MaxTime,   \* bound: the largest timestamp
  MaxLate    \* how much older a frame may be than the newest one seen

ASSUME TimestampAssumption ==
  /\ IsFiniteSet(Streams)
  /\ Gap \in [Streams -> Nat \ {0}]
  /\ {QueueMax, Cutout, MaxTime} \subseteq Nat \ {0} /\ {Jitter, MaxLate} \subseteq Nat
  /\ \A s \in Streams : Jitter < Gap[s]

VARIABLES
  order,  \* the streams in the order of _frames_queue, a map keyed by address
  sent    \* the timestamp of the last frame of each stream

tvars == <<mvars, order, sent>>

\* Each stream has a place of its own.
Orders == {o \in [1..Cardinality(Streams) -> Streams] : \A s \in Streams : \E i \in DOMAIN o : o[i] = s}

TimestampInit ==
  /\ MatcherInit
  /\ order \in Orders
  /\ sent = [s \in Streams |-> 0]

\* The frames of a stream come in order, a gap apart but for the jitter, soon
\* after they were taken.  It may lose any of them, or pause, or drift.
TimedFrameArrives(s) ==
  /\ \E t \in 1..MaxTime :
       /\ sent[s] + Gap[s] <= t + Jitter
       /\ \A r \in Streams : sent[r] <= t + MaxLate
       /\ Arrive(s, t)
       /\ sent' = [sent EXCEPT ![s] = t]
  /\ UNCHANGED order

\* dispatch() and update_next_expected(); clean_inactive_streams() is empty.
TimestampDispatch ==
  /\ FindAndEnqueue({}, frame.stamp + Gap[frame.stream])
  /\ UNCHANGED <<order, sent>>

\* are_equivalent( double, double, fps ): less than half a gap apart.
Near(a, b, gap) == 2 * (IF a > b THEN a - b ELSE b - a) < gap

\* are_equivalent( frame, frame ) uses the lower of the two rates.
AreEquivalent(s, t) ==
  Near(Head(fq[s]), Head(fq[t]), IF Gap[s] > Gap[t] THEN Gap[s] ELSE Gap[t])

\* Mutant: synced_frames is not cleared when an earlier frame is met.
Compare_NotCleared(acc, s) ==
  CASE s \in Arrived /\ acc.synced # {} /\ AreEquivalent(acc.curr, s) -> [acc EXCEPT !.synced = @ \cup {s}]
    [] s \in Arrived /\ (acc.synced # {} => Head(fq[s]) < Head(fq[acc.curr]) /\ ~AreEquivalent(acc.curr, s))
         -> [curr |-> s, synced |-> acc.synced \cup {s}]
    [] OTHER -> acc

\* One turn of the loop over frames_arrived: `synced' are the streams in step
\* with `curr', the earliest head met so far.
Compare(acc, s) ==
  CASE s \in Arrived /\ acc.synced # {} /\ AreEquivalent(acc.curr, s) -> [acc EXCEPT !.synced = @ \cup {s}]
    [] s \in Arrived /\ (acc.synced # {} => Head(fq[s]) < Head(fq[acc.curr]) /\ ~AreEquivalent(acc.curr, s))
         -> [curr |-> s, synced |-> {s}]
    [] OTHER -> acc

\* The loop after so many streams of the map.
sorted[i \in 0..Cardinality(Streams)] ==
  IF i = 0 THEN [curr |-> frame.stream, synced |-> {}] ELSE Compare(sorted[i - 1], order[i])

Sort == sorted[Cardinality(Streams)]

\* Mutant: the cutout is ignored.
PastCutout_Never(m, curr) == FALSE

\* skip_missing_stream(): the missing stream is past its cutout.
PastCutout(m, curr) ==
  /\ m \in active
  /\ frame.stamp > expected[m]
  /\ frame.stamp - expected[m] >= Cutout * Gap[curr]

\* Mutant: a late stream is never waited for.
IsAwaited_OnlyOnTime(m, curr) ==
  /\ m \in active
  /\ frame.stamp <= expected[m]
  /\ Near(Head(fq[curr]), expected[m], Gap[curr])

\* skip_missing_stream() returns false.
IsAwaited(m, curr) ==
  /\ m \in active
  /\ IF frame.stamp > expected[m]
       THEN ~PastCutout(m, curr)
       ELSE Near(Head(fq[curr]), expected[m], Gap[curr])

\* One iteration of the loop of sync().  skip_missing_stream() forgets the
\* streams past their cutout, whether or not another one is waited for.
TimestampIteration ==
  /\ IF Arrived = {} THEN Wait /\ UNCHANGED <<known, active>>
     ELSE LET curr == Sort.curr
              synced == Sort.synced
              asked == IF synced = Arrived THEN Missing ELSE {}
              dead == {m \in asked : PastCutout(m, curr)}
          IN /\ known' = known \ dead
             /\ active' = active \ dead
             /\ IF \E m \in asked : IsAwaited(m, curr) THEN Wait ELSE Release(synced)
  /\ UNCHANGED <<order, sent>>

TimestampStop == ~stopped /\ StopMatcher /\ UNCHANGED <<order, sent>>

TimestampNext ==
  \/ \E s \in Streams : TimedFrameArrives(s)
  \/ TimestampDispatch
  \/ TimestampIteration
  \/ TimestampStop

TimestampSpec == TimestampInit /\ [][TimestampNext]_tvars

-------------------------------------------------------------------------------
\* Types of the queues, the activity flags and the dispatching thread's state.
TimestampTypeOK ==
  /\ MatcherTypeOK
  /\ order \in Orders
  /\ sent \in [Streams -> Nat]

\* A frame always finds room in its queue ("Each gap is a frame so we are
\* limited by the number of frames we're willing to keep (which is our queue
\* limit)"): no frame is dropped, and no blocking enqueue blocks, while a
\* stream is waited for.
AlwaysRoom ==
  TimestampTypeOK /\ (phase = "arrived" => Len(fq[frame.stream]) < QueueMax)

\* A stream whose next frame is due is not left behind: when nothing else is
\* queued to look at first, frames that are all in step with the frame that is
\* expected of it leave without it only after the cutout, and then the stream
\* counts as inactive.
NotLeftBehind ==
  [][\A m \in Missing \cap active :
       /\ DOMAIN out' # {} /\ DOMAIN out' = Arrived
       /\ \A s \in DOMAIN out' : Near(out'[s], expected[m], Gap[s])
       => m \notin active']_tvars

\* Being in step is not transitive, and the loop compares with one frame only,
\* whichever the map puts first.  Still, whatever that order: a frameset has a
\* frame that all the others are in step with, and at one rate the frames that
\* stay behind are later than that one.
FramesetInStep ==
  [][DOMAIN out' # {} =>
       \E c \in DOMAIN out' :
         /\ \A s \in DOMAIN out' : Near(out'[c], out'[s], IF Gap[c] > Gap[s] THEN Gap[c] ELSE Gap[s])
         /\ \A t \in Arrived \ DOMAIN out' :
              (\A s \in Arrived : Gap[s] = Gap[t]) => Head(fq[t]) > out'[c]]_tvars
==============================================================================
