------------------------------ MODULE SyncProofs ------------------------------
(***************************************************************************)
(* Proofs about sync.cpp: first the syncer, for any threads, any capacity  *)
(* of _matches and any matches that frames complete; then the frame-number *)
(* matcher that runs under the syncer's mutex, for any streams, numbers    *)
(* and gaps; then the timestamp matcher, for any streams and timestamps.   *)
(*                                                                         *)
(* That the user gets the matches in order does not follow from the order  *)
(* of the queue alone: a thread has a match in its hand between the queue  *)
(* and the callback, and meanwhile others may push matches out of a full   *)
(* queue.  What keeps the order is that _matches always holds the newest   *)
(* matches without a gap (Newest), and that whatever a thread has in hand  *)
(* is older than those and newer than what the user got last (HandInv).    *)
(*                                                                         *)
(* That the matcher's queues stay short follows from one stream: between   *)
(* two frames everything that is queued waits for a stream that is active  *)
(* (AwaitedInv), active streams are never far apart (GapInv), and a queue  *)
(* ascends from what is waited for to the last frame that came (QueueInv). *)
(* Only a stream at frame number 0 escapes GapInv, as it does in the code. *)
(*                                                                         *)
(* The timestamp matcher waits by the clock of the frames.  What is queued *)
(* of a stream goes up by a gap but for the jitter (PaceInv).  The loop of *)
(* sync() leaves frames that are near one of them, and at one rate behind  *)
(* that one only later frames (Found).  So a stream that has nothing       *)
(* queued is expected soon after the frames that wait for it               *)
(* (ExpectedInv), the cutout limits how long a time a queue spans          *)
(* (SpanInv), and with it how many frames it holds.                        *)
(***************************************************************************)
EXTENDS Syncer, FrameNumberMatcher, TimestampMatcher,
        FiniteSetTheorems, SequenceTheorems, WellFoundedInduction, TLAPS

(***************************************************************************)
(* The syncer                                                              *)
(***************************************************************************)

Steps == {"idle", "dispatching", "dispatched", "draining", "calling", "leaving"}
Inside == {"draining", "calling", "leaving"}

\* The types, with the mutual exclusion in terms of the threads.
Shape ==
  /\ matches \in Seq(1..MaxMatches) /\ Len(matches) <= Cap
  /\ made \in 0..MaxMatches /\ burst \in 0..MaxBurst /\ made + burst <= MaxMatches
  /\ last \in 0..MaxMatches /\ blocking \in BOOLEAN
  /\ matcherActive \in BOOLEAN /\ enabled \in BOOLEAN
  /\ pc \in [Threads -> Steps]
  /\ hand \in [Threads -> 0..MaxMatches]

LockInv ==
  /\ owner = {t \in Threads : pc[t] \in Inside}
  /\ \A t, u \in owner : t = u
  /\ \A t, u \in Dispatching : t = u

Newest ==
  /\ last + Len(matches) <= made
  /\ \A i \in 1..Len(matches) : matches[i] = made - Len(matches) + i

HandInv ==
  \A t \in Threads :
    pc[t] = "calling" => last < hand[t] /\ hand[t] + Len(matches) <= made

SyncerInv == Shape /\ LockInv /\ Newest /\ HandInv

-------------------------------------------------------------------------------
\* One match more leaves the newest ones, up to the capacity.
LEMMA PushedIsNewest ==
  ASSUME Shape, Newest, burst > 0
  PROVE  /\ Pushed(matches, made + 1) \in Seq(1..MaxMatches)
         /\ Len(Pushed(matches, made + 1)) <= Cap
         /\ Len(Pushed(matches, made + 1)) <= Len(matches) + 1
         /\ \A i \in 1..Len(Pushed(matches, made + 1)) :
              Pushed(matches, made + 1)[i] = made + 1 - Len(Pushed(matches, made + 1)) + i
<1>1. /\ made \in Nat /\ MaxMatches \in Nat /\ Cap \in Nat \ {0} /\ made + 1 \in 1..MaxMatches
      /\ matches \in Seq(1..MaxMatches) /\ Len(matches) \in Nat /\ Len(matches) <= Cap
  BY SyncerAssumption DEF Shape
<1>2. CASE Len(matches) < Cap
  <2> DEFINE q == Append(matches, made + 1)
  <2>1. q \in Seq(1..MaxMatches) /\ Len(q) = Len(matches) + 1
    BY <1>1
  <2>2. ASSUME NEW i \in 1..Len(q)
        PROVE  q[i] = made + 1 - Len(q) + i
    BY <1>1, <2>1 DEF Newest
  <2>3. Pushed(matches, made + 1) = q
    BY <1>2 DEF Pushed
  <2> HIDE DEF q
  <2> QED
    BY <1>1, <1>2, <2>1, <2>2, <2>3
<1>3. CASE Len(matches) = Cap
  <2> DEFINE q == Append(Tail(matches), made + 1)
  <2> DEFINE n == Len(matches)
  <2>1. /\ n \in Nat \ {0} /\ Tail(matches) \in Seq(1..MaxMatches) /\ Len(Tail(matches)) = n - 1
        /\ \A i \in 1..n - 1 : Tail(matches)[i] = matches[i + 1]
    BY <1>1, <1>3, HeadTailProperties
  <2>2. q \in Seq(1..MaxMatches) /\ Len(q) = n
    BY <1>1, <2>1
  <2>3. (\A i \in 1..n - 1 : q[i] = matches[i + 1]) /\ q[n] = made + 1
    BY <1>1, <2>1
  <2>4. \A i \in 1..n : matches[i] = made - n + i
    BY DEF Newest
  <2>5. Pushed(matches, made + 1) = q
    BY <1>3 DEF Pushed
  <2> HIDE DEF q, n
  <2>6. \A i \in 1..n : q[i] = made + 1 - n + i
    BY <1>1, <2>1, <2>3, <2>4
  <2>7. n <= Cap /\ n <= Len(matches) + 1
    BY <1>1 DEF n
  <2> QED
    BY <2>2, <2>5, <2>6, <2>7
<1> QED
  BY <1>1, <1>2, <1>3

-------------------------------------------------------------------------------
(***************************************************************************)
(* One lemma per action that changes something                             *)
(***************************************************************************)

LEMMA DispatchFrameStep ==
  ASSUME SyncerInv, NEW t \in Threads, DispatchFrame(t)
  PROVE  SyncerInv'
<1>1. /\ pc[t] = "idle" /\ Dispatching = {} /\ pc' = [pc EXCEPT ![t] = "dispatching"]
      /\ UNCHANGED <<blocking, matches, made, matcherActive, enabled, hand, owner, last>>
  BY DEF DispatchFrame
<1>2. burst' \in 0..MaxBurst /\ made + burst' <= MaxMatches
  BY DEF DispatchFrame
<1>3. Shape'
  BY <1>1, <1>2 DEF SyncerInv, Shape, Steps
<1>4. LockInv'
  BY <1>1 DEF SyncerInv, Shape, LockInv, Inside, Dispatching
<1>5. Newest' /\ HandInv'
  BY <1>1 DEF SyncerInv, Shape, Newest, HandInv
<1> QED
  BY <1>3, <1>4, <1>5 DEF SyncerInv

LEMMA EnqueueMatchStep ==
  ASSUME SyncerInv, NEW t \in Threads, EnqueueMatch(t)
  PROVE  SyncerInv'
<1>1. /\ burst > 0 /\ matches' = Pushed(matches, made + 1)
      /\ made' = made + 1 /\ burst' = burst - 1
      /\ UNCHANGED <<blocking, matcherActive, enabled, pc, hand, owner, last>>
  BY DEF EnqueueMatch
<1>2. /\ matches' \in Seq(1..MaxMatches) /\ Len(matches') <= Cap
      /\ Len(matches') <= Len(matches) + 1
      /\ \A i \in 1..Len(matches') : matches'[i] = made' - Len(matches') + i
  <2> DEFINE q == Pushed(matches, made + 1)
  <2>1. matches' = q /\ made' = made + 1
    BY <1>1
  <2>2. /\ q \in Seq(1..MaxMatches) /\ Len(q) <= Cap /\ Len(q) <= Len(matches) + 1
        /\ \A i \in 1..Len(q) : q[i] = made + 1 - Len(q) + i
    BY <1>1, PushedIsNewest DEF SyncerInv
  <2> HIDE DEF q
  <2>3. ASSUME NEW i \in 1..Len(matches')
        PROVE  matches'[i] = made' - Len(matches') + i
    <3>1. i \in 1..Len(q) /\ matches'[i] = q[i] /\ made \in Nat /\ Len(q) \in Nat
      BY <2>1, <2>2 DEF SyncerInv, Shape
    <3>2. q[i] = made + 1 - Len(q) + i
      BY <2>2, <3>1
    <3> QED
      BY <2>1, <3>1, <3>2
  <2>4. matches' \in Seq(1..MaxMatches) /\ Len(matches') <= Cap /\ Len(matches') <= Len(matches) + 1
    BY <2>1, <2>2, Zenon
  <2> QED
    BY <2>3, <2>4
<1>3. /\ made \in Nat /\ burst \in Nat /\ made' \in 0..MaxMatches /\ last \in Nat
      /\ Len(matches) \in Nat /\ Len(matches') \in Nat
  BY <1>1, <1>2, SyncerAssumption DEF SyncerInv, Shape
<1>4. Shape'
  <2>1. burst' \in 0..MaxBurst /\ made' + burst' <= MaxMatches
    BY <1>1, <1>3, SyncerAssumption DEF SyncerInv, Shape
  <2> QED
    BY <1>1, <1>2, <1>3, <2>1 DEF SyncerInv, Shape
<1>5. LockInv'
  BY <1>1 DEF SyncerInv, LockInv, Dispatching
<1>6. Newest'
  <2>1. last' + Len(matches') <= made'
    BY <1>1, <1>2, <1>3 DEF SyncerInv, Newest
  <2> QED
    BY <1>2, <2>1 DEF Newest
<1>7. HandInv'
  <2> SUFFICES ASSUME NEW u \in Threads, pc'[u] = "calling"
               PROVE  last' < hand'[u] /\ hand'[u] + Len(matches') <= made'
    BY DEF HandInv
  <2>1. pc[u] = "calling" /\ hand[u] \in Nat
    BY <1>1 DEF SyncerInv, Shape
  <2>2. last < hand[u] /\ hand[u] + Len(matches) <= made
    BY <2>1 DEF SyncerInv, HandInv
  <2> QED
    BY <1>1, <1>2, <1>3, <2>1, <2>2
<1> QED
  BY <1>4, <1>5, <1>6, <1>7 DEF SyncerInv

LEMMA DispatchedStep ==
  ASSUME SyncerInv, NEW t \in Threads, Dispatched(t)
  PROVE  SyncerInv'
<1>1. Shape'
  BY DEF Dispatched, SyncerInv, Shape, Steps
<1>2. LockInv'
  BY DEF Dispatched, SyncerInv, Shape, LockInv, Inside, Dispatching
<1>3. Newest' /\ HandInv'
  BY DEF Dispatched, SyncerInv, Shape, Newest, HandInv
<1> QED
  BY <1>1, <1>2, <1>3 DEF SyncerInv

LEMMA TryLockStep ==
  ASSUME SyncerInv, NEW t \in Threads, TryLock(t)
  PROVE  SyncerInv'
<1>1. Shape'
  BY DEF TryLock, SyncerInv, Shape, Steps
<1>2. LockInv'
  BY DEF TryLock, SyncerInv, Shape, LockInv, Inside, Dispatching
<1>3. Newest'
  BY DEF TryLock, SyncerInv, Newest
<1>4. HandInv'
  BY DEF TryLock, SyncerInv, Shape, HandInv
<1> QED
  BY <1>1, <1>2, <1>3, <1>4 DEF SyncerInv

LEMMA TryDequeueStep ==
  ASSUME SyncerInv, NEW t \in Threads, TryDequeue(t)
  PROVE  SyncerInv'
<1>1. pc[t] = "draining" /\ UNCHANGED <<blocking, made, burst, matcherActive, enabled, owner, last>>
  BY DEF TryDequeue
<1>2. CASE /\ matches # <<>>
           /\ hand' = [hand EXCEPT ![t] = Head(matches)]
           /\ matches' = Tail(matches)
           /\ pc' = [pc EXCEPT ![t] = "calling"]
  <2>1. /\ matches \in Seq(1..MaxMatches) /\ Len(matches) \in Nat \ {0}
        /\ matches' \in Seq(1..MaxMatches) /\ Len(matches') = Len(matches) - 1
        /\ \A i \in 1..Len(matches') : matches'[i] = matches[i + 1]
        /\ Head(matches) = matches[1] /\ Head(matches) \in 1..MaxMatches
    <3>1. matches \in Seq(1..MaxMatches) /\ Len(matches) \in Nat \ {0} /\ Head(matches) = matches[1]
      BY <1>2 DEF SyncerInv, Shape
    <3>2. /\ Head(matches) \in 1..MaxMatches /\ Tail(matches) \in Seq(1..MaxMatches)
          /\ Len(Tail(matches)) = Len(matches) - 1
          /\ \A i \in 1..Len(Tail(matches)) : Tail(matches)[i] = matches[i + 1]
      BY <1>2, <3>1, HeadTailProperties
    <3> QED
      BY <1>2, <3>1, <3>2, Zenon
  <2>2. made \in Nat /\ last \in Nat /\ Cap \in Nat
    BY SyncerAssumption DEF SyncerInv, Shape
  <2>3. Head(matches) = made - Len(matches) + 1
    BY <2>1 DEF SyncerInv, Newest
  <2>4. Shape'
    <3>1. Len(matches') <= Cap
      BY <2>1, <2>2 DEF SyncerInv, Shape
    <3>2. Head(matches) \in 0..MaxMatches
      BY <2>1
    <3> QED
      BY <1>1, <1>2, <2>1, <3>1, <3>2 DEF SyncerInv, Shape, Steps
  <2>5. LockInv'
    BY <1>1, <1>2 DEF SyncerInv, Shape, LockInv, Inside, Dispatching
  <2>6. Newest'
    <3>1. last' + Len(matches') <= made'
      BY <1>1, <2>1, <2>2 DEF SyncerInv, Newest
    <3>2. ASSUME NEW i \in 1..Len(matches')
          PROVE  matches'[i] = made' - Len(matches') + i
      <4>1. matches[i + 1] = made - Len(matches) + (i + 1)
        BY <2>1 DEF SyncerInv, Newest
      <4> QED
        BY <1>1, <2>1, <2>2, <4>1
    <3> QED
      BY <3>1, <3>2 DEF Newest
  <2>7. HandInv'
    <3> SUFFICES ASSUME NEW u \in Threads, pc'[u] = "calling"
                 PROVE  last' < hand'[u] /\ hand'[u] + Len(matches') <= made'
      BY DEF HandInv
    <3>1. u = t
      BY <1>1, <1>2 DEF SyncerInv, Shape, LockInv, Inside, Dispatching
    <3>2. hand'[u] = Head(matches)
      BY <1>2, <3>1 DEF SyncerInv, Shape
    <3>3. last + Len(matches) <= made
      BY DEF SyncerInv, Newest
    <3> QED
      BY <1>1, <2>1, <2>2, <2>3, <3>2, <3>3
  <2> QED
    BY <2>4, <2>5, <2>6, <2>7 DEF SyncerInv
<1>3. CASE /\ matches = <<>>
           /\ pc' = [pc EXCEPT ![t] = "leaving"]
           /\ UNCHANGED <<hand, matches>>
  <2>1. Shape' /\ Newest' /\ HandInv'
    BY <1>1, <1>3 DEF SyncerInv, Shape, Steps, Newest, HandInv
  <2>2. LockInv'
    BY <1>1, <1>3 DEF SyncerInv, Shape, LockInv, Inside, Dispatching
  <2> QED
    BY <2>1, <2>2 DEF SyncerInv
<1> QED
  BY <1>2, <1>3 DEF TryDequeue

LEMMA FrameReadyStep ==
  ASSUME SyncerInv, NEW t \in Threads, FrameReady(t)
  PROVE  SyncerInv' /\ last' > last
<1>1. /\ pc[t] = "calling" /\ last' = hand[t] /\ hand' = [hand EXCEPT ![t] = 0]
      /\ pc' = [pc EXCEPT ![t] = "draining"]
      /\ UNCHANGED <<blocking, matches, made, burst, matcherActive, enabled, owner>>
  BY DEF FrameReady
<1>2. /\ hand[t] \in 0..MaxMatches /\ last \in Nat /\ last < hand[t]
      /\ hand[t] + Len(matches) <= made
  BY <1>1 DEF SyncerInv, Shape, HandInv
<1>3. Shape'
  BY <1>1, <1>2, SyncerAssumption DEF SyncerInv, Shape, Steps
<1>4. LockInv'
  BY <1>1 DEF SyncerInv, Shape, LockInv, Inside, Dispatching
<1>5. Newest'
  BY <1>1, <1>2 DEF SyncerInv, Newest
<1>6. HandInv'
  <2> SUFFICES ASSUME NEW u \in Threads, pc'[u] = "calling"
               PROVE  FALSE
    BY DEF HandInv
  <2>1. u # t /\ pc[u] = "calling"
    BY <1>1 DEF SyncerInv, Shape
  <2> QED
    BY <1>1, <2>1 DEF SyncerInv, LockInv, Inside, Dispatching
<1> QED
  BY <1>1, <1>2, <1>3, <1>4, <1>5, <1>6 DEF SyncerInv

LEMMA UnlockStep ==
  ASSUME SyncerInv, NEW t \in Threads, Unlock(t)
  PROVE  SyncerInv'
<1>1. Shape' /\ Newest'
  BY DEF Unlock, SyncerInv, Shape, Steps, Newest
<1>2. LockInv'
  BY DEF Unlock, SyncerInv, Shape, LockInv, Inside, Dispatching
<1>3. HandInv'
  BY DEF Unlock, SyncerInv, Shape, HandInv
<1> QED
  BY <1>1, <1>2, <1>3 DEF SyncerInv

\* Every step keeps the invariant, and only a callback changes what came last.
LEMMA SyncerStep ==
  ASSUME SyncerInv, [Next]_vars
  PROVE  SyncerInv' /\ (last' # last => last' > last)
<1>1. CASE UNCHANGED vars
  BY <1>1 DEF vars, SyncerInv, Shape, LockInv, Dispatching, Newest, HandInv
<1>2. CASE Toggle \/ StopMatching
  BY <1>2 DEF Toggle, StopMatching, SyncerInv, Shape, LockInv, Dispatching, Newest, HandInv
<1>3. ASSUME NEW t \in Threads, FrameStep(t)
      PROVE  SyncerInv' /\ (last' # last => last' > last)
  <2>1. CASE Passthrough(t) \/ DispatchStopped(t)
    BY <1>1, <2>1 DEF Passthrough, DispatchStopped
  <2>2. CASE DispatchFrame(t)
    BY <2>2, DispatchFrameStep DEF DispatchFrame
  <2>7. CASE EnqueueMatch(t)
    BY <2>7, EnqueueMatchStep DEF EnqueueMatch
  <2>8. CASE Dispatched(t)
    BY <2>8, DispatchedStep DEF Dispatched
  <2>3. CASE TryLock(t)
    BY <2>3, TryLockStep DEF TryLock
  <2>4. CASE TryDequeue(t)
    BY <2>4, TryDequeueStep DEF TryDequeue
  <2>5. CASE FrameReady(t)
    BY <2>5, FrameReadyStep
  <2>6. CASE Unlock(t)
    BY <2>6, UnlockStep DEF Unlock
  <2> QED
    BY <1>3, <2>1, <2>2, <2>3, <2>4, <2>5, <2>6, <2>7, <2>8 DEF FrameStep
<1> QED
  BY <1>1, <1>2, <1>3 DEF Next

LEMMA SyncerInvariant == Spec => []SyncerInv
<1>1. Init => SyncerInv
  BY SyncerAssumption DEF Init, SyncerInv, Shape, Steps, LockInv, Inside, Dispatching, Newest, HandInv
<1>2. SyncerInv /\ [Next]_vars => SyncerInv'
  BY SyncerStep
<1> QED
  BY <1>1, <1>2, PTL DEF Spec

-------------------------------------------------------------------------------
(***************************************************************************)
(* The theorems                                                            *)
(***************************************************************************)

LEMMA AtMostOne ==
  ASSUME NEW S, \A t, u \in S : t = u
  PROVE  Cardinality(S) <= 1
<1>1. CASE S = {}
  BY <1>1, FS_EmptySet
<1>2. CASE S # {}
  <2>1. PICK t \in S : S = {t}
    BY <1>2
  <2>2. Cardinality({t}) = 1
    BY FS_Singleton
  <2> QED
    BY <2>1, <2>2
<1> QED
  BY <1>1, <1>2

\* Every variable stays in its type, and whoever delivers does it alone: the
\* try_to_lock of _callback_mutex is enough, for any number of streams.
THEOREM SyncerTypeCorrect == Spec => []TypeOK
<1>1. SyncerInv => TypeOK
  <2> SUFFICES ASSUME SyncerInv
               PROVE  Cardinality(owner) <= 1 /\ Cardinality(Dispatching) <= 1
    BY DEF SyncerInv, Shape, LockInv, Steps, Inside, TypeOK
  <2> QED
    BY AtMostOne DEF SyncerInv, LockInv
<1> QED
  BY <1>1, SyncerInvariant, PTL

\* The user's callback gets the matches in the order they were made, whichever
\* threads deliver them and however many a full _matches has dropped.
THEOREM MatchesComeInOrder == Spec => DeliveredInOrder
<1>1. SyncerInv /\ [Next]_vars => [last' # last => last' > last]_vars
  BY SyncerStep
<1> QED
  BY <1>1, SyncerInvariant, PTL DEF Spec, DeliveredInOrder

-------------------------------------------------------------------------------
(***************************************************************************)
(* The frame-number matcher                                                *)
(***************************************************************************)

\* _last_arrived and _next_expected belong to the streams in the map.
NumbersInv ==
  \A s \in Streams :
    IF s \in known THEN expected[s] = lastArrived[s] + 1 ELSE lastArrived[s] = 0

\* The frame on its way is newer than what its stream brought before, if it
\* brought any, and the frame set released before it is not looked at again.
ArrivalInv ==
  phase = "arrived" =>
    /\ frame.stamp >= lastArrived[frame.stream] /\ DOMAIN out = {}
    /\ frame.stream \in known => frame.stamp > lastArrived[frame.stream]

\* Numbers that go up and end before n: no two are the same, so there are few.
Ascending(q, n) ==
  /\ \A i \in 1..Len(q) : q[i] + (Len(q) - i) <= n
  /\ \A i, j \in 1..Len(q) : i < j => q[i] < q[j]

\* The queue of a stream ascends to the last frame that arrived, and an inactive
\* stream has none.
QueueInv ==
  \A s \in Streams :
    /\ fq[s] # <<>> => s \in known /\ s \in active
    /\ Ascending(fq[s], lastArrived[s])

\* clean_inactive_streams() leaves no active stream too far behind another,
\* except one that is still at number 0.
GapInv ==
  \A s, m \in active \cap known :
    lastArrived[m] # 0 => lastArrived[s] <= lastArrived[m] + InactiveGap

\* Only stop() closes queues, and the frame that was on its way then finds all
\* of them empty.
StopInv ==
  /\ ~stopped => open = Streams
  /\ stopped /\ phase = "arrived" => \A s \in Streams : fq[s] = <<>>

\* Between two frames what is queued waits for one active stream, whose next
\* frame is within WaitWindow before the first of them.
AwaitedInv ==
  phase # "sync" =>
    \/ \A s \in Streams : fq[s] = <<>>
    \/ \E m \in active \cap known :
         /\ fq[m] = <<>>
         /\ \A s \in Streams : fq[s] # <<>> =>
              expected[m] <= fq[s][1] /\ fq[s][1] <= expected[m] + WaitWindow

MatchInv ==
  /\ FrameNumberTypeOK /\ NumbersInv /\ ArrivalInv /\ QueueInv /\ GapInv
  /\ StopInv /\ AwaitedInv

-------------------------------------------------------------------------------
\* A newer frame put into a queue, which may drop its oldest one.
LEMMA PushedAscends ==
  ASSUME NEW q \in Seq(Nat), NEW l \in Nat, NEW n \in Nat, q = <<>> \/ l < n,
         Ascending(q, l), Len(q) <= QueueMax
  PROVE  /\ Fifo!Pushed(q, n) \in Seq(Nat) /\ Fifo!Pushed(q, n) # <<>>
         /\ Len(Fifo!Pushed(q, n)) <= Len(q) + 1 /\ Len(Fifo!Pushed(q, n)) <= QueueMax
         /\ Ascending(Fifo!Pushed(q, n), n)
<1>0. /\ QueueMax \in Nat /\ QueueMax > 0 /\ Len(q) \in Nat
      /\ \A i \in 1..Len(q) : q[i] \in Nat
  BY FrameNumberAssumption, ElementOfSeq
<1>1. CASE Len(q) < QueueMax
  <2>1. Fifo!Pushed(q, n) = Append(q, n)
    BY <1>1 DEF Fifo!Pushed
  <2> DEFINE r == Append(q, n)
  <2>2. r \in Seq(Nat) /\ Len(r) = Len(q) + 1 /\ r # <<>>
        /\ (\A i \in 1..Len(q) : r[i] = q[i]) /\ r[Len(q) + 1] = n
    BY AppendProperties
  <2> HIDE DEF r
  <2>3. ASSUME NEW i \in 1..Len(r) PROVE r[i] + (Len(r) - i) <= n
    <3>1. CASE i \in 1..Len(q)
      <4>1. q[i] + (Len(q) - i) <= l /\ r[i] = q[i] /\ q[i] \in Nat
        BY <1>0, <2>2, <3>1 DEF Ascending
      <4> QED BY <1>0, <2>2, <4>1
    <3>2. CASE i = Len(q) + 1
      BY <1>0, <2>2, <3>2
    <3> QED BY <1>0, <2>2, <3>1, <3>2
  <2>4. ASSUME NEW i \in 1..Len(r), NEW j \in 1..Len(r), i < j PROVE r[i] < r[j]
    <3>1. i \in 1..Len(q) /\ r[i] = q[i] /\ q[i] \in Nat /\ q[i] + (Len(q) - i) <= l
      BY <1>0, <2>2, <2>4 DEF Ascending
    <3>2. CASE j \in 1..Len(q)
      BY <2>2, <2>4, <3>1, <3>2 DEF Ascending
    <3>3. CASE j = Len(q) + 1
      BY <1>0, <2>2, <3>1, <3>3
    <3> QED BY <1>0, <2>2, <3>2, <3>3
  <2>5. r \in Seq(Nat) /\ r # <<>> /\ Len(r) <= Len(q) + 1 /\ Len(r) <= QueueMax /\ Ascending(r, n)
    BY <1>0, <1>1, <2>2, <2>3, <2>4 DEF Ascending
  <2> QED BY <2>1, <2>5 DEF r
<1>2. CASE Len(q) >= QueueMax
  <2>1. Fifo!Pushed(q, n) = Append(Tail(q), n)
    BY <1>0, <1>2 DEF Fifo!Pushed
  <2> DEFINE r == Append(Tail(q), n)
  <2>2. Tail(q) \in Seq(Nat) /\ Len(Tail(q)) = Len(q) - 1 /\ \A i \in 1..Len(Tail(q)) : Tail(q)[i] = q[i + 1]
    <3>1. q # <<>>
      BY <1>0, <1>2
    <3> QED BY <3>1, HeadTailProperties
  <2>3. r \in Seq(Nat) /\ Len(r) = Len(q) /\ r # <<>>
        /\ (\A i \in 1..Len(q) - 1 : r[i] = q[i + 1]) /\ r[Len(q)] = n
    BY <1>0, <2>2, AppendProperties
  <2> HIDE DEF r
  <2>4. ASSUME NEW i \in 1..Len(r) PROVE r[i] + (Len(r) - i) <= n
    <3>1. CASE i \in 1..Len(q) - 1
      <4>1. i + 1 \in 1..Len(q)
        BY <1>0, <3>1
      <4>2. q[i + 1] + (Len(q) - (i + 1)) <= l /\ r[i] = q[i + 1] /\ q[i + 1] \in Nat
        BY <1>0, <2>3, <3>1, <4>1 DEF Ascending
      <4> QED BY <1>0, <2>3, <4>2
    <3>2. CASE i = Len(q)
      BY <1>0, <2>3, <3>2
    <3> QED BY <1>0, <2>3, <3>1, <3>2
  <2>5. ASSUME NEW i \in 1..Len(r), NEW j \in 1..Len(r), i < j PROVE r[i] < r[j]
    <3>1. i \in 1..Len(q) - 1 /\ i + 1 \in 1..Len(q)
      BY <1>0, <2>3, <2>5
    <3>2. r[i] = q[i + 1] /\ q[i + 1] \in Nat /\ q[i + 1] + (Len(q) - (i + 1)) <= l
      BY <1>0, <2>3, <3>1 DEF Ascending
    <3>3. CASE j \in 1..Len(q) - 1
      <4>1. j + 1 \in 1..Len(q) /\ i + 1 < j + 1 /\ r[j] = q[j + 1]
        BY <1>0, <2>3, <2>5, <3>3
      <4> QED BY <3>1, <3>2, <4>1 DEF Ascending
    <3>4. CASE j = Len(q)
      BY <1>0, <2>3, <3>1, <3>2, <3>4
    <3> QED BY <1>0, <2>3, <3>3, <3>4
  <2>6. r \in Seq(Nat) /\ r # <<>> /\ Len(r) <= Len(q) + 1 /\ Len(r) <= QueueMax /\ Ascending(r, n)
    BY <1>0, <2>3, <2>4, <2>5 DEF Ascending
  <2> QED BY <2>1, <2>6 DEF r
<1> QED BY <1>0, <1>1, <1>2

\* A queue without its oldest frame.
LEMMA TailAscends ==
  ASSUME NEW q \in Seq(Nat), q # <<>>, NEW l \in Nat, Ascending(q, l)
  PROVE  Tail(q) \in Seq(Nat) /\ Len(Tail(q)) = Len(q) - 1 /\ Ascending(Tail(q), l)
<1>1. Tail(q) \in Seq(Nat) /\ Len(Tail(q)) = Len(q) - 1 /\ \A i \in 1..Len(q) - 1 : Tail(q)[i] = q[i + 1]
  OBVIOUS
<1>2. Len(q) \in Nat /\ \A i \in 1..Len(q) : q[i] \in Nat
  OBVIOUS
<1> QED BY <1>1, <1>2 DEF Ascending

\* The last frame of the stream is newer than what its queue ends with.
LEMMA AscendsFurther ==
  ASSUME NEW q \in Seq(Nat), NEW l \in Nat, NEW n \in Nat, l <= n, Ascending(q, l)
  PROVE  Ascending(q, n)
<1>1. Len(q) \in Nat /\ \A i \in 1..Len(q) : q[i] \in Nat
  OBVIOUS
<1> QED BY <1>1 DEF Ascending

\* Different numbers in a range are no more than the range.
LEMMA AscendingIsShort ==
  ASSUME NEW q \in Seq(Nat), NEW l \in Nat, NEW e \in Nat, NEW g \in Nat,
         Ascending(q, l), q # <<>> => e + 1 <= q[1], l <= e + g
  PROVE  Len(q) <= g
<1>1. CASE q = <<>>
  BY <1>1
<1>2. CASE q # <<>>
  <2>1. Len(q) \in Nat /\ 1 \in 1..Len(q) /\ q[1] \in Nat
    BY <1>2
  <2> QED BY <1>2, <2>1 DEF Ascending
<1> QED BY <1>1, <1>2

-------------------------------------------------------------------------------
\* A frame starts on its way down to the queues.
LEMMA ArriveStep ==
  ASSUME MatchInv, NEW s \in Streams, FrameArrives(s)
  PROVE  MatchInv'
<1>0. PICK jump \in 1..MaxJump : Arrive(s, Upcoming(s) + jump - 1)
  BY DEF FrameArrives
<1> DEFINE n == Upcoming(s) + jump - 1
<1>1. lastArrived[s] \in Nat /\ jump \in Nat /\ jump >= 1
  BY FrameNumberAssumption, <1>0 DEF MatchInv, FrameNumberTypeOK
<1>2. /\ phase = "idle" /\ ~stopped /\ phase' = "arrived"
      /\ frame' = [stream |-> s, stamp |-> n] /\ out' = NoFrames
      /\ UNCHANGED <<fq, known, open, active, expected, stopped, lastArrived>>
  BY <1>0 DEF Arrive, FrameArrives
<1>3. n \in Nat /\ n >= lastArrived[s] /\ (s \in known => n > lastArrived[s])
  BY <1>1 DEF MatchInv, NumbersInv, Upcoming
<1> HIDE DEF n
<1>4. DOMAIN out' = {} /\ frame'.stream = s /\ frame'.stamp = n
  BY <1>2 DEF NoFrames
<1>5. frame' \in [stream : Streams, stamp : Nat]
  BY <1>2, <1>3
<1>6. FrameNumberTypeOK'
  BY <1>2, <1>4, <1>5 DEF MatchInv, FrameNumberTypeOK, MatcherTypeOK
<1>7. ArrivalInv'
  BY <1>2, <1>3, <1>4 DEF ArrivalInv
<1>8. NumbersInv' /\ QueueInv' /\ GapInv'
  BY <1>2 DEF MatchInv, NumbersInv, QueueInv, GapInv
<1>9. StopInv' /\ AwaitedInv'
  BY <1>2 DEF MatchInv, StopInv, AwaitedInv
<1> QED BY <1>6, <1>7, <1>8, <1>9 DEF MatchInv

\* Between two frames no queue is longer than InactiveGap, unless what it holds
\* waits for a stream that is still at number 0.
LEMMA QueuesAreShort ==
  ASSUME MatchInv, phase # "sync", NEW s \in Streams
  PROVE  Len(fq[s]) <= InactiveGap \/ (StuckAtZero /\ Head(fq[s]) <= WaitWindow + 1)
<1> USE FrameNumberAssumption
<1>1. fq[s] \in Seq(Nat) /\ lastArrived \in [Streams -> Nat] /\ known \subseteq Streams /\ InactiveGap \in Nat
  BY DEF MatchInv, FrameNumberTypeOK, MatcherTypeOK
<1>2. CASE fq[s] = <<>>
  BY <1>1, <1>2
<1>3. CASE fq[s] # <<>>
  <2>1. PICK m \in active \cap known : fq[m] = <<>> /\ expected[m] <= fq[s][1] /\ fq[s][1] <= expected[m] + WaitWindow
    BY <1>3 DEF MatchInv, AwaitedInv
  <2>2. m \in Streams /\ expected[m] = lastArrived[m] + 1
    BY <1>1, <2>1 DEF MatchInv, NumbersInv
  <2>3. s \in active \cap known /\ Ascending(fq[s], lastArrived[s])
    BY <1>3 DEF MatchInv, QueueInv
  <2>4. CASE lastArrived[m] # 0
    <3>1. lastArrived[s] <= lastArrived[m] + InactiveGap
      BY <2>1, <2>3, <2>4 DEF MatchInv, GapInv
    <3> QED BY <1>1, <2>1, <2>2, <2>3, <3>1, AscendingIsShort
  <2>5. CASE lastArrived[m] = 0
    <3>1. m \in Missing \cap active
      BY <2>1 DEF Missing, Arrived
    <3>2. StuckAtZero
      BY <2>5, <3>1 DEF StuckAtZero
    <3>3. Head(fq[s]) <= WaitWindow + 1
      BY <1>1, <1>3, <2>1, <2>2, <2>5
    <3> QED BY <3>2, <3>3
  <2> QED BY <2>4, <2>5
<1> QED BY <1>2, <1>3

\* dispatch() up to the enqueue.
LEMMA EnqueueStep ==
  ASSUME MatchInv, Dispatch
  PROVE  MatchInv'
<1> USE FrameNumberAssumption
<1> DEFINE s == frame.stream
           n == frame.stamp
           cleaned == Stale(n)
           opened == IF s \in active \ cleaned THEN open ELSE open \cup {s}
           emptied == [m \in Streams |-> IF m \in cleaned THEN <<>> ELSE fq[m]]
<1>1. /\ fq \in [Streams -> Seq(Nat)] /\ lastArrived \in [Streams -> Nat]
      /\ known \subseteq Streams /\ open \subseteq Streams /\ active \subseteq Streams
      /\ expected \in [Streams -> Nat] /\ s \in Streams /\ n \in Nat
      /\ stopped \in BOOLEAN /\ InactiveGap \in Nat
      /\ \A m \in Streams : Len(fq[m]) <= QueueMax
      /\ \A m \in Streams \ known : fq[m] = <<>>
  BY DEF MatchInv, FrameNumberTypeOK, MatcherTypeOK
<1>2. /\ phase = "arrived"
      /\ active' = (active \ cleaned) \cup {s}
      /\ known' = known \cup cleaned \cup {s}
      /\ open' = opened
      /\ expected' = [expected EXCEPT ![s] = n + 1]
      /\ fq' = IF s \in opened THEN [emptied EXCEPT ![s] = Fifo!Pushed(emptied[s], n)] ELSE emptied
      /\ phase' = IF s \in opened THEN "sync" ELSE "idle"
      /\ UNCHANGED <<frame, stopped, out>>
      /\ lastArrived' = [lastArrived EXCEPT ![s] = n]
  BY <1>1 DEF Dispatch, FindAndEnqueue
<1>3. n >= lastArrived[s] /\ (s \in known => n > lastArrived[s]) /\ DOMAIN out = {}
  BY <1>2 DEF MatchInv, ArrivalInv
<1>4. cleaned \subseteq Streams /\ cleaned \subseteq known
  BY <1>1 DEF Stale, MatchInv, NumbersInv
<1>5. known' = known \cup {s}
  BY <1>2, <1>4
<1>6. /\ emptied \in [Streams -> Seq(Nat)]
      /\ \A m \in Streams : /\ Len(emptied[m]) <= QueueMax
                            /\ Ascending(emptied[m], lastArrived[m])
                            /\ emptied[m] # <<>> => m \in known /\ m \in active \ cleaned
  <2>1. ASSUME NEW m \in Streams
        PROVE  /\ emptied[m] \in Seq(Nat) /\ Len(emptied[m]) <= QueueMax
               /\ Ascending(emptied[m], lastArrived[m])
               /\ emptied[m] # <<>> => m \in known /\ m \in active \ cleaned
    <3>1. CASE m \in cleaned
      <4>1. emptied[m] = <<>>
        BY <3>1
      <4> QED BY <1>1, <4>1 DEF Ascending
    <3>2. CASE m \notin cleaned
      <4>1. emptied[m] = fq[m]
        BY <3>2
      <4> QED BY <1>1, <3>2, <4>1 DEF MatchInv, QueueInv
    <3> QED BY <3>1, <3>2
  <2> QED BY <2>1
<1>7. /\ Fifo!Pushed(emptied[s], n) \in Seq(Nat)
      /\ Len(Fifo!Pushed(emptied[s], n)) <= Len(emptied[s]) + 1
      /\ Len(Fifo!Pushed(emptied[s], n)) <= QueueMax
      /\ Ascending(Fifo!Pushed(emptied[s], n), n)
  <2>1. emptied[s] = <<>> \/ lastArrived[s] < n
    BY <1>1, <1>3, <1>6
  <2>2. /\ emptied[s] \in Seq(Nat) /\ Len(emptied[s]) <= QueueMax /\ Ascending(emptied[s], lastArrived[s])
        /\ lastArrived[s] \in Nat
    BY <1>1, <1>6
  <2> HIDE DEF emptied
  <2> QED BY <1>1, <2>1, <2>2, PushedAscends
<1>8. /\ fq' \in [Streams -> Seq(Nat)]
      /\ \A m \in Streams : /\ Len(fq'[m]) <= QueueMax
                            /\ m # s => fq'[m] = emptied[m]
                            /\ fq'[m] # <<>> => m \in known' /\ m \in active'
  <2>1. \A m \in Streams : Len(emptied[m]) \in Nat
    BY <1>6
  <2>2. CASE s \in opened
    <3>1. fq' = [emptied EXCEPT ![s] = Fifo!Pushed(emptied[s], n)]
      BY <1>2, <2>2
    <3>2. fq'[s] = Fifo!Pushed(emptied[s], n) /\ \A m \in Streams : m # s => fq'[m] = emptied[m]
      BY <1>1, <1>6, <3>1
    <3>3. fq' \in [Streams -> Seq(Nat)]
      BY <1>1, <1>6, <1>7, <3>1
    <3>4. ASSUME NEW m \in Streams
          PROVE  /\ Len(fq'[m]) <= QueueMax
                 /\ fq'[m] # <<>> => m \in known' /\ m \in active'
      <4>1. Len(fq'[m]) \in Nat /\ Len(emptied[m]) \in Nat /\ Len(emptied[s]) \in Nat
        BY <1>1, <2>1, <3>3
      <4>2. CASE m = s
        BY <1>1, <1>2, <1>5, <1>6, <1>7, <3>2, <4>1, <4>2
      <4>3. CASE m # s
        <5>1. fq'[m] = emptied[m] /\ Len(emptied[m]) <= QueueMax
          BY <1>6, <3>2, <4>3
        <5>2. emptied[m] # <<>> => m \in known' /\ m \in active'
          BY <1>2, <1>5, <1>6
        <5> HIDE DEF emptied
        <5> QED BY <1>1, <4>1, <5>1, <5>2
      <4> QED BY <4>2, <4>3
    <3> QED BY <3>2, <3>3, <3>4
  <2>3. CASE s \notin opened
    <3>1. fq' = emptied
      BY <1>2, <2>3
    <3>2. ASSUME NEW m \in Streams
          PROVE  /\ Len(emptied[m]) <= QueueMax
                 /\ emptied[m] # <<>> => m \in known' /\ m \in active'
      <4>1. /\ Len(emptied[m]) <= QueueMax /\ Len(emptied[m]) \in Nat
            /\ emptied[m] # <<>> => m \in known' /\ m \in active'
        BY <1>2, <1>5, <1>6, <2>1
      <4> HIDE DEF emptied
      <4> QED BY <1>1, <4>1
    <3> QED BY <1>6, <3>1, <3>2
  <2> QED BY <2>2, <2>3
<1>9. FrameNumberTypeOK'
  <2>1. expected' \in [Streams -> Nat] /\ lastArrived' \in [Streams -> Nat]
    BY <1>1, <1>2
  <2>2. known' \subseteq Streams /\ active' \subseteq Streams /\ open' \subseteq Streams
    BY <1>1, <1>2, <1>5
  <2>3. phase' \in {"idle", "arrived", "sync"}
    BY <1>2
  <2>4. frame' \in [stream : Streams, stamp : Nat] /\ stopped' \in BOOLEAN /\ DOMAIN out' \subseteq Streams
    BY <1>2 DEF MatchInv, FrameNumberTypeOK, MatcherTypeOK
  <2>5. \A m \in Streams \ known' : fq'[m] = <<>>
    BY <1>8
  <2> QED BY <1>8, <2>1, <2>2, <2>3, <2>4, <2>5 DEF FrameNumberTypeOK, MatcherTypeOK
<1>10. NumbersInv'
  BY <1>1, <1>2, <1>3, <1>5 DEF MatchInv, NumbersInv
<1>11. ArrivalInv'
  BY <1>2 DEF ArrivalInv
<1>12. QueueInv'
  <2>1. ASSUME NEW m \in Streams PROVE Ascending(fq'[m], lastArrived'[m])
    <3>1. CASE m # s
      BY <1>1, <1>2, <1>6, <1>8, <3>1
    <3>2. CASE m = s /\ s \in opened
      BY <1>1, <1>2, <1>6, <1>7, <3>2
    <3>3. CASE m = s /\ s \notin opened
      <4>1. fq'[m] = emptied[s] /\ emptied[s] \in Seq(Nat)
        BY <1>1, <1>2, <1>6, <3>3
      <4>2. /\ Ascending(emptied[s], lastArrived[s]) /\ lastArrived'[s] = n
            /\ lastArrived[s] <= n /\ lastArrived[s] \in Nat
        BY <1>1, <1>2, <1>3, <1>6
      <4> HIDE DEF emptied, opened, s, n
      <4> QED BY <1>1, <3>3, <4>1, <4>2, AscendsFurther
    <3> QED BY <3>1, <3>2, <3>3
  <2> QED BY <1>8, <2>1 DEF QueueInv
<1>13. GapInv'
  <2>1. ASSUME NEW m \in active' \cap known', m # s
        PROVE  /\ m \in active \cap known /\ lastArrived'[m] = lastArrived[m]
               /\ lastArrived[m] # 0 => n <= lastArrived[m] + InactiveGap
               /\ lastArrived[m] <= n + InactiveGap
    <3>1. m \in active \cap known /\ m \notin cleaned /\ m \in Streams
      BY <1>1, <1>2, <1>5, <2>1
    <3>3. lastArrived[m] # 0 => Distance(n, lastArrived[m]) <= InactiveGap
      BY <1>1, <3>1 DEF Stale, Distance
    <3>4. lastArrived'[m] = lastArrived[m] /\ lastArrived[m] \in Nat
      BY <1>1, <1>2, <2>1, <3>1
    <3> HIDE DEF n
    <3> QED BY <1>1, <3>1, <3>3, <3>4 DEF Distance
  <2>2. lastArrived'[s] = n
    BY <1>1, <1>2
  <2> SUFFICES ASSUME NEW a \in active' \cap known', NEW m \in active' \cap known',
                      lastArrived'[m] # 0
               PROVE  lastArrived'[a] <= lastArrived'[m] + InactiveGap
    BY DEF GapInv
  <2>3. CASE a # s /\ m # s
    BY <2>1, <2>3 DEF MatchInv, GapInv
  <2>4. CASE a = s /\ m # s
    BY <2>1, <2>2, <2>4
  <2>5. CASE a # s /\ m = s
    BY <2>1, <2>2, <2>5
  <2>6. CASE a = s /\ m = s
    BY <1>1, <2>2, <2>6
  <2> QED BY <2>3, <2>4, <2>5, <2>6
<1>14. CASE s \in opened
  <2>1. phase' = "sync" /\ open' = opened
    BY <1>2, <1>14
  <2>2. StopInv'
    BY <1>1, <1>2, <2>1 DEF MatchInv, StopInv
  <2>3. AwaitedInv'
    BY <2>1 DEF AwaitedInv
  <2> QED BY <1>9, <1>10, <1>11, <1>12, <1>13, <2>2, <2>3 DEF MatchInv
<1>15. CASE s \notin opened
  <2>1. phase' = "idle" /\ open' = open /\ fq' = emptied
    BY <1>2, <1>15
  <2>2. stopped
    BY <1>1, <1>15 DEF MatchInv, StopInv
  <2>3. \A m \in Streams : fq'[m] = <<>>
    BY <1>2, <2>1, <2>2 DEF MatchInv, StopInv
  <2>4. StopInv' /\ AwaitedInv'
    BY <1>2, <2>1, <2>2, <2>3 DEF StopInv, AwaitedInv
  <2> QED BY <1>9, <1>10, <1>11, <1>12, <1>13, <2>4 DEF MatchInv
<1> QED BY <1>14, <1>15

\* One iteration of the loop of sync().
LEMMA SyncStep ==
  ASSUME MatchInv, SyncIteration
  PROVE  MatchInv'
<1>1. /\ fq \in [Streams -> Seq(Nat)] /\ lastArrived \in [Streams -> Nat]
      /\ known \subseteq Streams /\ active \subseteq Streams
      /\ expected \in [Streams -> Nat] /\ InactiveGap \in Nat /\ QueueMax \in Nat
      /\ \A m \in Streams : Len(fq[m]) <= QueueMax
      /\ \A m \in Streams \ known : fq[m] = <<>>
  BY FrameNumberAssumption DEF MatchInv, FrameNumberTypeOK, MatcherTypeOK
<1>2. UNCHANGED <<known, active, lastArrived, frame, stopped, open, expected>> /\ phase = "sync"
  BY DEF SyncIteration, Release, Wait
<1>3. NumbersInv' /\ GapInv'
  BY <1>2 DEF MatchInv, NumbersInv, GapInv
<1>4. CASE ~MustWait /\ Release(Synced)
  <2>1. /\ phase' = "sync"
        /\ fq' = [s \in Streams |-> IF s \in Synced THEN Tail(fq[s]) ELSE fq[s]]
        /\ out' = [s \in Synced |-> Head(fq[s])]
    BY <1>2, <1>4 DEF Release
  <2>2. \A s \in Streams : s \in Synced => fq[s] # <<>>
    BY DEF Synced, Arrived
  <2>3. ASSUME NEW s \in Streams
        PROVE  /\ fq'[s] \in Seq(Nat) /\ Len(fq'[s]) <= Len(fq[s]) /\ Len(fq[s]) \in Nat
               /\ Len(fq'[s]) \in Nat
               /\ fq'[s] # <<>> => fq[s] # <<>>
               /\ Ascending(fq'[s], lastArrived[s])
    <3>1. CASE s \in Synced
      <4>1. fq'[s] = Tail(fq[s]) /\ fq[s] # <<>> /\ fq[s] \in Seq(Nat) /\ Ascending(fq[s], lastArrived[s])
        BY <1>1, <2>1, <2>2, <3>1 DEF MatchInv, QueueInv
      <4>2. lastArrived[s] \in Nat
        BY <1>1
      <4> QED BY <4>1, <4>2, TailAscends
    <3>2. CASE s \notin Synced
      <4>1. fq'[s] = fq[s] /\ fq[s] \in Seq(Nat) /\ Ascending(fq[s], lastArrived[s])
        BY <1>1, <2>1, <3>2 DEF MatchInv, QueueInv
      <4> QED BY <4>1
    <3> QED BY <3>1, <3>2
  <2>4. fq' \in [Streams -> Seq(Nat)]
    BY <2>1, <2>3
  <2>5. DOMAIN out' \subseteq Streams
    BY <1>1, <2>1 DEF Synced, Arrived
  <2>6. \A m \in Streams : Len(fq'[m]) <= QueueMax
    BY <1>1, <2>3
  <2>7. \A m \in Streams \ known : fq'[m] = <<>>
    BY <1>1, <2>3
  <2>8. FrameNumberTypeOK'
    BY <1>2, <2>1, <2>4, <2>5, <2>6, <2>7 DEF MatchInv, FrameNumberTypeOK, MatcherTypeOK
  <2>9. QueueInv'
    BY <1>2, <2>3 DEF MatchInv, QueueInv
  <2>10. ArrivalInv' /\ AwaitedInv' /\ StopInv'
    BY <1>2, <2>1 DEF MatchInv, ArrivalInv, AwaitedInv, StopInv
  <2> QED BY <1>3, <2>8, <2>9, <2>10 DEF MatchInv
<1>5. CASE MustWait /\ Wait
  <2>1. phase' = "idle" /\ out' = NoFrames /\ fq' = fq
    BY <1>5 DEF Wait
  <2>2. DOMAIN out' = {}
    BY <2>1 DEF NoFrames
  <2>3. FrameNumberTypeOK'
    BY <1>2, <2>1, <2>2 DEF MatchInv, FrameNumberTypeOK, MatcherTypeOK
  <2>4. QueueInv' /\ ArrivalInv' /\ StopInv'
    BY <1>2, <2>1 DEF MatchInv, QueueInv, ArrivalInv, StopInv
  <2>5. AwaitedInv'
    <3>1. CASE Arrived = {}
      <4>1. \A s \in Streams : fq[s] = <<>>
        BY <1>1, <3>1 DEF Arrived
      <4> QED BY <2>1, <4>1 DEF AwaitedInv
    <3>2. CASE Arrived # {}
      <4>1. PICK m \in Missing, s \in Synced : ~Skip(m, Head(fq[s]))
        BY <1>5, <3>2 DEF MustWait
      <4>2. /\ m \in active \cap known /\ s \in Streams /\ fq[s] # <<>> /\ expected[m] \in Nat
            /\ fq[m] = <<>> /\ Synced = Arrived
        BY <1>1, <1>5, <3>2, <4>1 DEF MustWait, Skip, Missing, Synced, Arrived
      <4>3. Head(fq[s]) \in Nat /\ expected[m] <= Head(fq[s]) /\ Head(fq[s]) <= expected[m] + WaitWindow
        BY <1>1, <4>1, <4>2, FrameNumberAssumption DEF Skip
      <4>4. ASSUME NEW t \in Streams, fq[t] # <<>>
            PROVE  expected[m] <= fq[t][1] /\ fq[t][1] <= expected[m] + WaitWindow
        <5>1. t \in Synced /\ s \in Synced /\ s \in Arrived /\ t \in Arrived
          BY <1>1, <4>1, <4>2, <4>4 DEF Arrived
        <5>2. Head(fq[s]) <= Head(fq[t]) /\ Head(fq[t]) <= Head(fq[s])
          BY <5>1 DEF Synced
        <5>3. Head(fq[t]) = fq[t][1] /\ Head(fq[t]) \in Nat
          BY <1>1, <4>4
        <5> QED BY <4>2, <4>3, <5>2, <5>3
      <4> QED BY <1>2, <2>1, <4>2, <4>4 DEF AwaitedInv
    <3> QED BY <3>1, <3>2
  <2> QED BY <1>3, <2>3, <2>4, <2>5 DEF MatchInv
<1> QED BY <1>4, <1>5 DEF SyncIteration

\* stop() empties every queue there is.
LEMMA StopStep ==
  ASSUME MatchInv, Stop
  PROVE  MatchInv'
<1>1. /\ stopped' = TRUE /\ open' = open \ known /\ out' = NoFrames
      /\ fq' = [s \in Streams |-> IF s \in known THEN <<>> ELSE fq[s]]
      /\ UNCHANGED <<known, active, expected, phase, frame, lastArrived>>
  BY DEF Stop, StopMatcher
<1>2. fq \in [Streams -> Seq(Nat)] /\ \A m \in Streams \ known : fq[m] = <<>>
  BY DEF MatchInv, FrameNumberTypeOK, MatcherTypeOK
<1>3. \A s \in Streams : fq'[s] = <<>>
  BY <1>1, <1>2
<1>4. DOMAIN out' = {}
  BY <1>1 DEF NoFrames
<1>5. fq' \in [Streams -> Seq(Nat)] /\ \A s \in Streams : Len(fq'[s]) = 0
  BY <1>1, <1>2, <1>3
<1>6. FrameNumberTypeOK'
  BY <1>1, <1>3, <1>4, <1>5, FrameNumberAssumption DEF MatchInv, FrameNumberTypeOK, MatcherTypeOK
<1>7. QueueInv' /\ StopInv' /\ AwaitedInv'
  BY <1>1, <1>3, <1>5 DEF QueueInv, StopInv, AwaitedInv, Ascending
<1>8. NumbersInv' /\ ArrivalInv' /\ GapInv'
  BY <1>1, <1>4 DEF MatchInv, NumbersInv, ArrivalInv, GapInv
<1> QED BY <1>6, <1>7, <1>8 DEF MatchInv

\* MatchInv is an invariant of every behaviour of the matcher.
LEMMA MatchInvariant == FrameNumberSpec => []MatchInv
<1>1. FrameNumberInit => MatchInv
  <2> SUFFICES ASSUME FrameNumberInit PROVE MatchInv
    OBVIOUS
  <2>1. /\ fq = [s \in Streams |-> <<>>] /\ known = {} /\ open = Streams /\ active = Streams
        /\ expected = [s \in Streams |-> 0] /\ phase = "idle" /\ stopped = FALSE /\ out = NoFrames
        /\ frame \in [stream : Streams, stamp : {0}] /\ lastArrived = [s \in Streams |-> 0]
    BY DEF FrameNumberInit, MatcherInit
  <2>2. \A s \in Streams : fq[s] = <<>> /\ fq[s] \in Seq(Nat) /\ Len(fq[s]) = 0
    BY <2>1
  <2>3. DOMAIN out = {}
    BY <2>1 DEF NoFrames
  <2>4. FrameNumberTypeOK
    <3>1. frame \in [stream : Streams, stamp : Nat] /\ fq \in [Streams -> Seq(Nat)]
      BY <2>1
    <3>2. \A s \in Streams : Len(fq[s]) <= QueueMax
      BY <2>2, FrameNumberAssumption
    <3>3. lastArrived \in [Streams -> Nat] /\ expected \in [Streams -> Nat]
      BY <2>1
    <3>4. /\ \A s \in Streams \ known : fq[s] = <<>>
          /\ known \subseteq Streams /\ open \subseteq Streams /\ active \subseteq Streams
          /\ phase \in {"idle", "arrived", "sync"} /\ stopped \in BOOLEAN /\ DOMAIN out \subseteq Streams
      BY <2>1, <2>2, <2>3
    <3> QED BY <3>1, <3>2, <3>3, <3>4 DEF FrameNumberTypeOK, MatcherTypeOK
  <2>5. QueueInv /\ AwaitedInv
    BY <2>2 DEF QueueInv, AwaitedInv, Ascending
  <2>6. NumbersInv /\ ArrivalInv /\ GapInv /\ StopInv
    BY <2>1 DEF NumbersInv, ArrivalInv, GapInv, StopInv
  <2> QED BY <2>4, <2>5, <2>6 DEF MatchInv
<1>2. MatchInv /\ [FrameNumberNext]_fvars => MatchInv'
  <2> SUFFICES ASSUME MatchInv, [FrameNumberNext]_fvars PROVE MatchInv'
    OBVIOUS
  <2>1. CASE UNCHANGED fvars
    BY <2>1 DEF fvars, mvars, MatchInv, FrameNumberTypeOK, MatcherTypeOK, NumbersInv, ArrivalInv, QueueInv,
                GapInv, StopInv, AwaitedInv
  <2> QED BY <2>1, ArriveStep, EnqueueStep, SyncStep, StopStep DEF FrameNumberNext
<1> QED BY <1>1, <1>2, PTL DEF FrameNumberSpec

\* However the streams interleave, lag and lose frames, no more than
\* InactiveGap frames of a stream wait between two calls of dispatch(), so that
\* with QueueMax above that the next one finds room, and the types are kept.
\* The exception is the wait for a stream that fell silent after its frame 0,
\* which ends WaitWindow frames after the one that is missing.
THEOREM NoQueueOverflows == FrameNumberSpec => []NoOverflow
<1>1. MatchInv => NoOverflow
  BY QueuesAreShort DEF NoOverflow, MatchInv
<1> QED BY <1>1, MatchInvariant, PTL

\* A frame that leaves sync() takes along every queued frame of its number,
\* wherever in its queue that one is: the queues ascend, so it is a head.
THEOREM MatchesAreWhole == FrameNumberSpec => SameNumberTogether
<1> DEFINE Together == \A s \in DOMAIN out', t \in Streams :
                         (\E k \in 1..Len(fq[t]) : fq[t][k] = out'[s]) => t \in DOMAIN out'
<1>1. MatchInv /\ [FrameNumberNext]_fvars => [Together]_fvars
  <2> SUFFICES ASSUME MatchInv, FrameNumberNext PROVE Together
    OBVIOUS
  <2>1. CASE DOMAIN out' = {}
    BY <2>1
  <2>2. CASE ~MustWait /\ Release(Synced)
    <3>1. out' = [s \in Synced |-> Head(fq[s])]
      BY <2>2 DEF Release
    <3> SUFFICES ASSUME NEW s \in Synced, NEW t \in Streams, NEW k \in 1..Len(fq[t]), fq[t][k] = Head(fq[s])
                 PROVE  t \in Synced
      BY <3>1
    <3>2. fq[t] \in Seq(Nat) /\ fq[t] # <<>> /\ known \subseteq Streams
      BY DEF MatchInv, FrameNumberTypeOK, MatcherTypeOK
    <3>3. t \in Arrived
      BY <3>2 DEF Arrived, MatchInv, QueueInv
    <3>4. ASSUME NEW r \in Arrived PROVE r \in Streams /\ Head(fq[r]) \in Nat
      <4>1. r \in Streams /\ fq[r] \in Seq(Nat) /\ fq[r] # <<>>
        BY <3>2 DEF Arrived, MatchInv, FrameNumberTypeOK, MatcherTypeOK
      <4> QED BY <4>1
    <3>5. s \in Arrived /\ \A r \in Arrived : Head(fq[s]) <= Head(fq[r])
      BY DEF Synced
    <3>6. Head(fq[t]) = fq[t][1] /\ 1 \in 1..Len(fq[t]) /\ (k = 1 \/ 1 < k) /\ fq[t][k] \in Nat
      BY <3>2
    <3>7. Head(fq[t]) <= fq[t][k]
      BY <3>3, <3>4, <3>6 DEF MatchInv, QueueInv, Ascending
    <3> QED BY <3>3, <3>4, <3>5, <3>7 DEF Synced
  <2>3. ASSUME NEW s \in Streams, FrameArrives(s) PROVE DOMAIN out' = {}
    BY <2>3 DEF FrameArrives, Arrive, NoFrames
  <2>4. ASSUME Dispatch PROVE DOMAIN out' = {}
    BY <2>4 DEF Dispatch, FindAndEnqueue, MatchInv, ArrivalInv
  <2>5. ASSUME MustWait /\ Wait PROVE DOMAIN out' = {}
    BY <2>5 DEF Wait, NoFrames
  <2>6. ASSUME Stop PROVE DOMAIN out' = {}
    BY <2>6 DEF Stop, StopMatcher, NoFrames
  <2> QED BY <2>1, <2>2, <2>3, <2>4, <2>5, <2>6 DEF FrameNumberNext, SyncIteration
<1>2. [][Together]_fvars <=> SameNumberTogether
  BY DEF SameNumberTogether
<1> QED BY <1>1, <1>2, MatchInvariant, PTL DEF FrameNumberSpec

-------------------------------------------------------------------------------
(***************************************************************************)
(* The timestamp matcher                                                   *)
(***************************************************************************)

\* How far apart two frames of a stream are at least.
Step(s) == Gap[s] - Jitter

\* Timestamps that go up by a step at least and end by n.
Paced(q, step, n) ==
  /\ \A i \in 1..Len(q) : q[i] + (Len(q) - i) * step <= q[Len(q)] /\ q[i] <= n
  /\ \A i, j \in 1..Len(q) : i < j => q[i] + step <= q[j]

\* The last frame of a stream but the one on its way to the queue.
Before(s) == IF phase = "arrived" /\ s = frame.stream THEN sent[s] - Step(s) ELSE sent[s]

\* What is queued of a stream came from it in order, and what is expected of it
\* is a gap away.
Queued(s, q, latest, next) ==
  /\ Paced(q, Step(s), latest)
  /\ next <= latest + Gap[s]
  /\ q # <<>> => next <= q[Len(q)] + Gap[s]

PaceInv == \A s \in Streams : Queued(s, fq[s], Before(s), expected[s])

\* The frame on its way is the last one of its stream, and the frame set
\* released before it is not looked at again.
OnItsWay ==
  /\ phase # "idle" => frame.stamp = sent[frame.stream]
  /\ phase # "sync" => out = NoFrames

TimedInv == TimestampTypeOK /\ PaceInv /\ OnItsWay /\ StopInv

\* How long before what waits for it the last frame of a stream may be missed
\* ahead: for a late frame, for one released half a gap after the others, and
\* for one whose successor is early.
Leads(lead) ==
  lead \in Nat /\ MaxLate <= lead /\ Jitter <= lead + 1 /\ \A s \in Streams : Gap[s] <= 2 * lead + 2

\* What a stream queues while another is waited for fits in its queue.
EnoughFor(lead) == \A s \in Streams : (Cutout + 1) * Gap[s] + lead <= (QueueMax - 1) * Step(s)

Enough == \E lead \in Nat : Leads(lead) /\ EnoughFor(lead)

Lead == CHOOSE lead \in Nat : Leads(lead) /\ EnoughFor(lead)

\* A stream that has nothing queued is expected soon after what waits.
ExpectedInv ==
  \A s, m \in Streams :
    fq[s] # <<>> /\ fq[m] = <<>> => expected[m] <= fq[s][1] + Lead + Gap[m]

\* What waited for a stream up to its cutout is that long, and not longer.
SpanInv ==
  \A s \in Streams :
    fq[s] # <<>> /\ ~(phase = "sync" /\ s = frame.stream) =>
      fq[s][Len(fq[s])] < fq[s][1] + (Cutout + 1) * Gap[s] + Lead

LateInv == phase = "arrived" => \A r \in Streams : sent[r] <= frame.stamp + MaxLate

RoomInv == ExpectedInv /\ SpanInv /\ LateInv

-------------------------------------------------------------------------------
\* More gaps take longer.
LEMMA MoreGaps ==
  ASSUME NEW g \in Nat, NEW a \in Int, NEW b \in Int, a <= b
  PROVE  a * g <= b * g /\ a * g \in Int /\ b * g \in Int
  OBVIOUS

LEMMA OneMoreGap ==
  ASSUME NEW g \in Nat, NEW a \in Int
  PROVE  (a + 1) * g = a * g + g /\ (a - 1) * g = a * g - g /\ 1 * g = g /\ 0 * g = 0
  OBVIOUS

-------------------------------------------------------------------------------
\* The bodies of the loop over frames_arrived.
NoneMet == [curr |-> frame.stream, synced |-> {}]
Loop(n, f) == f = [i \in 0..n |-> IF i = 0 THEN NoneMet ELSE Compare(f[i - 1], order[i])]

\* A set of numbers has a lowest one.
LEMMA LowestOf ==
  ASSUME NEW S \in SUBSET Nat, S # {}
  PROVE  \E n \in S : \A k \in Nat : k < n => k \notin S
<1> DEFINE Less == {p \in Nat \X Nat : p[1] < p[2]}
<1>1. IsWellFoundedOn(Less, Nat)
  BY NatLessThanWellFounded DEF OpToRel
<1>2. \E x \in S : \A y \in S : ~(<<y, x>> \in Less)
  <2> HIDE DEF Less
  <2> QED BY <1>1, WFMin
<1>3. PICK n \in S : \A y \in S : ~(<<y, n>> \in Less)
  BY <1>2
<1>4. ASSUME NEW k \in Nat, k < n PROVE k \notin S
  <2>1. <<k, n>> \in Nat \X Nat
    OBVIOUS
  <2>2. <<k, n>> \in Less
    BY <1>4, <2>1
  <2> QED BY <1>3, <2>2
<1> QED BY <1>4

\* The loop comes to its end, however many streams there are.
LEMMA LoopEnds ==
  ASSUME NEW n \in Nat
  PROVE  \E f : Loop(n, f)
<1> DEFINE Bad == {k \in Nat : ~\E f : Loop(k, f)}
<1>1. 0 \notin Bad
  <2> DEFINE f == [i \in 0..0 |-> NoneMet]
  <2>1. Loop(0, f)
    <3>1. f = [i \in 0..0 |-> IF i = 0 THEN NoneMet ELSE Compare(f[i - 1], order[i])]
      <4>1. \A i \in 0..0 : NoneMet = IF i = 0 THEN NoneMet ELSE Compare(f[i - 1], order[i])
        OBVIOUS
      <4> HIDE DEF f
      <4> QED BY <4>1 DEF f
    <3> QED BY <3>1 DEF Loop
  <2> QED BY <2>1
<1>2. ASSUME NEW k \in Nat, k \notin Bad PROVE k + 1 \notin Bad
  <2>1. PICK f : Loop(k, f)
    BY <1>2
  <2> DEFINE g == [i \in 0..(k + 1) |-> IF i = k + 1 THEN Compare(f[k], order[k + 1]) ELSE f[i]]
  <2>2. ASSUME NEW i \in 0..(k + 1)
        PROVE  g[i] = IF i = 0 THEN NoneMet ELSE Compare(g[i - 1], order[i])
    <3>1. CASE i = k + 1
      BY <3>1
    <3>2. CASE i \in 0..k
      <4>1. g[i] = f[i] /\ (i # 0 => i - 1 \in 0..k /\ g[i - 1] = f[i - 1])
        BY <3>2
      <4>2. f[i] = IF i = 0 THEN NoneMet ELSE Compare(f[i - 1], order[i])
        BY <2>1, <3>2 DEF Loop
      <4> HIDE DEF g
      <4> QED BY <4>1, <4>2
    <3> QED BY <3>1, <3>2
  <2>3. g = [i \in 0..(k + 1) |-> g[i]]
    OBVIOUS
  <2> HIDE DEF g
  <2>4. Loop(k + 1, g)
    BY <2>2, <2>3 DEF Loop
  <2> QED BY <2>4
<1>3. Bad = {}
  <2> SUFFICES ASSUME Bad # {} PROVE FALSE
    OBVIOUS
  <2>1. PICK m \in Bad : \A k \in Nat : k < m => k \notin Bad
    BY LowestOf
  <2>2. m # 0 /\ m \in Nat
    BY <1>1
  <2>3. m - 1 \in Nat /\ m - 1 \notin Bad /\ (m - 1) + 1 = m
    BY <2>1, <2>2
  <2> HIDE DEF Bad
  <2> QED BY <1>2, <2>1, <2>3
<1> QED BY <1>3

\* How many streams there are.
LEMMA StreamsAreCounted == Cardinality(Streams) \in Nat
  BY TimestampAssumption, FS_CardinalityType

\* So each turn of it goes on from the one before.
LEMMA LoopTurns ==
  /\ sorted[0] = NoneMet
  /\ \A i \in 1..Cardinality(Streams) : sorted[i] = Compare(sorted[i - 1], order[i])
<1> DEFINE n == Cardinality(Streams)
<1>1. PICK f : Loop(n, f)
  BY StreamsAreCounted, LoopEnds
<1>2. sorted = CHOOSE g : Loop(n, g)
  BY DEF sorted, Loop, NoneMet
<1>3. Loop(n, sorted)
  BY <1>1, <1>2
<1> QED BY <1>3, StreamsAreCounted DEF Loop

-------------------------------------------------------------------------------
\* A queue with something in it has a head.
LEMMA HeadOfArrived ==
  ASSUME TimedInv, NEW s \in Arrived
  PROVE  /\ s \in Streams /\ fq[s] \in Seq(Nat) /\ fq[s] # <<>>
         /\ Len(fq[s]) \in Nat /\ 1 \in 1..Len(fq[s]) /\ Len(fq[s]) \in 1..Len(fq[s])
         /\ Head(fq[s]) = fq[s][1] /\ fq[s][1] \in Nat
         /\ Gap[s] \in Nat \ {0}
<1>1. s \in Streams /\ fq[s] \in Seq(Nat) /\ fq[s] # <<>>
  BY DEF TimedInv, TimestampTypeOK, MatcherTypeOK, Arrived
<1> QED BY <1>1, TimestampAssumption

\* The streams share one frame rate; those with a head do.
OneRate == \A s, t \in Streams : Gap[s] = Gap[t]
RateOfHeads == \A s, t \in Arrived : Gap[s] = Gap[t]

\* Heads of one rate are in step when they are less than half a gap apart.
LEMMA InStepIsNear ==
  ASSUME TimedInv, NEW s \in Arrived, NEW t \in Arrived, Gap[s] = Gap[t]
  PROVE  AreEquivalent(s, t) <=> /\ 2 * (fq[s][1] - fq[t][1]) < Gap[s]
                                 /\ 2 * (fq[t][1] - fq[s][1]) < Gap[s]
<1>1. Gap[s] \in Nat \ {0} /\ fq[s][1] \in Nat /\ fq[t][1] \in Nat
      /\ Head(fq[s]) = fq[s][1] /\ Head(fq[t]) = fq[t][1]
  BY HeadOfArrived
<1> QED BY <1>1 DEF AreEquivalent, Near

\* What the loop has found among the streams seen so far.
Found(acc, seen) ==
  /\ acc \in [curr : Streams, synced : SUBSET Arrived]
  /\ acc.synced = {} => seen \cap Arrived = {}
  /\ acc.synced # {} => acc.curr \in acc.synced
  /\ \A s \in acc.synced : AreEquivalent(acc.curr, s)
  /\ RateOfHeads /\ acc.synced # {} =>
       \A t \in seen \cap Arrived : t \in acc.synced \/ fq[acc.curr][1] < fq[t][1]

LEMMA CompareFinds ==
  ASSUME TimedInv, NEW acc, NEW seen \in SUBSET Streams, Found(acc, seen), NEW s \in Streams
  PROVE  Found(Compare(acc, s), seen \cup {s})
<1> DEFINE new == Compare(acc, s)
<1>0. acc \in [curr : Streams, synced : SUBSET Arrived]
  BY DEF Found
<1>1. CASE s \in Arrived /\ acc.synced # {} /\ AreEquivalent(acc.curr, s)
  <2>1. new = [acc EXCEPT !.synced = @ \cup {s}]
    BY <1>1 DEF Compare
  <2>2. new.curr = acc.curr /\ new.synced = acc.synced \cup {s} /\ new \in [curr : Streams, synced : SUBSET Arrived]
    BY <1>0, <1>1, <2>1
  <2> HIDE DEF new
  <2>9. Found(new, seen \cup {s})
    BY <1>1, <2>2 DEF Found
  <2> QED BY <2>9 DEF new
<1>2. CASE s \in Arrived /\ (acc.synced # {} => Head(fq[s]) < Head(fq[acc.curr]) /\ ~AreEquivalent(acc.curr, s))
  <2>1. new = [curr |-> s, synced |-> {s}]
    BY <1>2 DEF Compare
  <2>2. AreEquivalent(s, s)
    BY <1>2, HeadOfArrived DEF AreEquivalent, Near
  <2>3. ASSUME RateOfHeads, NEW t \in seen \cap Arrived, t # s PROVE fq[s][1] < fq[t][1]
    <3>1. acc.synced # {} /\ acc.curr \in Arrived
      BY <1>0, <2>3 DEF Found
    <3>2. /\ Gap[acc.curr] = Gap[s] /\ Gap[acc.curr] = Gap[t] /\ Gap[s] \in Nat \ {0}
          /\ fq[s][1] \in Nat /\ fq[t][1] \in Nat /\ fq[acc.curr][1] \in Nat
      BY <1>2, <2>3, <3>1, HeadOfArrived DEF RateOfHeads
    <3>3. fq[s][1] < fq[acc.curr][1]
      BY <1>2, <3>1, HeadOfArrived
    <3>4. 2 * (fq[acc.curr][1] - fq[s][1]) >= Gap[s]
      <4>1. ~AreEquivalent(acc.curr, s)
        BY <1>2, <3>1
      <4>2. 2 * (fq[s][1] - fq[acc.curr][1]) < Gap[acc.curr]
        BY <3>2, <3>3
      <4>3. ~(2 * (fq[acc.curr][1] - fq[s][1]) < Gap[acc.curr])
        BY <1>2, <3>1, <3>2, <4>1, <4>2, InStepIsNear
      <4> QED BY <3>2, <4>3
    <3>5. CASE t \in acc.synced
      <4>1. AreEquivalent(acc.curr, t)
        BY <3>5 DEF Found
      <4>2. 2 * (fq[acc.curr][1] - fq[t][1]) < Gap[acc.curr]
        BY <2>3, <3>1, <3>2, <4>1, InStepIsNear
      <4> QED BY <3>2, <3>4, <4>2
    <3>6. CASE t \notin acc.synced
      <4>1. fq[acc.curr][1] < fq[t][1]
        BY <2>3, <3>1, <3>6 DEF Found
      <4> QED BY <3>2, <3>3, <4>1
    <3> QED BY <3>5, <3>6
  <2>4. new.curr = s /\ new.synced = {s} /\ new \in [curr : Streams, synced : SUBSET Arrived]
    BY <1>2, <2>1
  <2> HIDE DEF new
  <2>9. Found(new, seen \cup {s})
    BY <1>2, <2>2, <2>3, <2>4 DEF Found
  <2> QED BY <2>9 DEF new
<1>3. CASE s \notin Arrived
  <2>1. new = acc
    BY <1>3 DEF Compare
  <2> HIDE DEF new
  <2>9. Found(new, seen \cup {s})
    BY <1>3, <2>1 DEF Found
  <2> QED BY <2>9 DEF new
<1>4. CASE s \in Arrived /\ acc.synced # {} /\ ~AreEquivalent(acc.curr, s) /\ ~(Head(fq[s]) < Head(fq[acc.curr]))
  <2>1. new = acc
    BY <1>4 DEF Compare
  <2>2. ASSUME RateOfHeads PROVE fq[acc.curr][1] < fq[s][1]
    <3>1. acc.curr \in Arrived
      BY <1>0, <1>4 DEF Found
    <3>2. /\ fq[s][1] \in Nat /\ fq[acc.curr][1] \in Nat /\ Gap[acc.curr] \in Nat \ {0}
          /\ Gap[acc.curr] = Gap[s] /\ fq[acc.curr][1] <= fq[s][1]
      BY <1>4, <2>2, <3>1, HeadOfArrived DEF RateOfHeads
    <3>3. fq[acc.curr][1] # fq[s][1]
      BY <1>4, <3>1, <3>2, InStepIsNear
    <3> QED BY <3>2, <3>3
  <2> HIDE DEF new
  <2>9. Found(new, seen \cup {s})
    BY <1>4, <2>1, <2>2 DEF Found
  <2> QED BY <2>9 DEF new
<1> QED BY <1>1, <1>2, <1>3, <1>4

\* The streams in the order of the map up to the i-th.
UpTo(i) == {order[j] : j \in 1..i}

LEMMA SortFinds ==
  ASSUME TimedInv
  PROVE  Found(Sort, Streams)
<1> DEFINE n == Cardinality(Streams)
           Bad == {i \in 0..n : ~Found(sorted[i], UpTo(i))}
<1>0. n \in Nat /\ order \in [1..n -> Streams] /\ \A s \in Streams : \E i \in 1..n : order[i] = s
  BY StreamsAreCounted DEF TimedInv, TimestampTypeOK, Orders
<1>1. Found(sorted[0], UpTo(0))
  <2>1. sorted[0] = NoneMet /\ UpTo(0) = {} /\ frame.stream \in Streams
    BY LoopTurns DEF UpTo, TimedInv, TimestampTypeOK, MatcherTypeOK
  <2> QED BY <2>1 DEF Found, NoneMet
<1>2. ASSUME NEW i \in 1..n, Found(sorted[i - 1], UpTo(i - 1)) PROVE Found(sorted[i], UpTo(i))
  <2>1. UpTo(i) = UpTo(i - 1) \cup {order[i]} /\ UpTo(i - 1) \subseteq Streams /\ order[i] \in Streams
    BY <1>0 DEF UpTo
  <2>2. sorted[i] = Compare(sorted[i - 1], order[i])
    BY LoopTurns
  <2> QED BY <1>2, <2>1, <2>2, CompareFinds
<1>3. Bad = {}
  <2> SUFFICES ASSUME Bad # {} PROVE FALSE
    OBVIOUS
  <2>0. Bad \subseteq Nat
    OBVIOUS
  <2>1. PICK m \in Bad : \A k \in Nat : k < m => k \notin Bad
    BY <2>0, LowestOf
  <2>2. m # 0 /\ m \in 1..n
    BY <1>0, <1>1, <2>1
  <2>3. m - 1 \in Nat /\ m - 1 \in 0..n /\ m - 1 \notin Bad
    BY <1>0, <2>1, <2>2
  <2> QED BY <1>2, <2>1, <2>2, <2>3
<1>4. Found(sorted[n], UpTo(n))
  BY <1>0, <1>3
<1>5. UpTo(n) = Streams
  BY <1>0 DEF UpTo
<1> QED BY <1>4, <1>5 DEF Sort

-------------------------------------------------------------------------------
\* A newer frame put into a queue, which may drop its oldest one.
LEMMA PushedPaced ==
  ASSUME NEW q \in Seq(Nat), NEW g \in Nat \ {0}, NEW n \in Int, NEW x \in Nat, n + g <= x,
         Paced(q, g, n), Len(q) <= QueueMax
  PROVE  LET r == Fifo!Pushed(q, x) IN
           /\ r \in Seq(Nat) /\ Len(r) \in 1..QueueMax /\ Paced(r, g, x) /\ r[Len(r)] = x
           /\ \A i \in 1..Len(r) : r[i] = x \/ \E j \in 1..Len(q) : r[i] = q[j]
           /\ Len(q) < QueueMax => r[1] = IF q = <<>> THEN x ELSE q[1]
<1>0. /\ QueueMax \in Nat /\ QueueMax > 0 /\ Len(q) \in Nat
      /\ \A i \in 1..Len(q) : q[i] \in Nat
  BY TimestampAssumption, ElementOfSeq
<1>1. CASE Len(q) < QueueMax
  <2> DEFINE r == Append(q, x)
  <2>1. Fifo!Pushed(q, x) = r
    BY <1>1 DEF Fifo!Pushed
  <2>2. r \in Seq(Nat) /\ Len(r) = Len(q) + 1
        /\ (\A i \in 1..Len(q) : r[i] = q[i]) /\ r[Len(q) + 1] = x
    BY AppendProperties
  <2> HIDE DEF r
  <2>3. ASSUME NEW i \in 1..Len(r) PROVE r[i] + (Len(r) - i) * g <= r[Len(r)] /\ r[i] <= x
    <3>1. CASE i \in 1..Len(q)
      <4>1. /\ q[i] + (Len(q) - i) * g <= q[Len(q)] /\ q[Len(q)] <= n
            /\ r[i] = q[i] /\ q[i] \in Nat /\ q[Len(q)] \in Nat
        BY <1>0, <2>2, <3>1 DEF Paced
      <4>2. (Len(r) - i) * g = (Len(q) - i) * g + g /\ (Len(q) - i) * g \in Nat
        <5>1. Len(q) - i \in Nat /\ Len(r) - i = (Len(q) - i) + 1
          BY <1>0, <2>2, <3>1
        <5> QED BY <5>1, OneMoreGap
      <4> QED BY <2>2, <4>1, <4>2
    <3>2. CASE i = Len(q) + 1
      <4>1. (Len(r) - i) * g = 0
        BY <1>0, <2>2, <3>2
      <4> QED BY <1>0, <2>2, <3>2, <4>1
    <3> QED BY <1>0, <2>2, <3>1, <3>2
  <2>4. ASSUME NEW i \in 1..Len(r), NEW j \in 1..Len(r), i < j PROVE r[i] + g <= r[j]
    <3>0. i \in 1..Len(q) /\ r[i] = q[i] /\ q[i] \in Nat
      BY <1>0, <2>2, <2>4
    <3>1. CASE j \in 1..Len(q)
      BY <2>2, <2>4, <3>0, <3>1 DEF Paced
    <3>2. CASE j = Len(q) + 1
      <4>1. q[i] <= n /\ r[j] = x
        BY <2>2, <3>0, <3>2 DEF Paced
      <4> QED BY <3>0, <4>1
    <3> QED BY <1>0, <2>2, <3>1, <3>2
  <2>5. Paced(r, g, x)
    BY <2>3, <2>4 DEF Paced
  <2>6. r[1] = IF q = <<>> THEN x ELSE q[1]
    <3>1. CASE q = <<>>
      BY <2>2, <3>1
    <3>2. CASE q # <<>>
      <4>1. 1 \in 1..Len(q)
        BY <1>0, <3>2
      <4> QED BY <2>2, <3>2, <4>1
    <3> QED BY <3>1, <3>2
  <2>7. \A i \in 1..Len(r) : r[i] = x \/ \E j \in 1..Len(q) : r[i] = q[j]
    <3>1. \A i \in 1..Len(r) : i \in 1..Len(q) \/ i = Len(q) + 1
      BY <1>0, <2>2
    <3> QED BY <2>2, <3>1
  <2> QED BY <1>0, <1>1, <2>1, <2>2, <2>5, <2>6, <2>7
<1>2. CASE Len(q) >= QueueMax
  <2> DEFINE t == Tail(q)
             r == Append(t, x)
  <2>1. Fifo!Pushed(q, x) = r
    BY <1>0, <1>2 DEF Fifo!Pushed
  <2>2. t \in Seq(Nat) /\ Len(t) = Len(q) - 1 /\ \A i \in 1..Len(t) : t[i] = q[i + 1]
    <3>1. q # <<>>
      BY <1>0, <1>2
    <3> QED BY <3>1, HeadTailProperties
  <2>3. r \in Seq(Nat) /\ Len(r) = Len(q)
        /\ (\A i \in 1..Len(q) - 1 : r[i] = q[i + 1]) /\ r[Len(q)] = x
    BY <1>0, <2>2, AppendProperties
  <2> HIDE DEF r, t
  <2>4. ASSUME NEW i \in 1..Len(r) PROVE r[i] + (Len(r) - i) * g <= r[Len(r)] /\ r[i] <= x
    <3>1. CASE i \in 1..Len(q) - 1
      <4>1. i + 1 \in 1..Len(q)
        BY <1>0, <3>1
      <4>2. PICK d \in Nat : d = Len(q) - (i + 1)
        <5>1. Len(q) - (i + 1) \in Nat
          BY <1>0, <4>1
        <5> QED BY <5>1
      <4>3. Len(r) - i = d + 1 /\ (d + 1) * g = d * g + g /\ d * g \in Nat
        <5>1. Len(r) - i = d + 1
          BY <1>0, <2>3, <4>1, <4>2
        <5>2. (d + 1) * g = d * g + g /\ d * g \in Nat
          BY OneMoreGap
        <5> QED BY <5>1, <5>2
      <4>4. q[i + 1] + d * g <= q[Len(q)]
        BY <4>1, <4>2 DEF Paced
      <4>5. Len(q) \in 1..Len(q)
        BY <1>0, <4>1
      <4>6. r[i] = q[i + 1] /\ r[Len(r)] = x
        BY <2>3, <3>1
      <4>7. q[Len(q)] <= n /\ q[i + 1] \in Nat /\ q[Len(q)] \in Nat
        BY <1>0, <4>1, <4>5 DEF Paced
      <4>8. q[i + 1] + (d * g + g) <= x /\ q[i + 1] <= x
        <5> DEFINE a == q[i + 1]
                   b == q[Len(q)]
                   e == d * g
        <5>1. a \in Nat /\ b \in Nat /\ e \in Nat /\ a + e <= b /\ b <= n
          BY <4>3, <4>4, <4>7
        <5> HIDE DEF a, b, e
        <5>2. a + (e + g) <= x /\ a <= x
          BY <5>1
        <5> QED BY <5>2 DEF a, b, e
      <4> QED BY <4>3, <4>6, <4>8
    <3>2. CASE i = Len(q)
      <4>1. (Len(r) - i) * g = 0
        BY <1>0, <2>3, <3>2
      <4> QED BY <1>0, <2>3, <3>2, <4>1
    <3> QED BY <1>0, <2>3, <3>1, <3>2
  <2>5. ASSUME NEW i \in 1..Len(r), NEW j \in 1..Len(r), i < j PROVE r[i] + g <= r[j]
    <3>0. i \in 1..Len(q) - 1 /\ i + 1 \in 1..Len(q) /\ r[i] = q[i + 1] /\ q[i + 1] \in Nat
      BY <1>0, <2>3, <2>5
    <3>1. CASE j \in 1..Len(q) - 1
      <4>1. j + 1 \in 1..Len(q) /\ i + 1 < j + 1
        BY <1>0, <2>5, <3>1
      <4>2. q[i + 1] + g <= q[j + 1]
        BY <3>0, <4>1 DEF Paced
      <4> QED BY <2>3, <3>0, <3>1, <4>2
    <3>2. CASE j = Len(q)
      <4>1. q[i + 1] <= n /\ r[j] = x
        BY <2>3, <3>0, <3>2 DEF Paced
      <4> QED BY <3>0, <4>1
    <3> QED BY <1>0, <2>3, <3>1, <3>2
  <2>6. Paced(r, g, x)
    BY <2>4, <2>5 DEF Paced
  <2>7. \A i \in 1..Len(r) : r[i] = x \/ \E j \in 1..Len(q) : r[i] = q[j]
    <3> SUFFICES ASSUME NEW i \in 1..Len(r), i # Len(q) PROVE \E j \in 1..Len(q) : r[i] = q[j]
      BY <2>3
    <3>1. i \in 1..Len(q) - 1 /\ i + 1 \in 1..Len(q)
      BY <1>0, <2>3
    <3> QED BY <2>3, <3>1
  <2> QED BY <1>0, <1>2, <2>1, <2>3, <2>6, <2>7
<1> QED BY <1>0, <1>1, <1>2

\* A queue without its oldest frame.
LEMMA TailPaced ==
  ASSUME NEW q \in Seq(Nat), q # <<>>, NEW g \in Nat \ {0}, NEW n \in Int, Paced(q, g, n)
  PROVE  /\ Tail(q) \in Seq(Nat) /\ Len(Tail(q)) = Len(q) - 1 /\ Paced(Tail(q), g, n)
         /\ \A i \in 1..Len(Tail(q)) : i + 1 \in 1..Len(q) /\ Tail(q)[i] = q[i + 1]
         /\ Tail(q) # <<>> => q[1] + g <= Tail(q)[1] /\ Tail(q)[Len(Tail(q))] = q[Len(q)]
<1> DEFINE t == Tail(q)
<1>0. Len(q) \in Nat /\ Len(q) # 0 /\ \A i \in 1..Len(q) : q[i] \in Nat
  BY ElementOfSeq
<1>1. t \in Seq(Nat) /\ Len(t) = Len(q) - 1 /\ \A i \in 1..Len(t) : t[i] = q[i + 1]
  BY HeadTailProperties
<1> HIDE DEF t
<1>2. \A i \in 1..Len(t) : i + 1 \in 1..Len(q) /\ Len(t) - i = Len(q) - (i + 1)
  BY <1>0, <1>1
<1>3. t # <<>> => 1 \in 1..Len(t) /\ Len(t) \in 1..Len(t) /\ 2 \in 1..Len(q) /\ Len(t) + 1 = Len(q)
  BY <1>0, <1>1
<1>4. t # <<>> => t[Len(t)] = q[Len(q)] /\ q[1] + g <= t[1]
  <2>1. t # <<>> => t[Len(t)] = q[Len(q)] /\ t[1] = q[2]
    BY <1>1, <1>3
  <2>2. t # <<>> => q[1] + g <= q[2]
    BY <1>0, <1>3 DEF Paced
  <2> QED BY <2>1, <2>2
<1>5. Paced(t, g, n)
  <2>1. ASSUME NEW i \in 1..Len(t) PROVE t[i] + (Len(t) - i) * g <= t[Len(t)] /\ t[i] <= n
    <3>1. t # <<>>
      BY <1>1, <2>1
    <3>2. q[i + 1] + (Len(q) - (i + 1)) * g <= q[Len(q)] /\ q[i + 1] <= n
      BY <1>2 DEF Paced
    <3> QED BY <1>1, <1>2, <1>4, <3>1, <3>2
  <2>2. ASSUME NEW i \in 1..Len(t), NEW j \in 1..Len(t), i < j PROVE t[i] + g <= t[j]
    <3>1. i + 1 \in 1..Len(q) /\ j + 1 \in 1..Len(q) /\ i + 1 < j + 1
      BY <1>2, <2>2
    <3> QED BY <1>1, <3>1 DEF Paced
  <2> QED BY <2>1, <2>2 DEF Paced
<1>6. t \in Seq(Nat) /\ Len(t) = Len(q) - 1 /\ Paced(t, g, n)
      /\ (\A i \in 1..Len(t) : i + 1 \in 1..Len(q) /\ t[i] = q[i + 1])
      /\ (t # <<>> => q[1] + g <= t[1] /\ t[Len(t)] = q[Len(q)])
  BY <1>1, <1>2, <1>4, <1>5
<1> QED BY <1>6 DEF t

\* The last frame of the stream may be newer than what its queue ends with.
LEMMA PacedFurther ==
  ASSUME NEW q \in Seq(Nat), NEW g \in Nat \ {0}, NEW n \in Int, NEW m \in Int, n <= m, Paced(q, g, n)
  PROVE  Paced(q, g, m)
<1>1. \A i \in 1..Len(q) : q[i] \in Nat
  BY ElementOfSeq
<1> QED BY <1>1 DEF Paced

\* An empty queue has nothing out of order.
LEMMA EmptyQueued ==
  ASSUME NEW s \in Streams, NEW latest \in Int, NEW next \in Int, next <= latest + Gap[s]
  PROVE  Queued(s, <<>>, latest, next)
<1>1. Len(<<>>) = 0
  OBVIOUS
<1> QED BY <1>1 DEF Queued, Paced

\* Timestamps are whole numbers, of at least a gap when a frame was taken.
LEMMA TimesAreNumbers ==
  ASSUME TimedInv, NEW s \in Streams
  PROVE  /\ sent[s] \in Nat /\ Gap[s] \in Nat \ {0} /\ Before(s) \in Int /\ Before(s) <= sent[s]
         /\ Jitter \in Nat /\ Step(s) \in Nat \ {0} /\ Step(s) = Gap[s] - Jitter
         /\ expected[s] \in Nat /\ fq[s] \in Seq(Nat) /\ Len(fq[s]) \in Nat
         /\ frame.stream \in Streams /\ frame.stamp \in Nat
<1>1. sent[s] \in Nat /\ Gap[s] \in Nat \ {0} /\ expected[s] \in Nat /\ fq[s] \in Seq(Nat)
      /\ frame.stream \in Streams /\ frame.stamp \in Nat
  BY TimestampAssumption DEF TimedInv, TimestampTypeOK, MatcherTypeOK
<1>2. Jitter \in Nat /\ Step(s) \in Nat \ {0} /\ Step(s) = Gap[s] - Jitter
  BY <1>1, TimestampAssumption DEF Step
<1>3. Before(s) \in Int /\ Before(s) <= sent[s]
  BY <1>1, <1>2 DEF Before
<1> QED BY <1>1, <1>2, <1>3

\* A frame is taken a step after the one before, or later.
LEMMA TimedArriveStep ==
  ASSUME TimedInv, NEW s \in Streams, TimedFrameArrives(s)
  PROVE  TimedInv'
<1>1. PICK t \in 1..MaxTime :
        /\ sent[s] + Gap[s] <= t + Jitter
        /\ sent' = [sent EXCEPT ![s] = t]
        /\ Arrive(s, t)
  BY DEF TimedFrameArrives
<1>3. /\ sent[s] \in Nat /\ Gap[s] \in Nat \ {0} /\ Jitter \in Nat
      /\ Step(s) \in Nat \ {0} /\ Step(s) = Gap[s] - Jitter
      /\ sent \in [Streams -> Nat]
  BY TimesAreNumbers, TimestampAssumption DEF TimedInv, TimestampTypeOK
<1>5. t \in Nat /\ sent[s] + Step(s) <= t
  BY <1>1, <1>3, TimestampAssumption
<1>7. /\ phase = "idle" /\ ~stopped /\ phase' = "arrived" /\ frame' = [stream |-> s, stamp |-> t]
      /\ out' = NoFrames /\ UNCHANGED <<fq, known, open, active, expected, stopped, order>>
      /\ sent' = [sent EXCEPT ![s] = t]
  BY <1>1 DEF Arrive, TimedFrameArrives
<1>8. sent'[s] = t /\ (\A r \in Streams : r # s => sent'[r] = sent[r]) /\ sent' \in [Streams -> Nat]
  BY <1>3, <1>5, <1>7
<1>9. TimestampTypeOK'
  <2>1. MatcherTypeOK'
    <3>1. DOMAIN out' \subseteq Streams
      BY <1>7 DEF NoFrames
    <3> QED BY <1>5, <1>7, <3>1 DEF TimedInv, TimestampTypeOK, MatcherTypeOK
  <2>2. (order \in Orders)'
    BY <1>7 DEF TimedInv, TimestampTypeOK, Orders
  <2> QED BY <1>8, <2>1, <2>2 DEF TimestampTypeOK
<1>10. PaceInv'
  <2> SUFFICES ASSUME NEW r \in Streams
               PROVE  Queued(r, fq[r], Before(r)', expected[r])
    BY <1>7 DEF PaceInv, Queued, Paced, Step
  <2>1. Before(r) = sent[r] /\ Before(r)' = IF r = s THEN t - Step(s) ELSE sent[r]
    BY <1>7, <1>8 DEF Before, Step
  <2>2. Queued(r, fq[r], sent[r], expected[r])
    BY <2>1 DEF TimedInv, PaceInv
  <2>3. CASE r = s
    <3> DEFINE n == t - Step(s)
    <3>1. n \in Int /\ sent[s] \in Int /\ sent[s] <= n
      BY <1>3, <1>5
    <3> HIDE DEF n
    <3>2. Paced(fq[s], Step(s), sent[s]) /\ fq[s] \in Seq(Nat)
      BY <2>2, <2>3, TimesAreNumbers DEF Queued
    <3>3. Paced(fq[s], Step(s), n)
      BY <1>3, <3>1, <3>2, PacedFurther
    <3>4. expected[s] <= n + Gap[s]
      <4>1. expected[s] <= sent[s] + Gap[s] /\ expected[s] \in Nat
        BY <2>2, <2>3, TimesAreNumbers DEF Queued
      <4> QED BY <1>3, <3>1, <4>1
    <3>5. Queued(s, fq[s], n, expected[s])
      BY <2>2, <2>3, <3>3, <3>4 DEF Queued
    <3> QED BY <2>1, <2>3, <3>5 DEF n
  <2>4. CASE r # s
    BY <2>1, <2>2, <2>4
  <2> QED BY <2>3, <2>4
<1>11. OnItsWay' /\ StopInv'
  BY <1>7, <1>8 DEF TimedInv, OnItsWay, StopInv
<1> QED BY <1>9, <1>10, <1>11 DEF TimedInv

\* What a dispatch changes.
LEMMA DispatchMoves ==
  ASSUME TimedInv, TimestampDispatch
  PROVE  LET s == frame.stream
             opened == IF s \in active THEN open ELSE open \cup {s}
         IN /\ s \in Streams /\ frame.stamp = sent[s] /\ frame.stamp \in Nat
            /\ phase = "arrived" /\ out = NoFrames
            /\ active' = active \cup {s} /\ known' = known \cup {s} /\ open' = opened
            /\ expected' = [expected EXCEPT ![s] = frame.stamp + Gap[s]]
            /\ fq' = IF s \in opened THEN [fq EXCEPT ![s] = Fifo!Pushed(fq[s], frame.stamp)] ELSE fq
            /\ phase' = IF s \in opened THEN "sync" ELSE "idle"
            /\ s \notin opened => stopped /\ \A r \in Streams : fq[r] = <<>>
            /\ UNCHANGED <<frame, stopped, out, order, sent>>
<1> DEFINE s == frame.stream
           opened == IF s \in active THEN open ELSE open \cup {s}
<1>1. fq = [m \in Streams |-> fq[m]] /\ fq \in [Streams -> Seq(Nat)]
  BY DEF TimedInv, TimestampTypeOK, MatcherTypeOK
<1>2. /\ phase = "arrived"
      /\ active' = (active \ {}) \cup {s} /\ known' = known \cup {} \cup {s}
      /\ open' = IF s \in active \ {} THEN open ELSE open \cup {s}
      /\ expected' = [expected EXCEPT ![s] = frame.stamp + Gap[s]]
      /\ phase' = IF s \in open' THEN "sync" ELSE "idle"
      /\ UNCHANGED <<frame, stopped, out, order, sent>>
  BY DEF TimestampDispatch, FindAndEnqueue
<1>3. fq' = IF s \in opened THEN [fq EXCEPT ![s] = Fifo!Pushed(fq[s], frame.stamp)] ELSE fq
  <2>1. \A m \in Streams : (IF m \in {} THEN <<>> ELSE fq[m]) = fq[m]
    OBVIOUS
  <2>2. [m \in Streams |-> IF m \in {} THEN <<>> ELSE fq[m]] = fq
    BY <1>1, <2>1
  <2>3. active \ {} = active
    OBVIOUS
  <2>4. fq' = IF s \in opened
                THEN [[m \in Streams |-> IF m \in {} THEN <<>> ELSE fq[m]]
                        EXCEPT ![s] = Fifo!Pushed([m \in Streams |-> IF m \in {} THEN <<>> ELSE fq[m]][s], frame.stamp)]
                ELSE [m \in Streams |-> IF m \in {} THEN <<>> ELSE fq[m]]
    BY <2>3 DEF TimestampDispatch, FindAndEnqueue
  <2> QED BY <2>2, <2>4
<1>4. s \in Streams /\ frame.stamp = sent[s] /\ frame.stamp \in Nat /\ out = NoFrames
  BY <1>2, TimesAreNumbers DEF TimedInv, OnItsWay, TimestampTypeOK, MatcherTypeOK
<1>5. s \notin opened => stopped /\ \A r \in Streams : fq[r] = <<>>
  BY <1>2, <1>4 DEF TimedInv, StopInv
<1> QED BY <1>2, <1>3, <1>4, <1>5

\* The frame that is queued is newer than those before it.
LEMMA TimedDispatchStep ==
  ASSUME TimedInv, TimestampDispatch
  PROVE  TimedInv'
<1> DEFINE s == frame.stream
           x == frame.stamp
           opened == IF s \in active THEN open ELSE open \cup {s}
<1>1. /\ s \in Streams /\ x = sent[s] /\ x \in Nat /\ phase = "arrived" /\ out = NoFrames
      /\ active' = active \cup {s} /\ known' = known \cup {s} /\ open' = opened
      /\ expected' = [expected EXCEPT ![s] = x + Gap[s]]
      /\ fq' = IF s \in opened THEN [fq EXCEPT ![s] = Fifo!Pushed(fq[s], x)] ELSE fq
      /\ phase' = IF s \in opened THEN "sync" ELSE "idle"
      /\ s \notin opened => stopped /\ \A r \in Streams : fq[r] = <<>>
      /\ UNCHANGED <<frame, stopped, out, order, sent>>
  BY DispatchMoves
<1>2. /\ MatcherTypeOK /\ fq \in [Streams -> Seq(Nat)] /\ fq[s] \in Seq(Nat) /\ Len(fq[s]) <= QueueMax
      /\ Gap[s] \in Nat \ {0} /\ Step(s) \in Nat \ {0} /\ expected \in [Streams -> Nat]
  BY <1>1, TimesAreNumbers DEF TimedInv, TimestampTypeOK, MatcherTypeOK
<1>3. Before(s) = x - Step(s) /\ Queued(s, fq[s], x - Step(s), expected[s])
  BY <1>1 DEF TimedInv, PaceInv, Before
<1> DEFINE r == Fifo!Pushed(fq[s], x)
<1>4. /\ r \in Seq(Nat) /\ Len(r) \in 1..QueueMax /\ Paced(r, Step(s), x) /\ r[Len(r)] = x
      /\ \A i \in 1..Len(r) : r[i] = x \/ \E j \in 1..Len(fq[s]) : r[i] = fq[s][j]
  <2> DEFINE n == x - Step(s)
  <2>1. n \in Int /\ n + Step(s) <= x
    BY <1>1, <1>2
  <2>2. Paced(fq[s], Step(s), n)
    BY <1>3 DEF Queued
  <2> HIDE DEF n, s, x
  <2> QED BY <1>1, <1>2, <2>1, <2>2, PushedPaced
<1> HIDE DEF s, x, opened, r
<1>5. TimestampTypeOK'
  <2>1. fq' \in [Streams -> Seq(Nat)] /\ \A m \in Streams : Len(fq'[m]) <= QueueMax
    <3>1. Len(r) <= QueueMax
      BY <1>4, TimestampAssumption
    <3> QED BY <1>1, <1>2, <1>4, <3>1 DEF r, MatcherTypeOK
  <2>2. \A m \in Streams \ known' : fq'[m] = <<>>
    BY <1>1, <1>2 DEF MatcherTypeOK
  <2>3. expected' \in [Streams -> Nat]
    BY <1>1, <1>2
  <2>4. known' \subseteq Streams /\ open' \subseteq Streams /\ active' \subseteq Streams
        /\ phase' \in {"idle", "arrived", "sync"}
    BY <1>1, <1>2 DEF MatcherTypeOK, opened
  <2>5. MatcherTypeOK'
    BY <1>1, <1>2, <2>1, <2>2, <2>3, <2>4 DEF MatcherTypeOK
  <2> QED BY <1>1, <2>5 DEF TimestampTypeOK, TimedInv, Orders
<1>6. PaceInv'
  <2>0. \A m \in Streams : Before(m)' = sent[m]
    BY <1>1 DEF Before
  <2> SUFFICES ASSUME NEW m \in Streams
               PROVE  Queued(m, fq'[m], sent[m], expected'[m])
    BY <1>1, <2>0 DEF PaceInv, Queued, Paced, Step
  <2>1. CASE m # s
    <3>1. fq'[m] = fq[m] /\ expected'[m] = expected[m] /\ Before(m) = sent[m]
      BY <1>1, <1>2, <2>1 DEF Before, s
    <3> QED BY <3>1 DEF TimedInv, PaceInv
  <2>2. CASE m = s /\ s \in opened
    <3>1. fq'[s] = r /\ expected'[s] = x + Gap[s] /\ sent[s] = x
      BY <1>1, <1>2, <2>2 DEF r
    <3>2. Queued(s, r, x, x + Gap[s])
      BY <1>1, <1>2, <1>4 DEF Queued
    <3> QED BY <1>1, <1>3, <2>2, <3>1, <3>2
  <2>3. CASE m = s /\ s \notin opened
    <3>1. fq'[s] = <<>> /\ expected'[s] = x + Gap[s] /\ sent[s] = x
      BY <1>1, <1>2, <2>3
    <3>2. Queued(s, <<>>, x, x + Gap[s])
      BY <1>1, <1>2, EmptyQueued
    <3> QED BY <1>1, <1>3, <2>3, <3>1, <3>2
  <2> QED BY <2>1, <2>2, <2>3
<1>7. OnItsWay'
  BY <1>1 DEF TimedInv, OnItsWay, s, x
<1>8. StopInv'
  BY <1>1, <1>2 DEF TimedInv, StopInv, MatcherTypeOK, opened
<1> QED BY <1>5, <1>6, <1>7, <1>8 DEF TimedInv

\* What an iteration waits for, and what it releases.
Waits == Arrived = {} \/ \E m \in Missing : Sort.synced = Arrived /\ IsAwaited(m, Sort.curr)

LEMMA IterationTurns ==
  ASSUME TimedInv, TimestampIteration
  PROVE  /\ phase = "sync" /\ UNCHANGED <<frame, stopped, open, expected, order, sent>>
         /\ known' \subseteq known /\ known \ known' \subseteq Missing /\ active' \subseteq active
         /\ \/ Waits /\ phase' = "idle" /\ fq' = fq /\ out' = NoFrames
            \/ /\ Arrived # {} /\ phase' = "sync" /\ Sort.synced # {} /\ Sort.synced \subseteq Arrived
               /\ fq' = [s \in Streams |-> IF s \in Sort.synced THEN Tail(fq[s]) ELSE fq[s]]
               /\ out' = [s \in Sort.synced |-> Head(fq[s])]
               /\ Sort.synced = Arrived =>
                    \A m \in Missing : ~IsAwaited(m, Sort.curr) /\ (PastCutout(m, Sort.curr) => m \notin active')
<1>1. CASE Arrived = {}
  BY <1>1 DEF TimestampIteration, Wait, Waits
<1>2. CASE Arrived # {}
  <2> DEFINE curr == Sort.curr
             synced == Sort.synced
             asked == IF synced = Arrived THEN Missing ELSE {}
             dead == {m \in asked : PastCutout(m, curr)}
  <2>1. /\ known' = known \ dead
        /\ active' = active \ dead
        /\ IF \E m \in asked : IsAwaited(m, curr) THEN Wait ELSE Release(synced)
        /\ UNCHANGED <<order, sent>>
    BY <1>2 DEF TimestampIteration
  <2>2. synced # {} /\ synced \subseteq Arrived
    <3>1. Arrived \subseteq Streams
      BY DEF TimedInv, TimestampTypeOK, MatcherTypeOK, Arrived
    <3>2. Found(Sort, Streams)
      BY SortFinds
    <3> QED BY <1>2, <3>1, <3>2 DEF Found
  <2>3. dead \subseteq Missing /\ (synced = Arrived => asked = Missing)
    OBVIOUS
  <2>4. CASE \E m \in asked : IsAwaited(m, curr)
    <3>1. Wait
      BY <2>1, <2>4
    <3>2. Waits
      <4>1. synced = Arrived
        BY <2>4
      <4> QED BY <2>4, <4>1 DEF Waits
    <3> HIDE DEF dead
    <3> QED BY <2>1, <2>3, <3>1, <3>2 DEF Wait
  <2>5. CASE ~\E m \in asked : IsAwaited(m, curr)
    <3>1. Release(synced)
      BY <2>1, <2>5
    <3>2. synced = Arrived =>
            \A m \in Missing : ~IsAwaited(m, curr) /\ (PastCutout(m, curr) => m \notin active')
      BY <2>1, <2>3, <2>5
    <3> HIDE DEF dead
    <3> QED BY <1>2, <2>1, <2>2, <2>3, <3>1, <3>2 DEF Release
  <2> QED BY <2>4, <2>5
<1> QED BY <1>1, <1>2

\* Whatever is released, what stays queued is as paced as before.
LEMMA TimedIterationStep ==
  ASSUME TimedInv, TimestampIteration
  PROVE  TimedInv'
<1>0. /\ phase = "sync" /\ UNCHANGED <<frame, stopped, open, expected, order, sent>>
      /\ known' \subseteq known /\ known \ known' \subseteq Missing /\ active' \subseteq active
      /\ phase' \in {"idle", "sync"}
  BY IterationTurns
<1>1. PICK gone \in SUBSET Arrived :
        /\ fq' = [s \in Streams |-> IF s \in gone THEN Tail(fq[s]) ELSE fq[s]]
        /\ DOMAIN out' \subseteq gone
        /\ phase' = "idle" => out' = NoFrames
  <2>1. CASE phase' = "idle"
    <3>1. fq' = fq /\ out' = NoFrames
      BY <2>1, IterationTurns
    <3>2. fq = [s \in Streams |-> IF s \in {} THEN Tail(fq[s]) ELSE fq[s]]
      BY DEF TimedInv, TimestampTypeOK, MatcherTypeOK
    <3>3. {} \in SUBSET Arrived /\ DOMAIN out' \subseteq {}
      BY <3>1 DEF NoFrames
    <3>4. fq' = [s \in Streams |-> IF s \in {} THEN Tail(fq[s]) ELSE fq[s]]
      BY <3>1, <3>2
    <3> QED BY <3>1, <3>3, <3>4
  <2>2. CASE phase' # "idle"
    BY <2>2, IterationTurns
  <2> QED BY <2>1, <2>2
<1>2. \A s \in Arrived : s \in Streams /\ fq[s] # <<>>
  BY HeadOfArrived
<1>3. \A s \in Streams : Before(s) = sent[s] /\ Before(s)' = sent[s]
  BY <1>0 DEF Before
<1>4. ASSUME NEW s \in Streams
      PROVE  fq'[s] \in Seq(Nat) /\ Len(fq'[s]) <= QueueMax /\ Queued(s, fq'[s], sent[s], expected[s])
             /\ (fq[s] = <<>> => fq'[s] = <<>>)
  <2>1. Queued(s, fq[s], sent[s], expected[s]) /\ fq[s] \in Seq(Nat) /\ Len(fq[s]) <= QueueMax
    BY <1>3 DEF TimedInv, PaceInv, TimestampTypeOK, MatcherTypeOK
  <2>2. CASE s \in gone
    <3> DEFINE t == Tail(fq[s])
    <3>1. fq[s] # <<>> /\ fq'[s] = t
      BY <1>1, <1>2, <2>2
    <3>2. /\ t \in Seq(Nat) /\ Len(t) = Len(fq[s]) - 1 /\ Paced(t, Step(s), sent[s])
          /\ \A i \in 1..Len(t) : i + 1 \in 1..Len(fq[s]) /\ t[i] = fq[s][i + 1]
          /\ t # <<>> => fq[s][1] + Step(s) <= t[1] /\ t[Len(t)] = fq[s][Len(fq[s])]
      <4>1. Paced(fq[s], Step(s), sent[s]) /\ Step(s) \in Nat \ {0} /\ sent[s] \in Int
        BY <2>1, TimesAreNumbers DEF Queued
      <4> QED BY <2>1, <3>1, <4>1, TailPaced
    <3>3. Queued(s, t, sent[s], expected[s])
      BY <2>1, <3>1, <3>2 DEF Queued
    <3>4. Len(t) <= QueueMax
      BY <2>1, <3>2, TimestampAssumption
    <3> QED BY <3>1, <3>2, <3>3, <3>4
  <2>3. CASE s \notin gone
    BY <1>1, <2>1, <2>3
  <2> QED BY <2>2, <2>3
<1>5. TimestampTypeOK'
  <2>1. fq' \in [Streams -> Seq(Nat)] /\ \A s \in Streams : Len(fq'[s]) <= QueueMax
    BY <1>1, <1>4
  <2>2. \A s \in Streams \ known' : fq'[s] = <<>>
    BY <1>0, <1>4 DEF TimedInv, TimestampTypeOK, MatcherTypeOK, Missing, Arrived
  <2>3. DOMAIN out' \subseteq Streams
    BY <1>1, <1>2
  <2>4. MatcherTypeOK'
    BY <1>0, <2>1, <2>2, <2>3 DEF TimedInv, TimestampTypeOK, MatcherTypeOK
  <2> QED BY <1>0, <2>4 DEF TimedInv, TimestampTypeOK, Orders
<1>6. PaceInv'
  <2> SUFFICES ASSUME NEW s \in Streams
               PROVE  Queued(s, fq'[s], sent[s], expected[s])
    BY <1>0, <1>3 DEF PaceInv, Queued, Paced, Step
  <2> QED BY <1>4 DEF TimedInv, PaceInv
<1>7. OnItsWay'
  BY <1>0, <1>1 DEF TimedInv, OnItsWay
<1>8. StopInv'
  BY <1>0 DEF TimedInv, StopInv
<1> QED BY <1>5, <1>6, <1>7, <1>8 DEF TimedInv

\* A stopped matcher has nothing queued.
LEMMA TimedStopStep ==
  ASSUME TimedInv, TimestampStop
  PROVE  TimedInv'
<1>1. /\ stopped' = TRUE /\ open' = open \ known /\ out' = NoFrames
      /\ UNCHANGED <<known, active, expected, phase, frame, order, sent>>
      /\ fq' = [s \in Streams |-> IF s \in known THEN <<>> ELSE fq[s]]
  BY DEF TimestampStop, StopMatcher
<1>2. \A s \in Streams : fq'[s] = <<>>
  BY <1>1 DEF TimedInv, TimestampTypeOK, MatcherTypeOK
<1>3. TimestampTypeOK'
  <2>1. fq' \in [Streams -> Seq(Nat)] /\ \A s \in Streams : Len(fq'[s]) <= QueueMax
    <3>1. fq' \in [Streams -> Seq(Nat)]
      BY <1>1 DEF TimedInv, TimestampTypeOK, MatcherTypeOK
    <3>2. Len(<<>>) = 0 /\ 0 <= QueueMax
      BY TimestampAssumption
    <3> QED BY <1>2, <3>1, <3>2
  <2>2. DOMAIN out' = {}
    BY <1>1 DEF NoFrames
  <2>3. MatcherTypeOK'
    BY <1>1, <1>2, <2>1, <2>2 DEF TimedInv, TimestampTypeOK, MatcherTypeOK
  <2> QED BY <1>1, <2>3 DEF TimedInv, TimestampTypeOK, Orders
<1>4. PaceInv'
  <2>1. \A s \in Streams : Before(s)' = Before(s)
    BY <1>1 DEF Before, Step
  <2> SUFFICES ASSUME NEW s \in Streams
               PROVE  Queued(s, <<>>, Before(s), expected[s])
    BY <1>1, <1>2, <2>1 DEF PaceInv, Queued, Paced, Step
  <2>2. expected[s] <= Before(s) + Gap[s]
    BY DEF TimedInv, PaceInv, Queued
  <2> QED BY <2>2, TimesAreNumbers, EmptyQueued
<1>5. OnItsWay' /\ StopInv'
  BY <1>1, <1>2 DEF TimedInv, OnItsWay, StopInv
<1> QED BY <1>3, <1>4, <1>5 DEF TimedInv

LEMMA TimedInvariant == TimestampSpec => []TimedInv
<1>1. TimestampInit => TimedInv
  <2> SUFFICES ASSUME TimestampInit PROVE TimedInv
    OBVIOUS
  <2>1. /\ fq = [s \in Streams |-> <<>>] /\ known = {} /\ open = Streams /\ active = Streams
        /\ expected = [s \in Streams |-> 0] /\ phase = "idle" /\ frame \in [stream : Streams, stamp : {0}]
        /\ stopped = FALSE /\ out = NoFrames /\ order \in Orders /\ sent = [s \in Streams |-> 0]
    BY DEF TimestampInit, MatcherInit
  <2>2. TimestampTypeOK
    <3>1. Len(<<>>) = 0 /\ 0 <= QueueMax /\ <<>> \in Seq(Nat)
      BY TimestampAssumption
    <3>2. DOMAIN out \subseteq Streams
      BY <2>1 DEF NoFrames
    <3>3. fq \in [Streams -> Seq(Nat)] /\ expected \in [Streams -> Nat] /\ sent \in [Streams -> Nat]
      BY <2>1, <3>1
    <3>4. \A s \in Streams : fq[s] = <<>> /\ Len(fq[s]) <= QueueMax
      BY <2>1, <3>1
    <3>5. frame \in [stream : Streams, stamp : Nat]
      BY <2>1
    <3>6. MatcherTypeOK
      BY <2>1, <3>2, <3>3, <3>4, <3>5 DEF MatcherTypeOK
    <3> QED BY <2>1, <3>3, <3>6 DEF TimestampTypeOK
  <2>3. PaceInv
    <3> SUFFICES ASSUME NEW s \in Streams PROVE Queued(s, fq[s], Before(s), expected[s])
      BY DEF PaceInv
    <3>1. sent[s] = 0 /\ expected[s] = 0 /\ fq[s] = <<>> /\ Before(s) = 0 /\ Gap[s] \in Nat
      BY <2>1, TimestampAssumption DEF Before
    <3>2. Queued(s, <<>>, 0, 0)
      BY <3>1, EmptyQueued
    <3> QED BY <3>1, <3>2
  <2>4. OnItsWay /\ StopInv
    BY <2>1 DEF OnItsWay, StopInv
  <2> QED BY <2>2, <2>3, <2>4 DEF TimedInv
<1>2. TimedInv /\ [TimestampNext]_tvars => TimedInv'
  <2> SUFFICES ASSUME TimedInv, [TimestampNext]_tvars PROVE TimedInv'
    OBVIOUS
  <2>1. ASSUME NEW s \in Streams, TimedFrameArrives(s) PROVE TimedInv'
    BY <2>1, TimedArriveStep
  <2>2. CASE TimestampDispatch
    BY <2>2, TimedDispatchStep
  <2>3. CASE TimestampIteration
    BY <2>3, TimedIterationStep
  <2>4. CASE TimestampStop
    BY <2>4, TimedStopStep
  <2>5. CASE UNCHANGED tvars
    BY <2>5 DEF tvars, mvars, TimedInv, TimestampTypeOK, MatcherTypeOK, Orders, PaceInv, Queued, Step,
                Paced, Before, OnItsWay, StopInv
  <2> QED BY <2>1, <2>2, <2>3, <2>4, <2>5 DEF TimestampNext
<1> QED BY <1>1, <1>2, PTL DEF TimestampSpec

\* timestamp_composite_matcher: every queue stays within its size, the streams
\* outside the map have nothing queued, and sync() releases frames of its own
\* streams, wherever stop() comes in.
THEOREM TimestampTypeCorrect == TimestampSpec => []TimestampTypeOK
<1>1. TimedInv => TimestampTypeOK
  BY DEF TimedInv
<1> QED BY <1>1, TimedInvariant, PTL

\* What a step releases is what the loop found.
LEMMA ReleasedIsFound ==
  ASSUME TimedInv, TimestampNext, DOMAIN out' # {}
  PROVE  TimestampIteration /\ Arrived # {} /\ DOMAIN out' = Sort.synced /\ Sort.synced # {}
         /\ (\A s \in Sort.synced : out'[s] = Head(fq[s]))
         /\ (Sort.synced = Arrived =>
               \A m \in Missing : ~IsAwaited(m, Sort.curr) /\ (PastCutout(m, Sort.curr) => m \notin active'))
<1>1. ASSUME NEW s \in Streams, TimedFrameArrives(s) PROVE FALSE
  BY <1>1 DEF TimedFrameArrives, Arrive, NoFrames
<1>2. CASE TimestampDispatch
  BY <1>2, DispatchMoves DEF NoFrames
<1>3. CASE TimestampStop
  BY <1>3 DEF TimestampStop, StopMatcher, NoFrames
<1>4. CASE TimestampIteration
  <2>1. out' # NoFrames
    BY DEF NoFrames
  <2> QED BY <1>4, <2>1, IterationTurns
<1> QED BY <1>1, <1>2, <1>3, <1>4 DEF TimestampNext

\* are_equivalent() compares each head with one of them, which depends on the
\* order of the map, and is not transitive.  Still all frames of a frameset are
\* in step with one among them, and at one rate whatever stays queued is later
\* than that one, in every order and for any streams, phases, losses and delays.
THEOREM FramesetsAreInStep == TimestampSpec => FramesetInStep
<1> DEFINE InStep == DOMAIN out' # {} =>
             \E c \in DOMAIN out' :
               /\ \A s \in DOMAIN out' : Near(out'[c], out'[s], IF Gap[c] > Gap[s] THEN Gap[c] ELSE Gap[s])
               /\ \A t \in Arrived \ DOMAIN out' :
                    (\A s \in Arrived : Gap[s] = Gap[t]) => Head(fq[t]) > out'[c]
<1>1. ASSUME TimedInv, [TimestampNext]_tvars PROVE [InStep]_tvars
  <2>1. CASE UNCHANGED tvars
    BY <2>1
  <2>2. CASE TimestampNext /\ DOMAIN out' # {}
    <3>1. DOMAIN out' = Sort.synced /\ Sort.synced # {} /\ \A s \in Sort.synced : out'[s] = Head(fq[s])
      BY <1>1, <2>2, ReleasedIsFound
    <3>2. Found(Sort, Streams) /\ Arrived \subseteq Streams
      BY <1>1, SortFinds, HeadOfArrived
    <3> DEFINE c == Sort.curr
    <3>3. c \in Arrived /\ \A s \in Sort.synced : s \in Arrived /\ AreEquivalent(c, s)
      BY <3>1, <3>2 DEF Found
    <3>4. c \in Sort.synced
      BY <3>1, <3>2 DEF Found
    <3>5. ASSUME NEW s \in DOMAIN out'
          PROVE  Near(out'[c], out'[s], IF Gap[c] > Gap[s] THEN Gap[c] ELSE Gap[s])
      BY <3>1, <3>3, <3>4, <3>5 DEF AreEquivalent
    <3>6. ASSUME NEW t \in Arrived \ DOMAIN out', \A s \in Arrived : Gap[s] = Gap[t]
          PROVE  Head(fq[t]) > out'[c]
      <4>1. RateOfHeads
        BY <3>6 DEF RateOfHeads
      <4>2. fq[c][1] < fq[t][1]
        BY <3>1, <3>2, <3>6, <4>1 DEF Found
      <4> QED BY <1>1, <3>1, <3>3, <3>4, <4>2, HeadOfArrived
    <3> HIDE DEF c
    <3> QED BY <3>1, <3>4, <3>5, <3>6
  <2>3. CASE DOMAIN out' = {}
    BY <2>3
  <2> QED BY <1>1, <2>1, <2>2, <2>3
<1>2. [][InStep]_tvars <=> FramesetInStep
  BY DEF FramesetInStep
<1> HIDE DEF InStep
<1> QED BY <1>1, <1>2, TimedInvariant, PTL DEF TimestampSpec

\* skip_missing_stream(): frames that are all in step with the next frame of a
\* missing stream only leave without it when the cutout is over, and then the
\* stream is marked inactive: the frames before were held back, at whatever
\* rates and in whatever order the streams delivered them.
THEOREM NobodyIsLeftBehind == TimestampSpec => NotLeftBehind
<1> DEFINE Kept == \A m \in Missing \cap active :
                     /\ DOMAIN out' # {} /\ DOMAIN out' = Arrived
                     /\ \A s \in DOMAIN out' : Near(out'[s], expected[m], Gap[s])
                     => m \notin active'
<1>1. ASSUME TimedInv, [TimestampNext]_tvars PROVE [Kept]_tvars
  <2>1. CASE UNCHANGED tvars
    BY <2>1
  <2>2. CASE TimestampNext /\ DOMAIN out' # {}
    <3> SUFFICES ASSUME NEW m \in Missing \cap active, DOMAIN out' = Arrived,
                        \A s \in DOMAIN out' : Near(out'[s], expected[m], Gap[s])
                 PROVE  m \notin active'
      OBVIOUS
    <3>1. /\ DOMAIN out' = Sort.synced /\ Sort.synced = Arrived /\ Sort.synced # {}
          /\ \A s \in Sort.synced : out'[s] = Head(fq[s])
          /\ ~IsAwaited(m, Sort.curr) /\ (PastCutout(m, Sort.curr) => m \notin active')
      BY <1>1, <2>2, ReleasedIsFound
    <3>2. Sort.curr \in Sort.synced
      BY <1>1, <3>1, SortFinds DEF Found
    <3>3. Near(Head(fq[Sort.curr]), expected[m], Gap[Sort.curr])
      BY <3>1, <3>2
    <3>4. frame.stamp > expected[m] /\ PastCutout(m, Sort.curr)
      BY <3>3, <3>1 DEF IsAwaited
    <3> QED BY <3>1, <3>4
  <2>3. CASE DOMAIN out' = {}
    BY <2>3
  <2> QED BY <1>1, <2>1, <2>2, <2>3
<1> QED BY <1>1, TimedInvariant, PTL DEF TimestampSpec, NotLeftBehind

-------------------------------------------------------------------------------
\* The lead that there is enough room for.
LEMMA LeadIsEnough ==
  ASSUME Enough
  PROVE  Leads(Lead) /\ EnoughFor(Lead) /\ Lead \in Nat
BY DEF Enough, Lead, Leads

\* So there is room for the frame that arrives.
LEMMA RoomForOne ==
  ASSUME TimedInv, SpanInv, Enough, phase = "arrived"
  PROVE  Len(fq[frame.stream]) < QueueMax
<1> DEFINE s == frame.stream
           g == Step(s)
           n == Len(fq[s])
<1>1. s \in Streams /\ g \in Nat \ {0} /\ n \in Nat /\ fq[s] \in Seq(Nat) /\ Gap[s] \in Nat
  <2>1. s \in Streams
    BY DEF TimedInv, TimestampTypeOK, MatcherTypeOK
  <2> QED BY <2>1, TimesAreNumbers
<1>2. QueueMax \in Nat /\ Cutout \in Nat /\ Lead \in Nat /\ 1 <= QueueMax
  BY TimestampAssumption, LeadIsEnough
<1> SUFFICES ASSUME QueueMax <= n PROVE FALSE
  BY <1>1, <1>2
<1>3. 1 \in 1..n /\ n \in 1..n /\ fq[s] # <<>> /\ fq[s][1] \in Nat /\ fq[s][n] \in Nat
  <2>1. 1 \in 1..n /\ n \in 1..n
    BY <1>1, <1>2
  <2> QED BY <1>1, <2>1, ElementOfSeq
<1> DEFINE a == fq[s][1]
           b == fq[s][n]
           p == (n - 1) * g
           c == (Cutout + 1) * Gap[s]
           m == (QueueMax - 1) * g
<1>4. a + p <= b
  BY <1>1, <1>3 DEF TimedInv, PaceInv, Queued, Paced
<1>5. b < a + c + Lead
  BY <1>1, <1>3 DEF SpanInv
<1>6. c + Lead <= m
  BY <1>1, LeadIsEnough DEF EnoughFor
<1>7. m <= p /\ m \in Int /\ p \in Int /\ c \in Int
  <2>1. QueueMax - 1 <= n - 1 /\ QueueMax - 1 \in Int /\ n - 1 \in Int /\ Cutout + 1 \in Int
    BY <1>1, <1>2
  <2>2. c \in Int
    BY <1>1, <2>1, MoreGaps
  <2> HIDE DEF n, g, c
  <2> QED BY <1>1, <2>1, <2>2, MoreGaps
<1>8. a \in Nat /\ b \in Nat
  BY <1>3
<1> HIDE DEF a, b, p, c, m, g
<1> QED BY <1>2, <1>4, <1>5, <1>6, <1>7, <1>8

-------------------------------------------------------------------------------
\* No stream is further ahead of the frame than frames are late.
LEMMA RoomArriveStep ==
  ASSUME TimedInv, RoomInv, NEW s \in Streams, TimedFrameArrives(s)
  PROVE  RoomInv'
<1>1. PICK t \in Nat :
        /\ \A r \in Streams : sent[r] <= t + MaxLate
        /\ Arrive(s, t) /\ sent' = [sent EXCEPT ![s] = t]
  <2>1. PICK t \in 1..MaxTime :
          /\ \A r \in Streams : sent[r] <= t + MaxLate
          /\ Arrive(s, t) /\ sent' = [sent EXCEPT ![s] = t]
    BY DEF TimedFrameArrives
  <2>2. t \in Nat
    BY TimestampAssumption
  <2> QED BY <2>1, <2>2
<1>2. /\ phase = "idle" /\ phase' = "arrived" /\ frame'.stamp = t /\ UNCHANGED <<fq, expected>>
      /\ \A r \in Streams : sent'[r] = IF r = s THEN t ELSE sent[r]
  BY <1>1 DEF Arrive, TimedInv, TimestampTypeOK
<1>3. ExpectedInv'
  BY <1>2 DEF RoomInv, ExpectedInv
<1>4. SpanInv'
  BY <1>2 DEF RoomInv, SpanInv
<1>5. LateInv'
  BY <1>1, <1>2, TimestampAssumption DEF LateInv
<1> QED BY <1>3, <1>4, <1>5 DEF RoomInv

\* The first frame in a queue is the one that waits the longest.
LEMMA RoomDispatchStep ==
  ASSUME TimedInv, RoomInv, Enough, TimestampDispatch
  PROVE  RoomInv'
<1> DEFINE s == frame.stream
           x == frame.stamp
           opened == IF s \in active THEN open ELSE open \cup {s}
<1>1. /\ s \in Streams /\ x = sent[s] /\ x \in Nat /\ phase = "arrived"
      /\ expected' = [expected EXCEPT ![s] = x + Gap[s]]
      /\ fq' = IF s \in opened THEN [fq EXCEPT ![s] = Fifo!Pushed(fq[s], x)] ELSE fq
      /\ phase' = IF s \in opened THEN "sync" ELSE "idle"
      /\ s \notin opened => stopped /\ \A r \in Streams : fq[r] = <<>>
      /\ frame' = frame
  BY DispatchMoves
<1>2. fq \in [Streams -> Seq(Nat)] /\ expected \in [Streams -> Nat] /\ Len(fq[s]) <= QueueMax
  BY <1>1 DEF TimedInv, TimestampTypeOK, MatcherTypeOK
<1>3. LateInv'
  BY <1>1 DEF LateInv
<1>4. CASE s \notin opened
  <2>1. \A r \in Streams : fq'[r] = <<>>
    BY <1>1, <1>4
  <2> QED BY <1>3, <2>1 DEF RoomInv, ExpectedInv, SpanInv
<1>5. CASE s \in opened
  <2> DEFINE q == Fifo!Pushed(fq[s], x)
  <2>1. Len(q) \in 1..QueueMax /\ q[1] = IF fq[s] = <<>> THEN x ELSE fq[s][1]
    <3>1. Len(fq[s]) < QueueMax
      BY <1>1, RoomForOne DEF RoomInv
    <3> DEFINE n == x - Step(s)
    <3>2. Paced(fq[s], Step(s), n) /\ n \in Int /\ n + Step(s) <= x /\ fq[s] \in Seq(Nat) /\ Step(s) \in Nat \ {0}
      <4>1. Step(s) \in Nat \ {0} /\ Before(s) = x - Step(s)
        BY <1>1, TimesAreNumbers DEF Before
      <4>2. Paced(fq[s], Step(s), n)
        BY <1>1, <4>1 DEF TimedInv, PaceInv, Queued
      <4> QED BY <1>1, <1>2, <4>1, <4>2
    <3>3. x \in Nat /\ Len(fq[s]) <= QueueMax
      BY <1>1, <1>2
    <3> HIDE DEF n, x, s
    <3>4. Len(q) \in 1..QueueMax /\ (Len(fq[s]) < QueueMax => q[1] = IF fq[s] = <<>> THEN x ELSE fq[s][1])
      BY <3>2, <3>3, PushedPaced
    <3> QED BY <3>1, <3>4
  <2>2. q # <<>>
    BY <2>1, TimestampAssumption
  <2> HIDE DEF q, x, opened
  <2>3. /\ fq'[s] = q /\ (\A r \in Streams : r # s => fq'[r] = fq[r]) /\ phase' = "sync"
        /\ \A r \in Streams : r # s => expected'[r] = expected[r]
    BY <1>1, <1>2, <1>5 DEF q
  <2>4. ExpectedInv'
    <3> SUFFICES ASSUME NEW r \in Streams, NEW m \in Streams, fq'[r] # <<>>, fq'[m] = <<>>
                 PROVE  expected'[m] <= fq'[r][1] + Lead + Gap[m]
      BY DEF ExpectedInv
    <3>1. m # s /\ fq[m] = <<>> /\ expected'[m] = expected[m]
      BY <2>2, <2>3
    <3>2. CASE r # s \/ fq[s] # <<>>
      <4>1. fq[r] # <<>> /\ fq'[r][1] = fq[r][1]
        BY <2>1, <2>3, <3>2
      <4> QED BY <3>1, <4>1 DEF RoomInv, ExpectedInv
    <3>3. CASE r = s /\ fq[s] = <<>>
      <4>1. fq'[r][1] = x
        BY <2>1, <2>3, <3>3
      <4>2. expected[m] <= sent[m] + Gap[m] /\ sent[m] <= x + MaxLate
        <5>1. Before(m) = sent[m]
          BY <3>1 DEF Before, s
        <5>2. expected[m] <= sent[m] + Gap[m]
          BY <5>1 DEF TimedInv, PaceInv, Queued
        <5> QED BY <1>1, <5>2 DEF RoomInv, LateInv, x
      <4>3. /\ sent[m] \in Nat /\ expected[m] \in Nat /\ Gap[m] \in Nat /\ MaxLate \in Nat
            /\ Lead \in Nat /\ MaxLate <= Lead
        BY TimesAreNumbers, TimestampAssumption, LeadIsEnough DEF Leads
      <4> QED BY <1>1, <3>1, <4>1, <4>2, <4>3
    <3> QED BY <3>2, <3>3
  <2>5. SpanInv'
    <3> SUFFICES ASSUME NEW r \in Streams, fq'[r] # <<>>, r # s
                 PROVE  fq'[r][Len(fq'[r])] < fq'[r][1] + (Cutout + 1) * Gap[r] + Lead
      BY <1>1, <2>3 DEF SpanInv, s
    <3>1. fq'[r] = fq[r]
      BY <2>3
    <3> QED BY <1>1, <3>1 DEF RoomInv, SpanInv
  <2> QED BY <1>3, <2>4, <2>5 DEF RoomInv
<1> QED BY <1>4, <1>5

\* A frame that left was not much later than what is left.
LEMMA LeftSoonAfter ==
  ASSUME TimedInv, Enough, OneRate, NEW m \in Sort.synced, NEW s \in Arrived,
         s \in Sort.synced => Len(fq[s]) > 1
  PROVE  /\ s \notin Sort.synced => fq[m][1] <= fq[s][1] + Lead
         /\ s \in Sort.synced => fq[m][1] <= fq[s][2] + Lead
<1> DEFINE c == Sort.curr
<1>1. Found(Sort, Streams) /\ Arrived \subseteq Streams
  BY SortFinds, HeadOfArrived
<1>2. c \in Arrived /\ m \in Arrived /\ AreEquivalent(c, m)
  BY <1>1 DEF Found
<1> DEFINE g == Gap[c]
           a == fq[c][1]
           y == fq[m][1]
           h == fq[s][1]
<1>3. g \in Nat \ {0} /\ a \in Nat /\ y \in Nat /\ h \in Nat /\ Gap[m] = g /\ Gap[s] = g /\ RateOfHeads
  BY <1>1, <1>2, HeadOfArrived DEF OneRate, RateOfHeads
<1>4. 2 * (y - a) < g
  BY <1>2, <1>3, InStepIsNear
<1>5. Lead \in Nat /\ Jitter \in Nat /\ Jitter <= Lead + 1 /\ g <= 2 * Lead + 2
  BY <1>1, <1>2, LeadIsEnough, TimestampAssumption DEF Leads
<1>6. ASSUME s \notin Sort.synced PROVE y <= h + Lead
  <2>1. a < h
    BY <1>1, <1>3, <1>6 DEF Found
  <2> HIDE DEF a, y, h, g
  <2> QED BY <1>3, <1>4, <1>5, <2>1
<1>7. ASSUME s \in Sort.synced PROVE y <= fq[s][2] + Lead
  <2>1. AreEquivalent(c, s)
    BY <1>1, <1>7 DEF Found
  <2>2. 2 * (a - h) < g
    BY <1>2, <1>3, <2>1, InStepIsNear
  <2>3. fq[s] \in Seq(Nat) /\ Len(fq[s]) \in Nat /\ 1 \in 1..Len(fq[s]) /\ 2 \in 1..Len(fq[s])
    BY <1>7, HeadOfArrived
  <2>4. h + Step(s) <= fq[s][2]
    <3>1. s \in Streams /\ Paced(fq[s], Step(s), Before(s))
      BY <1>1 DEF TimedInv, PaceInv, Queued
    <3> QED BY <2>3, <3>1 DEF Paced
  <2> DEFINE z == fq[s][2]
  <2>5. h + (g - Jitter) <= z /\ z \in Nat
    BY <1>3, <2>3, <2>4, ElementOfSeq DEF Step
  <2> HIDE DEF a, y, h, g, z
  <2>6. y <= z + Lead
    BY <1>3, <1>4, <1>5, <2>2, <2>5
  <2> QED BY <2>6 DEF z
<1> QED BY <1>6, <1>7

\* What waits does so for a stream whose cutout is not over.
LEMMA RoomIterationStep ==
  ASSUME TimedInv, RoomInv, OneRate, Enough, TimestampIteration
  PROVE  RoomInv'
<1> DEFINE s0 == frame.stream
           x == frame.stamp
<1>1. /\ phase = "sync" /\ UNCHANGED <<frame, expected, sent>> /\ phase' \in {"idle", "sync"}
      /\ s0 \in Streams /\ x = sent[s0] /\ x \in Nat /\ fq \in [Streams -> Seq(Nat)]
  BY IterationTurns DEF TimedInv, OnItsWay, TimestampTypeOK, MatcherTypeOK
<1>2. LateInv'
  BY <1>1 DEF LateInv
<1>3. /\ Lead \in Nat /\ Cutout \in Nat /\ 1 <= Cutout
      /\ \A s \in Streams : Gap[s] \in Nat \ {0} /\ (Cutout + 1) * Gap[s] = Cutout * Gap[s] + Gap[s]
                            /\ Cutout * Gap[s] \in Nat /\ Gap[s] <= Cutout * Gap[s]
  <2>1. Lead \in Nat /\ Cutout \in Nat /\ 1 <= Cutout /\ \A s \in Streams : Gap[s] \in Nat \ {0}
    BY TimestampAssumption, LeadIsEnough
  <2>2. ASSUME NEW s \in Streams
        PROVE  (Cutout + 1) * Gap[s] = Cutout * Gap[s] + Gap[s] /\ Cutout * Gap[s] \in Nat
               /\ Gap[s] <= Cutout * Gap[s]
    <3>1. (Cutout + 1) * Gap[s] = Cutout * Gap[s] + Gap[s] /\ 1 * Gap[s] = Gap[s]
      BY <2>1, OneMoreGap
    <3>2. 1 * Gap[s] <= Cutout * Gap[s] /\ Cutout * Gap[s] \in Int
      BY <2>1, MoreGaps
    <3> QED BY <2>1, <3>1, <3>2
  <2> QED BY <2>1, <2>2
<1>4. Found(Sort, Streams) /\ Arrived = {s \in Streams : fq[s] # <<>>}
  BY SortFinds DEF TimedInv, TimestampTypeOK, MatcherTypeOK, Arrived
<1>5. \A s \in Sort.synced : s \in Arrived /\ Sort.curr \in Arrived
  BY <1>4 DEF Found
<1>6. CASE Waits /\ phase' = "idle" /\ fq' = fq
  <2>1. ExpectedInv'
    BY <1>1, <1>6 DEF RoomInv, ExpectedInv
  <2>2. SpanInv'
    <3>1. ASSUME fq[s0] # <<>> PROVE fq[s0][Len(fq[s0])] < fq[s0][1] + (Cutout + 1) * Gap[s0] + Lead
      <4>1. s0 \in Arrived
        BY <1>1, <1>4, <3>1
      <4>2. PICK m \in Missing : Sort.synced = Arrived /\ IsAwaited(m, Sort.curr)
        BY <1>6, <4>1 DEF Waits
      <4>3. m \in Streams /\ fq[m] = <<>>
        BY <1>4 DEF Missing, TimedInv, TimestampTypeOK, MatcherTypeOK
      <4> DEFINE y == fq[s0][1]
                 z == fq[s0][Len(fq[s0])]
                 e == expected[m]
                 g == Gap[s0]
                 c == Cutout * Gap[s0]
      <4>4. e <= y + Lead + g
        BY <1>1, <3>1, <4>3 DEF RoomInv, ExpectedInv, OneRate
      <4>5. z <= x
        <5>1. Before(s0) = x /\ Len(fq[s0]) \in 1..Len(fq[s0])
          BY <1>1, <4>1, HeadOfArrived DEF Before
        <5> QED BY <1>1, <5>1 DEF TimedInv, PaceInv, Queued, Paced
      <4>6. x <= e \/ x - e < c
        <5>1. Gap[Sort.curr] = Gap[s0]
          BY <1>1, <1>5, <4>1, <4>2, HeadOfArrived DEF OneRate
        <5>2. x > e => ~(x - e >= Cutout * Gap[Sort.curr])
          BY <4>2 DEF IsAwaited, PastCutout
        <5>3. x \in Nat /\ e \in Nat /\ c \in Nat
          BY <1>1, <1>3, <4>3, TimesAreNumbers
        <5> QED BY <5>1, <5>2, <5>3
      <4>7. y \in Nat /\ z \in Nat /\ e \in Nat /\ g \in Nat \ {0} /\ c \in Nat /\ g <= c
            /\ (Cutout + 1) * Gap[s0] = c + g
        <5>1. z \in Nat /\ y \in Nat
          BY <1>1, <4>1, HeadOfArrived, ElementOfSeq
        <5>2. e \in Nat
          BY <4>3, TimesAreNumbers
        <5> QED BY <1>1, <1>3, <5>1, <5>2
      <4> HIDE DEF y, z, e, c, g, x
      <4>8. z < y + (c + g) + Lead
        BY <1>1, <1>3, <4>4, <4>5, <4>6, <4>7
      <4> QED BY <4>7, <4>8 DEF y, z
    <3> SUFFICES ASSUME NEW s \in Streams, fq[s] # <<>>, s # s0
                 PROVE  fq[s][Len(fq[s])] < fq[s][1] + (Cutout + 1) * Gap[s] + Lead
      BY <1>6, <3>1 DEF SpanInv
    <3> QED BY <1>1 DEF RoomInv, SpanInv
  <2> QED BY <1>2, <2>1, <2>2 DEF RoomInv
<1>7. CASE /\ Arrived # {} /\ phase' = "sync" /\ Sort.synced # {} /\ Sort.synced \subseteq Arrived
           /\ fq' = [s \in Streams |-> IF s \in Sort.synced THEN Tail(fq[s]) ELSE fq[s]]
  <2>1. ASSUME NEW s \in Streams, fq'[s] # <<>>
        PROVE  /\ fq[s] # <<>> /\ fq[s][1] <= fq'[s][1]
               /\ fq'[s][1] = IF s \in Sort.synced THEN fq[s][2] ELSE fq[s][1]
               /\ s \in Sort.synced => Len(fq[s]) > 1
               /\ fq'[s][Len(fq'[s])] = fq[s][Len(fq[s])]
               /\ fq[s][1] \in Nat /\ fq'[s][1] \in Nat /\ fq[s][Len(fq[s])] \in Nat
    <3>1. CASE s \notin Sort.synced
      <4>1. fq'[s] = fq[s] /\ s \in Arrived
        BY <1>4, <1>7, <2>1, <3>1
      <4>2. fq[s][1] \in Nat /\ fq[s][Len(fq[s])] \in Nat
        BY <4>1, HeadOfArrived, ElementOfSeq
      <4> QED BY <2>1, <3>1, <4>1, <4>2
    <3>2. CASE s \in Sort.synced
      <4> DEFINE t == Tail(fq[s])
      <4>1. s \in Arrived /\ fq'[s] = t
        BY <1>7, <3>2
      <4>2. /\ fq[s] \in Seq(Nat) /\ fq[s] # <<>> /\ fq[s][1] \in Nat /\ fq[s][Len(fq[s])] \in Nat
            /\ Step(s) \in Nat \ {0} /\ Before(s) \in Int /\ Paced(fq[s], Step(s), Before(s))
        BY <4>1, HeadOfArrived, TimesAreNumbers, ElementOfSeq DEF TimedInv, PaceInv, Queued
      <4>3. /\ t \in Seq(Nat) /\ Len(t) = Len(fq[s]) - 1
            /\ \A i \in 1..Len(t) : t[i] = fq[s][i + 1]
            /\ t # <<>> => fq[s][1] + Step(s) <= t[1] /\ t[Len(t)] = fq[s][Len(fq[s])]
        BY <4>2, TailPaced
      <4>4. 1 \in 1..Len(t)
        <5>1. t # <<>>
          BY <2>1, <4>1
        <5> HIDE DEF t
        <5> QED BY <4>3, <5>1
      <4>5. t[1] \in Nat /\ t[1] = fq[s][2] /\ Len(fq[s]) > 1 /\ t # <<>>
        <5>1. t[1] \in Nat /\ t[1] = fq[s][1 + 1] /\ Len(t) \in Nat /\ Len(fq[s]) \in Nat
          BY <4>2, <4>3, <4>4, ElementOfSeq
        <5> HIDE DEF t
        <5> QED BY <4>3, <4>4, <5>1
      <4>6. fq[s][1] <= t[1]
        <5> DEFINE a == fq[s][1]
        <5> DEFINE b == t[1]
        <5> DEFINE d == Step(s)
        <5>1. a + d <= b
          BY <4>3, <4>5
        <5>2. a \in Nat /\ b \in Nat /\ d \in Nat
          BY <4>2, <4>5
        <5> HIDE DEF a, b, d
        <5>3. a <= b
          BY <5>1, <5>2
        <5> QED BY <5>3 DEF a, b
      <4> HIDE DEF t
      <4> QED BY <2>1, <3>2, <4>1, <4>2, <4>3, <4>5, <4>6
    <3> QED BY <3>1, <3>2
  <2>2. SpanInv'
    <3> SUFFICES ASSUME NEW s \in Streams, fq'[s] # <<>>, s # s0
                 PROVE  fq'[s][Len(fq'[s])] < fq'[s][1] + (Cutout + 1) * Gap[s] + Lead
      BY <1>1, <1>7 DEF SpanInv
    <3>1. fq[s][Len(fq[s])] < fq[s][1] + (Cutout + 1) * Gap[s] + Lead
      BY <1>1, <2>1 DEF RoomInv, SpanInv
    <3>2. (Cutout + 1) * Gap[s] \in Nat /\ Lead \in Nat
      BY <1>3
    <3> DEFINE c == (Cutout + 1) * Gap[s]
    <3> HIDE DEF c
    <3>3. fq'[s][Len(fq'[s])] < fq'[s][1] + c + Lead
      BY <2>1, <3>1, <3>2 DEF c
    <3> QED BY <3>3 DEF c
  <2>3. ExpectedInv'
    <3> SUFFICES ASSUME NEW s \in Streams, NEW m \in Streams, fq'[s] # <<>>, fq'[m] = <<>>
                 PROVE  expected[m] <= fq'[s][1] + Lead + Gap[m]
      BY <1>1 DEF ExpectedInv
    <3>0. Lead \in Nat
      BY LeadIsEnough
    <3>1. /\ fq[s] # <<>> /\ fq[s][1] <= fq'[s][1] /\ fq[s][1] \in Nat /\ fq'[s][1] \in Nat
          /\ expected[m] \in Nat /\ Gap[m] \in Nat
      BY <2>1, TimesAreNumbers
    <3>2. CASE fq[m] = <<>>
      <4>1. expected[m] <= fq[s][1] + Lead + Gap[m]
        BY <3>1, <3>2 DEF RoomInv, ExpectedInv
      <4> QED BY <3>0, <3>1, <4>1
    <3>3. CASE fq[m] # <<>>
      <4>1. m \in Sort.synced /\ m \in Arrived /\ s \in Arrived
        BY <1>4, <1>7, <3>1, <3>3
      <4>2. Len(fq[m]) = 1
        <5>1. Tail(fq[m]) = <<>> /\ fq[m] \in Seq(Nat) /\ fq[m] # <<>>
          BY <1>1, <1>7, <3>3, <4>1
        <5>2. Len(Tail(fq[m])) = Len(fq[m]) - 1 /\ Len(fq[m]) \in Nat
          BY <5>1, HeadTailProperties
        <5>3. Len(Tail(fq[m])) = 0
          BY <5>1, EmptySeq
        <5> QED BY <5>2, <5>3
      <4>3. expected[m] <= fq[m][1] + Gap[m] /\ fq[m][1] \in Nat
        BY <3>3, <4>1, <4>2, HeadOfArrived DEF TimedInv, PaceInv, Queued
      <4>4. fq[m][1] <= fq'[s][1] + Lead
        BY <2>1, <4>1, LeftSoonAfter
      <4> QED BY <3>0, <3>1, <4>3, <4>4
    <3> QED BY <3>2, <3>3
  <2> QED BY <1>2, <2>2, <2>3 DEF RoomInv
<1> QED BY <1>6, <1>7, IterationTurns

\* Nothing is queued, so nothing waits.
LEMMA RoomStopStep ==
  ASSUME TimedInv, RoomInv, TimestampStop
  PROVE  RoomInv'
<1>1. /\ UNCHANGED <<phase, frame, sent>>
      /\ fq' = [s \in Streams |-> IF s \in known THEN <<>> ELSE fq[s]]
  BY DEF TimestampStop, StopMatcher
<1>2. \A s \in Streams : fq'[s] = <<>>
  BY <1>1 DEF TimedInv, TimestampTypeOK, MatcherTypeOK
<1> QED BY <1>1, <1>2 DEF RoomInv, ExpectedInv, SpanInv, LateInv

\* QUEUE_MAX_SIZE against the cutout: with one frame rate, a queue that holds
\* the frames of one gap more than the cutout, and of the lead that another
\* stream may have over what waits for it, always has room.  No frame is dropped,
\* and no blocking enqueue blocks while the matcher waits, for any number of
\* streams and of frames.
THEOREM ThereIsAlwaysRoom == OneRate /\ Enough => (TimestampSpec => []AlwaysRoom)
<1> SUFFICES ASSUME OneRate, Enough PROVE TimestampSpec => []AlwaysRoom
  OBVIOUS
<1>1. TimestampInit => RoomInv
  BY DEF TimestampInit, MatcherInit, RoomInv, ExpectedInv, SpanInv, LateInv
<1>2. TimedInv /\ TimedInv' /\ RoomInv /\ [TimestampNext]_tvars => RoomInv'
  <2> SUFFICES ASSUME TimedInv, RoomInv, [TimestampNext]_tvars PROVE RoomInv'
    OBVIOUS
  <2>1. ASSUME NEW s \in Streams, TimedFrameArrives(s) PROVE RoomInv'
    BY <2>1, RoomArriveStep
  <2>2. CASE TimestampDispatch
    BY <2>2, RoomDispatchStep
  <2>3. CASE TimestampIteration
    BY <2>3, RoomIterationStep
  <2>4. CASE TimestampStop
    BY <2>4, RoomStopStep
  <2>5. CASE UNCHANGED tvars
    BY <2>5 DEF tvars, mvars, RoomInv, ExpectedInv, SpanInv, LateInv
  <2> QED BY <2>1, <2>2, <2>3, <2>4, <2>5 DEF TimestampNext
<1>3. TimedInv /\ RoomInv => AlwaysRoom
  BY RoomForOne DEF AlwaysRoom, TimedInv, RoomInv
<1> QED BY <1>1, <1>2, <1>3, TimedInvariant, PTL DEF TimestampSpec

===============================================================================
