-------------------------------- MODULE Syncer --------------------------------
(***************************************************************************)
(* syncer_process_unit (src/proc/syncer-processing-block.cpp): one thread  *)
(* per stream brings frames in; the matcher, under _mutex, turns them into *)
(* matches on _matches; whoever gets _callback_mutex hands the matches to  *)
(* the user, and a thread that does not get it leaves.                     *)
(*                                                                         *)
(* The matcher is reduced to how many matches a frame completes; see       *)
(* CompositeMatcher for what they are.  Matches are numbered in the order  *)
(* in which the matcher made them.                                         *)
(***************************************************************************)
EXTENDS Naturals, Sequences, FiniteSets

CONSTANTS
  Threads,      \* the streams' threads
  Cap,          \* capacity of _matches
  MaxMatches,   \* bound: matches made
  MaxBurst      \* bound: matches one frame completes

ASSUME SyncerAssumption == {Cap, MaxMatches, MaxBurst} \subseteq Nat \ {0}

VARIABLES
  blocking,   \* frames, and with them matches, are blocking ones (of a file, not in real time)
  matches,    \* _matches
  made,       \* how many matches the matcher has put on _matches
  burst,      \* how many more the frame in dispatch() completes
  matcherActive,     \* the matcher is active
  enabled,    \* some enable option is on (or there are none)
  pc,         \* where each thread is in the processing callback
  hand,       \* the match a thread has dequeued, 0 for none
  owner,      \* the thread that holds _callback_mutex
  last        \* the last match the user's callback got

vars == <<blocking, matches, made, burst, matcherActive, enabled, pc, hand, owner, last>>

Init ==
  /\ blocking \in BOOLEAN
  /\ matches = <<>> /\ made = 0 /\ burst = 0
  /\ matcherActive = TRUE /\ enabled = TRUE
  /\ pc = [t \in Threads |-> "idle"]
  /\ hand = [t \in Threads |-> 0]
  /\ owner = {}
  /\ last = 0

\* The syncer is switched off: the frame goes on as it is, with no lock.
Passthrough(t) ==
  /\ pc[t] = "idle" /\ ~enabled
  /\ UNCHANGED vars

\* Whoever has _mutex.
Dispatching == {t \in Threads : pc[t] = "dispatching"}

\* The critical section of _mutex: nothing if the matcher was stopped, or
\* dispatch() of the frame, which completes some matches ...
DispatchStopped(t) ==
  /\ pc[t] = "idle" /\ enabled /\ ~matcherActive /\ Dispatching = {}
  /\ UNCHANGED vars

DispatchFrame(t) ==
  /\ pc[t] = "idle" /\ enabled /\ matcherActive /\ Dispatching = {}
  /\ \E k \in 0..MaxBurst : made + k <= MaxMatches /\ burst' = k
  /\ pc' = [pc EXCEPT ![t] = "dispatching"]
  /\ UNCHANGED <<blocking, matches, made, matcherActive, enabled, hand, owner, last>>

Pushed(q, m) == IF Len(q) < Cap THEN Append(q, m) ELSE Append(Tail(q), m)

\* ... which are queued one by one: a blocking match waits for room, with _mutex
\* in hand, any other displaces the oldest ...
EnqueueMatch(t) ==
  /\ pc[t] = "dispatching" /\ burst > 0
  /\ blocking => Len(matches) < Cap
  /\ matches' = Pushed(matches, made + 1)
  /\ made' = made + 1 /\ burst' = burst - 1
  /\ UNCHANGED <<blocking, matcherActive, enabled, pc, hand, owner, last>>

\* ... and then the mutex is released.
Dispatched(t) ==
  /\ pc[t] = "dispatching" /\ burst = 0
  /\ pc' = [pc EXCEPT ![t] = "dispatched"]
  /\ UNCHANGED <<blocking, matches, made, burst, matcherActive, enabled, hand, owner, last>>

\* Mutant: drains without the callback mutex.
TryLock_Always(t) ==
  /\ pc[t] = "dispatched"
  /\ pc' = [pc EXCEPT ![t] = "draining"]
  /\ owner' = {t}
  /\ UNCHANGED <<blocking, matches, made, burst, matcherActive, enabled, hand, last>>

\* Mutant: never drains.
TryLock_Never(t) ==
  /\ pc[t] = "dispatched"
  /\ pc' = [pc EXCEPT ![t] = "idle"]
  /\ UNCHANGED <<blocking, matches, made, burst, matcherActive, enabled, hand, owner, last>>

\* unique_lock lock( _callback_mutex, try_to_lock ).
TryLock(t) ==
  /\ pc[t] = "dispatched"
  /\ \/ owner = {} /\ owner' = {t} /\ pc' = [pc EXCEPT ![t] = "draining"]
     \/ owner # {} /\ pc' = [pc EXCEPT ![t] = "idle"] /\ UNCHANGED owner
  /\ UNCHANGED <<blocking, matches, made, burst, matcherActive, enabled, hand, last>>

\* _matches.try_dequeue( &f ).
TryDequeue(t) ==
  /\ pc[t] = "draining"
  /\ \/ /\ matches # <<>>
        /\ hand' = [hand EXCEPT ![t] = Head(matches)]
        /\ matches' = Tail(matches)
        /\ pc' = [pc EXCEPT ![t] = "calling"]
     \/ /\ matches = <<>>
        /\ pc' = [pc EXCEPT ![t] = "leaving"]
        /\ UNCHANGED <<hand, matches>>
  /\ UNCHANGED <<blocking, made, burst, matcherActive, enabled, owner, last>>

\* frame_ready(): the user's callback, still under _callback_mutex.
FrameReady(t) ==
  /\ pc[t] = "calling"
  /\ last' = hand[t]
  /\ hand' = [hand EXCEPT ![t] = 0]
  /\ pc' = [pc EXCEPT ![t] = "draining"]
  /\ UNCHANGED <<blocking, matches, made, burst, matcherActive, enabled, owner>>

Unlock(t) ==
  /\ pc[t] = "leaving"
  /\ owner' = {}
  /\ pc' = [pc EXCEPT ![t] = "idle"]
  /\ UNCHANGED <<blocking, matches, made, burst, matcherActive, enabled, hand, last>>

\* The user flips the enable options, or stops the syncer.
Toggle ==
  /\ enabled' = ~enabled
  /\ UNCHANGED <<blocking, matches, made, burst, matcherActive, pc, hand, owner, last>>

StopMatching ==
  /\ matcherActive' = FALSE
  /\ UNCHANGED <<blocking, matches, made, burst, enabled, pc, hand, owner, last>>

FrameStep(t) ==
  \/ Passthrough(t) \/ DispatchStopped(t) \/ DispatchFrame(t) \/ EnqueueMatch(t) \/ Dispatched(t)
  \/ TryLock(t) \/ TryDequeue(t) \/ FrameReady(t) \/ Unlock(t)

Next == (\E t \in Threads : FrameStep(t)) \/ Toggle \/ StopMatching

Spec == Init /\ [][Next]_vars

\* The streams go on delivering frames, and callbacks return.
FairSpec == Spec /\ \A t \in Threads : WF_vars(FrameStep(t))

-------------------------------------------------------------------------------
\* Types; the locks' holders are where they are held, and alone there.
TypeOK ==
  /\ matches \in Seq(1..MaxMatches) /\ Len(matches) <= Cap
  /\ made \in 0..MaxMatches /\ burst \in 0..MaxBurst /\ made + burst <= MaxMatches
  /\ last \in 0..MaxMatches /\ blocking \in BOOLEAN
  /\ matcherActive \in BOOLEAN /\ enabled \in BOOLEAN
  /\ pc \in [Threads -> {"idle", "dispatching", "dispatched", "draining", "calling", "leaving"}]
  /\ hand \in [Threads -> 0..MaxMatches]
  /\ owner = {t \in Threads : pc[t] \in {"draining", "calling", "leaving"}}
  /\ Cardinality(owner) <= 1 /\ Cardinality(Dispatching) <= 1

\* The user gets the matches in the order they were made, one at a time,
\* though any thread may deliver them.
DeliveredInOrder == [][last' # last => last' > last]_vars

\* A blocking match waits for room that nobody is left to make: the thread that
\* waits would have been the next to empty the queue.
Blocked ==
  blocking /\ burst > 0 /\ Len(matches) = Cap /\ \A t \in Threads : pc[t] \in {"idle", "dispatching"}

\* A match that is left in the queue by the thread that made it is delivered
\* (or displaced by newer ones) as long as frames keep coming.
MatchIsPickedUp ==
  \A m \in 1..MaxMatches :
    (m \in {matches[k] : k \in 1..Len(matches)}) ~>
      (m \notin {matches[k] : k \in 1..Len(matches)} \/ ~matcherActive \/ ~enabled \/ Blocked)

==============================================================================
