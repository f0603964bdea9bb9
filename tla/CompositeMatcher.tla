--------------------------- MODULE CompositeMatcher ---------------------------
(***************************************************************************)
(* composite_matcher (src/sync.cpp): one queue of frames per stream, and   *)
(* the part of dispatch(), sync() and stop() that the frame-number and the *)
(* timestamp matchers share.  They supply what is virtual in the code:     *)
(* which queue heads are "synced", and which missing streams are waited    *)
(* for.                                                                    *)
(*                                                                         *)
(* A frame is its stream and its stamp (frame number or timestamp).  One   *)
(* thread at a time is inside dispatch() (the syncer's mutex); stop() runs *)
(* concurrently and only shares the matcher's own _mutex, which sync()     *)
(* takes once per iteration of its loop.                                   *)
(***************************************************************************)
EXTENDS Naturals, Sequences, FiniteSets

CONSTANTS
  Streams,    \* each has an identity_matcher, the key of the maps below
  QueueMax    \* QUEUE_MAX_SIZE

VARIABLES
  fq,         \* _frames_queue: the stamps queued for each stream
  known,      \* the streams that have an entry in _frames_queue
  open,       \* the queues that accept
  active,     \* the streams whose matcher is _active
  expected,   \* _next_expected
  phase,      \* the dispatching thread: "idle", "arrived" or "sync"
  frame,      \* the frame being dispatched
  stopped,    \* the matcher itself is no longer _active
  out         \* the frameset released by the last step, as stream |-> stamp

mvars == <<fq, known, open, active, expected, phase, frame, stopped, out>>

Fifo == INSTANCE BoundedFifo WITH Cap <- QueueMax, Item <- Nat,
                                  queue <- <<>>, accepting <- TRUE

NoFrames == [s \in {} |-> 0]

\* Queues are born accepting, matchers active; an entry of _frames_queue
\* appears when it is first needed.
MatcherInit ==
  /\ fq = [s \in Streams |-> <<>>]
  /\ known = {} /\ open = Streams
  /\ active = Streams
  /\ expected = [s \in Streams |-> 0]
  /\ phase = "idle"
  /\ frame \in [stream : Streams, stamp : {0}]
  /\ stopped = FALSE
  /\ out = NoFrames

\* The caller (syncer or parent matcher) has seen the matcher active.
Arrive(s, x) ==
  /\ phase = "idle" /\ ~stopped
  /\ phase' = "arrived"
  /\ frame' = [stream |-> s, stamp |-> x]
  /\ out' = NoFrames
  /\ UNCHANGED <<fq, known, open, active, expected, stopped>>

\* find_matcher() on the way down, and sync() up to the enqueue, after
\* clean_inactive_streams() emptied the queues of `cleaned' and deactivated
\* those streams.  A stopped queue rejects the frame, and sync() returns.
FindAndEnqueue(cleaned, next) ==
  LET s == frame.stream
      opened == IF s \in active \ cleaned THEN open ELSE open \cup {s}
      emptied == [m \in Streams |-> IF m \in cleaned THEN <<>> ELSE fq[m]]
  IN /\ phase = "arrived"
     /\ active' = (active \ cleaned) \cup {s}
     /\ known' = known \cup cleaned \cup {s}
     /\ open' = opened
     /\ expected' = [expected EXCEPT ![s] = next]
     /\ fq' = IF s \in opened THEN [emptied EXCEPT ![s] = Fifo!Pushed(@, frame.stamp)]
                              ELSE emptied
     /\ phase' = IF s \in opened THEN "sync" ELSE "idle"
     /\ UNCHANGED <<frame, stopped, out>>

\* The streams with a frame to offer, and those in the map without one.
Arrived == {s \in known : fq[s] # <<>>}
Missing == known \ Arrived

\* sync() dequeues the synced frames and hands a composite to the callback.
Release(synced) ==
  /\ phase = "sync"
  /\ fq' = [s \in Streams |-> IF s \in synced THEN Tail(fq[s]) ELSE fq[s]]
  /\ out' = [s \in synced |-> Head(fq[s])]
  /\ UNCHANGED <<phase, frame, stopped, open, expected>>

\* sync() breaks out of its loop: nothing arrived, or something to wait for.
Wait ==
  /\ phase = "sync"
  /\ phase' = "idle"
  /\ out' = NoFrames
  /\ UNCHANGED <<fq, frame, stopped, open, expected>>

\* composite_matcher::stop(): the queues in the map are stopped and emptied;
\* the identity matchers below have nothing to stop.
StopMatcher ==
  /\ stopped' = TRUE
  /\ open' = open \ known
  /\ fq' = [s \in Streams |-> IF s \in known THEN <<>> ELSE fq[s]]
  /\ out' = NoFrames
  /\ UNCHANGED <<known, active, expected, phase, frame>>

\* Types; and a stream without an entry in the map has nothing queued.
MatcherTypeOK ==
  /\ \A s \in Streams \ known : fq[s] = <<>>
  /\ fq \in [Streams -> Seq(Nat)]
  /\ \A s \in Streams : Len(fq[s]) <= QueueMax
  /\ known \subseteq Streams /\ open \subseteq Streams /\ active \subseteq Streams
  /\ expected \in [Streams -> Nat]
  /\ phase \in {"idle", "arrived", "sync"}
  /\ frame \in [stream : Streams, stamp : Nat]
  /\ stopped \in BOOLEAN
  /\ DOMAIN out \subseteq Streams
==============================================================================
