------------------------------ MODULE V4lCapture ------------------------------
(***************************************************************************)
(* One streaming video node with a metadata node of its own                *)
(* (v4l_uvc_meta_device of linux/backend-v4l2.cpp): the buffers it shares  *)
(* with the driver, the capture thread's poll(), the video_md_syncer that  *)
(* pairs a video buffer with the metadata of the same sequence number, and *)
(* the sensor's calls that start and stop all of it.                       *)
(*                                                                         *)
(* A buffer goes round: queued in the driver, filled, dequeued by poll(),  *)
(* kept by the syncer, shown to the sensor's callback, queued again.  What *)
(* nobody queues again is lost until the device is closed.                 *)
(***************************************************************************)
EXTENDS Naturals, Sequences, FiniteSets

CONSTANTS
  Buffers,   \* indexes of the buffers of each node (DEFAULT_V4L2_FRAME_BUFFERS)
  None,      \* no buffer
  MaxSeq     \* bound: frames of one streaming session

ASSUME CaptureAssumption == IsFiniteSet(Buffers) /\ None \notin Buffers /\ MaxSeq \in Nat

Kinds == {"video", "md"}
Other(k) == IF k = "video" THEN "md" ELSE "video"
QueueLimit == 2

VARIABLES
  empty,      \* buffers queued in the driver, of each kind
  filled,     \* buffers the driver has filled, in the order of dequeuing
  next,       \* sequence number of the next frame of each kind
  queue,      \* _video_queue and _md_queue
  ready,      \* _is_ready of the syncer
  attached,   \* buffers with _must_enqueue
  mgr,        \* buf_mgr of this poll(): _data_buf and _managed, of each kind
  pulled,     \* the pair pull_video_with_metadata() gave
  rfds,       \* the nodes select() found ready
  shown,      \* history: one more than the sequence numbers of the pair last shown to the callback
  pc,         \* capture thread: "none", "loop", "select", "md", "video", "upload", "callback", "ended"
  capturing,  \* _is_capturing
  started,    \* _is_started
  streaming,  \* _is_streaming of the sensor
  cpc         \* the sensor's thread: "closed", "on", "open", "starting", "stopping", "flush", "join"

dvars == <<empty, filled, next>>
tvars == <<mgr, pulled, rfds, shown, pc>>
svars == <<capturing, started, streaming, cpc>>
vars == <<dvars, queue, ready, attached, tvars, svars>>

Frame == [index : Buffers, sequence : 0..MaxSeq]
NoBuffer == [k \in Kinds |-> [data |-> None, managed |-> FALSE]]
NoPair == [k \in Kinds |-> None]
Indexes(q) == {q[i].index : i \in DOMAIN q}

Init ==
  /\ empty = [k \in Kinds |-> {}] /\ filled = [k \in Kinds |-> <<>>] /\ next = [k \in Kinds |-> 0]
  /\ queue = [k \in Kinds |-> <<>>] /\ ready = FALSE
  /\ attached = [k \in Kinds |-> {}]
  /\ mgr = NoBuffer /\ pulled = NoPair
  /\ rfds = {} /\ shown = [k \in Kinds |-> 0]
  /\ pc = "none" /\ capturing = FALSE /\ started = FALSE /\ streaming = FALSE
  /\ cpc = "closed"

-------------------------------------------------------------------------------
(***************************************************************************)
(* The driver                                                              *)
(***************************************************************************)

\* A frame is complete on node k, in a free buffer if there is one and the
\* frame was not lost on the wire (which buffer makes no difference: they are
\* alike).  The two nodes are at most a frame apart;
\* metadata number 0 may come twice (the comment in push_metadata()).
Arrive(k) ==
  /\ cpc # "closed"
  /\ next[k] <= next[Other(k)] /\ next[k] < MaxSeq
  /\ \E n \in {next[k] + 1} \cup (IF k = "md" /\ next[k] = 0 THEN {0} ELSE {}) :
       next' = [next EXCEPT ![k] = n]
  /\ \/ LET i == CHOOSE i \in empty[k] : TRUE IN
          /\ empty[k] # {}
          /\ empty' = [empty EXCEPT ![k] = @ \ {i}]
          /\ filled' = [filled EXCEPT ![k] = Append(@, [index |-> i, sequence |-> next[k]])]
     \/ UNCHANGED <<empty, filled>>
  /\ UNCHANGED <<queue, ready, attached, tvars, svars>>

-------------------------------------------------------------------------------
(***************************************************************************)
(* The sensor's thread                                                     *)
(***************************************************************************)

\* uvc_sensor::open(): the buffers are made and queued, the thread created...
StreamOn ==
  /\ cpc = "closed"
  /\ empty' = [k \in Kinds |-> Buffers] /\ filled' = [k \in Kinds |-> <<>>]
  /\ next' = [k \in Kinds |-> 0]
  /\ attached' = [k \in Kinds |-> {}] /\ shown' = [k \in Kinds |-> 0]
  /\ capturing' = TRUE /\ pc' = "loop" /\ cpc' = "on"
  /\ UNCHANGED <<queue, ready, mgr, pulled, rfds, started, streaming>>

\* ... and then the syncer started.
SyncerStart ==
  /\ cpc = "on"
  /\ ready' = TRUE /\ cpc' = "open"
  /\ UNCHANGED <<dvars, queue, attached, tvars, capturing, started, streaming>>

\* uvc_sensor::start()
SensorStart ==
  /\ cpc = "open" /\ ~streaming
  /\ streaming' = TRUE /\ cpc' = "starting"
  /\ UNCHANGED <<dvars, queue, ready, attached, tvars, capturing, started>>

StartCallbacks ==
  /\ cpc = "starting"
  /\ started' = TRUE /\ cpc' = "open"
  /\ UNCHANGED <<dvars, queue, ready, attached, tvars, capturing, streaming>>

\* uvc_sensor::stop()
SensorStop ==
  /\ cpc = "open" /\ streaming
  /\ streaming' = FALSE /\ cpc' = "stopping"
  /\ UNCHANGED <<dvars, queue, ready, attached, tvars, capturing, started>>

StopCallbacks ==
  /\ cpc = "stopping"
  /\ started' = FALSE /\ cpc' = "open"
  /\ UNCHANGED <<dvars, queue, ready, attached, tvars, capturing, streaming>>

\* close(): stop_data_capture(), signal_stop() up to the syncer's flag...
Close ==
  /\ cpc = "open" /\ ~streaming
  /\ capturing' = FALSE /\ started' = FALSE /\ ready' = FALSE
  /\ cpc' = "flush"
  /\ UNCHANGED <<dvars, queue, attached, tvars, streaming>>

\* ... flush_queues() and the byte in the stop pipe...
FlushQueues ==
  /\ cpc = "flush"
  /\ queue' = [k \in Kinds |-> <<>>]
  /\ cpc' = "join"
  /\ UNCHANGED <<dvars, ready, attached, tvars, capturing, started, streaming>>

\* ... join, streamoff() and the release of the buffers.
Join ==
  /\ cpc = "join" /\ pc = "ended"
  /\ pc' = "none" /\ cpc' = "closed"
  /\ empty' = [k \in Kinds |-> {}] /\ filled' = [k \in Kinds |-> <<>>]
  /\ attached' = [k \in Kinds |-> {}]
  /\ UNCHANGED <<next, queue, ready, mgr, pulled, rfds, shown, capturing, started, streaming>>

-------------------------------------------------------------------------------
(***************************************************************************)
(* The capture thread                                                      *)
(***************************************************************************)

\* Mutant: the thread goes on after close() began.
Loop_Forever ==
  /\ pc = "loop"
  /\ pc' = "select"
  /\ UNCHANGED <<dvars, queue, ready, attached, mgr, pulled, rfds, shown, svars>>

\* while( _is_capturing )
Loop ==
  /\ pc = "loop"
  /\ pc' = IF capturing THEN "select" ELSE "ended"
  /\ UNCHANGED <<dvars, queue, ready, attached, mgr, pulled, rfds, shown, svars>>

\* select() returns: the stop pipe first, then the nodes with a buffer.
Select ==
  /\ pc = "select"
  /\ \/ /\ cpc = "join"
        /\ pc' = "loop"
        /\ UNCHANGED rfds
     \/ /\ cpc # "join" /\ \E k \in Kinds : filled[k] # <<>>
        /\ rfds' = {k \in Kinds : filled[k] # <<>>}
        /\ pc' = "md"
  /\ UNCHANGED <<dvars, queue, ready, attached, mgr, pulled, shown, svars>>

\* The queue of kind k without a front of the same sequence number, which
\* push_metadata() throws out.
Overridden(k, f) ==
  IF k = "md" /\ queue[k] # <<>> /\ Head(queue[k]).sequence = f.sequence THEN Tail(queue[k])
                                                                         ELSE queue[k]

\* Mutant: what is thrown out of the full queue is not queued in the driver.
Push_Leaks(k, f) ==
  LET q == Append(Overridden(k, f), f) IN
  IF ready
    THEN queue' = [queue EXCEPT ![k] = IF Len(q) > QueueLimit THEN Tail(q) ELSE q] /\ UNCHANGED empty
    ELSE UNCHANGED <<queue, empty>>

\* push_video() and push_metadata(): what is thrown out is queued in the
\* driver; a frame that comes before the syncer is ready is just forgotten.
Push(k, f) ==
  LET q == Append(Overridden(k, f), f)
      kept == IF Len(q) > QueueLimit THEN Tail(q) ELSE q
  IN  IF ready
        THEN /\ queue' = [queue EXCEPT ![k] = kept]
             /\ empty' = [empty EXCEPT ![k] = @ \cup (Indexes(queue[k]) \ Indexes(kept))]
        ELSE UNCHANGED <<queue, empty>>

\* acquire_metadata()
PollMd ==
  /\ pc = "md"
  /\ pc' = "video"
  /\ \/ /\ "md" \in rfds
        /\ LET f == Head(filled["md"]) IN
             /\ filled' = [filled EXCEPT !["md"] = Tail(@)]
             /\ Push("md", f)
             /\ mgr' = [mgr EXCEPT !["md"] = [data |-> f.index, managed |-> TRUE]]
     \/ /\ "md" \notin rfds
        /\ UNCHANGED <<filled, queue, empty, mgr>>
  /\ UNCHANGED <<next, ready, attached, pulled, rfds, shown, svars>>

\* The end of poll(): its local variables are gone.
Return ==
  /\ pc' = "loop"
  /\ mgr' = NoBuffer /\ pulled' = NoPair /\ rfds' = {}

\* ~kernel_buf_guard: what is not managed by somebody else goes back.
Unmanaged(k) == IF mgr[k].managed THEN {} ELSE {mgr[k].data} \ {None}

\* VIDIOC_DQBUF of the video node.  A complete frame goes to the syncer; an
\* empty one ends this poll(); an incomplete one, or one that comes while the
\* callbacks are not started, stays with the guard.
PollVideo ==
  /\ pc = "video"
  /\ \/ /\ "video" \in rfds
        /\ LET f == Head(filled["video"]) IN
             /\ filled' = [filled EXCEPT !["video"] = Tail(@)]
             /\ \/ /\ started
                   /\ Push("video", f)
                   /\ mgr' = [mgr EXCEPT !["video"] = [data |-> f.index, managed |-> TRUE]]
                   /\ pc' = "upload"
                   /\ UNCHANGED <<pulled, rfds>>
                \/ /\ started
                   /\ empty' = [empty EXCEPT !["video"] = @ \cup {f.index}]
                   /\ Return
                   /\ UNCHANGED queue
                \/ /\ mgr' = [mgr EXCEPT !["video"] = [data |-> f.index, managed |-> FALSE]]
                   /\ pc' = "upload"
                   /\ UNCHANGED <<queue, empty, pulled, rfds>>
     \/ /\ "video" \notin rfds
        /\ pc' = "upload"
        /\ UNCHANGED <<filled, queue, empty, mgr, pulled, rfds>>
  /\ UNCHANGED <<next, ready, attached, shown, svars>>

\* pull_video_with_metadata(): of two fronts that do not match the older one
\* is thrown out, if its queue has another.
Stale(k) ==
  /\ \A j \in Kinds : queue[j] # <<>>
  /\ Head(queue[k]).sequence < Head(queue[Other(k)]).sequence
  /\ Len(queue[k]) > 1

Trimmed == [k \in Kinds |-> IF Stale(k) THEN Tail(queue[k]) ELSE queue[k]]

\* Mutant: what comes after a front that was thrown out is taken to match.
Matched_Assumed(q) ==
  /\ \A k \in Kinds : q[k] # <<>>
  /\ q # queue \/ Head(q["video"]).sequence = Head(q["md"]).sequence

Matched(q) ==
  /\ \A k \in Kinds : q[k] # <<>>
  /\ Head(q["video"]).sequence = Head(q["md"]).sequence

\* upload_video_and_metadata_from_syncer(): the pair is attached, and buf_mgr
\* made to manage it, unless it has a buffer of that kind from this poll().
\* With no pair poll() ends and the guards are destroyed.
Upload ==
  /\ pc = "upload"
  /\ LET trimmed == IF started /\ ready THEN Trimmed ELSE queue
         thrown(k) == Indexes(queue[k]) \ Indexes(trimmed[k])
         heads == [k \in Kinds |-> Head(trimmed[k]).index]
     IN \/ /\ started /\ ready /\ Matched(trimmed)
           /\ queue' = [k \in Kinds |-> Tail(trimmed[k])]
           /\ empty' = [k \in Kinds |-> empty[k] \cup thrown(k)]
           /\ pulled' = heads
           /\ attached' = [k \in Kinds |-> attached[k] \cup {heads[k]}]
           /\ mgr' = [k \in Kinds |->
                        [data |-> IF mgr[k].data = None THEN heads[k] ELSE mgr[k].data,
                         managed |-> TRUE]]
           /\ shown' = [k \in Kinds |-> Head(trimmed[k]).sequence + 1]
           /\ pc' = "callback"
           /\ UNCHANGED rfds
        \/ /\ ~(started /\ ready /\ Matched(trimmed))
           /\ queue' = trimmed
           /\ empty' = [k \in Kinds |-> empty[k] \cup thrown(k) \cup Unmanaged(k)]
           /\ Return
           /\ UNCHANGED <<attached, shown>>
  /\ UNCHANGED <<filled, next, ready, svars>>

\* Mutant: the continuation does not look at _must_enqueue.
Callback_Force ==
  /\ pc = "callback"
  /\ LET back(k) == IF streaming THEN {mgr[k].data} ELSE {} IN
       /\ empty' = [k \in Kinds |-> empty[k] \cup back(k)]
       /\ attached' = [k \in Kinds |-> attached[k] \ back(k)]
  /\ Return
  /\ UNCHANGED <<filled, next, queue, ready, shown, svars>>

\* The sensor's callback: it returns at once when the sensor is not streaming,
\* otherwise it copies the frame and calls the continuation,
\* buffers_mgr::request_next_frame().
Callback ==
  /\ pc = "callback"
  /\ LET back(k) == IF streaming THEN {mgr[k].data} \cap attached[k] ELSE {} IN
       /\ empty' = [k \in Kinds |-> empty[k] \cup back(k)]
       /\ attached' = [k \in Kinds |-> attached[k] \ back(k)]
  /\ Return
  /\ UNCHANGED <<filled, next, queue, ready, shown, svars>>

Thread == Loop \/ Select \/ PollMd \/ PollVideo \/ Upload \/ Callback
Driver == \E k \in Kinds : Arrive(k)
Sensor ==
  \/ StreamOn \/ SyncerStart \/ SensorStart \/ StartCallbacks \/ SensorStop \/ StopCallbacks
  \/ Close \/ FlushQueues \/ Join

Next == Thread \/ Driver \/ Sensor
Spec == Init /\ [][Next]_vars
FairSpec == Spec /\ WF_vars(Thread) /\ WF_vars(FlushQueues) /\ WF_vars(Join)

-------------------------------------------------------------------------------
(***************************************************************************)
(* Properties                                                              *)
(***************************************************************************)

TypeOK ==
  /\ empty \in [Kinds -> SUBSET Buffers] /\ attached \in [Kinds -> SUBSET Buffers]
  /\ filled \in [Kinds -> Seq(Frame)] /\ next \in [Kinds -> 0..MaxSeq]
  /\ queue \in [Kinds -> Seq(Frame)] /\ \A k \in Kinds : Len(queue[k]) <= QueueLimit
  /\ mgr \in [Kinds -> [data : Buffers \cup {None}, managed : BOOLEAN]]
  /\ pulled \in [Kinds -> Buffers \cup {None}]
  /\ rfds \subseteq Kinds /\ shown \in [Kinds -> 0..MaxSeq]
  /\ pc \in {"none", "loop", "select", "md", "video", "upload", "callback", "ended"}
  /\ ready \in BOOLEAN /\ capturing \in BOOLEAN /\ started \in BOOLEAN /\ streaming \in BOOLEAN
  /\ cpc \in {"closed", "on", "open", "starting", "stopping", "flush", "join"}

\* Buffers poll() has in hand: those a guard will queue, the pair in the callback.
InHand(k) ==
  CASE pc \in {"video", "upload"} -> Unmanaged(k)
    [] pc = "callback" -> {pulled[k]}
    [] OTHER -> {}

Distinct(q) == \A i, j \in DOMAIN q : i # j => q[i].index # q[j].index

\* A buffer is in one place only: the driver never has a buffer to fill that
\* is also waiting in the syncer's queue or being read by the callback, and
\* never has one twice (QBUF by the guard, by the syncer or by a continuation).
OneOwner ==
  \A k \in Kinds :
    /\ Distinct(filled[k]) /\ Distinct(queue[k])
    /\ empty[k] \cap Indexes(filled[k]) = {}
    /\ Indexes(queue[k]) \cap (empty[k] \cup Indexes(filled[k])) = {}
    /\ InHand(k) \cap (empty[k] \cup Indexes(filled[k]) \cup Indexes(queue[k])) = {}

\* Buffers nobody will queue again in this session.
Lost(k) ==
  IF capturing
    THEN Buffers \ (empty[k] \cup Indexes(filled[k]) \cup Indexes(queue[k]) \cup InHand(k))
    ELSE {}

\* There are only three ways to lose a buffer: a push before the syncer is
\* ready, a callback that finds the sensor not streaming and returns without
\* its continuation, and a poll() that dequeued one buffer and showed another
\* of the same kind.  Every other path gives the buffer back to the driver.
LossIsExplained ==
  [][\A k \in Kinds :
       \/ Lost(k)' \subseteq Lost(k)
       \/ ~ready
       \/ (pc = "callback" /\ (~streaming \/ mgr[k].data # pulled[k]))
       \/ (pc = "upload" /\ mgr[k].data \notin {None, pulled'[k]})]_vars

\* As long as no more than all but three buffers of a kind are lost, the
\* driver has one whenever the thread goes to wait for it: the syncer's
\* queues cannot starve the node they wait for.
DriverFed ==
  \A k \in Kinds :
    capturing /\ pc \in {"loop", "select"} /\ Cardinality(Lost(k)) + QueueLimit < Cardinality(Buffers)
      => empty[k] # {} \/ filled[k] # <<>>

\* The buffers go round: each in one place, and enough of them back in the driver.
BuffersGoRound == OneOwner /\ DriverFed

\* The callback sees each frame once, in the order of the sequence numbers and
\* with the metadata of the same frame, whatever either node has lost.
PairsInOrder ==
  [][pc = "upload" /\ pc' = "callback" =>
       shown'["video"] = shown'["md"] /\ shown'["video"] > shown["video"]]_vars

\* close() returns although the thread may be anywhere in poll(), and without
\* the help of the 5 seconds after which select() gives up.
CloseReturns == cpc = "flush" ~> cpc = "closed"

===============================================================================
