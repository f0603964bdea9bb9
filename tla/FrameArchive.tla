----------------------------- MODULE FrameArchive -----------------------------
(***************************************************************************)
(* frame_archive<T> with its small_heap of published frames and its        *)
(* callbacks_heap, and the reference counting of frame (frame-archive.h,   *)
(* small-heap.h, callback-invocation.h, frame.cpp).                        *)
(*                                                                         *)
(* A frame lives in a slot of the fixed heap or, when that gives none, in  *)
(* an object of its own.  Producers publish frames and pass them to the    *)
(* user inside a callback; the user adds references, keeps and releases    *)
(* frames from any thread; the owner flushes the archive once.             *)
(***************************************************************************)
EXTENDS Naturals, FiniteSets

CONSTANTS
  Slots,      \* the buffer of published_frames (RS2_USER_QUEUE_SIZE of them)
  Extras,     \* objects made by new T()
  Producers,  \* threads that publish to this archive
  MaxQueue,   \* bound: values of *max_frame_queue_size
  MaxRef      \* bound: references to one frame

Objects == Slots \cup Extras

ASSUME ArchiveAssumption ==
  /\ Slots \cap Extras = {}
  /\ IsFiniteSet(Objects) /\ IsFiniteSet(Producers)
  /\ MaxQueue \in Nat /\ MaxRef \in Nat \ {0}

VARIABLES
  maxFrames,   \* *max_frame_queue_size
  count,       \* published_frames_count
  free,        \* slots with is_free; extras not allocated
  allocating,  \* published_frames.keep_allocating
  ref,         \* ref_count of each frame
  kept,        \* frames with _kept set
  keeping,     \* frames whose keep() has set _kept and not yet told the archive
  dying,       \* frames with no reference left, unpublish_frame() not yet begun
  retired,     \* frames past the critical section of unpublish_frame()
  freelist,    \* the freelist holds buffers
  recycle,     \* recycle_frames
  ppc,         \* each producer: "idle", "published", "tracked", "untracked"
  cbOpen,      \* callback_inflight.keep_allocating
  cbBusy,      \* the one place of callback_inflight is taken
  early,       \* producers whose callback began before flush() stopped the heap
  fpc          \* flush(): "idle", "frames", "callbacks", "norecycle", "waited", "done"

hvars == <<free, allocating>>
cvars == <<ppc, cbOpen, cbBusy, early>>
vars == <<maxFrames, count, hvars, ref, kept, keeping, dying, retired, freelist, recycle, cvars, fpc>>

Published == {o \in Objects : o \notin free}

Init ==
  /\ maxFrames \in 0..MaxQueue
  /\ count = 0
  /\ free = Objects /\ allocating = TRUE
  /\ ref = [o \in Objects |-> 0]
  /\ kept = {} /\ keeping = {} /\ dying = {} /\ retired = {}
  /\ freelist = FALSE /\ recycle = TRUE
  /\ ppc = [p \in Producers |-> "idle"]
  /\ cbOpen = TRUE /\ cbBusy = FALSE /\ early = {}
  /\ fpc = "idle"

-------------------------------------------------------------------------------
(***************************************************************************)
(* Publishing: alloc_and_track() = alloc_frame(), track_frame(), under the *)
(* archive's mutex                                                         *)
(***************************************************************************)

\* publish_frame(): a slot if frames are counted and the heap has one, an
\* object of its own otherwise.
Candidates ==
  IF maxFrames # 0 /\ allocating /\ Slots \cap free # {} THEN Slots \cap free
                                                         ELSE Extras \cap free

\* alloc_frame() takes a buffer off the freelist, if it has the right size,
\* and may discard old ones.
Publish(p) ==
  /\ ppc[p] = "idle"
  /\ maxFrames = 0 \/ count < maxFrames
  /\ \E o \in Candidates :
       /\ free' = free \ {o}
       /\ ref' = [ref EXCEPT ![o] = 1]
       /\ kept' = kept \ {o}
  /\ count' = count + 1
  /\ freelist' \in {FALSE, freelist}
  /\ ppc' = [ppc EXCEPT ![p] = "published"]
  /\ UNCHANGED <<maxFrames, allocating, keeping, dying, retired, recycle, cbOpen, cbBusy, early, fpc>>

\* "User didn't release frame resource.": nothing is published.
PublishRefused(p) ==
  /\ ppc[p] = "idle"
  /\ maxFrames # 0 /\ count >= maxFrames
  /\ freelist' \in {FALSE, freelist}
  /\ UNCHANGED <<maxFrames, count, hvars, ref, kept, keeping, dying, retired, recycle, cvars, fpc>>

-------------------------------------------------------------------------------
(***************************************************************************)
(* The callback around the user's code: a heap with one place              *)
(***************************************************************************)

BeginCallback(p) ==
  /\ ppc[p] = "published"
  /\ IF cbOpen /\ ~cbBusy
       THEN cbBusy' = TRUE /\ ppc' = [ppc EXCEPT ![p] = "tracked"]
       ELSE UNCHANGED cbBusy /\ ppc' = [ppc EXCEPT ![p] = "untracked"]
  /\ early' = IF cbOpen THEN early \cup {p} ELSE early
  /\ UNCHANGED <<maxFrames, count, hvars, ref, kept, keeping, dying, retired, freelist, recycle, cbOpen, fpc>>

\* Mutant: the callback's place is not given back.
EndCallback_StaysBusy(p) ==
  /\ ppc[p] \in {"tracked", "untracked"}
  /\ ppc' = [ppc EXCEPT ![p] = "idle"]
  /\ early' = early \ {p}
  /\ UNCHANGED <<maxFrames, count, hvars, ref, kept, keeping, dying, retired, freelist, recycle, cbOpen, cbBusy, fpc>>

\* ~callback_invocation_holder.
EndCallback(p) ==
  /\ ppc[p] \in {"tracked", "untracked"}
  /\ cbBusy' = (cbBusy /\ ppc[p] # "tracked")
  /\ ppc' = [ppc EXCEPT ![p] = "idle"]
  /\ early' = early \ {p}
  /\ UNCHANGED <<maxFrames, count, hvars, ref, kept, keeping, dying, retired, freelist, recycle, cbOpen, fpc>>

-------------------------------------------------------------------------------
(***************************************************************************)
(* References                                                              *)
(***************************************************************************)

Acquire(o) ==
  /\ ref[o] \in 1..(MaxRef - 1)
  /\ ref' = [ref EXCEPT ![o] = @ + 1]
  /\ UNCHANGED <<maxFrames, count, hvars, kept, keeping, dying, retired, freelist, recycle, cvars, fpc>>

\* frame::keep() called by a holder of the frame: _kept.exchange( true ) ...
Keep(o) ==
  /\ ref[o] > 0 /\ o \notin kept
  /\ kept' = kept \cup {o}
  /\ keeping' = keeping \cup {o}
  /\ UNCHANGED <<maxFrames, count, hvars, ref, dying, retired, freelist, recycle, cvars, fpc>>

\* ... and keep_frame() of the archive.
KeepFrame(o) ==
  /\ o \in keeping
  /\ keeping' = keeping \ {o}
  /\ count' = count - 1
  /\ UNCHANGED <<maxFrames, hvars, ref, kept, dying, retired, freelist, recycle, cvars, fpc>>

\* Mutant: the last reference is not recognised.
Release_NeverLast(o) ==
  /\ ref[o] > (IF o \in keeping THEN 1 ELSE 0)
  /\ ref' = [ref EXCEPT ![o] = @ - 1]
  /\ UNCHANGED <<maxFrames, count, hvars, kept, keeping, dying, retired, freelist, recycle, cvars, fpc>>

\* frame::release(); the caller of keep() holds a reference meanwhile.
Release(o) ==
  /\ ref[o] > (IF o \in keeping THEN 1 ELSE 0)
  /\ ref' = [ref EXCEPT ![o] = @ - 1]
  /\ dying' = IF ref[o] = 1 THEN dying \cup {o} ELSE dying
  /\ UNCHANGED <<maxFrames, count, hvars, kept, keeping, retired, freelist, recycle, cvars, fpc>>

\* Mutant: counts down for kept frames too.
Unpublish_CountsTwice(o) ==
  /\ o \in dying
  /\ count' = count - 1
  /\ kept' = kept \cup {o}
  /\ freelist' = (freelist \/ recycle)
  /\ dying' = dying \ {o}
  /\ retired' = retired \cup {o}
  /\ UNCHANGED <<maxFrames, hvars, ref, keeping, recycle, cvars, fpc>>

\* unpublish_frame() under the mutex: keep() the frame, recycle its buffer.
Unpublish(o) ==
  /\ o \in dying
  /\ count' = IF o \in kept THEN count ELSE count - 1
  /\ kept' = kept \cup {o}
  /\ freelist' = (freelist \/ recycle)
  /\ dying' = dying \ {o}
  /\ retired' = retired \cup {o}
  /\ UNCHANGED <<maxFrames, hvars, ref, keeping, recycle, cvars, fpc>>

\* The rest of it: small_heap::deallocate() or delete.
Deallocate(o) ==
  /\ o \in retired
  /\ retired' = retired \ {o}
  /\ free' = free \cup {o}
  /\ UNCHANGED <<maxFrames, count, allocating, ref, kept, keeping, dying, freelist, recycle, cvars, fpc>>

-------------------------------------------------------------------------------
(***************************************************************************)
(* Control                                                                 *)
(***************************************************************************)

\* RS2_OPTION_FRAMES_QUEUE_SIZE.
SetQueueSize(n) ==
  /\ maxFrames' = n
  /\ UNCHANGED <<count, hvars, ref, kept, keeping, dying, retired, freelist, recycle, cvars, fpc>>

FlushStopsFrames ==
  /\ fpc = "idle"
  /\ allocating' = FALSE
  /\ fpc' = "frames"
  /\ UNCHANGED <<maxFrames, count, free, ref, kept, keeping, dying, retired, freelist, recycle, cvars>>

FlushStopsCallbacks ==
  /\ fpc = "frames"
  /\ cbOpen' = FALSE
  /\ fpc' = "callbacks"
  /\ UNCHANGED <<maxFrames, count, hvars, ref, kept, keeping, dying, retired, freelist, recycle, ppc, cbBusy, early>>

\* Mutant: recycle_frames stays on.
FlushStopsRecycling_Not ==
  /\ fpc = "callbacks"
  /\ fpc' = "norecycle"
  /\ UNCHANGED <<maxFrames, count, hvars, ref, kept, keeping, dying, retired, freelist, recycle, cvars>>

FlushStopsRecycling ==
  /\ fpc = "callbacks"
  /\ recycle' = FALSE
  /\ fpc' = "norecycle"
  /\ UNCHANGED <<maxFrames, count, hvars, ref, kept, keeping, dying, retired, freelist, cvars>>

\* callback_inflight.wait_until_empty().
FlushWaits ==
  /\ fpc = "norecycle" /\ ~cbBusy
  /\ fpc' = "waited"
  /\ UNCHANGED <<maxFrames, count, hvars, ref, kept, keeping, dying, retired, freelist, recycle, cvars>>

FlushClears ==
  /\ fpc = "waited"
  /\ freelist' = FALSE
  /\ fpc' = "done"
  /\ UNCHANGED <<maxFrames, count, hvars, ref, kept, keeping, dying, retired, recycle, cvars>>

Flush == FlushStopsFrames \/ FlushStopsCallbacks \/ FlushStopsRecycling \/ FlushWaits \/ FlushClears

UserStep(o) ==
  Acquire(o) \/ Keep(o) \/ KeepFrame(o) \/ Release(o) \/ Unpublish(o) \/ Deallocate(o)

Next ==
  \/ \E p \in Producers : Publish(p) \/ PublishRefused(p) \/ BeginCallback(p) \/ EndCallback(p)
  \/ \E o \in Objects : UserStep(o)
  \/ \E n \in 0..MaxQueue : SetQueueSize(n)
  \/ Flush

Spec == Init /\ [][Next]_vars

\* Callbacks return, a thread inside release() or keep() goes on, and so does
\* flush(); the user need not release anything.
Fairness ==
  /\ \A p \in Producers : WF_vars(BeginCallback(p)) /\ WF_vars(EndCallback(p))
  /\ \A o \in Objects : WF_vars(KeepFrame(o)) /\ WF_vars(Unpublish(o)) /\ WF_vars(Deallocate(o))
  /\ WF_vars(fpc # "idle" /\ Flush)

FairSpec == Spec /\ Fairness

-------------------------------------------------------------------------------
(***************************************************************************)
(* Properties                                                              *)
(***************************************************************************)

\* Types (published_frames_count is unsigned: it never goes below zero).
TypeOK ==
  /\ maxFrames \in 0..MaxQueue
  /\ count \in Nat
  /\ free \subseteq Objects /\ allocating \in BOOLEAN
  /\ ref \in [Objects -> Nat]
  /\ kept \subseteq Objects /\ keeping \subseteq Objects
  /\ dying \subseteq Objects /\ retired \subseteq Objects
  /\ freelist \in BOOLEAN /\ recycle \in BOOLEAN
  /\ ppc \in [Producers -> {"idle", "published", "tracked", "untracked"}]
  /\ cbOpen \in BOOLEAN /\ cbBusy \in BOOLEAN /\ early \subseteq Producers
  /\ fpc \in {"idle", "frames", "callbacks", "norecycle", "waited", "done"}

\* published_frames_count is exactly the number of published frames that
\* nobody has kept, up to the keep() calls in progress: no interleaving of
\* keep() and release() counts a frame down twice (which would wrap the
\* counter and refuse every later frame) or not at all (which would leak a
\* place of the queue).
CountIsExact ==
  count = Cardinality(Published \ kept) + Cardinality(keeping)

\* A frame is in exactly one stage of its life, and a place that can be
\* handed out has no reference, no keep() and no release() in progress.
LifeCycle ==
  /\ \A o \in Objects :
       /\ o \in free => ref[o] = 0 /\ o \notin keeping \cup dying \cup retired
       /\ o \in dying \cup retired => ref[o] = 0 /\ o \notin keeping
       /\ o \notin free => ref[o] > 0 \/ o \in dying \cup retired
       /\ o \in keeping => o \in kept
  /\ dying \cap retired = {}
  /\ \A o \in retired : o \in kept

\* Once flush() has returned the freelist stays empty: its buffers own the
\* archive, so anything left there would never be freed.
NothingRecycledAfterFlush == fpc = "done" => ~freelist

\* flush() returns only when the callbacks that had begun before it are over
\* ("wait until user is done with all the stuff he chose to borrow").
FlushOutlivesCallbacks == fpc \in {"waited", "done"} => early = {}

\* A flush is thorough: it waits for the callbacks, and leaves nothing behind.
FlushIsThorough == NothingRecycledAfterFlush /\ FlushOutlivesCallbacks

\* flush() always returns: it waits for callbacks and never for frames.
FlushReturns == fpc # "idle" ~> fpc = "done"
==============================================================================
