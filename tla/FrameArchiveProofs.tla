-------------------------- MODULE FrameArchiveProofs --------------------------
(***************************************************************************)
(* Proofs about FrameArchive, for any number of slots, objects, producers  *)
(* and references.  The exact count is inductive only together with the    *)
(* life cycle of a frame: that keep() finds a frame outside every other    *)
(* stage is what keeps it from being counted down twice.                   *)
(***************************************************************************)
EXTENDS FrameArchive, FiniteSetTheorems, TLAPS

\* TypeOK without the counter, whose type follows from CountIsExact.
Shape ==
  /\ maxFrames \in 0..MaxQueue
  /\ free \subseteq Objects /\ allocating \in BOOLEAN
  /\ ref \in [Objects -> Nat]
  /\ kept \subseteq Objects /\ keeping \subseteq Objects
  /\ dying \subseteq Objects /\ retired \subseteq Objects
  /\ freelist \in BOOLEAN /\ recycle \in BOOLEAN
  /\ ppc \in [Producers -> {"idle", "published", "tracked", "untracked"}]
  /\ cbOpen \in BOOLEAN /\ cbBusy \in BOOLEAN /\ early \subseteq Producers
  /\ fpc \in {"idle", "frames", "callbacks", "norecycle", "waited", "done"}

IInv == Shape /\ LifeCycle /\ CountIsExact

-------------------------------------------------------------------------------
\* Only a place that is free is handed out by publish_frame().
LEMMA CandidatesAreFree == \A o \in Candidates : o \in Objects /\ o \in free
BY DEF Candidates, Objects

\* The two sets whose sizes make up published_frames_count are finite.
LEMMA CountedAreFinite ==
  ASSUME Shape
  PROVE  /\ IsFiniteSet(Published \ kept) /\ Cardinality(Published \ kept) \in Nat
         /\ IsFiniteSet(keeping) /\ Cardinality(keeping) \in Nat
<1>1. IsFiniteSet(Published \ kept) /\ IsFiniteSet(keeping)
  <2>1. Published \ kept \subseteq Objects /\ keeping \subseteq Objects
    BY DEF Shape, Published
  <2> QED BY <2>1, ArchiveAssumption, FS_Subset
<1> QED BY <1>1, FS_CardinalityType

\* Every operation keeps the shape of the state.
LEMMA ShapeStep == Shape /\ LifeCycle /\ [Next]_vars => Shape'
<1> SUFFICES ASSUME Shape, LifeCycle, [Next]_vars PROVE Shape'
  OBVIOUS
<1> USE ArchiveAssumption
<1>1. ASSUME NEW p \in Producers, Publish(p) PROVE Shape'
  <2>1. PICK o \in Candidates : /\ free' = free \ {o}
                                /\ ref' = [ref EXCEPT ![o] = 1]
                                /\ kept' = kept \ {o}
    BY <1>1 DEF Publish
  <2>2. ref' \in [Objects -> Nat] /\ free' \subseteq Objects /\ kept' \subseteq Objects
    BY <2>1 DEF Shape
  <2>3. freelist' \in BOOLEAN
    BY <1>1 DEF Publish, Shape
  <2>4. ppc' \in [Producers -> {"idle", "published", "tracked", "untracked"}]
    BY <1>1 DEF Publish, Shape
  <2> QED BY <1>1, <2>2, <2>3, <2>4 DEF Publish, Shape
<1>2. ASSUME NEW p \in Producers, PublishRefused(p) PROVE Shape'
  BY <1>2 DEF PublishRefused, Shape, hvars, cvars
<1>3. ASSUME NEW p \in Producers, BeginCallback(p) PROVE Shape'
  BY <1>3 DEF BeginCallback, Shape, hvars
<1>4. ASSUME NEW p \in Producers, EndCallback(p) PROVE Shape'
  <2>1. cbBusy' \in BOOLEAN
    BY <1>4 DEF EndCallback
  <2> QED BY <1>4, <2>1 DEF EndCallback, Shape, hvars
<1>5. ASSUME NEW o \in Objects, UserStep(o) PROVE Shape'
  <2>1. CASE Acquire(o)  BY <2>1 DEF Acquire, Shape, hvars, cvars
  <2>2. CASE Keep(o)  BY <2>2 DEF Keep, Shape, hvars, cvars
  <2>3. CASE KeepFrame(o)  BY <2>3 DEF KeepFrame, Shape, hvars, cvars
  <2>4. CASE Release(o)
    <3>1. ref[o] \in Nat /\ ref[o] > 0
      BY <2>4 DEF Release, Shape
    <3>2. ref' \in [Objects -> Nat]
      BY <2>4, <3>1 DEF Release, Shape
    <3> QED BY <2>4, <3>2 DEF Release, Shape, hvars, cvars
  <2>5. CASE Unpublish(o)
    <3>1. freelist' \in BOOLEAN
      BY <2>5 DEF Unpublish
    <3> QED BY <2>5, <3>1 DEF Unpublish, Shape, hvars, cvars
  <2>6. CASE Deallocate(o)  BY <2>6 DEF Deallocate, Shape, hvars, cvars
  <2> QED BY <1>5, <2>1, <2>2, <2>3, <2>4, <2>5, <2>6 DEF UserStep
<1>6. ASSUME NEW n \in 0..MaxQueue, SetQueueSize(n) PROVE Shape'
  BY <1>6 DEF SetQueueSize, Shape, hvars, cvars
<1>7. CASE Flush
  BY <1>7 DEF Flush, FlushStopsFrames, FlushStopsCallbacks, FlushStopsRecycling,
              FlushWaits, FlushClears, Shape, hvars, cvars
<1>8. CASE UNCHANGED vars
  BY <1>8 DEF Shape, vars, hvars, cvars
<1> QED
  BY <1>1, <1>2, <1>3, <1>4, <1>5, <1>6, <1>7, <1>8 DEF Next

-------------------------------------------------------------------------------
\* Every operation keeps a frame in one stage of its life.
LEMMA LifeCycleStep == Shape /\ LifeCycle /\ [Next]_vars => LifeCycle'
<1> SUFFICES ASSUME Shape, LifeCycle, [Next]_vars PROVE LifeCycle'
  OBVIOUS
<1>0. ref \in [Objects -> Nat] /\ free \subseteq Objects /\ kept \subseteq Objects
      /\ keeping \subseteq Objects /\ dying \subseteq Objects /\ retired \subseteq Objects
  BY DEF Shape
<1>1. ASSUME NEW p \in Producers, Publish(p) PROVE LifeCycle'
  <2>1. PICK o \in Candidates : /\ free' = free \ {o}
                                /\ ref' = [ref EXCEPT ![o] = 1]
                                /\ kept' = kept \ {o}
    BY <1>1 DEF Publish
  <2>2. o \in Objects /\ o \in free
    BY CandidatesAreFree
  <2>3. UNCHANGED <<keeping, dying, retired>>
    BY <1>1 DEF Publish
  <2> QED BY <1>0, <2>1, <2>2, <2>3 DEF LifeCycle
<1>2. ASSUME NEW o \in Objects, UserStep(o) PROVE LifeCycle'
  <2>1. CASE Acquire(o)  BY <1>0, <2>1 DEF Acquire, LifeCycle, hvars
  <2>2. CASE Keep(o)  BY <1>0, <2>2 DEF Keep, LifeCycle, hvars
  <2>3. CASE KeepFrame(o)  BY <1>0, <2>3 DEF KeepFrame, LifeCycle, hvars
  <2>4. CASE Release(o)
    <3>1. UNCHANGED <<free, kept, keeping, retired>>
      BY <2>4 DEF Release, hvars
    <3>2. ref[o] > 0 /\ (o \in keeping => ref[o] > 1) /\ ref' = [ref EXCEPT ![o] = ref[o] - 1]
          /\ dying' = IF ref[o] = 1 THEN dying \cup {o} ELSE dying
      BY <1>0, <2>4 DEF Release
    <3>3. o \notin free /\ o \notin dying /\ o \notin retired
      BY <1>0, <3>2 DEF LifeCycle
    <3> QED BY <1>0, <3>1, <3>2, <3>3 DEF LifeCycle
  <2>5. CASE Unpublish(o)  BY <1>0, <2>5 DEF Unpublish, LifeCycle, hvars
  <2>6. CASE Deallocate(o)  BY <1>0, <2>6 DEF Deallocate, LifeCycle
  <2> QED BY <1>2, <2>1, <2>2, <2>3, <2>4, <2>5, <2>6 DEF UserStep
<1>3. ASSUME UNCHANGED <<free, ref, kept, keeping, dying, retired>> PROVE LifeCycle'
  BY <1>3 DEF LifeCycle
<1>4. ASSUME NEW p \in Producers, PublishRefused(p) \/ BeginCallback(p) \/ EndCallback(p) PROVE LifeCycle'
  BY <1>3, <1>4 DEF PublishRefused, BeginCallback, EndCallback, hvars
<1>5. ASSUME NEW n \in 0..MaxQueue, SetQueueSize(n) PROVE LifeCycle'
  BY <1>3, <1>5 DEF SetQueueSize, hvars
<1>6. CASE Flush
  BY <1>3, <1>6 DEF Flush, FlushStopsFrames, FlushStopsCallbacks, FlushStopsRecycling,
                    FlushWaits, FlushClears, hvars
<1>7. CASE UNCHANGED vars
  BY <1>3, <1>7 DEF vars, hvars
<1> QED
  BY <1>1, <1>2, <1>4, <1>5, <1>6, <1>7 DEF Next

-------------------------------------------------------------------------------
\* Every operation counts the frames that are published and not kept.
LEMMA CountStep == IInv /\ [Next]_vars => CountIsExact'
<1> SUFFICES ASSUME Shape, LifeCycle, CountIsExact, [Next]_vars PROVE CountIsExact'
  BY DEF IInv
<1> DEFINE U == Published \ kept
<1>0. /\ IsFiniteSet(U) /\ Cardinality(U) \in Nat
      /\ IsFiniteSet(keeping) /\ Cardinality(keeping) \in Nat
      /\ count = Cardinality(U) + Cardinality(keeping)
  BY CountedAreFinite DEF CountIsExact
<1>1. ASSUME NEW p \in Producers, Publish(p) PROVE CountIsExact'
  <2>1. PICK o \in Candidates : /\ free' = free \ {o}
                                /\ kept' = kept \ {o}
    BY <1>1 DEF Publish
  <2>2. o \in Objects /\ o \in free
    BY CandidatesAreFree
  <2>3. U' = U \cup {o} /\ o \notin U
    BY <2>1, <2>2 DEF Published
  <2>4. Cardinality(U') = Cardinality(U) + 1
    BY <1>0, <2>3, FS_AddElement
  <2>5. keeping' = keeping /\ count' = count + 1
    BY <1>1 DEF Publish
  <2> QED BY <1>0, <2>4, <2>5 DEF CountIsExact
<1>2. ASSUME NEW o \in Objects, Keep(o) PROVE CountIsExact'
  <2>1. o \in U /\ o \notin keeping
    BY <1>2 DEF Keep, LifeCycle, Published
  <2>2. U' = U \ {o} /\ keeping' = keeping \cup {o} /\ count' = count
    BY <1>2 DEF Keep, Published, hvars
  <2>3. Cardinality(U') = Cardinality(U) - 1
    BY <1>0, <2>1, <2>2, FS_RemoveElement
  <2>4. Cardinality(keeping') = Cardinality(keeping) + 1
    BY <1>0, <2>1, <2>2, FS_AddElement
  <2> QED BY <1>0, <2>2, <2>3, <2>4 DEF CountIsExact
<1>3. ASSUME NEW o \in Objects, KeepFrame(o) PROVE CountIsExact'
  <2>1. U' = U /\ o \in keeping /\ keeping' = keeping \ {o} /\ count' = count - 1
    BY <1>3 DEF KeepFrame, Published, hvars
  <2>2. Cardinality(keeping') = Cardinality(keeping) - 1
    BY <1>0, <2>1, FS_RemoveElement
  <2>3. Cardinality(U') = Cardinality(U)
    BY <2>1
  <2> QED BY <1>0, <2>1, <2>2, <2>3 DEF CountIsExact
<1>4. ASSUME NEW o \in Objects, Unpublish(o) PROVE CountIsExact'
  <2>1. keeping' = keeping /\ U' = U \ {o} /\ count' = IF o \in kept THEN count ELSE count - 1
    BY <1>4 DEF Unpublish, Published, hvars
  <2>2. o \notin free
    BY <1>4 DEF Unpublish, LifeCycle
  <2>3. CASE o \in kept
    BY <1>0, <2>1, <2>3 DEF CountIsExact
  <2>4. CASE o \notin kept
    <3>1. o \in U
      BY <2>2, <2>4 DEF Published
    <3>2. Cardinality(U') = Cardinality(U) - 1
      BY <1>0, <2>1, <3>1, FS_RemoveElement
    <3> QED BY <1>0, <2>1, <2>4, <3>2 DEF CountIsExact
  <2> QED BY <2>3, <2>4
<1>5. ASSUME NEW o \in Objects, Deallocate(o) PROVE CountIsExact'
  <2>1. o \in kept
    BY <1>5 DEF Deallocate, LifeCycle
  <2>2. U' = U /\ keeping' = keeping /\ count' = count
    BY <1>5, <2>1 DEF Deallocate, Published
  <2> QED BY <1>0, <2>2 DEF CountIsExact
<1>6. ASSUME UNCHANGED <<free, kept, keeping, count>> PROVE CountIsExact'
  BY <1>6 DEF CountIsExact, Published
<1>7. ASSUME NEW p \in Producers, PublishRefused(p) \/ BeginCallback(p) \/ EndCallback(p) PROVE CountIsExact'
  BY <1>6, <1>7 DEF PublishRefused, BeginCallback, EndCallback, hvars
<1>8. ASSUME NEW o \in Objects, Acquire(o) \/ Release(o) PROVE CountIsExact'
  BY <1>6, <1>8 DEF Acquire, Release, hvars
<1>9. ASSUME NEW n \in 0..MaxQueue, SetQueueSize(n) PROVE CountIsExact'
  BY <1>6, <1>9 DEF SetQueueSize, hvars
<1>10. CASE Flush
  BY <1>6, <1>10 DEF Flush, FlushStopsFrames, FlushStopsCallbacks, FlushStopsRecycling,
                     FlushWaits, FlushClears, hvars
<1>11. CASE UNCHANGED vars
  BY <1>6, <1>11 DEF vars, hvars
<1> QED
  BY <1>1, <1>2, <1>3, <1>4, <1>5, <1>7, <1>8, <1>9, <1>10, <1>11 DEF Next, UserStep

-------------------------------------------------------------------------------
\* IInv is an invariant of every behaviour of the archive.
LEMMA Inductive == Spec => []IInv
<1>1. Init => IInv
  <2> SUFFICES ASSUME Init PROVE IInv
    OBVIOUS
  <2>1. Shape
    BY ArchiveAssumption DEF Init, Shape
  <2>2. LifeCycle
    BY DEF Init, LifeCycle
  <2>3. Published \ kept = {} /\ keeping = {} /\ count = 0
    BY DEF Init, Published
  <2>4. CountIsExact
    BY <2>3, FS_EmptySet DEF CountIsExact
  <2> QED BY <2>1, <2>2, <2>4 DEF IInv
<1>2. IInv /\ [Next]_vars => IInv'
  BY ShapeStep, LifeCycleStep, CountStep DEF IInv
<1> QED BY <1>1, <1>2, PTL DEF Spec

\* The state keeps its types: above all published_frames_count, an unsigned
\* number that keep() and unpublish_frame() decrement, never goes below zero.
THEOREM ArchiveTypeCorrect == Spec => []TypeOK
<1>1. IInv => TypeOK
  <2> SUFFICES ASSUME IInv PROVE TypeOK
    OBVIOUS
  <2>1. count \in Nat
    BY CountedAreFinite DEF IInv, CountIsExact
  <2> QED BY <2>1 DEF IInv, Shape, TypeOK
<1> QED BY <1>1, Inductive, PTL

\* published_frames_count always equals the number of published frames nobody
\* has kept, plus the keep() calls on their way to the archive, however
\* keep_frame() and unpublish_frame() interleave.
THEOREM CountCorrect == Spec => []CountIsExact
<1>1. IInv => CountIsExact
  BY DEF IInv
<1> QED BY <1>1, Inductive, PTL

\* A place that publish_frame() may hand out has no reference left and no
\* thread inside keep() or release() on it.
THEOREM FramesHaveOneStage == Spec => []LifeCycle
<1>1. IInv => LifeCycle
  BY DEF IInv
<1> QED BY <1>1, Inductive, PTL

-------------------------------------------------------------------------------
\* flush() turns recycling off before it clears the freelist, for good.
NoRecycling ==
  /\ fpc \in {"norecycle", "waited", "done"} => ~recycle
  /\ NothingRecycledAfterFlush

\* Frames released after flush() go to no freelist, on whichever side of its
\* steps their unpublish_frame() began.
THEOREM NothingLeftInFreelist == Spec => []NothingRecycledAfterFlush
<1> USE DEF NoRecycling, NothingRecycledAfterFlush
<1>1. Init => NoRecycling
  BY DEF Init
<1>2. NoRecycling /\ [Next]_vars => NoRecycling'
  <2> SUFFICES ASSUME NoRecycling, [Next]_vars PROVE NoRecycling'
    OBVIOUS
  <2>1. ASSUME NEW p \in Producers, Publish(p) \/ PublishRefused(p) PROVE NoRecycling'
    <3>1. UNCHANGED <<recycle, fpc>> /\ freelist' \in {FALSE, freelist}
      BY <2>1 DEF Publish, PublishRefused
    <3>2. CASE freelist' = FALSE
      BY <3>1, <3>2
    <3>3. CASE freelist' = freelist
      BY <3>1, <3>3
    <3> QED
      BY <3>1, <3>2, <3>3, Zenon
  <2>2. ASSUME NEW p \in Producers, BeginCallback(p) \/ EndCallback(p) PROVE NoRecycling'
    BY <2>2 DEF BeginCallback, EndCallback
  <2>3. ASSUME NEW o \in Objects, UserStep(o) PROVE NoRecycling'
    <3>1. CASE Unpublish(o)
      <4>1. UNCHANGED <<recycle, fpc>> /\ freelist' = (freelist \/ recycle)
        BY <3>1 DEF Unpublish
      <4> QED
        BY <4>1, Zenon
    <3>2. CASE ~Unpublish(o)
      BY <2>3, <3>2 DEF UserStep, Acquire, Keep, KeepFrame, Release, Deallocate
    <3> QED
      BY <3>1, <3>2
  <2>4. ASSUME NEW n \in 0..MaxQueue, SetQueueSize(n) PROVE NoRecycling'
    BY <2>4 DEF SetQueueSize
  <2>5. CASE Flush
    BY <2>5 DEF Flush, FlushStopsFrames, FlushStopsCallbacks, FlushStopsRecycling,
                FlushWaits, FlushClears
  <2>6. CASE UNCHANGED vars
    BY <2>6 DEF vars
  <2> QED
    BY <2>1, <2>2, <2>3, <2>4, <2>5, <2>6 DEF Next
<1>3. NoRecycling => NothingRecycledAfterFlush
  OBVIOUS
<1> QED
  BY <1>1, <1>2, <1>3, PTL DEF Spec

-------------------------------------------------------------------------------
\* The heap of callbacks has one place: it is taken exactly while one producer
\* holds it, flush() closes the heap before it waits, and no callback takes the
\* place afterwards.
CallbackInv ==
  /\ cbBusy = (\E p \in Producers : ppc[p] = "tracked")
  /\ \A p, q \in Producers : ppc[p] = "tracked" /\ ppc[q] = "tracked" => p = q
  /\ \A p \in early : ppc[p] \in {"tracked", "untracked"}
  /\ cbOpen <=> (fpc \in {"idle", "frames"})
  /\ fpc \in {"waited", "done"} => \A p \in early : ppc[p] = "untracked"

\* What CallbackInv speaks of, and nothing else, changes with the callbacks.
LEMMA CallbackStep == Shape /\ CallbackInv /\ [Next]_vars => CallbackInv'
<1> SUFFICES ASSUME Shape, CallbackInv, [Next]_vars PROVE CallbackInv'
  OBVIOUS
<1>0. /\ ppc \in [Producers -> {"idle", "published", "tracked", "untracked"}]
      /\ early \subseteq Producers /\ cbBusy \in BOOLEAN /\ cbOpen \in BOOLEAN
  BY DEF Shape
<1>1. ASSUME NEW p \in Producers, Publish(p) PROVE CallbackInv'
  <2>1. /\ ppc[p] = "idle" /\ ppc' = [ppc EXCEPT ![p] = "published"]
        /\ UNCHANGED <<cbOpen, cbBusy, early, fpc>>
    BY <1>1 DEF Publish
  <2> QED BY <1>0, <2>1 DEF CallbackInv
<1>2. ASSUME NEW p \in Producers, BeginCallback(p) PROVE CallbackInv'
  <2>1. /\ ppc[p] = "published" /\ UNCHANGED <<cbOpen, fpc>>
        /\ p \notin early
    BY <1>2 DEF BeginCallback, CallbackInv
  <2>2. CASE cbOpen /\ ~cbBusy
    <3>1. cbBusy' = TRUE /\ ppc' = [ppc EXCEPT ![p] = "tracked"] /\ early' = early \cup {p}
      BY <1>2, <2>2 DEF BeginCallback
    <3>2. \A q \in Producers : ppc[q] # "tracked"
      BY <2>2 DEF CallbackInv
    <3>3. fpc \in {"idle", "frames"}
      BY <2>2 DEF CallbackInv
    <3> QED BY <1>0, <2>1, <3>1, <3>2, <3>3 DEF CallbackInv
  <2>3. CASE ~(cbOpen /\ ~cbBusy)
    <3>1. cbBusy' = cbBusy /\ ppc' = [ppc EXCEPT ![p] = "untracked"] /\ early' \subseteq early \cup {p}
      BY <1>2, <2>3 DEF BeginCallback
    <3> QED BY <1>0, <2>1, <3>1 DEF CallbackInv
  <2> QED BY <2>2, <2>3
<1>3. ASSUME NEW p \in Producers, EndCallback(p) PROVE CallbackInv'
  <2>1. /\ ppc[p] \in {"tracked", "untracked"} /\ ppc' = [ppc EXCEPT ![p] = "idle"]
        /\ early' = early \ {p} /\ UNCHANGED <<cbOpen, fpc>>
    BY <1>3 DEF EndCallback
  <2>2. CASE ppc[p] = "tracked"
    <3>1. cbBusy' = FALSE /\ \A q \in Producers : ppc'[q] # "tracked"
      BY <1>0, <1>3, <2>1, <2>2 DEF EndCallback, CallbackInv
    <3> QED BY <1>0, <2>1, <2>2, <3>1 DEF CallbackInv
  <2>3. CASE ppc[p] = "untracked"
    <3>1. cbBusy' = cbBusy
      BY <1>0, <1>3, <2>3 DEF EndCallback
    <3> QED BY <1>0, <2>1, <2>3, <3>1 DEF CallbackInv
  <2> QED BY <2>1, <2>2, <2>3
<1>4. CASE Flush
  <2>1. UNCHANGED <<ppc, cbBusy, early>>
    BY <1>4 DEF Flush, FlushStopsFrames, FlushStopsCallbacks, FlushStopsRecycling,
                FlushWaits, FlushClears, cvars
  <2>2. CASE FlushStopsFrames  BY <2>1, <2>2 DEF FlushStopsFrames, CallbackInv, cvars
  <2>3. CASE FlushStopsCallbacks
    <3>1. cbOpen' = FALSE /\ fpc' = "callbacks"
      BY <2>3 DEF FlushStopsCallbacks
    <3>2. cbOpen' <=> (fpc' \in {"idle", "frames"})
      BY <3>1
    <3>3. fpc' \notin {"waited", "done"}
      BY <3>1
    <3>4. /\ cbBusy' = (\E p \in Producers : ppc'[p] = "tracked")
          /\ \A p, q \in Producers : ppc'[p] = "tracked" /\ ppc'[q] = "tracked" => p = q
          /\ \A p \in early' : ppc'[p] \in {"tracked", "untracked"}
      BY <2>1 DEF CallbackInv
    <3> QED BY <3>2, <3>3, <3>4, Zenon DEF CallbackInv
  <2>4. CASE FlushStopsRecycling  BY <2>1, <2>4 DEF FlushStopsRecycling, CallbackInv, cvars
  <2>5. CASE FlushWaits
    <3>1. fpc = "norecycle" /\ ~cbBusy /\ fpc' = "waited" /\ cbOpen' = cbOpen
      BY <2>5 DEF FlushWaits, cvars
    <3> QED BY <1>0, <2>1, <3>1 DEF CallbackInv
  <2>6. CASE FlushClears  BY <2>1, <2>6 DEF FlushClears, CallbackInv, cvars
  <2> QED BY <1>4, <2>2, <2>3, <2>4, <2>5, <2>6 DEF Flush
<1>5. ASSUME UNCHANGED <<cvars, fpc>> PROVE CallbackInv'
  BY <1>5 DEF CallbackInv, cvars
<1>6. ASSUME NEW p \in Producers, PublishRefused(p) PROVE CallbackInv'
  BY <1>5, <1>6 DEF PublishRefused
<1>7. ASSUME NEW o \in Objects, UserStep(o) PROVE CallbackInv'
  BY <1>5, <1>7 DEF UserStep, Acquire, Keep, KeepFrame, Release, Unpublish, Deallocate
<1>8. ASSUME NEW m \in 0..MaxQueue, SetQueueSize(m) PROVE CallbackInv'
  BY <1>5, <1>8 DEF SetQueueSize
<1>9. CASE UNCHANGED vars
  BY <1>5, <1>9 DEF vars
<1> QED
  BY <1>1, <1>2, <1>3, <1>4, <1>6, <1>7, <1>8, <1>9 DEF Next

\* CallbackInv is an invariant of every behaviour of the archive.
LEMMA CallbackInvariant == Spec => []CallbackInv
<1>1. Init => CallbackInv
  BY DEF Init, CallbackInv
<1>2. IInv /\ CallbackInv /\ [Next]_vars => CallbackInv'
  BY CallbackStep DEF IInv
<1> QED BY <1>1, <1>2, Inductive, PTL DEF Spec

\* Whatever the number of producers, flush() goes on only when the one callback
\* that callback_inflight has a place for is over: what may still run then is a
\* callback that found the place taken.
SeenCallbackIsOver == fpc \in {"waited", "done"} => \A p \in early : ppc[p] = "untracked"

\* flush() never clears the freelist under the callback it counts.
THEOREM FlushWaitsForSeenCallback == Spec => []SeenCallbackIsOver
<1>1. CallbackInv => SeenCallbackIsOver
  BY DEF CallbackInv, SeenCallbackIsOver
<1> QED BY <1>1, CallbackInvariant, PTL

\* An archive of a sensor belongs to one stream (archive_id is the stream's type
\* and index), whose frames come from one capture thread.
OneProducer == \A p, q \in Producers : p = q

\* With one producer the place for callbacks in flight is never taken by another
\* one, so every callback is waited for, and flush() leaves nothing behind.
THEOREM FlushThorough == OneProducer => (Spec => []FlushIsThorough)
<1> SUFFICES ASSUME OneProducer PROVE Spec => []FlushIsThorough
  OBVIOUS
<1> DEFINE AllSeen == \A p \in early : ppc[p] # "untracked"
<1>1. Init => AllSeen
  BY DEF Init
<1>2. IInv /\ CallbackInv /\ AllSeen /\ [Next]_vars => AllSeen'
  <2> SUFFICES ASSUME Shape, CallbackInv, AllSeen, [Next]_vars PROVE AllSeen'
    BY DEF IInv
  <2>0. ppc \in [Producers -> {"idle", "published", "tracked", "untracked"}] /\ early \subseteq Producers
    BY DEF Shape
  <2>1. ASSUME NEW p \in Producers, BeginCallback(p) PROVE AllSeen'
    <3>1. ppc[p] = "published" /\ ~cbBusy
      BY <2>1 DEF BeginCallback, CallbackInv, OneProducer
    <3>2. CASE cbOpen
      <4>1. ppc' = [ppc EXCEPT ![p] = "tracked"]
        BY <2>1, <3>1, <3>2 DEF BeginCallback
      <4>2. early' \subseteq Producers /\ \A q \in Producers : ppc'[q] # "untracked"
        BY <2>0, <2>1, <4>1, <3>2 DEF BeginCallback, OneProducer
      <4> QED BY <4>2
    <3>3. CASE ~cbOpen
      <4>1. early = {} /\ early' = early
        BY <2>0, <2>1, <3>1, <3>3 DEF BeginCallback, CallbackInv, OneProducer
      <4> QED BY <4>1
    <3> QED BY <3>2, <3>3
  <2>2. ASSUME NEW p \in Producers, Publish(p) \/ EndCallback(p) PROVE AllSeen'
    <3>1. early' \subseteq early /\ \A q \in Producers : ppc'[q] = ppc[q] \/ ppc'[q] # "untracked"
      BY <2>0, <2>2 DEF Publish, EndCallback
    <3> QED BY <2>0, <3>1
  <2>3. ASSUME UNCHANGED <<ppc, early>> PROVE AllSeen'
    BY <2>3
  <2>4. ASSUME NEW p \in Producers, PublishRefused(p) PROVE AllSeen'
    BY <2>3, <2>4 DEF PublishRefused, cvars
  <2>5. ASSUME NEW o \in Objects, UserStep(o) PROVE AllSeen'
    BY <2>3, <2>5 DEF UserStep, Acquire, Keep, KeepFrame, Release, Unpublish, Deallocate, cvars
  <2>6. ASSUME NEW m \in 0..MaxQueue, SetQueueSize(m) PROVE AllSeen'
    BY <2>3, <2>6 DEF SetQueueSize, cvars
  <2>7. CASE Flush
    BY <2>3, <2>7 DEF Flush, FlushStopsFrames, FlushStopsCallbacks, FlushStopsRecycling,
                      FlushWaits, FlushClears, cvars
  <2>8. CASE UNCHANGED vars
    BY <2>3, <2>8 DEF vars, cvars
  <2> QED
    BY <2>1, <2>2, <2>4, <2>5, <2>6, <2>7, <2>8 DEF Next
<1>3. SeenCallbackIsOver /\ AllSeen /\ NothingRecycledAfterFlush => FlushIsThorough
  BY DEF SeenCallbackIsOver, FlushIsThorough, FlushOutlivesCallbacks
<1> QED
  BY <1>1, <1>2, <1>3, Inductive, CallbackInvariant, FlushWaitsForSeenCallback,
     NothingLeftInFreelist, PTL DEF Spec
==============================================================================
