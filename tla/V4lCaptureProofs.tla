--------------------------- MODULE V4lCaptureProofs ---------------------------
(***************************************************************************)
(* Proofs about the buffers of a streaming node, for any number of them    *)
(* and any frames.                                                         *)
(*                                                                         *)
(* OneOwner says where a buffer can be now.  Inductive is the stronger     *)
(* Owned: the buffers with _must_enqueue are a place of their own, where a *)
(* buffer stays that was shown and is not given back, and buf_mgr of a     *)
(* poll() only names buffers that are elsewhere, except for the one its    *)
(* guard will queue.                                                       *)
(***************************************************************************)
EXTENDS V4lCapture, FiniteSetTheorems, TLAPS

\* The driver numbers frames below the bound.
Numbered(q) == \A i \in DOMAIN q : q[i].sequence < MaxSeq

\* No buffer is in two of these: queued in the driver (e), filled (f), in the
\* syncer (q), shown and not given back (a), in the hands of a guard (u).
Apart(e, f, q, a, u) ==
  /\ Distinct(f) /\ Distinct(q)
  /\ e \cap Indexes(f) = {}
  /\ Indexes(q) \cap (e \cup Indexes(f)) = {}
  /\ a \cap (e \cup Indexes(f) \cup Indexes(q)) = {}
  /\ u \cap (e \cup Indexes(f) \cup Indexes(q) \cup a) = {}

Owned == \A k \in Kinds : Apart(empty[k], filled[k], queue[k], attached[k], Unmanaged(k))

FramesInv == \A k \in Kinds : Numbered(filled[k]) /\ Numbered(queue[k])

\* The variables of poll(): outside of it they do not exist, select() found what
\* they say, and the pair in the callback is attached and managed.
LocalsInv ==
  /\ pc \in {"none", "loop", "select", "md", "ended"} => mgr = NoBuffer
  /\ pc = "callback" => \A k \in Kinds : mgr[k].managed /\ pulled[k] \in attached[k]
  /\ pc = "md" => \A k \in rfds : filled[k] # <<>>
  /\ pc = "video" /\ "video" \in rfds => filled["video"] # <<>>

\* While the syncer is not ready its queues are empty, but for the moment before
\* flush_queues().
SyncerInv ==
  /\ cpc \in {"closed", "on", "join"} => ~ready /\ \A k \in Kinds : queue[k] = <<>>
  /\ cpc = "flush" => ~ready
  /\ cpc = "closed" <=> pc = "none"

IInv == TypeOK /\ Owned /\ FramesInv /\ LocalsInv /\ SyncerInv

-------------------------------------------------------------------------------
(***************************************************************************)
(* Sequences of frames                                                     *)
(***************************************************************************)

LEMMA EmptySequence == Indexes(<<>>) = {} /\ Distinct(<<>>) /\ Numbered(<<>>)
  BY DEF Indexes, Distinct, Numbered

LEMMA IndexesAreBuffers ==
  ASSUME NEW q \in Seq(Frame)
  PROVE  Indexes(q) \subseteq Buffers
<1>1. \A i \in DOMAIN q : q[i] \in Frame
  OBVIOUS
<1>2. \A x \in Frame : x.index \in Buffers
  BY DEF Frame
<1> QED
  BY <1>1, <1>2 DEF Indexes

LEMMA AppendFrame ==
  ASSUME NEW q \in Seq(Frame), NEW f \in Frame
  PROVE  /\ Append(q, f) \in Seq(Frame) /\ Len(Append(q, f)) = Len(q) + 1
         /\ Indexes(Append(q, f)) = Indexes(q) \cup {f.index}
         /\ Distinct(q) /\ f.index \notin Indexes(q) => Distinct(Append(q, f))
         /\ Numbered(q) /\ f.sequence < MaxSeq => Numbered(Append(q, f))
<1> DEFINE r == Append(q, f)
<1>1. /\ r \in Seq(Frame) /\ Len(r) = Len(q) + 1
      /\ DOMAIN r = DOMAIN q \cup {Len(q) + 1}
      /\ \A i \in DOMAIN q : r[i] = q[i]
      /\ r[Len(q) + 1] = f
  OBVIOUS
<1> HIDE DEF r
<1>2. Indexes(r) = Indexes(q) \cup {f.index}
  BY <1>1 DEF Indexes
<1>3. Distinct(q) /\ f.index \notin Indexes(q) => Distinct(r)
  BY <1>1 DEF Distinct, Indexes
<1>4. Numbered(q) /\ f.sequence < MaxSeq => Numbered(r)
  BY <1>1 DEF Numbered
<1> QED
  BY <1>1, <1>2, <1>3, <1>4 DEF r

LEMMA TailFrames ==
  ASSUME NEW q \in Seq(Frame), q # <<>>
  PROVE  /\ Tail(q) \in Seq(Frame) /\ Len(Tail(q)) = Len(q) - 1
         /\ Head(q) \in Frame /\ Head(q).index \in Indexes(q)
         /\ Indexes(Tail(q)) \subseteq Indexes(q)
         /\ Distinct(q) => Distinct(Tail(q)) /\ Head(q).index \notin Indexes(Tail(q))
         /\ Numbered(q) => Numbered(Tail(q)) /\ Head(q).sequence < MaxSeq
<1> DEFINE r == Tail(q)
<1>1. /\ r \in Seq(Frame) /\ Len(r) = Len(q) - 1 /\ Len(q) \in Nat \ {0}
      /\ \A i \in DOMAIN r : i + 1 \in DOMAIN q /\ r[i] = q[i + 1] /\ i \in Nat /\ i # 0
      /\ 1 \in DOMAIN q /\ Head(q) = q[1] /\ Head(q) \in Frame
  OBVIOUS
<1> HIDE DEF r
<1>2. Head(q).index \in Indexes(q) /\ Indexes(r) \subseteq Indexes(q)
  BY <1>1 DEF Indexes
<1>3. Distinct(q) => Distinct(r)
  <2> SUFFICES ASSUME Distinct(q), NEW i \in DOMAIN r, NEW j \in DOMAIN r, i # j
               PROVE  r[i].index # r[j].index
    BY DEF Distinct
  <2>1. i + 1 # j + 1
    BY <1>1
  <2> QED
    BY <1>1, <2>1 DEF Distinct
<1>4. Distinct(q) => Head(q).index \notin Indexes(r)
  <2> SUFFICES ASSUME Distinct(q), NEW i \in DOMAIN r PROVE r[i].index # q[1].index
    BY <1>1 DEF Indexes
  <2>1. i + 1 # 1
    BY <1>1
  <2> QED
    BY <1>1, <2>1 DEF Distinct
<1>5. Numbered(q) => Numbered(r) /\ Head(q).sequence < MaxSeq
  BY <1>1 DEF Numbered
<1> QED
  BY <1>1, <1>2, <1>3, <1>4, <1>5 DEF r

\* What becomes of a queue of the syncer when f is pushed.
LEMMA PushedFrames ==
  ASSUME NEW k \in Kinds, queue[k] \in Seq(Frame), Len(queue[k]) <= QueueLimit,
         Distinct(queue[k]), Numbered(queue[k]),
         NEW f \in Frame, f.sequence < MaxSeq, f.index \notin Indexes(queue[k]), Push(k, f)
  PROVE  \E kept \in Seq(Frame) :
           /\ Len(kept) <= QueueLimit /\ Distinct(kept) /\ Numbered(kept)
           /\ Indexes(kept) \subseteq Indexes(queue[k]) \cup {f.index}
           /\ \/ /\ ready /\ queue' = [queue EXCEPT ![k] = kept]
                 /\ empty' = [empty EXCEPT ![k] = @ \cup (Indexes(queue[k]) \ Indexes(kept))]
              \/ UNCHANGED <<queue, empty>>
<1> DEFINE o == Overridden(k, f)
           q == Append(o, f)
           kept == IF Len(q) > QueueLimit THEN Tail(q) ELSE q
<1>1. /\ o \in Seq(Frame) /\ Len(o) <= QueueLimit /\ Distinct(o) /\ Numbered(o)
      /\ Indexes(o) \subseteq Indexes(queue[k])
  <2>1. CASE o = queue[k]
    BY <2>1
  <2>2. CASE o # queue[k]
    <3>1. queue[k] # <<>> /\ o = Tail(queue[k])
      BY <2>2 DEF Overridden
    <3>2. Len(queue[k]) \in Nat
      OBVIOUS
    <3> QED
      BY <3>1, <3>2, TailFrames DEF QueueLimit
  <2> QED
    BY <2>1, <2>2
<1> HIDE DEF o
<1>2. /\ q \in Seq(Frame) /\ Len(q) <= QueueLimit + 1 /\ Distinct(q) /\ Numbered(q)
      /\ Indexes(q) = Indexes(o) \cup {f.index} /\ q # <<>>
  BY <1>1, AppendFrame DEF QueueLimit
<1> HIDE DEF q
<1>3. /\ kept \in Seq(Frame) /\ Len(kept) <= QueueLimit /\ Distinct(kept) /\ Numbered(kept)
      /\ Indexes(kept) \subseteq Indexes(queue[k]) \cup {f.index}
  <2>1. CASE Len(q) > QueueLimit
    BY <1>1, <1>2, <2>1, TailFrames DEF QueueLimit
  <2>2. CASE ~(Len(q) > QueueLimit)
    BY <1>1, <1>2, <2>2 DEF QueueLimit
  <2> QED
    BY <2>1, <2>2
<1>4. \/ /\ ready /\ queue' = [queue EXCEPT ![k] = kept]
         /\ empty' = [empty EXCEPT ![k] = @ \cup (Indexes(queue[k]) \ Indexes(kept))]
      \/ UNCHANGED <<queue, empty>>
  BY DEF Push, kept, q, o
<1> HIDE DEF kept
<1> QED
  BY <1>3, <1>4

\* pull_video_with_metadata() throws out fronts only.
LEMMA TrimmedFrames ==
  ASSUME TypeOK, Owned, FramesInv, NEW k \in Kinds
  PROVE  /\ Trimmed[k] \in Seq(Frame) /\ Len(Trimmed[k]) <= QueueLimit
         /\ Distinct(Trimmed[k]) /\ Numbered(Trimmed[k])
         /\ Indexes(Trimmed[k]) \subseteq Indexes(queue[k])
<1>1. /\ queue[k] \in Seq(Frame) /\ Len(queue[k]) <= QueueLimit
      /\ Distinct(queue[k]) /\ Numbered(queue[k])
  BY DEF TypeOK, Owned, Apart, FramesInv
<1>2. CASE Stale(k)
  <2>1. queue[k] # <<>> /\ Trimmed[k] = Tail(queue[k]) /\ Len(queue[k]) \in Nat
    BY <1>1, <1>2 DEF Stale, Trimmed
  <2> QED
    BY <1>1, <2>1, TailFrames DEF QueueLimit
<1>3. CASE ~Stale(k)
  BY <1>1, <1>3 DEF Trimmed
<1> QED
  BY <1>2, <1>3

(* A thread that drops its buffer without giving it to another place leaves
   the other places apart. *)
LEMMA ApartWithout ==
  ASSUME NEW e, NEW f, NEW q, NEW a, NEW u, Apart(e, f, q, a, u)
  PROVE  Apart(e, f, q, a, {})
  BY DEF Apart

\* A buffer that is dequeued may be queued again, or kept by a guard.
LEMMA ApartDequeued ==
  ASSUME NEW e, NEW f, NEW q, NEW a, NEW u, Apart(e, f, q, a, u),
         NEW i \in Indexes(f), NEW g, Distinct(g), Indexes(g) \subseteq Indexes(f), i \notin Indexes(g)
  PROVE  Apart(e \cup {i}, g, q, a, {}) /\ Apart(e, g, q, a, {i})
  BY DEF Apart

\* Of the syncer's buffers some are thrown out and queued, and one is shown.
LEMMA ApartShown ==
  ASSUME NEW e, NEW f, NEW q, NEW a, NEW u, Apart(e, f, q, a, u),
         NEW t, Distinct(t), Indexes(t) \subseteq Indexes(q), NEW i \in Indexes(t),
         NEW r, Distinct(r), Indexes(r) \subseteq Indexes(t), i \notin Indexes(r)
  PROVE  Apart(e \cup (Indexes(q) \ Indexes(t)), f, r, a \cup {i}, {})
  BY DEF Apart

-------------------------------------------------------------------------------
(***************************************************************************)
(* The driver and the sensor                                               *)
(***************************************************************************)

\* A frame arrives in a buffer of the driver, or in none.
LEMMA ArriveStep ==
  ASSUME IInv, NEW k \in Kinds, Arrive(k)
  PROVE  IInv'
<1>1. /\ next[k] < MaxSeq /\ next[k] \in 0..MaxSeq /\ MaxSeq \in Nat
      /\ UNCHANGED <<queue, ready, attached, tvars, svars>>
  BY CaptureAssumption DEF Arrive, IInv, TypeOK
<1>2. next' \in [Kinds -> 0..MaxSeq]
  <2>1. PICK n \in {next[k] + 1} \cup (IF k = "md" /\ next[k] = 0 THEN {0} ELSE {}) :
          next' = [next EXCEPT ![k] = n]
    BY DEF Arrive
  <2>2. n \in 0..MaxSeq
    BY <1>1, <2>1
  <2> QED
    BY <2>1, <2>2 DEF IInv, TypeOK
<1>3. \A j \in Kinds : Unmanaged(j)' = Unmanaged(j)
  BY <1>1 DEF Unmanaged, tvars
<1>4. LocalsInv' /\ SyncerInv'
  <2>1. \A j \in Kinds : filled[j] # <<>> => filled'[j] # <<>>
    <3>1. CASE UNCHANGED filled
      BY <3>1
    <3>2. CASE \E x \in Frame : filled' = [filled EXCEPT ![k] = Append(@, x)]
      <4> SUFFICES ASSUME NEW j \in Kinds, filled[j] # <<>> PROVE filled'[j] # <<>>
        OBVIOUS
      <4>1. PICK x \in Frame : filled' = [filled EXCEPT ![k] = Append(@, x)]
        BY <3>2
      <4>2. Append(filled[k], x) # <<>>
        <5>1. filled[k] \in Seq(Frame)
          BY DEF IInv, TypeOK
        <5>2. Len(Append(filled[k], x)) = Len(filled[k]) + 1 /\ Len(filled[k]) \in Nat
          BY <5>1, AppendFrame
        <5> QED
          BY <5>2
      <4> QED
        BY <4>1, <4>2 DEF IInv, TypeOK
    <3>3. ASSUME filled' # filled PROVE \E x \in Frame : filled' = [filled EXCEPT ![k] = Append(@, x)]
      <4> DEFINE i == CHOOSE i \in empty[k] : TRUE
      <4>1. i \in empty[k] /\ filled' = [filled EXCEPT ![k] = Append(@, [index |-> i, sequence |-> next[k]])]
        BY <3>3 DEF Arrive
      <4>2. [index |-> i, sequence |-> next[k]] \in Frame
        BY <1>1, <4>1 DEF IInv, TypeOK, Frame
      <4> QED
        BY <4>1, <4>2
    <3> QED
      BY <3>1, <3>2, <3>3
  <2>2. UNCHANGED <<queue, ready, attached, mgr, pulled, rfds, pc, cpc>> /\ rfds \subseteq Kinds
    BY <1>1 DEF IInv, TypeOK, tvars, svars
  <2>3. LocalsInv'
    BY <2>1, <2>2 DEF IInv, LocalsInv, Kinds
  <2>4. SyncerInv'
    BY <2>2 DEF IInv, SyncerInv
  <2> QED
    BY <2>3, <2>4
<1>5. CASE UNCHANGED <<empty, filled>>
  BY <1>1, <1>2, <1>3, <1>4, <1>5 DEF IInv, TypeOK, Owned, FramesInv, tvars, svars
<1>6. CASE ~UNCHANGED <<empty, filled>>
  <2> DEFINE i == CHOOSE i \in empty[k] : TRUE
             x == [index |-> i, sequence |-> next[k]]
  <2>1. /\ i \in empty[k]
        /\ empty' = [empty EXCEPT ![k] = @ \ {i}]
        /\ filled' = [filled EXCEPT ![k] = Append(@, x)]
    BY <1>6 DEF Arrive
  <2>2. x \in Frame /\ x.index = i /\ x.sequence < MaxSeq
    BY <1>1, <2>1 DEF IInv, TypeOK, Frame
  <2> HIDE DEF i, x
  <2>3. filled[k] \in Seq(Frame) /\ i \notin Indexes(filled[k])
    BY <2>1 DEF IInv, TypeOK, Owned, Apart
  <2>4. /\ filled'[k] = Append(filled[k], x) /\ empty'[k] = empty[k] \ {i}
        /\ \A j \in Kinds \ {k} : filled'[j] = filled[j] /\ empty'[j] = empty[j]
    BY <2>1 DEF IInv, TypeOK
  <2>5. /\ filled'[k] \in Seq(Frame)
        /\ Indexes(filled'[k]) = Indexes(filled[k]) \cup {i}
        /\ Distinct(filled'[k]) /\ Numbered(filled'[k])
    BY <2>2, <2>3, <2>4, AppendFrame DEF IInv, Owned, Apart, FramesInv
  <2>6. TypeOK'
    BY <1>1, <1>2, <2>1, <2>4, <2>5 DEF IInv, TypeOK, tvars, svars
  <2>7. Owned'
    BY <1>1, <1>3, <2>1, <2>4, <2>5 DEF IInv, Owned, Apart
  <2>8. FramesInv'
    BY <1>1, <2>4, <2>5 DEF IInv, FramesInv
  <2> QED
    BY <1>4, <2>6, <2>7, <2>8 DEF IInv
<1> QED
  BY <1>5, <1>6

\* A step of the sensor's thread.
LEMMA SensorStep ==
  ASSUME IInv, Sensor
  PROVE  IInv'
<1> USE DEF dvars, tvars, svars
<1>0. 0 \in 0..MaxSeq
  BY CaptureAssumption
<1>1. CASE StreamOn
  <2>1. /\ pc = "none" /\ mgr = NoBuffer /\ \A k \in Kinds : queue[k] = <<>>
        /\ UNCHANGED <<queue, ready, mgr, pulled, rfds, started, streaming>>
        /\ cpc' = "on" /\ pc' = "loop" /\ ~ready
    BY <1>1 DEF StreamOn, IInv, SyncerInv, LocalsInv
  <2>2. \A k \in Kinds : Unmanaged(k)' = {}
    BY <2>1 DEF Unmanaged, NoBuffer
  <2>3. TypeOK'
    <3>1. capturing' \in BOOLEAN
      BY <1>1, Zenon DEF StreamOn
    <3> QED
      BY <1>0, <1>1, <3>1 DEF StreamOn, IInv, TypeOK
  <2>4. Owned' /\ FramesInv'
    <3>1. \A k \in Kinds : filled'[k] = <<>> /\ attached'[k] = {} /\ queue'[k] = <<>>
      BY <1>1, <2>1 DEF StreamOn
    <3> QED
      BY <2>2, <3>1, EmptySequence DEF Owned, Apart, FramesInv
  <2>5. LocalsInv' /\ SyncerInv'
    BY <2>1 DEF LocalsInv, SyncerInv
  <2> QED
    BY <2>3, <2>4, <2>5 DEF IInv
<1>2. CASE SyncerStart \/ SensorStart \/ StartCallbacks \/ SensorStop \/ StopCallbacks \/ Close
  <2>1. /\ UNCHANGED <<dvars, queue, attached, tvars>>
        /\ cpc # "closed" /\ cpc' \in {"open", "starting", "stopping", "flush"}
        /\ cpc' = "flush" => ~ready'
    BY <1>2 DEF SyncerStart, SensorStart, StartCallbacks, SensorStop, StopCallbacks, Close
  <2>2. ready' \in BOOLEAN /\ capturing' \in BOOLEAN /\ started' \in BOOLEAN /\ streaming' \in BOOLEAN
    BY <1>2, Zenon DEF SyncerStart, SensorStart, StartCallbacks, SensorStop, StopCallbacks, Close,
                       IInv, TypeOK
  <2>3. \A k \in Kinds : Unmanaged(k)' = Unmanaged(k)
    BY <2>1 DEF Unmanaged
  <2> QED
    BY <2>1, <2>2, <2>3 DEF IInv, TypeOK, Owned, FramesInv, LocalsInv, SyncerInv
<1>3. CASE FlushQueues
  <2>1. \A k \in Kinds : Unmanaged(k)' = Unmanaged(k) /\ queue'[k] = <<>>
    BY <1>3 DEF FlushQueues, Unmanaged
  <2>2. TypeOK'
    BY <1>3 DEF FlushQueues, IInv, TypeOK, QueueLimit
  <2>3. Owned' /\ FramesInv'
    BY <1>3, <2>1, EmptySequence DEF FlushQueues, IInv, Owned, Apart, FramesInv
  <2>4. LocalsInv' /\ SyncerInv'
    BY <1>3, <2>1 DEF FlushQueues, IInv, LocalsInv, SyncerInv
  <2> QED
    BY <2>2, <2>3, <2>4 DEF IInv
<1>4. CASE Join
  <2>1. /\ mgr' = NoBuffer /\ cpc' = "closed" /\ pc' = "none" /\ UNCHANGED <<queue, ready>>
        /\ ~ready /\ \A k \in Kinds : queue[k] = <<>>
    BY <1>4 DEF Join, IInv, LocalsInv, SyncerInv
  <2>2. \A k \in Kinds : Unmanaged(k)' = {}
    BY <2>1 DEF Unmanaged, NoBuffer
  <2>3. TypeOK'
    BY <1>4 DEF Join, IInv, TypeOK
  <2>4. Owned' /\ FramesInv'
    <3>1. \A k \in Kinds : filled'[k] = <<>> /\ attached'[k] = {} /\ queue'[k] = <<>>
      BY <1>4, <2>1 DEF Join
    <3> QED
      BY <2>2, <3>1, EmptySequence DEF Owned, Apart, FramesInv
  <2>5. LocalsInv' /\ SyncerInv'
    BY <2>1 DEF LocalsInv, SyncerInv
  <2> QED
    BY <2>3, <2>4, <2>5 DEF IInv
<1> QED
  BY <1>1, <1>2, <1>3, <1>4 DEF Sensor

-------------------------------------------------------------------------------
(***************************************************************************)
(* The capture thread                                                      *)
(***************************************************************************)

\* The front of the node's buffers, dequeued.
LEMMA Dequeued ==
  ASSUME IInv, NEW k \in Kinds, filled[k] # <<>>
  PROVE  /\ Head(filled[k]) \in Frame /\ Head(filled[k]).sequence < MaxSeq
         /\ Head(filled[k]).index \in Indexes(filled[k])
         /\ Head(filled[k]).index \notin Indexes(Tail(filled[k]))
         /\ Tail(filled[k]) \in Seq(Frame) /\ Numbered(Tail(filled[k])) /\ Distinct(Tail(filled[k]))
         /\ Indexes(Tail(filled[k])) \subseteq Indexes(filled[k])
  BY TailFrames DEF IInv, TypeOK, Owned, Apart, FramesInv

\* Nothing is left of poll() when it ends.
LEMMA NothingInHand ==
  ASSUME NEW k \in Kinds, mgr' = NoBuffer
  PROVE  Unmanaged(k)' = {}
  BY DEF Unmanaged, NoBuffer

\* A frame dequeued from node k goes to the syncer, which manages it.
LEMMA DequeuePush ==
  ASSUME IInv, NEW k \in Kinds, filled[k] # <<>>, NEW f, f = Head(filled[k]), Push(k, f),
         filled' = [filled EXCEPT ![k] = Tail(@)],
         mgr' = [mgr EXCEPT ![k] = [data |-> f.index, managed |-> TRUE]],
         UNCHANGED <<attached, ready, cpc>>
  PROVE  /\ empty' \in [Kinds -> SUBSET Buffers] /\ filled' \in [Kinds -> Seq(Frame)]
         /\ queue' \in [Kinds -> Seq(Frame)] /\ \A j \in Kinds : Len(queue'[j]) <= QueueLimit
         /\ mgr' \in [Kinds -> [data : Buffers \cup {None}, managed : BOOLEAN]]
         /\ Owned' /\ FramesInv'
         /\ cpc \in {"closed", "on", "join"} => \A j \in Kinds : queue'[j] = <<>>
<1>1. /\ f \in Frame /\ f.sequence < MaxSeq /\ f.index \in Indexes(filled[k])
      /\ f.index \notin Indexes(Tail(filled[k])) /\ f.index \in Buffers
      /\ Tail(filled[k]) \in Seq(Frame) /\ Numbered(Tail(filled[k])) /\ Distinct(Tail(filled[k]))
      /\ Indexes(Tail(filled[k])) \subseteq Indexes(filled[k])
  BY Dequeued DEF Frame
<1>2. f.index \notin Indexes(queue[k])
  BY <1>1 DEF IInv, Owned, Apart
<1>3. PICK kept \in Seq(Frame) :
        /\ Len(kept) <= QueueLimit /\ Distinct(kept) /\ Numbered(kept)
        /\ Indexes(kept) \subseteq Indexes(queue[k]) \cup {f.index}
        /\ \/ /\ ready /\ queue' = [queue EXCEPT ![k] = kept]
              /\ empty' = [empty EXCEPT ![k] = @ \cup (Indexes(queue[k]) \ Indexes(kept))]
           \/ UNCHANGED <<queue, empty>>
  BY <1>1, <1>2, PushedFrames DEF IInv, TypeOK, Owned, Apart, FramesInv
<1>4. mgr' \in [Kinds -> [data : Buffers \cup {None}, managed : BOOLEAN]]
  BY <1>1 DEF IInv, TypeOK
<1>5. Unmanaged(k)' = {} /\ \A j \in Kinds \ {k} : Unmanaged(j)' = Unmanaged(j)
  BY DEF Unmanaged, IInv, TypeOK
<1>6. /\ filled'[k] = Tail(filled[k])
      /\ \A j \in Kinds \ {k} : filled'[j] = filled[j] /\ queue'[j] = queue[j] /\ empty'[j] = empty[j]
      /\ filled' \in [Kinds -> Seq(Frame)]
  BY <1>1, <1>3 DEF IInv, TypeOK
<1>7. Indexes(queue[k]) \subseteq Buffers
  BY IndexesAreBuffers DEF IInv, TypeOK
<1>8. CASE ready /\ queue' = [queue EXCEPT ![k] = kept]
           /\ empty' = [empty EXCEPT ![k] = @ \cup (Indexes(queue[k]) \ Indexes(kept))]
  <2>1. queue'[k] = kept /\ empty'[k] = empty[k] \cup (Indexes(queue[k]) \ Indexes(kept))
    BY <1>8 DEF IInv, TypeOK
  <2>2. Owned'
    BY <1>1, <1>3, <1>5, <1>6, <2>1 DEF IInv, Owned, Apart
  <2>3. FramesInv'
    BY <1>1, <1>3, <1>6, <2>1 DEF IInv, FramesInv
  <2>4. /\ empty' \in [Kinds -> SUBSET Buffers]
        /\ queue' \in [Kinds -> Seq(Frame)] /\ \A j \in Kinds : Len(queue'[j]) <= QueueLimit
    BY <1>3, <1>6, <1>7, <1>8, <2>1 DEF IInv, TypeOK
  <2>5. cpc \notin {"closed", "on", "join"}
    BY <1>8 DEF IInv, SyncerInv
  <2> QED
    BY <1>4, <1>6, <2>2, <2>3, <2>4, <2>5
<1>9. CASE UNCHANGED <<queue, empty>>
  <2>1. Owned'
    BY <1>1, <1>5, <1>6, <1>9 DEF IInv, Owned, Apart
  <2>2. FramesInv'
    BY <1>1, <1>6, <1>9 DEF IInv, FramesInv
  <2> QED
    BY <1>4, <1>6, <1>9, <2>1, <2>2 DEF IInv, TypeOK, SyncerInv
<1> QED
  BY <1>3, <1>8, <1>9

\* while( _is_capturing ) and select().
LEMMA LoopStep ==
  ASSUME IInv, Loop \/ Select
  PROVE  IInv'
<1> USE DEF dvars, svars
<1>1. /\ UNCHANGED <<dvars, queue, ready, attached, mgr, pulled, shown, svars>>
      /\ pc \in {"loop", "select"} /\ pc' \in {"select", "ended", "loop", "md"}
      /\ rfds' \subseteq Kinds
      /\ pc' = "md" => \A k \in rfds' : filled[k] # <<>>
  <2>1. CASE Loop
    BY <2>1 DEF Loop, IInv, TypeOK
  <2>2. CASE Select
    BY <2>2 DEF Select, IInv, TypeOK
  <2> QED
    BY <2>1, <2>2
<1>2. \A k \in Kinds : Unmanaged(k)' = Unmanaged(k)
  BY <1>1 DEF Unmanaged
<1>3. TypeOK' /\ Owned' /\ FramesInv'
  BY <1>1, <1>2 DEF IInv, TypeOK, Owned, FramesInv
<1> QED
  BY <1>1, <1>3 DEF IInv, LocalsInv, SyncerInv

\* acquire_metadata()
LEMMA PollMdStep ==
  ASSUME IInv, PollMd
  PROVE  IInv'
<1>1. /\ pc = "md" /\ pc' = "video"
      /\ UNCHANGED <<next, ready, attached, pulled, rfds, shown, svars>>
      /\ \A k \in rfds : filled[k] # <<>>
  BY DEF PollMd, IInv, LocalsInv
<1>2. CASE "md" \in rfds
  <2> DEFINE f == Head(filled["md"])
  <2>1. /\ filled' = [filled EXCEPT !["md"] = Tail(@)]
        /\ Push("md", f)
        /\ mgr' = [mgr EXCEPT !["md"] = [data |-> f.index, managed |-> TRUE]]
    BY <1>2 DEF PollMd
  <2>2. /\ empty' \in [Kinds -> SUBSET Buffers] /\ filled' \in [Kinds -> Seq(Frame)]
        /\ queue' \in [Kinds -> Seq(Frame)] /\ \A j \in Kinds : Len(queue'[j]) <= QueueLimit
        /\ mgr' \in [Kinds -> [data : Buffers \cup {None}, managed : BOOLEAN]]
        /\ Owned' /\ FramesInv'
        /\ cpc \in {"closed", "on", "join"} => \A j \in Kinds : queue'[j] = <<>>
    BY <1>1, <1>2, <2>1, DequeuePush DEF Kinds, svars
  <2>3. TypeOK'
    BY <1>1, <2>2 DEF IInv, TypeOK, svars
  <2>4. LocalsInv'
    BY <1>1, <2>1 DEF IInv, TypeOK, LocalsInv, Kinds
  <2>5. SyncerInv'
    BY <1>1, <2>2 DEF IInv, SyncerInv, svars
  <2> QED
    BY <2>2, <2>3, <2>4, <2>5 DEF IInv
<1>3. CASE "md" \notin rfds
  <2>1. UNCHANGED <<filled, queue, empty, mgr>>
    BY <1>3 DEF PollMd
  <2>2. \A k \in Kinds : Unmanaged(k)' = Unmanaged(k)
    BY <2>1 DEF Unmanaged
  <2> QED
    BY <1>1, <2>1, <2>2 DEF IInv, TypeOK, Owned, FramesInv, LocalsInv, SyncerInv, svars, Kinds
<1> QED
  BY <1>2, <1>3

\* VIDIOC_DQBUF of the video node.
LEMMA PollVideoStep ==
  ASSUME IInv, PollVideo
  PROVE  IInv'
<1>1. /\ pc = "video" /\ UNCHANGED <<next, ready, attached, shown, svars>>
      /\ "video" \in rfds => filled["video"] # <<>>
      /\ "video" \in Kinds /\ "md" \in Kinds
  BY DEF PollVideo, IInv, LocalsInv, Kinds
<1>2. SyncerInv' <=> /\ (cpc \in {"closed", "on", "join"} => ~ready /\ \A k \in Kinds : queue'[k] = <<>>)
                     /\ cpc = "flush" => ~ready
                     /\ cpc = "closed" <=> pc' = "none"
  BY <1>1 DEF SyncerInv, svars
<1> DEFINE f == Head(filled["video"])
<1>3. CASE "video" \in rfds /\ Push("video", f) /\ pc' = "upload"
           /\ filled' = [filled EXCEPT !["video"] = Tail(@)]
           /\ mgr' = [mgr EXCEPT !["video"] = [data |-> f.index, managed |-> TRUE]]
           /\ UNCHANGED <<pulled, rfds>>
  <2>1. /\ empty' \in [Kinds -> SUBSET Buffers] /\ filled' \in [Kinds -> Seq(Frame)]
        /\ queue' \in [Kinds -> Seq(Frame)] /\ \A j \in Kinds : Len(queue'[j]) <= QueueLimit
        /\ mgr' \in [Kinds -> [data : Buffers \cup {None}, managed : BOOLEAN]]
        /\ Owned' /\ FramesInv'
        /\ cpc \in {"closed", "on", "join"} => \A j \in Kinds : queue'[j] = <<>>
    BY <1>1, <1>3, DequeuePush DEF svars
  <2>2. TypeOK'
    BY <1>1, <1>3, <2>1 DEF IInv, TypeOK, svars
  <2>3. LocalsInv' /\ SyncerInv'
    BY <1>1, <1>2, <1>3, <2>1 DEF IInv, LocalsInv, SyncerInv
  <2> QED
    BY <2>1, <2>2, <2>3 DEF IInv
<1>4. ASSUME "video" \in rfds,
             filled' = [filled EXCEPT !["video"] = Tail(@)],
             \/ /\ empty' = [empty EXCEPT !["video"] = @ \cup {f.index}]
                /\ Return
                /\ UNCHANGED queue
             \/ /\ mgr' = [mgr EXCEPT !["video"] = [data |-> f.index, managed |-> FALSE]]
                /\ pc' = "upload"
                /\ UNCHANGED <<queue, empty, pulled, rfds>>
      PROVE  IInv'
  <2>1. /\ f \in Frame /\ f.index \in Indexes(filled["video"]) /\ f.index \in Buffers
        /\ f.index \notin Indexes(Tail(filled["video"]))
        /\ Tail(filled["video"]) \in Seq(Frame)
        /\ Numbered(Tail(filled["video"])) /\ Distinct(Tail(filled["video"]))
        /\ Indexes(Tail(filled["video"])) \subseteq Indexes(filled["video"])
    BY <1>1, <1>4, Dequeued DEF Frame
  <2> HIDE DEF f
  <2>2. /\ filled'["video"] = Tail(filled["video"]) /\ filled' \in [Kinds -> Seq(Frame)]
        /\ \A k \in Kinds \ {"video"} : filled'[k] = filled[k]
    BY <1>1, <1>4, <2>1 DEF IInv, TypeOK
  <2>3. UNCHANGED queue
    BY <1>4
  <2>4. FramesInv'
    BY <2>1, <2>2, <2>3 DEF IInv, FramesInv
  <2>5. CASE empty' = [empty EXCEPT !["video"] = @ \cup {f.index}] /\ Return
    <3>1. /\ empty'["video"] = empty["video"] \cup {f.index}
          /\ \A k \in Kinds \ {"video"} : empty'[k] = empty[k]
          /\ empty' \in [Kinds -> SUBSET Buffers]
      BY <1>1, <2>1, <2>5 DEF IInv, TypeOK
    <3>2. \A k \in Kinds : Unmanaged(k)' = {}
      BY <2>5, NothingInHand DEF Return
    <3>3. Owned'
      <4>1. Apart(empty'["video"], filled'["video"], queue["video"], attached["video"], {})
        <5>1. Apart(empty["video"] \cup {f.index}, Tail(filled["video"]), queue["video"], attached["video"], {})
          BY <1>1, <2>1, ApartDequeued DEF IInv, Owned
        <5> QED
          BY <2>2, <3>1, <5>1
      <4>2. \A k \in Kinds \ {"video"} : Apart(empty'[k], filled'[k], queue[k], attached[k], {})
        BY <2>2, <3>1, ApartWithout DEF IInv, Owned
      <4> QED
        BY <1>1, <2>3, <3>2, <4>1, <4>2 DEF Owned
    <3>4. TypeOK'
      BY <1>1, <2>2, <2>3, <2>5, <3>1 DEF Return, NoBuffer, NoPair, IInv, TypeOK, svars
    <3>5. LocalsInv' /\ SyncerInv'
      BY <1>1, <1>2, <2>3, <2>5 DEF Return, IInv, LocalsInv, SyncerInv
    <3> QED
      BY <2>4, <3>3, <3>4, <3>5 DEF IInv
  <2>6. CASE mgr' = [mgr EXCEPT !["video"] = [data |-> f.index, managed |-> FALSE]]
             /\ pc' = "upload" /\ UNCHANGED <<empty, pulled, rfds>>
    <3>1. mgr' \in [Kinds -> [data : Buffers \cup {None}, managed : BOOLEAN]]
      BY <2>1, <2>6 DEF IInv, TypeOK
    <3>2. /\ Unmanaged("video")' = {f.index}
          /\ \A k \in Kinds \ {"video"} : Unmanaged(k)' = Unmanaged(k)
      BY <1>1, <2>1, <2>6, CaptureAssumption DEF Unmanaged, IInv, TypeOK
    <3>3. Owned'
      <4>1. Apart(empty["video"], filled'["video"], queue["video"], attached["video"], {f.index})
        BY <1>1, <2>1, <2>2, ApartDequeued DEF IInv, Owned
      <4> QED
        BY <1>1, <2>2, <2>3, <2>6, <3>2, <4>1 DEF IInv, Owned
    <3>4. TypeOK'
      BY <1>1, <2>2, <2>3, <2>6, <3>1 DEF IInv, TypeOK, svars
    <3>5. LocalsInv' /\ SyncerInv'
      BY <1>1, <1>2, <2>3, <2>6 DEF IInv, LocalsInv, SyncerInv
    <3> QED
      BY <2>4, <3>3, <3>4, <3>5 DEF IInv
  <2> QED
    BY <1>4, <2>5, <2>6
<1>5. CASE "video" \notin rfds /\ pc' = "upload" /\ UNCHANGED <<filled, queue, empty, mgr, pulled, rfds>>
  <2>1. \A k \in Kinds : Unmanaged(k)' = Unmanaged(k)
    BY <1>5 DEF Unmanaged
  <2>2. LocalsInv' /\ SyncerInv'
    BY <1>1, <1>2, <1>5 DEF IInv, LocalsInv, SyncerInv
  <2> QED
    BY <1>1, <1>5, <2>1, <2>2 DEF IInv, TypeOK, Owned, FramesInv, svars
<1> QED
  BY <1>3, <1>4, <1>5 DEF PollVideo

\* upload_video_and_metadata_from_syncer()
LEMMA UploadStep ==
  ASSUME IInv, Upload
  PROVE  IInv'
<1> DEFINE trimmed == IF started /\ ready THEN Trimmed ELSE queue
           thrown(k) == Indexes(queue[k]) \ Indexes(trimmed[k])
           heads == [k \in Kinds |-> Head(trimmed[k]).index]
<1>1. pc = "upload" /\ UNCHANGED <<filled, next, ready, svars>>
  BY DEF Upload
<1>2. ASSUME NEW k \in Kinds
      PROVE  /\ trimmed[k] \in Seq(Frame) /\ Len(trimmed[k]) <= QueueLimit
             /\ Distinct(trimmed[k]) /\ Numbered(trimmed[k])
             /\ Indexes(trimmed[k]) \subseteq Indexes(queue[k])
             /\ thrown(k) \subseteq Buffers
  <2>1. Indexes(queue[k]) \subseteq Buffers
    BY IndexesAreBuffers DEF IInv, TypeOK
  <2>2. CASE started /\ ready
    BY <2>1, <2>2, TrimmedFrames DEF IInv
  <2>3. CASE ~(started /\ ready)
    BY <2>1, <2>3 DEF IInv, TypeOK, Owned, Apart, FramesInv
  <2> QED
    BY <2>2, <2>3
<1>3. trimmed \in [Kinds -> Seq(Frame)]
  <2>1. DOMAIN trimmed = Kinds /\ trimmed = [k \in Kinds |-> trimmed[k]]
    BY DEF Trimmed, IInv, TypeOK
  <2> HIDE DEF trimmed
  <2> QED
    BY <1>2, <2>1
<1>4. cpc \in {"closed", "on", "join"} \/ ~ready => trimmed = queue
  BY DEF IInv, SyncerInv
<1>5. CASE /\ started /\ ready /\ Matched(trimmed)
           /\ queue' = [k \in Kinds |-> Tail(trimmed[k])]
           /\ empty' = [k \in Kinds |-> empty[k] \cup thrown(k)]
           /\ pulled' = heads
           /\ attached' = [k \in Kinds |-> attached[k] \cup {heads[k]}]
           /\ mgr' = [k \in Kinds |->
                        [data |-> IF mgr[k].data = None THEN heads[k] ELSE mgr[k].data,
                         managed |-> TRUE]]
           /\ shown' = [k \in Kinds |-> Head(trimmed[k]).sequence + 1]
           /\ pc' = "callback"
           /\ UNCHANGED rfds
  <2>1. \A k \in Kinds : trimmed[k] # <<>>
    BY <1>5 DEF Matched
  <2> HIDE DEF trimmed
  <2>2. ASSUME NEW k \in Kinds
        PROVE  /\ Tail(trimmed[k]) \in Seq(Frame) /\ Len(Tail(trimmed[k])) <= QueueLimit
               /\ Distinct(Tail(trimmed[k])) /\ Numbered(Tail(trimmed[k]))
               /\ Indexes(Tail(trimmed[k])) \subseteq Indexes(trimmed[k])
               /\ heads[k] \in Indexes(trimmed[k]) /\ heads[k] \notin Indexes(Tail(trimmed[k]))
               /\ heads[k] \in Buffers /\ Head(trimmed[k]).sequence + 1 \in 0..MaxSeq
    <3>1. /\ Tail(trimmed[k]) \in Seq(Frame) /\ Len(Tail(trimmed[k])) = Len(trimmed[k]) - 1
          /\ Head(trimmed[k]) \in Frame /\ Head(trimmed[k]).index \in Indexes(trimmed[k])
          /\ Indexes(Tail(trimmed[k])) \subseteq Indexes(trimmed[k])
          /\ Distinct(Tail(trimmed[k])) /\ Head(trimmed[k]).index \notin Indexes(Tail(trimmed[k]))
          /\ Numbered(Tail(trimmed[k])) /\ Head(trimmed[k]).sequence < MaxSeq
      BY <1>2, <2>1, TailFrames
    <3>2. Len(Tail(trimmed[k])) <= QueueLimit
      <4>1. Len(trimmed[k]) \in Nat /\ Len(trimmed[k]) <= QueueLimit
        BY <1>2
      <4> QED
        BY <3>1, <4>1 DEF QueueLimit
    <3>3. Head(trimmed[k]).sequence \in 0..MaxSeq /\ Head(trimmed[k]).index \in Buffers
      BY <3>1 DEF Frame
    <3>4. Head(trimmed[k]).sequence + 1 \in 0..MaxSeq
      BY <3>1, <3>3, CaptureAssumption
    <3> QED
      BY <3>1, <3>2, <3>3, <3>4
  <2> HIDE DEF heads, thrown
  <2>3. \A k \in Kinds : Unmanaged(k)' = {}
    BY <1>5 DEF Unmanaged
  <2>4. ASSUME NEW k \in Kinds
        PROVE  /\ Apart(empty'[k], filled'[k], queue'[k], attached'[k], Unmanaged(k)')
               /\ Numbered(filled'[k]) /\ Numbered(queue'[k])
    <3>1. /\ queue'[k] = Tail(trimmed[k]) /\ empty'[k] = empty[k] \cup thrown(k)
          /\ attached'[k] = attached[k] \cup {heads[k]} /\ filled'[k] = filled[k]
      BY <1>1, <1>5
    <3>2. thrown(k) = Indexes(queue[k]) \ Indexes(trimmed[k])
      BY DEF thrown
    <3>3. Apart(empty[k], filled[k], queue[k], attached[k], Unmanaged(k))
      BY DEF IInv, Owned
    <3>4. Apart(empty[k] \cup thrown(k), filled[k], Tail(trimmed[k]), attached[k] \cup {heads[k]}, {})
      BY <1>2, <2>2, <3>2, <3>3, ApartShown
    <3> QED
      BY <2>2, <2>3, <3>1, <3>4 DEF IInv, FramesInv
  <2>5. TypeOK'
    <3>1. /\ queue' \in [Kinds -> Seq(Frame)] /\ \A k \in Kinds : Len(queue'[k]) <= QueueLimit
          /\ shown' \in [Kinds -> 0..MaxSeq]
      BY <1>5, <2>2
    <3>2. empty' \in [Kinds -> SUBSET Buffers] /\ attached' \in [Kinds -> SUBSET Buffers]
      BY <1>2, <1>5, <2>2 DEF IInv, TypeOK
    <3>3. heads \in [Kinds -> Buffers]
      BY <2>2 DEF heads
    <3>4. mgr' \in [Kinds -> [data : Buffers \cup {None}, managed : BOOLEAN]]
      BY <1>5, <3>3 DEF IInv, TypeOK
    <3> QED
      BY <1>1, <1>5, <3>1, <3>2, <3>3, <3>4 DEF IInv, TypeOK, svars
  <2>6. LocalsInv'
    BY <1>5 DEF LocalsInv
  <2>7. SyncerInv'
    BY <1>1, <1>5 DEF IInv, SyncerInv, svars
  <2> QED
    BY <2>4, <2>5, <2>6, <2>7 DEF IInv, Owned, FramesInv
<1>6. CASE /\ queue' = trimmed
           /\ empty' = [k \in Kinds |-> empty[k] \cup thrown(k) \cup Unmanaged(k)]
           /\ Return
           /\ UNCHANGED <<attached, shown>>
  <2>1. \A k \in Kinds : Unmanaged(k) \subseteq Buffers
    BY DEF Unmanaged, IInv, TypeOK
  <2>2. \A k \in Kinds : Unmanaged(k)' = {}
    BY <1>6, NothingInHand DEF Return
  <2>3. SyncerInv'
    BY <1>1, <1>4, <1>6 DEF Return, IInv, SyncerInv, svars
  <2> HIDE DEF trimmed
  <2>4. ASSUME NEW k \in Kinds
        PROVE  /\ Apart(empty'[k], filled'[k], queue'[k], attached'[k], Unmanaged(k)')
               /\ Numbered(filled'[k]) /\ Numbered(queue'[k])
    BY <1>1, <1>2, <1>6, <2>2 DEF IInv, Owned, Apart, FramesInv
  <2>5. TypeOK'
    <3>1. queue' \in [Kinds -> Seq(Frame)] /\ \A k \in Kinds : Len(queue'[k]) <= QueueLimit
      BY <1>2, <1>3, <1>6
    <3>2. empty' \in [Kinds -> SUBSET Buffers]
      BY <1>2, <1>6, <2>1 DEF IInv, TypeOK
    <3> QED
      BY <1>1, <1>6, <3>1, <3>2 DEF Return, NoBuffer, NoPair, IInv, TypeOK, svars
  <2>6. LocalsInv'
    BY <1>6 DEF Return, LocalsInv
  <2> QED
    BY <2>3, <2>4, <2>5, <2>6 DEF IInv, Owned, FramesInv
<1> QED
  BY <1>5, <1>6 DEF Upload

\* request_next_frame() gives back only what is attached.
LEMMA CallbackStep ==
  ASSUME IInv, Callback
  PROVE  IInv'
<1> DEFINE back(k) == IF streaming THEN {mgr[k].data} \cap attached[k] ELSE {}
<1>1. /\ pc = "callback" /\ Return
      /\ empty' = [k \in Kinds |-> empty[k] \cup back(k)]
      /\ attached' = [k \in Kinds |-> attached[k] \ back(k)]
      /\ UNCHANGED <<filled, next, queue, ready, shown, svars>>
  BY DEF Callback
<1>2. \A k \in Kinds : back(k) \subseteq attached[k] /\ Unmanaged(k)' = {}
  BY <1>1, NothingInHand DEF Return
<1> HIDE DEF back
<1>3. Owned' /\ FramesInv'
  BY <1>1, <1>2 DEF IInv, Owned, Apart, FramesInv
<1>4. TypeOK'
  BY <1>1, <1>2 DEF Return, NoBuffer, NoPair, IInv, TypeOK, svars
<1>5. LocalsInv' /\ SyncerInv'
  BY <1>1 DEF Return, IInv, LocalsInv, SyncerInv, svars
<1> QED
  BY <1>3, <1>4, <1>5 DEF IInv

\* The invariant is inductive.
LEMMA CaptureInvariant == Spec => []IInv
<1>1. Init => IInv
  <2> SUFFICES ASSUME Init PROVE IInv
    OBVIOUS
  <2>1. ready \in BOOLEAN /\ capturing \in BOOLEAN /\ started \in BOOLEAN /\ streaming \in BOOLEAN
    BY Zenon DEF Init
  <2>2. TypeOK
    BY <2>1, CaptureAssumption DEF Init, TypeOK, NoBuffer, NoPair, QueueLimit
  <2>3. Owned /\ FramesInv
    BY EmptySequence DEF Init, Owned, Apart, Unmanaged, NoBuffer, FramesInv
  <2>4. LocalsInv /\ SyncerInv
    BY DEF Init, LocalsInv, SyncerInv
  <2> QED
    BY <2>2, <2>3, <2>4 DEF IInv
<1>2. IInv /\ [Next]_vars => IInv'
  <2> SUFFICES ASSUME IInv, [Next]_vars PROVE IInv'
    OBVIOUS
  <2>1. CASE Thread
    BY <2>1, LoopStep, PollMdStep, PollVideoStep, UploadStep, CallbackStep DEF Thread
  <2>2. CASE Driver
    BY <2>2, ArriveStep DEF Driver
  <2>3. CASE Sensor
    BY <2>3, SensorStep
  <2>4. CASE UNCHANGED vars
    <3>1. \A k \in Kinds : Unmanaged(k)' = Unmanaged(k)
      BY <2>4 DEF vars, tvars, Unmanaged
    <3> QED
      BY <2>4, <3>1 DEF vars, dvars, tvars, svars, IInv, TypeOK, Owned, FramesInv, LocalsInv, SyncerInv
  <2> QED
    BY <2>1, <2>2, <2>3, <2>4 DEF Next
<1> QED
  BY <1>1, <1>2, PTL DEF Spec

-------------------------------------------------------------------------------
(***************************************************************************)
(* The theorems                                                            *)
(***************************************************************************)

\* Every variable stays in its type; the syncer's queues stay short.
THEOREM CaptureTypeCorrect == Spec => []TypeOK
<1>1. IInv => TypeOK
  BY DEF IInv
<1> QED
  BY <1>1, CaptureInvariant, PTL

\* However frames are lost, delayed and mismatched, and whoever gives a buffer
\* back, nobody writes to a buffer that somebody else still has.
THEOREM BufferHasOneOwner == Spec => []OneOwner
<1>1. IInv => OneOwner
  <2> SUFFICES ASSUME IInv, NEW k \in Kinds
               PROVE  /\ Distinct(filled[k]) /\ Distinct(queue[k])
                      /\ empty[k] \cap Indexes(filled[k]) = {}
                      /\ Indexes(queue[k]) \cap (empty[k] \cup Indexes(filled[k])) = {}
                      /\ InHand(k) \cap (empty[k] \cup Indexes(filled[k]) \cup Indexes(queue[k])) = {}
    BY DEF OneOwner
  <2>1. Apart(empty[k], filled[k], queue[k], attached[k], Unmanaged(k))
    BY DEF IInv, Owned
  <2>2. InHand(k) \subseteq Unmanaged(k) \cup attached[k]
    BY DEF InHand, IInv, LocalsInv
  <2> QED
    BY <2>1, <2>2 DEF Apart
<1> QED
  BY <1>1, CaptureInvariant, PTL

LEMMA ShortQueue ==
  ASSUME NEW q \in Seq(Frame), Len(q) <= QueueLimit
  PROVE  IsFiniteSet(Indexes(q)) /\ Cardinality(Indexes(q)) <= QueueLimit
<1> DEFINE two == {q[1].index, q[2].index}
<1>1. Indexes(q) \subseteq two
  <2>1. DOMAIN q = 1..Len(q) /\ Len(q) \in Nat
    OBVIOUS
  <2>2. \A i \in DOMAIN q : i = 1 \/ i = 2
    BY <2>1 DEF QueueLimit
  <2> QED
    BY <2>2 DEF Indexes
<1>2. IsFiniteSet({q[1].index}) /\ Cardinality({q[1].index}) = 1
  BY FS_Singleton
<1>3. IsFiniteSet(two) /\ Cardinality(two) <= 2
  <2>1. two = {q[1].index} \cup {q[2].index}
    OBVIOUS
  <2>2. /\ IsFiniteSet({q[1].index} \cup {q[2].index})
        /\ Cardinality({q[1].index} \cup {q[2].index}) =
             IF q[2].index \in {q[1].index} THEN 1 ELSE 1 + 1
    BY <1>2, FS_AddElement, Zenon
  <2> QED
    BY <2>1, <2>2
<1>4. IsFiniteSet(Indexes(q)) /\ Cardinality(Indexes(q)) <= Cardinality(two)
  BY <1>1, <1>3, FS_Subset
<1> QED
  BY <1>3, <1>4, FS_CardinalityType DEF QueueLimit

\* Whatever happens to the frames, the syncer's two places are all that is
\* missing from a driver that has lost nothing, for any number of buffers.
THEOREM DriverIsFed == Spec => []DriverFed
<1>1. IInv => DriverFed
  <2> SUFFICES ASSUME IInv, NEW k \in Kinds, capturing, pc \in {"loop", "select"},
                      empty[k] = {}, filled[k] = <<>>
               PROVE  ~(Cardinality(Lost(k)) + QueueLimit < Cardinality(Buffers))
    BY DEF DriverFed
  <2>1. InHand(k) = {}
    BY DEF InHand
  <2>2. Lost(k) = Buffers \ Indexes(queue[k])
    BY <2>1, EmptySequence DEF Lost
  <2>3. /\ IsFiniteSet(Indexes(queue[k])) /\ Cardinality(Indexes(queue[k])) <= QueueLimit
        /\ Indexes(queue[k]) \subseteq Buffers
    BY ShortQueue, IndexesAreBuffers DEF IInv, TypeOK
  <2>4. IsFiniteSet(Lost(k)) /\ Cardinality(Lost(k)) = Cardinality(Buffers) - Cardinality(Indexes(queue[k]))
    BY <2>2, <2>3, FS_Difference, CaptureAssumption, Buffers \cap Indexes(queue[k]) = Indexes(queue[k])
  <2> QED
    BY <2>3, <2>4, FS_CardinalityType, CaptureAssumption DEF QueueLimit
<1> QED
  BY <1>1, CaptureInvariant, PTL

\* A buffer is in one place, and the driver gets enough of them back, for any
\* number of buffers.
THEOREM BuffersAlwaysGoRound == Spec => []BuffersGoRound
  BY BufferHasOneOwner, DriverIsFed, PTL DEF BuffersGoRound

-------------------------------------------------------------------------------
(***************************************************************************)
(* Where buffers are lost                                                  *)
(***************************************************************************)

\* The places of a buffer that is not lost.
Kept(k) == empty[k] \cup Indexes(filled[k]) \cup Indexes(queue[k]) \cup InHand(k)

LEMMA LostIsNotKept ==
  ASSUME NEW k \in Kinds, capturing' => capturing /\ Kept(k) \subseteq Kept(k)'
  PROVE  Lost(k)' \subseteq Lost(k)
  BY DEF Lost, Kept

\* Nothing but the first frame leaves a queue by its head, ...
LEMMA HeadAndTail ==
  ASSUME NEW q \in Seq(Frame), q # <<>>
  PROVE  Indexes(q) \subseteq {Head(q).index} \cup Indexes(Tail(q))
<1>1. /\ \A i \in DOMAIN q : i # 1 => i - 1 \in DOMAIN Tail(q) /\ Tail(q)[i - 1] = q[i]
      /\ Head(q) = q[1]
  OBVIOUS
<1> QED
  BY <1>1 DEF Indexes

\* ... and what is pushed does not leave it.
LEMMA PushKeeps ==
  ASSUME NEW k \in Kinds, queue \in [Kinds -> Seq(Frame)], empty \in [Kinds -> SUBSET Buffers],
         NEW f \in Frame, ready, Push(k, f)
  PROVE  /\ f.index \in Indexes(queue'[k])
         /\ empty[k] \cup Indexes(queue[k]) \subseteq empty'[k] \cup Indexes(queue'[k])
         /\ \A j \in Kinds \ {k} : queue'[j] = queue[j] /\ empty'[j] = empty[j]
<1> DEFINE o == Overridden(k, f)
           q == Append(o, f)
           kept == IF Len(q) > QueueLimit THEN Tail(q) ELSE q
<1>1. o \in Seq(Frame)
  BY DEF Overridden
<1>2. /\ queue' = [queue EXCEPT ![k] = kept]
      /\ empty' = [empty EXCEPT ![k] = @ \cup (Indexes(queue[k]) \ Indexes(kept))]
  BY DEF Push
<1> HIDE DEF o
<1>3. q \in Seq(Frame) /\ Len(q) = Len(o) + 1 /\ q[Len(o) + 1] = f /\ Len(o) \in Nat
  BY <1>1
<1>4. f.index \in Indexes(kept)
  <2>1. CASE Len(q) > QueueLimit
    <3>1. Len(o) \in DOMAIN Tail(q) /\ Tail(q)[Len(o)] = f
      BY <1>1, <1>3, <2>1 DEF QueueLimit
    <3> QED
      BY <2>1, <3>1 DEF Indexes
  <2>2. CASE ~(Len(q) > QueueLimit)
    <3>1. Len(o) + 1 \in DOMAIN q
      BY <1>3
    <3> QED
      BY <1>3, <2>2, <3>1 DEF Indexes
  <2> QED
    BY <2>1, <2>2
<1> HIDE DEF kept
<1>5. queue'[k] = kept /\ empty'[k] = empty[k] \cup (Indexes(queue[k]) \ Indexes(kept))
  BY <1>2
<1>6. \A j \in Kinds \ {k} : queue'[j] = queue[j] /\ empty'[j] = empty[j]
  BY <1>2
<1> QED
  BY <1>4, <1>5, <1>6

\* poll() has nothing in a guard before it dequeues the video buffer.
VideoInv == pc = "video" => \A k \in Kinds : Unmanaged(k) = {}

LEMMA VideoStep ==
  ASSUME IInv, VideoInv, [Next]_vars
  PROVE  VideoInv'
<1>1. CASE PollMd
  <2>1. pc = "md" /\ mgr = NoBuffer
    BY <1>1 DEF PollMd, IInv, LocalsInv
  <2>2. mgr' = mgr \/ \E x : mgr' = [mgr EXCEPT !["md"] = [data |-> x, managed |-> TRUE]]
    BY <1>1 DEF PollMd
  <2> QED
    BY <2>1, <2>2 DEF VideoInv, Unmanaged, NoBuffer
<1>2. CASE Thread /\ ~PollMd
  BY <1>2 DEF Thread, Loop, Select, PollVideo, Upload, Callback, Return, VideoInv
<1>3. CASE Driver \/ Sensor \/ UNCHANGED vars
  <2>1. pc' = "video" => pc = "video" /\ mgr' = mgr
    BY <1>3 DEF Driver, Arrive, Sensor, StreamOn, SyncerStart, SensorStart, StartCallbacks, SensorStop,
                StopCallbacks, Close, FlushQueues, Join, vars, tvars
  <2> QED
    BY <2>1 DEF VideoInv, Unmanaged
<1> QED
  BY <1>1, <1>2, <1>3 DEF Next

Explained(k) ==
  \/ Lost(k)' \subseteq Lost(k)
  \/ ~ready
  \/ (pc = "callback" /\ (~streaming \/ mgr[k].data # pulled[k]))
  \/ (pc = "upload" /\ mgr[k].data \notin {None, pulled'[k]})

LEMMA OthersLoseNothing ==
  ASSUME IInv, NEW k \in Kinds, Driver \/ Sensor \/ Loop \/ Select \/ UNCHANGED vars
  PROVE  Explained(k)
<1>1. CASE Driver
  <2>1. PICK j \in Kinds : Arrive(j)
    BY <1>1 DEF Driver
  <2>2. InHand(k)' = InHand(k) /\ UNCHANGED <<queue, capturing>>
    BY <2>1 DEF Arrive, InHand, Unmanaged, tvars, svars
  <2>3. empty[k] \cup Indexes(filled[k]) \subseteq empty'[k] \cup Indexes(filled'[k])
    <3>1. CASE UNCHANGED <<empty, filled>>
      BY <3>1
    <3>2. CASE ~UNCHANGED <<empty, filled>>
      <4> DEFINE i == CHOOSE i \in empty[j] : TRUE
                 x == [index |-> i, sequence |-> next[j]]
      <4>1. /\ i \in empty[j]
            /\ empty' = [empty EXCEPT ![j] = @ \ {i}]
            /\ filled' = [filled EXCEPT ![j] = Append(@, x)]
        BY <2>1, <3>2 DEF Arrive
      <4>2. x \in Frame /\ x.index = i
        BY <4>1 DEF IInv, TypeOK, Frame
      <4> HIDE DEF i, x
      <4>3. Indexes(Append(filled[j], x)) = Indexes(filled[j]) \cup {i}
        BY <4>2, AppendFrame DEF IInv, TypeOK
      <4> QED
        BY <4>1, <4>3 DEF IInv, TypeOK
    <3> QED
      BY <3>1, <3>2
  <2> QED
    BY <2>2, <2>3, LostIsNotKept DEF Kept, Explained
<1>2. CASE Sensor
  <2>1. CASE StreamOn \/ FlushQueues \/ Join
    BY <2>1 DEF StreamOn, FlushQueues, Join, IInv, SyncerInv, Explained
  <2>2. CASE Close
    BY <2>2 DEF Close, Lost, Explained
  <2>3. CASE SyncerStart \/ SensorStart \/ StartCallbacks \/ SensorStop \/ StopCallbacks
    <3>1. UNCHANGED <<empty, filled, queue, capturing, pc, mgr, pulled>>
      BY <2>3 DEF SyncerStart, SensorStart, StartCallbacks, SensorStop, StopCallbacks, dvars, tvars
    <3> QED
      BY <3>1, LostIsNotKept DEF Kept, InHand, Unmanaged, Explained
  <2> QED
    BY <1>2, <2>1, <2>2, <2>3 DEF Sensor
<1>3. CASE Loop \/ Select
  <2>1. UNCHANGED <<empty, filled, queue, capturing>> /\ InHand(k) = {}
    BY <1>3 DEF Loop, Select, dvars, svars, InHand
  <2> QED
    BY <2>1, LostIsNotKept DEF Kept, Explained
<1>4. CASE UNCHANGED vars
  BY <1>4, LostIsNotKept DEF vars, dvars, tvars, svars, Kept, InHand, Unmanaged, Explained
<1> QED
  BY <1>1, <1>2, <1>3, <1>4

\* A frame that is dequeued and pushed is in the syncer's queue.
LEMMA PushLosesNothing ==
  ASSUME NEW k \in Kinds, IInv, NEW j \in Kinds, filled[j] # <<>>, Push(j, Head(filled[j])), ready,
         filled' = [filled EXCEPT ![j] = Tail(@)], InHand(k) = {}, UNCHANGED capturing
  PROVE  Explained(k)
<1>1. /\ Head(filled[j]) \in Frame
      /\ Indexes(filled[j]) \subseteq {Head(filled[j]).index} \cup Indexes(Tail(filled[j]))
  BY Dequeued, HeadAndTail DEF IInv, TypeOK
<1>2. /\ Head(filled[j]).index \in Indexes(queue'[j])
      /\ empty[j] \cup Indexes(queue[j]) \subseteq empty'[j] \cup Indexes(queue'[j])
      /\ \A i \in Kinds \ {j} : queue'[i] = queue[i] /\ empty'[i] = empty[i]
  BY <1>1, PushKeeps DEF IInv, TypeOK
<1>3. filled'[j] = Tail(filled[j]) /\ \A i \in Kinds \ {j} : filled'[i] = filled[i]
  BY DEF IInv, TypeOK
<1> QED
  BY <1>1, <1>2, <1>3, LostIsNotKept DEF Kept, Explained

LEMMA PollLosesNothing ==
  ASSUME IInv, VideoInv, NEW k \in Kinds, PollMd \/ PollVideo
  PROVE  Explained(k)
<1> SUFFICES ASSUME ready PROVE Explained(k)
  BY DEF Explained
<1>0. UNCHANGED capturing /\ InHand(k) = {}
  BY DEF PollMd, PollVideo, svars, VideoInv, InHand
<1>1. CASE PollMd
  <2>1. CASE "md" \in rfds
    BY <1>0, <1>1, <2>1, PushLosesNothing DEF PollMd, IInv, LocalsInv, Kinds
  <2>2. CASE "md" \notin rfds
    BY <1>0, <1>1, <2>2, LostIsNotKept DEF PollMd, Kept, Explained
  <2> QED
    BY <2>1, <2>2
<1>2. CASE PollVideo
  <2> DEFINE f == Head(filled["video"])
  <2>1. CASE "video" \in rfds /\ Push("video", f)
    BY <1>0, <1>2, <2>1, PushLosesNothing DEF PollVideo, IInv, LocalsInv, Kinds
  <2>2. CASE "video" \in rfds /\ ~Push("video", f)
    <3>1. /\ filled' = [filled EXCEPT !["video"] = Tail(@)] /\ UNCHANGED queue
          /\ \/ empty' = [empty EXCEPT !["video"] = @ \cup {f.index}]
             \/ /\ mgr' = [mgr EXCEPT !["video"] = [data |-> f.index, managed |-> FALSE]]
                /\ pc' = "upload" /\ UNCHANGED empty
      BY <1>2, <2>2 DEF PollVideo
    <3>2. "video" \in Kinds /\ filled["video"] # <<>>
      BY <1>2, <2>2 DEF PollVideo, IInv, LocalsInv, Kinds
    <3>3. /\ f.index \in Buffers /\ f.index # None
          /\ Indexes(filled["video"]) \subseteq {f.index} \cup Indexes(Tail(filled["video"]))
      BY <3>2, Dequeued, HeadAndTail, CaptureAssumption DEF IInv, TypeOK, Frame
    <3>4. /\ filled'["video"] = Tail(filled["video"])
          /\ \A j \in Kinds \ {"video"} : filled'[j] = filled[j]
      BY <3>1, <3>2 DEF IInv, TypeOK
    <3>5. CASE empty' = [empty EXCEPT !["video"] = @ \cup {f.index}]
      <4>1. /\ empty'["video"] = empty["video"] \cup {f.index}
            /\ \A j \in Kinds \ {"video"} : empty'[j] = empty[j]
        BY <3>2, <3>5 DEF IInv, TypeOK
      <4> QED
        BY <1>0, <3>1, <3>3, <3>4, <4>1, LostIsNotKept DEF Kept, Explained
    <3>6. CASE /\ mgr' = [mgr EXCEPT !["video"] = [data |-> f.index, managed |-> FALSE]]
               /\ pc' = "upload" /\ UNCHANGED empty
      <4>1. mgr'["video"] = [data |-> f.index, managed |-> FALSE]
        BY <3>2, <3>6 DEF IInv, TypeOK
      <4>2. InHand("video")' = {f.index}
        BY <3>3, <3>6, <4>1 DEF InHand, Unmanaged
      <4> QED
        BY <1>0, <3>1, <3>3, <3>4, <3>6, <4>2, LostIsNotKept DEF Kept, Explained
    <3> QED
      BY <3>1, <3>5, <3>6
  <2>3. CASE "video" \notin rfds
    BY <1>0, <1>2, <2>3, LostIsNotKept DEF PollVideo, Kept, Explained
  <2> QED
    BY <2>1, <2>2, <2>3
<1> QED
  BY <1>1, <1>2

LEMMA UploadLosesExplained ==
  ASSUME IInv, NEW k \in Kinds, Upload
  PROVE  Explained(k)
<1> DEFINE trimmed == IF started /\ ready THEN Trimmed ELSE queue
           thrown(j) == Indexes(queue[j]) \ Indexes(trimmed[j])
           heads == [j \in Kinds |-> Head(trimmed[j]).index]
<1>1. pc = "upload" /\ UNCHANGED <<filled, capturing>> /\ InHand(k) = Unmanaged(k)
  BY DEF Upload, svars, InHand
<1>2. trimmed[k] \in Seq(Frame)
  BY TrimmedFrames DEF IInv, TypeOK
<1>3. CASE /\ Matched(trimmed)
           /\ queue' = [j \in Kinds |-> Tail(trimmed[j])]
           /\ empty' = [j \in Kinds |-> empty[j] \cup thrown(j)]
           /\ pulled' = heads
           /\ pc' = "callback"
  <2>1. trimmed[k] # <<>>
    BY <1>3 DEF Matched
  <2>2. Indexes(trimmed[k]) \subseteq {Head(trimmed[k]).index} \cup Indexes(Tail(trimmed[k]))
    BY <1>2, <2>1, HeadAndTail
  <2>3. pulled'[k] = Head(trimmed[k]).index /\ InHand(k)' = {pulled'[k]}
    BY <1>3 DEF InHand
  <2>4. queue'[k] = Tail(trimmed[k]) /\ empty'[k] = empty[k] \cup thrown(k)
    BY <1>3
  <2>5. CASE mgr[k].data \in {None, pulled'[k]}
    <3>1. Unmanaged(k) \subseteq {pulled'[k]}
      BY <2>5 DEF Unmanaged
    <3> HIDE DEF trimmed
    <3> QED
      BY <1>1, <2>2, <2>3, <2>4, <3>1, LostIsNotKept DEF Kept, Explained
  <2>6. CASE mgr[k].data \notin {None, pulled'[k]}
    BY <1>1, <2>6 DEF Explained
  <2> QED
    BY <2>5, <2>6
<1>4. CASE /\ queue' = trimmed
           /\ empty' = [j \in Kinds |-> empty[j] \cup thrown(j) \cup Unmanaged(j)]
  <2>1. queue'[k] = trimmed[k] /\ empty'[k] = empty[k] \cup thrown(k) \cup Unmanaged(k)
    BY <1>4
  <2> HIDE DEF trimmed
  <2> QED
    BY <1>1, <2>1, LostIsNotKept DEF Kept, Explained
<1> QED
  BY <1>3, <1>4 DEF Upload

LEMMA CallbackLosesExplained ==
  ASSUME IInv, NEW k \in Kinds, Callback
  PROVE  Explained(k)
<1>1. pc = "callback" /\ UNCHANGED <<filled, queue, capturing>> /\ InHand(k) = {pulled[k]}
  BY DEF Callback, svars, InHand
<1>2. CASE streaming /\ mgr[k].data = pulled[k]
  <2>1. pulled[k] \in attached[k]
    BY <1>1 DEF IInv, LocalsInv
  <2>2. empty'[k] = empty[k] \cup {pulled[k]}
    BY <1>2, <2>1 DEF Callback
  <2> QED
    BY <1>1, <2>2, LostIsNotKept DEF Kept, Explained
<1>3. CASE ~(streaming /\ mgr[k].data = pulled[k])
  BY <1>1, <1>3 DEF Explained
<1> QED
  BY <1>2, <1>3

\* The three ways to lose a buffer are all there are, for any number of buffers:
\* whatever else poll() does with a frame, the driver gets its buffer back.
THEOREM EveryLossIsExplained == Spec => LossIsExplained
<1>1. Init => VideoInv
  BY DEF Init, VideoInv
<1>2. IInv /\ VideoInv /\ [Next]_vars => VideoInv'
  BY VideoStep
<1>3. IInv /\ VideoInv /\ [Next]_vars => \A k \in Kinds : Explained(k)
  BY OthersLoseNothing, PollLosesNothing, UploadLosesExplained, CallbackLosesExplained DEF Next, Thread
<1>4. IInv /\ VideoInv /\ [Next]_vars =>
        [\A k \in Kinds :
           \/ Lost(k)' \subseteq Lost(k)
           \/ ~ready
           \/ (pc = "callback" /\ (~streaming \/ mgr[k].data # pulled[k]))
           \/ (pc = "upload" /\ mgr[k].data \notin {None, pulled'[k]})]_vars
  BY <1>3 DEF Explained
<1> QED
  BY <1>1, <1>2, <1>4, CaptureInvariant, PTL DEF Spec, LossIsExplained

-------------------------------------------------------------------------------
(***************************************************************************)
(* The order of the pairs                                                  *)
(***************************************************************************)

\* The sequence numbers of q go up, from lo and below hi.
Rising(q, lo, hi) ==
  /\ \A i \in DOMAIN q : lo <= q[i].sequence /\ q[i].sequence < hi
  /\ \A i, j \in DOMAIN q : i < j => q[i].sequence < q[j].sequence

\* The video frames on their way to the callback are in line: what was shown,
\* what the syncer keeps, what the driver has filled, what is still to come.
LineInv ==
  \E m \in shown["video"]..next["video"] :
    Rising(queue["video"], shown["video"], m) /\ Rising(filled["video"], m, next["video"])

\* Wider bounds hold too.
LEMMA RisingWider ==
  ASSUME NEW q \in Seq(Frame), NEW lo \in Nat, NEW hi \in Nat, Rising(q, lo, hi),
         NEW low \in Nat, NEW high \in Nat, low <= lo, hi <= high
  PROVE  Rising(q, low, high)
<1>1. \A i \in DOMAIN q : q[i] \in Frame
  OBVIOUS
<1>2. \A i \in DOMAIN q : q[i].sequence \in Nat
  BY <1>1, CaptureAssumption DEF Frame
<1> QED BY <1>2 DEF Rising

\* A frame that is no older than all of them may join.
LEMMA RisingAppend ==
  ASSUME NEW q \in Seq(Frame), NEW lo \in Nat, NEW hi \in Nat, Rising(q, lo, hi),
         NEW f \in Frame, lo <= f.sequence, hi <= f.sequence
  PROVE  Rising(Append(q, f), lo, f.sequence + 1)
<1> DEFINE r == Append(q, f)
<1>1. /\ Len(q) \in Nat /\ DOMAIN q = 1..Len(q) /\ DOMAIN r = 1..Len(q) + 1
      /\ \A i \in 1..Len(q) : r[i] = q[i] /\ q[i] \in Frame
      /\ r[Len(q) + 1] = f
  OBVIOUS
<1> HIDE DEF r
<1>2. f.sequence \in Nat /\ \A i \in 1..Len(q) : q[i].sequence \in Nat
  BY <1>1, CaptureAssumption DEF Frame
<1>3. ASSUME NEW i \in DOMAIN r PROVE lo <= r[i].sequence /\ r[i].sequence < f.sequence + 1
  <2>1. CASE i \in 1..Len(q)
    BY <1>1, <1>2, <2>1 DEF Rising
  <2>2. CASE i = Len(q) + 1
    BY <1>1, <1>2, <2>2
  <2> QED BY <1>1, <2>1, <2>2
<1>4. ASSUME NEW i \in DOMAIN r, NEW j \in DOMAIN r, i < j PROVE r[i].sequence < r[j].sequence
  <2>1. i \in 1..Len(q)
    BY <1>1, <1>4
  <2>2. CASE j \in 1..Len(q)
    BY <1>1, <1>2, <1>4, <2>1, <2>2 DEF Rising
  <2>3. CASE j = Len(q) + 1
    BY <1>1, <1>2, <2>1, <2>3 DEF Rising
  <2> QED BY <1>1, <2>2, <2>3
<1> QED BY <1>3, <1>4 DEF Rising, r

\* Without its head the rest is above the head.
LEMMA RisingTail ==
  ASSUME NEW q \in Seq(Frame), q # <<>>, NEW lo \in Nat, NEW hi \in Nat, Rising(q, lo, hi)
  PROVE  /\ Head(q).sequence \in lo..hi - 1
         /\ Rising(Tail(q), Head(q).sequence + 1, hi)
         /\ Rising(Tail(q), lo, hi)
<1> DEFINE r == Tail(q)
<1>1. /\ \A i \in DOMAIN r : i + 1 \in DOMAIN q /\ r[i] = q[i + 1] /\ i \in Nat /\ i # 0
      /\ 1 \in DOMAIN q /\ Head(q) = q[1] /\ \A i \in DOMAIN q : q[i] \in Frame
  OBVIOUS
<1> HIDE DEF r
<1>2. \A i \in DOMAIN q : q[i].sequence \in Nat
  BY <1>1, CaptureAssumption DEF Frame
<1>3. ASSUME NEW i \in DOMAIN r
      PROVE  Head(q).sequence + 1 <= r[i].sequence /\ lo <= r[i].sequence /\ r[i].sequence < hi
  <2>1. i + 1 \in DOMAIN q /\ 1 < i + 1 /\ r[i] = q[i + 1]
    BY <1>1
  <2>2. q[1].sequence < q[i + 1].sequence
    BY <1>1, <2>1 DEF Rising
  <2> QED BY <1>1, <1>2, <2>1, <2>2 DEF Rising
<1>4. ASSUME NEW i \in DOMAIN r, NEW j \in DOMAIN r, i < j PROVE r[i].sequence < r[j].sequence
  <2>1. i + 1 < j + 1
    BY <1>1, <1>4
  <2> QED BY <1>1, <2>1 DEF Rising
<1> QED BY <1>1, <1>2, <1>3, <1>4 DEF Rising, r

\* A frame that is filled in later than those in line joins the line at its end.
LEMMA ArriveInLine ==
  ASSUME IInv, LineInv, NEW k \in Kinds, Arrive(k)
  PROVE  LineInv'
<1>1. /\ UNCHANGED <<queue, shown>> /\ next \in [Kinds -> 0..MaxSeq] /\ MaxSeq \in Nat
      /\ shown["video"] \in Nat /\ filled \in [Kinds -> Seq(Frame)] /\ queue \in [Kinds -> Seq(Frame)]
      /\ "video" \in Kinds
  BY CaptureAssumption DEF Arrive, IInv, TypeOK, tvars, Kinds
<1>2. CASE k # "video"
  <2>1. next'["video"] = next["video"] /\ filled'["video"] = filled["video"]
    BY <1>1, <1>2 DEF Arrive
  <2> QED BY <1>1, <2>1 DEF LineInv
<1>3. CASE k = "video"
  <2>1. next["video"] \in Nat /\ next["video"] < MaxSeq /\ next'["video"] = next["video"] + 1
    BY <1>1, <1>3 DEF Arrive
  <2>2. PICK m \in shown["video"]..next["video"] :
          Rising(queue["video"], shown["video"], m) /\ Rising(filled["video"], m, next["video"])
    BY DEF LineInv
  <2>3. m \in Nat /\ m \in shown["video"]..next["video"] + 1 /\ m <= next["video"]
    BY <1>1, <2>1, <2>2
  <2>4. CASE UNCHANGED filled
    <3>1. Rising(filled["video"], m, next["video"] + 1)
      BY <1>1, <2>1, <2>2, <2>3, RisingWider
    <3> QED BY <1>1, <2>1, <2>2, <2>3, <2>4, <3>1 DEF LineInv
  <2>5. CASE ~UNCHANGED filled
    <3> DEFINE x == [index |-> CHOOSE i \in empty[k] : TRUE, sequence |-> next[k]]
    <3>1. (CHOOSE i \in empty[k] : TRUE) \in empty[k] /\ filled' = [filled EXCEPT ![k] = Append(@, x)]
      BY <2>5 DEF Arrive
    <3>2. x \in Frame /\ x.sequence = next["video"]
      BY <1>1, <1>3, <3>1 DEF IInv, TypeOK, Frame
    <3>3. filled'["video"] = Append(filled["video"], x)
      BY <1>1, <1>3, <3>1
    <3> HIDE DEF x
    <3>4. Rising(filled'["video"], m, next["video"] + 1)
      BY <1>1, <2>1, <2>2, <2>3, <3>2, <3>3, RisingAppend
    <3> QED BY <1>1, <2>1, <2>2, <2>3, <3>4 DEF LineInv
  <2> QED BY <2>4, <2>5
<1> QED BY <1>2, <1>3

\* The frame that poll() dequeues is the next in line after the syncer's.
LEMMA PollInLine ==
  ASSUME IInv, LineInv, PollVideo
  PROVE  LineInv'
<1>1. /\ UNCHANGED <<next, shown>> /\ next["video"] \in Nat /\ shown["video"] \in Nat
      /\ filled["video"] \in Seq(Frame) /\ queue["video"] \in Seq(Frame)
      /\ "video" \in DOMAIN filled /\ "video" \in DOMAIN queue
  BY CaptureAssumption DEF PollVideo, IInv, TypeOK, Kinds
<1>2. PICK m \in shown["video"]..next["video"] :
        Rising(queue["video"], shown["video"], m) /\ Rising(filled["video"], m, next["video"])
  BY DEF LineInv
<1>3. m \in Nat /\ shown["video"] <= m /\ m <= next["video"]
  BY <1>1, <1>2
<1>4. CASE "video" \notin rfds
  <2>1. UNCHANGED <<filled, queue>>
    BY <1>4 DEF PollVideo
  <2> QED BY <1>1, <1>2, <2>1 DEF LineInv
<1>5. CASE "video" \in rfds
  <2> DEFINE f == Head(filled["video"])
  <2>1. filled["video"] # <<>> /\ filled'["video"] = Tail(filled["video"])
    BY <1>1, <1>5 DEF PollVideo, IInv, LocalsInv
  <2>2. /\ f \in Frame /\ f.sequence \in m..next["video"] - 1
        /\ Rising(filled'["video"], f.sequence + 1, next["video"])
    BY <1>1, <1>2, <1>3, <2>1, RisingTail, TailFrames
  <2>3. /\ f.sequence \in Nat /\ f.sequence + 1 \in Nat /\ m <= f.sequence /\ m <= f.sequence + 1
        /\ f.sequence + 1 \in shown["video"]..next["video"] /\ shown["video"] <= f.sequence
    BY <1>1, <1>3, <2>2
  <2>4. CASE UNCHANGED queue
    <3>1. Rising(queue["video"], shown["video"], f.sequence + 1)
      BY <1>1, <1>2, <1>3, <2>3, RisingWider
    <3> QED BY <1>1, <2>2, <2>3, <2>4, <3>1 DEF LineInv
  <2>5. CASE ~UNCHANGED queue
    <3> DEFINE q == Append(queue["video"], f)
    <3>1. queue'["video"] = q \/ queue'["video"] = Tail(q)
      BY <1>1, <1>5, <2>5 DEF PollVideo, Push, Overridden
    <3>2. q \in Seq(Frame) /\ q # <<>> /\ Rising(q, shown["video"], f.sequence + 1)
      <4>1. q \in Seq(Frame) /\ q # <<>>
        BY <1>1, <2>2
      <4> HIDE DEF f
      <4>2. Rising(q, shown["video"], f.sequence + 1)
        BY <1>1, <1>2, <1>3, <2>2, <2>3, RisingAppend
      <4> QED BY <4>1, <4>2
    <3> HIDE DEF q, f
    <3>3. Rising(queue'["video"], shown["video"], f.sequence + 1)
      BY <1>1, <2>3, <3>1, <3>2, RisingTail
    <3> QED BY <1>1, <2>2, <2>3, <3>3 DEF LineInv
  <2> QED BY <2>4, <2>5
<1> QED BY <1>4, <1>5

\* What pull_video_with_metadata() leaves of the line.
LEMMA TrimmedInLine ==
  ASSUME IInv, LineInv,
         NEW trimmed, trimmed = (IF started /\ ready THEN Trimmed ELSE queue)
  PROVE  \E m \in shown["video"]..next["video"] :
           /\ trimmed["video"] \in Seq(Frame)
           /\ Rising(trimmed["video"], shown["video"], m) /\ Rising(filled["video"], m, next["video"])
<1>1. PICK m \in shown["video"]..next["video"] :
        Rising(queue["video"], shown["video"], m) /\ Rising(filled["video"], m, next["video"])
  BY DEF LineInv
<1>2. /\ shown["video"] \in Nat /\ next["video"] \in Nat /\ queue["video"] \in Seq(Frame) /\ "video" \in Kinds
  BY CaptureAssumption DEF IInv, TypeOK, Kinds
<1>3. m \in Nat
  BY <1>1, <1>2
<1>4. CASE trimmed["video"] = queue["video"]
  BY <1>1, <1>2, <1>4
<1>5. CASE trimmed["video"] # queue["video"]
  <2>1. Stale("video") /\ trimmed["video"] = Tail(queue["video"]) /\ queue["video"] # <<>>
    BY <1>2, <1>5 DEF Trimmed, Stale
  <2>2. Tail(queue["video"]) \in Seq(Frame) /\ Rising(Tail(queue["video"]), shown["video"], m)
    BY <1>1, <1>2, <1>3, <2>1, RisingTail
  <2> QED BY <1>1, <2>1, <2>2
<1> QED BY <1>4, <1>5

\* The pair that is shown has one sequence number, above all that were shown.
LEMMA UploadInLine ==
  ASSUME IInv, LineInv, Upload
  PROVE  /\ LineInv'
         /\ pc' = "callback" => shown'["video"] = shown'["md"] /\ shown'["video"] > shown["video"]
<1> DEFINE trimmed == IF started /\ ready THEN Trimmed ELSE queue
<1>1. PICK m \in shown["video"]..next["video"] :
        /\ trimmed["video"] \in Seq(Frame)
        /\ Rising(trimmed["video"], shown["video"], m) /\ Rising(filled["video"], m, next["video"])
  BY TrimmedInLine
<1>2. UNCHANGED <<filled, next>> /\ shown["video"] \in Nat /\ next["video"] \in Nat
  BY CaptureAssumption DEF Upload, IInv, TypeOK, Kinds
<1>3. m \in Nat /\ m <= next["video"]
  BY <1>1, <1>2
<1>4. CASE started /\ ready /\ Matched(trimmed)
  <2>1. /\ queue' = [k \in Kinds |-> Tail(trimmed[k])]
        /\ shown' = [k \in Kinds |-> Head(trimmed[k]).sequence + 1]
    BY <1>4 DEF Upload
  <2>2. /\ trimmed["video"] # <<>> /\ Head(trimmed["video"]).sequence = Head(trimmed["md"]).sequence
        /\ "video" \in Kinds /\ "md" \in Kinds
    BY <1>4 DEF Matched, Kinds
  <2> DEFINE n == Head(trimmed["video"]).sequence
  <2>3. /\ shown'["video"] = n + 1 /\ shown'["md"] = n + 1 /\ queue'["video"] = Tail(trimmed["video"])
    BY <2>1, <2>2
  <2> HIDE DEF trimmed
  <2>4. n \in shown["video"]..m - 1 /\ Rising(Tail(trimmed["video"]), n + 1, m)
    BY <1>1, <1>2, <1>3, <2>2, RisingTail
  <2>5. n + 1 > shown["video"] /\ m \in n + 1..next["video"]
    BY <1>2, <1>3, <2>4
  <2> HIDE DEF n
  <2> QED BY <1>1, <1>2, <2>3, <2>4, <2>5 DEF LineInv
<1>5. CASE ~(started /\ ready /\ Matched(trimmed))
  <2>1. queue' = trimmed /\ UNCHANGED shown /\ pc' = "loop"
    BY <1>5 DEF Upload, Return
  <2> HIDE DEF trimmed
  <2> QED BY <1>1, <1>2, <2>1 DEF LineInv
<1> QED BY <1>4, <1>5

\* The other steps leave the line as it is, or empty it.
LEMMA OthersInLine ==
  ASSUME IInv, LineInv, Sensor \/ Loop \/ Select \/ PollMd \/ Callback \/ UNCHANGED vars
  PROVE  LineInv'
<1> USE DEF dvars, tvars, svars
<1>1. /\ shown["video"] \in Nat /\ next["video"] \in Nat
      /\ next["video"] <= MaxSeq /\ MaxSeq \in Nat /\ "video" \in Kinds
  BY CaptureAssumption DEF IInv, TypeOK, Kinds
<1>2. PICK m \in shown["video"]..next["video"] :
        Rising(queue["video"], shown["video"], m) /\ Rising(filled["video"], m, next["video"])
  BY DEF LineInv
<1>3. \A lo, hi \in Nat : Rising(<<>>, lo, hi)
  BY DEF Rising
<1>4. ASSUME shown'["video"] = shown["video"], next'["video"] = next["video"],
             queue'["video"] \in {queue["video"], <<>>}, filled'["video"] \in {filled["video"], <<>>}
      PROVE  LineInv'
  <2>1. Rising(queue'["video"], shown["video"], m) /\ Rising(filled'["video"], m, next["video"])
    BY <1>1, <1>2, <1>3, <1>4
  <2> QED BY <1>2, <1>4, <2>1 DEF LineInv
<1>5. CASE StreamOn
  <2>1. /\ shown'["video"] = 0 /\ next'["video"] = 0 /\ filled'["video"] = <<>>
        /\ queue'["video"] = <<>>
    BY <1>1, <1>5 DEF StreamOn, IInv, SyncerInv
  <2> QED BY <1>3, <2>1 DEF LineInv
<1>6. CASE FlushQueues
  <2>1. queue'["video"] = <<>> /\ UNCHANGED <<shown, next, filled>>
    BY <1>1, <1>6 DEF FlushQueues
  <2> QED BY <1>4, <2>1
<1>7. CASE Join
  <2>1. filled'["video"] = <<>> /\ UNCHANGED <<shown, next, queue>>
    BY <1>1, <1>7 DEF Join
  <2> QED BY <1>4, <2>1
<1>8. CASE SyncerStart \/ SensorStart \/ StartCallbacks \/ SensorStop \/ StopCallbacks \/ Close
  <2>1. UNCHANGED <<queue, shown, next, filled>>
    BY <1>8 DEF SyncerStart, SensorStart, StartCallbacks, SensorStop, StopCallbacks, Close
  <2> QED BY <1>4, <2>1
<1>9. CASE Loop \/ Select \/ Callback \/ UNCHANGED vars
  <2>1. UNCHANGED <<queue, shown, next, filled>>
    BY <1>9 DEF Loop, Select, Callback, Return, vars
  <2> QED BY <1>4, <2>1
<1>10. CASE PollMd
  <2>1. UNCHANGED <<shown, next>> /\ filled'["video"] = filled["video"]
    BY <1>1, <1>10 DEF PollMd, IInv, TypeOK
  <2>2. queue'["video"] = queue["video"]
    BY <1>1, <1>10 DEF PollMd, Push, IInv, TypeOK
  <2> QED BY <1>4, <2>1, <2>2
<1> QED BY <1>5, <1>6, <1>7, <1>8, <1>9, <1>10 DEF Sensor

\* The callback sees every video frame once and in order, with the metadata of
\* the same number, for any number of buffers and whatever the nodes have lost.
THEOREM PairsComeInOrder == Spec => PairsInOrder
<1>1. Init => LineInv
  BY DEF Init, LineInv, Rising, Kinds
<1>2. IInv /\ LineInv /\ [Next]_vars => LineInv'
  BY ArriveInLine, PollInLine, UploadInLine, OthersInLine DEF Next, Thread, Driver
<1>3. IInv /\ LineInv /\ [Next]_vars =>
        [pc = "upload" /\ pc' = "callback" =>
           shown'["video"] = shown'["md"] /\ shown'["video"] > shown["video"]]_vars
  <2> SUFFICES ASSUME IInv, LineInv, Next, pc = "upload", pc' = "callback"
               PROVE  Upload
    BY UploadInLine
  <2>1. ASSUME Driver \/ Sensor PROVE pc' \in {pc, "loop", "none"}
    BY <2>1 DEF Driver, Arrive, Sensor, StreamOn, SyncerStart, SensorStart, StartCallbacks, SensorStop,
                StopCallbacks, Close, FlushQueues, Join, tvars
  <2>2. ASSUME Thread PROVE Upload
    BY <2>2 DEF Thread, Loop, Select, PollMd, PollVideo, Callback
  <2> QED BY <2>1, <2>2 DEF Next
<1> QED
  BY <1>1, <1>2, <1>3, CaptureInvariant, PTL DEF Spec, PairsInOrder
==============================================================================
