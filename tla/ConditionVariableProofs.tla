----------------------- MODULE ConditionVariableProofs ------------------------
(***************************************************************************)
(* Proofs about the two components that are at work around a condition     *)
(* variable of their own: single_consumer_queue, for every capacity, every *)
(* set of items and every number of writers and readers, and               *)
(* options_watcher, for any options, subscriptions and callers.            *)
(*                                                                         *)
(* The queue notifies once for every place and every item, and what has to *)
(* be shown is that no notification is missing.  The watcher does without: *)
(* a notification may be lost on a thread that is not waiting, and the     *)
(* thread still reports what it knows and still ends before the watcher.   *)
(***************************************************************************)
EXTENDS SingleConsumerQueue, OptionsWatcher, FiniteSetTheorems, TLAPS

(***************************************************************************)
(* single_consumer_queue                                                   *)
(***************************************************************************)

\* A writer inside the wait of blocking_enqueue still has its item.
HoldsItem == \A p \in Producers : ppc[p] \in {"waiting", "woken"} => item[p] \in Item

TypeInv == TypeOK /\ HoldsItem

-------------------------------------------------------------------------------
\* push_back, with the pop_front that makes room, keeps the container within
\* _cap and leaves it non-empty.
LEMMA PushedFits ==
  ASSUME NEW q \in Seq(Item), Len(q) <= Cap, NEW i \in Item
  PROVE  /\ Fifo!Pushed(q, i) \in Seq(Item)
         /\ Len(Fifo!Pushed(q, i)) \in 1..Cap
         /\ Len(Fifo!Pushed(q, i)) = IF Len(q) < Cap THEN Len(q) + 1 ELSE Len(q)
<1>1. Cap \in Nat \ {0}
  BY QueueAssumption
<1>2. CASE Len(q) < Cap
  BY <1>1, <1>2 DEF Fifo!Pushed
<1>3. CASE ~(Len(q) < Cap)
  <2>1. q # <<>> /\ Len(q) = Cap
    BY <1>1, <1>3
  <2>2. Tail(q) \in Seq(Item) /\ Len(Tail(q)) = Len(q) - 1
    BY <2>1
  <2>3. Fifo!Pushed(q, i) = Append(Tail(q), i)
    BY <1>3 DEF Fifo!Pushed
  <2> QED
    BY <1>1, <2>1, <2>2, <2>3
<1> QED
  BY <1>2, <1>3

\* pop_front takes one item off a container that has one.
LEMMA TailShorter ==
  ASSUME NEW q \in Seq(Item), q # <<>>
  PROVE  Tail(q) \in Seq(Item) /\ Len(Tail(q)) = Len(q) - 1 /\ Head(q) \in Item
  OBVIOUS

-------------------------------------------------------------------------------
\* The constructor establishes the type invariant.
LEMMA TypeInit == Init => TypeInv
<1> SUFFICES ASSUME Init PROVE TypeInv
  OBVIOUS
<1>1. Cap \in Nat \ {0}
  BY QueueAssumption
<1> QED
  BY <1>1 DEF Init, TypeInv, TypeOK, HoldsItem

\* Pushing an item preserves the type invariant.
LEMMA PushType ==
  ASSUME TypeInv, NEW p \in Producers, NEW i \in Item, Push(p, i)
  PROVE  TypeInv'
<1>1. queue' \in Seq(Item) /\ Len(queue') <= Cap
  BY PushedFits, QueueAssumption DEF Push, TypeInv, TypeOK
<1>2. fate' \in [Item -> {"new", "held", "queued", "delivered", "dropped", "cleared"}]
  BY DEF Push, TypeInv, TypeOK
<1> QED
  BY <1>1, <1>2 DEF Push, TypeInv, TypeOK, HoldsItem

\* Rejecting an item preserves the type invariant.
LEMMA RejectType ==
  ASSUME TypeInv, NEW p \in Producers, NEW i \in Item, Reject(p, i)
  PROVE  TypeInv'
  BY DEF Reject, TypeInv, TypeOK, HoldsItem

\* Taking the front item, and waking a writer, preserves the type invariant.
LEMMA PopFrontType ==
  ASSUME TypeInv, NEW c \in Consumers, PopFront(c)
  PROVE  TypeInv'
<1>1. queue' \in Seq(Item) /\ Len(queue') <= Cap
  BY TailShorter, QueueAssumption DEF PopFront, TypeInv, TypeOK
<1>2. ppc' \in [Producers -> {"idle", "waiting", "woken", "notify"}] /\ HoldsItem'
  BY DEF PopFront, NotifyEnqueuer, EnqWaiting, TypeInv, TypeOK, HoldsItem
<1> QED
  BY <1>1, <1>2 DEF PopFront, TypeInv, TypeOK

\* Returning with nothing preserves the type invariant.
LEMMA ReturnEmptyType ==
  ASSUME TypeInv, NEW c \in Consumers, ReturnEmpty(c)
  PROVE  TypeInv'
  BY DEF ReturnEmpty, TypeInv, TypeOK, HoldsItem

\* Emptying the container and waking everybody preserves the type invariant.
LEMMA EmptyType ==
  ASSUME TypeInv, EmptyAndWakeAll, accepting' \in BOOLEAN, UNCHANGED item
  PROVE  TypeInv'
<1>1. queue' \in Seq(Item) /\ Len(queue') <= Cap
  BY QueueAssumption DEF EmptyAndWakeAll
<1> QED
  BY <1>1 DEF EmptyAndWakeAll, TypeInv, TypeOK, HoldsItem

\* Every step preserves the type invariant.
LEMMA TypeNext == TypeInv /\ [Next]_vars => TypeInv'
<1> SUFFICES ASSUME TypeInv, [Next]_vars PROVE TypeInv'
  OBVIOUS
<1>1. CASE UNCHANGED vars
  BY <1>1 DEF vars, TypeInv, TypeOK, HoldsItem
<1>2. ASSUME NEW p \in Producers, NEW i \in Item, Enqueue(p, i) PROVE TypeInv'
  BY <1>2, PushType, RejectType DEF Enqueue
<1>3. ASSUME NEW p \in Producers, NEW i \in Item, BlockingEnqueue(p, i) PROVE TypeInv'
  <2>1. CASE HasRoom
    BY <1>3, <2>1, PushType, RejectType DEF BlockingEnqueue
  <2>2. CASE ~HasRoom
    BY <1>3, <2>2 DEF BlockingEnqueue, TypeInv, TypeOK, HoldsItem
  <2> QED
    BY <2>1, <2>2
<1>4. ASSUME NEW p \in Producers, BlockingEnqueueResumes(p) PROVE TypeInv'
  <2>1. item[p] \in Item
    BY <1>4 DEF BlockingEnqueueResumes, TypeInv, HoldsItem
  <2>2. CASE HasRoom
    BY <1>4, <2>1, <2>2, PushType, RejectType DEF BlockingEnqueueResumes
  <2>3. CASE ~HasRoom
    BY <1>4, <2>1, <2>3 DEF BlockingEnqueueResumes, TypeInv, TypeOK, HoldsItem
  <2> QED
    BY <2>2, <2>3
<1>5. ASSUME NEW p \in Producers, NotifyDequeuer(p) PROVE TypeInv'
  BY <1>5 DEF NotifyDequeuer, DeqWaiting, TypeInv, TypeOK, HoldsItem
<1>6. ASSUME NEW c \in Consumers, Dequeue(c) PROVE TypeInv'
  <2>1. CASE DequeueReady
    BY <1>6, <2>1, PopFrontType, ReturnEmptyType DEF Dequeue
  <2>2. CASE ~DequeueReady
    BY <1>6, <2>2 DEF Dequeue, TypeInv, TypeOK, HoldsItem
  <2> QED
    BY <2>1, <2>2
<1>7. ASSUME NEW c \in Consumers, DequeueTimesOut(c) PROVE TypeInv'
  BY <1>7, PopFrontType, ReturnEmptyType DEF DequeueTimesOut
<1>8. CASE Stop
  BY <1>8, EmptyType DEF Stop
<1>9. CASE Clear
  BY <1>9, EmptyType DEF Clear, TypeInv, TypeOK
<1>10. CASE Start
  BY <1>10 DEF Start, TypeInv, TypeOK, HoldsItem
<1>11. CASE SpuriousWakeup
  BY <1>11 DEF SpuriousWakeup, EnqWaiting, DeqWaiting, TypeInv, TypeOK, HoldsItem
<1> QED
  BY <1>1, <1>2, <1>3, <1>4, <1>5, <1>6, <1>7, <1>8, <1>9, <1>10, <1>11 DEF Next

\* The container never exceeds _cap and every variable keeps its type,
\* whatever the threads do.
THEOREM TypeCorrect == Spec => []TypeOK
<1>1. Spec => []TypeInv
  BY TypeInit, TypeNext, PTL DEF Spec
<1>2. TypeInv => TypeOK
  BY DEF TypeInv
<1> QED
  BY <1>1, <1>2, PTL

-------------------------------------------------------------------------------
(***************************************************************************)
(* The abstract FIFO                                                       *)
(***************************************************************************)

\* Each critical section is one operation of the abstract FIFO, or none.
LEMMA StepRefines ==
  ASSUME TypeInv, [Next]_vars
  PROVE  [Fifo!Next]_<<queue, accepting>>
<1> USE DEF Fifo!Next
<1>1. CASE UNCHANGED vars
  BY <1>1 DEF vars
<1>2. ASSUME NEW p \in Producers, NEW i \in Item, Push(p, i) PROVE Fifo!Put(i)
  BY <1>2 DEF Push, Fifo!Put
<1>3. ASSUME NEW p \in Producers, NEW i \in Item, Reject(p, i)
      PROVE  UNCHANGED <<queue, accepting>>
  BY <1>3 DEF Reject
<1>4. ASSUME NEW c \in Consumers, PopFront(c) PROVE Fifo!Take
  BY <1>4 DEF PopFront, Fifo!Take
<1>5. ASSUME NEW c \in Consumers, ReturnEmpty(c) PROVE UNCHANGED <<queue, accepting>>
  BY <1>5 DEF ReturnEmpty
<1>6. ASSUME NEW p \in Producers, NEW i \in Item, Enqueue(p, i) \/ BlockingEnqueue(p, i)
      PROVE  [Fifo!Next]_<<queue, accepting>>
  BY <1>2, <1>3, <1>6 DEF Enqueue, BlockingEnqueue
<1>7. ASSUME NEW p \in Producers, BlockingEnqueueResumes(p)
      PROVE  [Fifo!Next]_<<queue, accepting>>
  <2>1. item[p] \in Item
    BY <1>7 DEF BlockingEnqueueResumes, TypeInv, HoldsItem
  <2> QED
    BY <1>2, <1>3, <1>7, <2>1 DEF BlockingEnqueueResumes
<1>8. ASSUME NEW p \in Producers, NotifyDequeuer(p) PROVE UNCHANGED <<queue, accepting>>
  BY <1>8 DEF NotifyDequeuer
<1>9. ASSUME NEW c \in Consumers, Dequeue(c) \/ DequeueTimesOut(c)
      PROVE  [Fifo!Next]_<<queue, accepting>>
  BY <1>4, <1>5, <1>9 DEF Dequeue, DequeueTimesOut
<1>10. CASE Stop
  BY <1>10 DEF Stop, EmptyAndWakeAll, Fifo!Stop
<1>11. CASE Clear
  BY <1>11 DEF Clear, EmptyAndWakeAll, Fifo!Clear
<1>12. CASE Start
  BY <1>12 DEF Start, Fifo!Start
<1>13. CASE SpuriousWakeup
  BY <1>13 DEF SpuriousWakeup
<1> QED
  BY <1>1, <1>6, <1>7, <1>8, <1>9, <1>10, <1>11, <1>12, <1>13 DEF Next

\* The condition-variable implementation of the queue does nothing that the
\* abstract bounded FIFO would not do.
THEOREM Refinement == Spec => ImplementsFifo
<1>1. Spec => []TypeInv
  BY TypeInit, TypeNext, PTL DEF Spec
<1>2. Init => Fifo!Init
  BY DEF Init, Fifo!Init
<1>3. TypeInv /\ [Next]_vars => [Fifo!Next]_(Fifo!vars)
  BY StepRefines DEF Fifo!vars
<1> QED
  BY <1>1, <1>2, <1>3, PTL DEF Spec, ImplementsFifo, Fifo!Spec

-------------------------------------------------------------------------------
(***************************************************************************)
(* A stopped queue                                                         *)
(***************************************************************************)

\* No step fills a stopped queue or puts a thread to sleep in it.
LEMMA StoppedNext ==
  ASSUME TypeInv, StoppedIsQuiet, [Next]_vars
  PROVE  StoppedIsQuiet'
<1> USE DEF StoppedIsQuiet, EnqWaiting, DeqWaiting
<1>1. CASE UNCHANGED vars
  BY <1>1 DEF vars
<1>2. ASSUME NEW p \in Producers, NEW i \in Item, Push(p, i) PROVE StoppedIsQuiet'
  BY <1>2 DEF Push
<1>3. ASSUME NEW p \in Producers, NEW i \in Item, Reject(p, i) PROVE StoppedIsQuiet'
  BY <1>3 DEF Reject, TypeInv, TypeOK
<1>4. ASSUME NEW c \in Consumers, PopFront(c) PROVE StoppedIsQuiet'
  BY <1>4 DEF PopFront, NotifyEnqueuer, TypeInv, TypeOK
<1>5. ASSUME NEW c \in Consumers, ReturnEmpty(c) PROVE StoppedIsQuiet'
  BY <1>5 DEF ReturnEmpty, TypeInv, TypeOK
<1>6. ~accepting => HasRoom
  BY QueueAssumption DEF HasRoom
<1>7. ASSUME NEW p \in Producers, NEW i \in Item, Enqueue(p, i) \/ BlockingEnqueue(p, i)
      PROVE  StoppedIsQuiet'
  BY <1>2, <1>3, <1>6, <1>7 DEF Enqueue, BlockingEnqueue
<1>8. ASSUME NEW p \in Producers, BlockingEnqueueResumes(p) PROVE StoppedIsQuiet'
  <2>1. item[p] \in Item
    BY <1>8 DEF BlockingEnqueueResumes, TypeInv, HoldsItem
  <2> QED
    BY <1>2, <1>3, <1>6, <1>8, <2>1 DEF BlockingEnqueueResumes
<1>9. ASSUME NEW p \in Producers, NotifyDequeuer(p) PROVE StoppedIsQuiet'
  BY <1>9 DEF NotifyDequeuer, TypeInv, TypeOK
<1>10. ASSUME NEW c \in Consumers, Dequeue(c) \/ DequeueTimesOut(c) PROVE StoppedIsQuiet'
  BY <1>4, <1>5, <1>10 DEF Dequeue, DequeueTimesOut, DequeueReady
<1>11. CASE Stop
  BY <1>11 DEF Stop, EmptyAndWakeAll
<1>12. CASE Clear
  BY <1>12 DEF Clear, EmptyAndWakeAll
<1>13. CASE Start
  BY <1>13 DEF Start
<1>14. CASE SpuriousWakeup
  BY <1>14 DEF SpuriousWakeup
<1> QED
  BY <1>1, <1>7, <1>8, <1>9, <1>10, <1>11, <1>12, <1>13, <1>14 DEF Next

\* stop() leaves an empty container in which nobody sleeps, until start().
THEOREM StopIsQuiet == Spec => []StoppedIsQuiet
<1>1. Init => StoppedIsQuiet
  BY DEF Init, StoppedIsQuiet
<1>2. TypeInv /\ StoppedIsQuiet /\ [Next]_vars => StoppedIsQuiet'
  BY StoppedNext
<1> QED
  BY <1>1, <1>2, TypeInit, TypeNext, PTL DEF Spec

-------------------------------------------------------------------------------
(***************************************************************************)
(* No lost wake-up                                                         *)
(***************************************************************************)

\* The two wake-up invariants, with what they need: that nobody sleeps in a
\* stopped queue (a writer that is rejected uses up its wake-up without
\* filling a place).
WakeInv == StoppedIsQuiet /\ NoLostEnqueuer /\ NoLostDequeuer

\* The sets of woken and notifying threads are finite.
LEMMA FiniteThreads ==
  /\ IsFiniteSet(EnqWoken) /\ Cardinality(EnqWoken) \in Nat
  /\ IsFiniteSet(Notifying) /\ Cardinality(Notifying) \in Nat
  /\ IsFiniteSet(DeqWoken) /\ Cardinality(DeqWoken) \in Nat
<1>1. EnqWoken \in SUBSET Producers /\ Notifying \in SUBSET Producers
  BY DEF EnqWoken, Notifying
<1>2. DeqWoken \in SUBSET Consumers
  BY DEF DeqWoken
<1>3. IsFiniteSet(Producers) /\ IsFiniteSet(Consumers)
  BY QueueAssumption
<1>4. IsFiniteSet(EnqWoken) /\ IsFiniteSet(Notifying) /\ IsFiniteSet(DeqWoken)
  BY <1>1, <1>2, <1>3, FS_Subset
<1> QED
  BY <1>4, FS_CardinalityType

\* A writer that was woken, or has just called, uses one free place and owes
\* one notification.
LEMMA PushWakes ==
  ASSUME TypeInv, WakeInv, NEW p \in Producers, NEW i \in Item, Push(p, i),
         ppc[p] = "idle" \/ (ppc[p] = "woken" /\ HasRoom)
  PROVE  NoLostEnqueuer' /\ NoLostDequeuer'
<1>1. /\ EnqWaiting' = EnqWaiting
      /\ EnqWoken' = EnqWoken \ {p}
      /\ Notifying' = Notifying \cup {p}
      /\ p \notin Notifying
  BY DEF Push, EnqWaiting, EnqWoken, Notifying, TypeInv, TypeOK
<1>2. DeqWaiting' = DeqWaiting /\ DeqWoken' = DeqWoken
  BY DEF Push, DeqWaiting, DeqWoken
<1>3. Len(queue') = IF Len(queue) < Cap THEN Len(queue) + 1 ELSE Len(queue)
  BY PushedFits DEF Push, TypeInv, TypeOK
<1>4. Len(queue) \in Nat /\ Cap \in Nat /\ Len(queue) <= Cap
  BY QueueAssumption DEF TypeInv, TypeOK
<1>5. Cardinality(EnqWoken') = IF ppc[p] = "woken" THEN Cardinality(EnqWoken) - 1
                                                   ELSE Cardinality(EnqWoken)
  <2>1. p \in EnqWoken <=> ppc[p] = "woken"
    BY DEF EnqWoken
  <2> QED
    BY <1>1, <2>1, FiniteThreads, FS_RemoveElement
<1>6. Cardinality(Notifying') = Cardinality(Notifying) + 1
  BY <1>1, FiniteThreads, FS_AddElement
<1>7. NoLostEnqueuer'
  BY <1>1, <1>3, <1>4, <1>5, FiniteThreads DEF WakeInv, NoLostEnqueuer, HasRoom
<1>8. NoLostDequeuer'
  BY <1>2, <1>3, <1>4, <1>6, FiniteThreads DEF WakeInv, NoLostDequeuer
<1> QED
  BY <1>7, <1>8

\* A writer is only rejected by a stopped queue, in which nobody sleeps.
LEMMA RejectWakes ==
  ASSUME TypeInv, WakeInv, NEW p \in Producers, NEW i \in Item, Reject(p, i)
  PROVE  NoLostEnqueuer' /\ NoLostDequeuer'
<1>1. EnqWaiting' = {} /\ DeqWaiting' = {}
  BY DEF Reject, WakeInv, StoppedIsQuiet, EnqWaiting, DeqWaiting, TypeInv, TypeOK
<1> QED
  BY <1>1 DEF NoLostEnqueuer, NoLostDequeuer

\* The place that a reader frees has a writer woken for it, if any sleeps;
\* the reader leaves with an item, so its own wake-up is not wasted.
LEMMA PopFrontWakes ==
  ASSUME TypeInv, WakeInv, NEW c \in Consumers, PopFront(c)
  PROVE  NoLostEnqueuer' /\ NoLostDequeuer'
<1>1. Len(queue') = Len(queue) - 1 /\ Len(queue) \in Nat /\ Cap \in Nat
  BY TailShorter, QueueAssumption DEF PopFront, TypeInv, TypeOK
<1>2. Notifying' = Notifying
  BY DEF PopFront, NotifyEnqueuer, EnqWaiting, Notifying, TypeInv, TypeOK
<1>3. DeqWoken' = DeqWoken \ {c} /\ DeqWaiting' = DeqWaiting \ {c}
  BY DEF PopFront, DeqWoken, DeqWaiting, TypeInv, TypeOK
<1>4. Cardinality(DeqWoken') >= Cardinality(DeqWoken) - 1
  BY <1>3, FiniteThreads, FS_RemoveElement
<1>5. Cardinality(DeqWoken') \in Nat
  BY <1>3, FiniteThreads, FS_RemoveElement, FS_CardinalityType
<1>6. NoLostDequeuer'
  BY <1>1, <1>2, <1>3, <1>4, <1>5, FiniteThreads DEF WakeInv, NoLostDequeuer
<1>7. CASE EnqWaiting = {} /\ UNCHANGED ppc
  BY <1>6, <1>7 DEF NoLostEnqueuer, EnqWaiting
<1>8. ASSUME NEW p \in EnqWaiting, ppc' = [ppc EXCEPT ![p] = "woken"]
      PROVE  NoLostEnqueuer'
  <2>1. EnqWoken' = EnqWoken \cup {p} /\ p \notin EnqWoken
    BY <1>8 DEF EnqWaiting, EnqWoken, TypeInv, TypeOK
  <2>2. Cardinality(EnqWoken') = Cardinality(EnqWoken) + 1
    BY <2>1, FiniteThreads, FS_AddElement
  <2>3. Len(queue) + Cardinality(EnqWoken) >= Cap
    BY DEF WakeInv, NoLostEnqueuer
  <2> QED
    BY <1>1, <2>2, <2>3, FiniteThreads DEF NoLostEnqueuer
<1> QED
  BY <1>6, <1>7, <1>8 DEF PopFront, NotifyEnqueuer

\* A reader leaves with nothing only when there is nothing.
LEMMA ReturnEmptyWakes ==
  ASSUME TypeInv, WakeInv, NEW c \in Consumers, ReturnEmpty(c)
  PROVE  NoLostEnqueuer' /\ NoLostDequeuer'
<1>1. EnqWaiting' = EnqWaiting /\ EnqWoken' = EnqWoken /\ Notifying' = Notifying
  BY DEF ReturnEmpty, EnqWaiting, EnqWoken, Notifying
<1>2. queue' = <<>> /\ queue = <<>>
  BY DEF ReturnEmpty
<1>3. DeqWoken' = DeqWoken \ {c}
  BY DEF ReturnEmpty, DeqWoken, TypeInv, TypeOK
<1>4. Cardinality(DeqWoken') \in Nat
  BY <1>3, FiniteThreads, FS_RemoveElement, FS_CardinalityType
<1> QED
  BY <1>1, <1>2, <1>4, FiniteThreads DEF WakeInv, NoLostEnqueuer, NoLostDequeuer

\* stop() and clear() leave nobody asleep.
LEMMA EmptyWakes ==
  ASSUME EmptyAndWakeAll
  PROVE  NoLostEnqueuer' /\ NoLostDequeuer'
<1>1. EnqWaiting' = {} /\ DeqWaiting' = {}
  BY DEF EmptyAndWakeAll, EnqWaiting, DeqWaiting
<1> QED
  BY <1>1 DEF NoLostEnqueuer, NoLostDequeuer

\* Waking one more sleeper, for whatever reason, loses no wake-up.
LEMMA SpuriousWakes ==
  ASSUME TypeInv, WakeInv, SpuriousWakeup
  PROVE  NoLostEnqueuer' /\ NoLostDequeuer'
<1>1. queue' = queue /\ Len(queue) \in Nat /\ Cap \in Nat
  BY QueueAssumption DEF SpuriousWakeup, TypeInv, TypeOK
<1>2. ASSUME NEW p \in EnqWaiting, ppc' = [ppc EXCEPT ![p] = "woken"], UNCHANGED cpc
      PROVE  NoLostEnqueuer' /\ NoLostDequeuer'
  <2>1. EnqWoken' = EnqWoken \cup {p} /\ p \notin EnqWoken /\ Notifying' = Notifying
    BY <1>2 DEF EnqWaiting, EnqWoken, Notifying, TypeInv, TypeOK
  <2>2. Cardinality(EnqWoken') = Cardinality(EnqWoken) + 1
    BY <2>1, FiniteThreads, FS_AddElement
  <2>3. DeqWaiting' = DeqWaiting /\ DeqWoken' = DeqWoken
    BY <1>2 DEF DeqWaiting, DeqWoken
  <2> QED
    BY <1>1, <2>1, <2>2, <2>3, FiniteThreads DEF WakeInv, NoLostEnqueuer, NoLostDequeuer
<1>3. ASSUME NEW c \in DeqWaiting, cpc' = [cpc EXCEPT ![c] = "woken"], UNCHANGED ppc
      PROVE  NoLostEnqueuer' /\ NoLostDequeuer'
  <2>1. DeqWoken' = DeqWoken \cup {c} /\ c \notin DeqWoken
    BY <1>3 DEF DeqWaiting, DeqWoken, TypeInv, TypeOK
  <2>2. Cardinality(DeqWoken') = Cardinality(DeqWoken) + 1
    BY <2>1, FiniteThreads, FS_AddElement
  <2>3. EnqWaiting' = EnqWaiting /\ EnqWoken' = EnqWoken /\ Notifying' = Notifying
    BY <1>3 DEF EnqWaiting, EnqWoken, Notifying
  <2> QED
    BY <1>1, <2>2, <2>3, FiniteThreads DEF WakeInv, NoLostEnqueuer, NoLostDequeuer
<1> QED
  BY <1>2, <1>3 DEF SpuriousWakeup

\* Every step preserves the wake-up invariants.
LEMMA WakeNext ==
  ASSUME TypeInv, WakeInv, [Next]_vars
  PROVE  WakeInv'
<1> DEFINE Goal == NoLostEnqueuer' /\ NoLostDequeuer'
<1>0. Len(queue) \in Nat /\ Len(queue) <= Cap /\ Cap \in Nat
  BY QueueAssumption DEF TypeInv, TypeOK
<1>1. ASSUME UNCHANGED vars PROVE Goal
  <2>1. /\ EnqWaiting' = EnqWaiting /\ EnqWoken' = EnqWoken /\ Notifying' = Notifying
        /\ DeqWaiting' = DeqWaiting /\ DeqWoken' = DeqWoken /\ queue' = queue
    BY <1>1 DEF vars, EnqWaiting, EnqWoken, Notifying, DeqWaiting, DeqWoken
  <2> QED
    BY <2>1 DEF WakeInv, NoLostEnqueuer, NoLostDequeuer
<1>2. ASSUME NEW p \in Producers, NEW i \in Item, Enqueue(p, i) PROVE Goal
  BY <1>2, PushWakes, RejectWakes DEF Enqueue
<1>3. ASSUME NEW p \in Producers, NEW i \in Item, BlockingEnqueue(p, i) PROVE Goal
  <2>1. CASE HasRoom
    BY <1>3, <2>1, PushWakes, RejectWakes DEF BlockingEnqueue
  <2>2. CASE ~HasRoom
    <3>1. /\ EnqWoken' = EnqWoken /\ Notifying' = Notifying
          /\ DeqWaiting' = DeqWaiting /\ DeqWoken' = DeqWoken /\ queue' = queue
      BY <1>3, <2>2
         DEF BlockingEnqueue, EnqWoken, Notifying, DeqWaiting, DeqWoken, TypeInv, TypeOK
    <3> QED
      BY <1>0, <2>2, <3>1, FiniteThreads DEF HasRoom, WakeInv, NoLostEnqueuer, NoLostDequeuer
  <2> QED
    BY <2>1, <2>2
<1>4. ASSUME NEW p \in Producers, BlockingEnqueueResumes(p) PROVE Goal
  <2>1. item[p] \in Item
    BY <1>4 DEF BlockingEnqueueResumes, TypeInv, HoldsItem
  <2>2. CASE HasRoom
    BY <1>4, <2>1, <2>2, PushWakes, RejectWakes DEF BlockingEnqueueResumes
  <2>3. CASE ~HasRoom
    <3>1. /\ EnqWoken' = EnqWoken \ {p} /\ Notifying' = Notifying
          /\ DeqWaiting' = DeqWaiting /\ DeqWoken' = DeqWoken /\ queue' = queue
      BY <1>4, <2>3
         DEF BlockingEnqueueResumes, EnqWoken, Notifying, DeqWaiting, DeqWoken, TypeInv, TypeOK
    <3>2. Cardinality(EnqWoken') \in Nat
      BY <3>1, FiniteThreads, FS_RemoveElement, FS_CardinalityType
    <3> QED
      BY <1>0, <2>3, <3>1, <3>2 DEF HasRoom, WakeInv, NoLostEnqueuer, NoLostDequeuer
  <2> QED
    BY <2>2, <2>3
<1>5. ASSUME NEW p \in Producers, NotifyDequeuer(p) PROVE Goal
  <2>1. /\ EnqWaiting' = EnqWaiting /\ EnqWoken' = EnqWoken
        /\ Notifying' = Notifying \ {p} /\ p \in Notifying /\ queue' = queue
    BY <1>5 DEF NotifyDequeuer, EnqWaiting, EnqWoken, Notifying, TypeInv, TypeOK
  <2>2. Cardinality(Notifying') = Cardinality(Notifying) - 1
    BY <2>1, FiniteThreads, FS_RemoveElement
  <2>3. NoLostEnqueuer'
    BY <2>1 DEF WakeInv, NoLostEnqueuer
  <2>4. CASE DeqWaiting = {} /\ UNCHANGED cpc
    BY <2>3, <2>4 DEF NoLostDequeuer, DeqWaiting
  <2>5. ASSUME NEW c \in DeqWaiting, cpc' = [cpc EXCEPT ![c] = "woken"]
        PROVE  NoLostDequeuer'
    <3>1. DeqWoken' = DeqWoken \cup {c} /\ c \notin DeqWoken
      BY <2>5 DEF DeqWaiting, DeqWoken, TypeInv, TypeOK
    <3>2. Cardinality(DeqWoken') = Cardinality(DeqWoken) + 1
      BY <3>1, FiniteThreads, FS_AddElement
    <3>3. Len(queue) <= Cardinality(Notifying) + Cardinality(DeqWoken)
      BY DEF WakeInv, NoLostDequeuer
    <3> QED
      BY <1>0, <2>1, <2>2, <3>2, <3>3, FiniteThreads DEF NoLostDequeuer
  <2> QED
    BY <1>5, <2>3, <2>4, <2>5 DEF NotifyDequeuer
<1>6. ASSUME NEW c \in Consumers, Dequeue(c) PROVE Goal
  <2>1. CASE DequeueReady
    BY <1>6, <2>1, PopFrontWakes, ReturnEmptyWakes DEF Dequeue
  <2>2. CASE ~DequeueReady
    <3>1. /\ EnqWaiting' = EnqWaiting /\ EnqWoken' = EnqWoken /\ Notifying' = Notifying
          /\ DeqWoken' = DeqWoken \ {c} /\ queue' = queue /\ Len(queue) = 0
      BY <1>6, <2>2
         DEF Dequeue, DequeueReady, EnqWaiting, EnqWoken, Notifying, DeqWoken, TypeInv, TypeOK
    <3>2. Cardinality(DeqWoken') \in Nat
      BY <3>1, FiniteThreads, FS_RemoveElement, FS_CardinalityType
    <3> QED
      BY <3>1, <3>2, FiniteThreads DEF WakeInv, NoLostEnqueuer, NoLostDequeuer
  <2> QED
    BY <2>1, <2>2
<1>7. ASSUME NEW c \in Consumers, DequeueTimesOut(c) PROVE Goal
  BY <1>7, PopFrontWakes, ReturnEmptyWakes DEF DequeueTimesOut
<1>8. ASSUME Stop \/ Clear PROVE Goal
  BY <1>8, EmptyWakes DEF Stop, Clear
<1>9. ASSUME Start PROVE Goal
  <2>1. /\ EnqWaiting' = EnqWaiting /\ EnqWoken' = EnqWoken /\ Notifying' = Notifying
        /\ DeqWaiting' = DeqWaiting /\ DeqWoken' = DeqWoken /\ queue' = queue
    BY <1>9 DEF Start, EnqWaiting, EnqWoken, Notifying, DeqWaiting, DeqWoken
  <2> QED
    BY <2>1 DEF WakeInv, NoLostEnqueuer, NoLostDequeuer
<1>10. ASSUME SpuriousWakeup PROVE Goal
  BY <1>10, SpuriousWakes
<1>11. Goal
  BY <1>1, <1>2, <1>3, <1>4, <1>5, <1>6, <1>7, <1>8, <1>9, <1>10 DEF Next
<1> QED
  BY <1>11, StoppedNext DEF WakeInv

\* Nothing is stuck because a notification was missed: neither a writer that
\* sleeps while there is room, nor a reader that sleeps while there are items.
THEOREM NoLostWakeup == Spec => [](NoLostEnqueuer /\ NoLostDequeuer)
<1>1. Init => WakeInv
  BY DEF Init, WakeInv, StoppedIsQuiet, NoLostEnqueuer, NoLostDequeuer, EnqWaiting, DeqWaiting
<1>2. TypeInv /\ WakeInv /\ [Next]_vars => WakeInv'
  BY WakeNext
<1>3. WakeInv => NoLostEnqueuer /\ NoLostDequeuer
  BY DEF WakeInv
<1> QED
  BY <1>1, <1>2, <1>3, TypeInit, TypeNext, PTL DEF Spec

\* Nobody sleeps in vain, in a stopped queue or beside a place or an item, for
\* any number of writers and readers.
THEOREM NoSleepInVain == Spec => []NobodySleepsInVain
  BY StopIsQuiet, NoLostWakeup, PTL DEF NobodySleepsInVain

-------------------------------------------------------------------------------
(***************************************************************************)
(* options_watcher                                                         *)
(***************************************************************************)

\* The options to query are those of update_options() while it holds _mutex, so
\* that nobody erases one.
TodoInv == pc # "query" => todo = {}

\* The destructor begins when nobody is inside a call, and then nobody else
\* begins one.
DestructorInv ==
  /\ destructing => \A c \in Callers : callPc[c] \in {"idle", "stop", "stopping", "join", "destroyed"}
  /\ destructing => \A c, d \in Callers : c = d \/ callPc[c] = "idle" \/ callPc[d] = "idle"
  /\ \A c \in Callers : callPc[c] = "destroyed" => destructing /\ ~Running

HeldInv == Running => joinable

\* Between query() and raise() what is known of an option, and was not told
\* before, is among the updates, unless an earlier raise() found nobody.
Due(o) == IF o \in Reported THEN updated[o] ELSE told[o]

InformedInv ==
  /\ SleepsInformed
  /\ (pc = "query" /\ ~first) \/ pc \in {"updated", "raising"} =>
       \A o \in options : known[o] \in {Unknown, Due(o)} \/ (o \in missed /\ o \notin Reported)

WatcherInv == WatcherTypeOK /\ TodoInv /\ DestructorInv /\ HeldInv /\ InformedInv

-------------------------------------------------------------------------------
\* The calls that change what is registered or who subscribes.
LEMMA CallStep ==
  ASSUME WatcherInv, NEW c \in Callers, Call(c)
  PROVE  WatcherInv'
<1> USE DEF WatcherInv, WatcherTypeOK, TodoInv, DestructorInv, HeldInv, InformedInv, SleepsInformed,
            tvars, evars, hvars, Running, Due, Reported, Goto, Values
<1>1. ASSUME NEW o \in Options, Register(c, o) PROVE WatcherInv'
  BY <1>1 DEF Register, MutexFree
<1>2. ASSUME NEW o \in Options, Unregister(c, o) PROVE WatcherInv'
  BY <1>2 DEF Unregister, MutexFree
<1>3. ASSUME NEW s \in Slots, Subscribe(c, s) PROVE WatcherInv'
  BY <1>3 DEF Subscribe
<1>4. ASSUME NEW s \in Slots, Cancel(c, s) PROVE WatcherInv'
  BY <1>4 DEF Cancel
<1>5. CASE Destroy(c)
  BY <1>5 DEF Destroy
<1> QED
  BY <1>1, <1>2, <1>3, <1>4, <1>5 DEF Call

\* A caller on its way through start() or stop().
LEMMA CallerStep ==
  ASSUME WatcherInv, NEW c \in Callers, Caller(c)
  PROVE  WatcherInv'
<1> USE DEF WatcherInv, WatcherTypeOK, TodoInv, DestructorInv, HeldInv, InformedInv, SleepsInformed,
            tvars, evars, hvars, Running, Due, Reported, Goto, Values
<1>1. CASE ShouldStart(c)
  BY <1>1 DEF ShouldStart
<1>2. CASE StartChecks(c)
  BY <1>2 DEF StartChecks
<1>3. CASE Create(c)
  BY <1>3 DEF Create
<1>4. CASE ShouldStop(c)
  BY <1>4 DEF ShouldStop
<1>5. CASE StopNotifies(c)
  BY <1>5 DEF StopNotifies
<1>6. CASE StopChecks(c)
  BY <1>6 DEF StopChecks, Done
<1>7. CASE Join(c)
  BY <1>7 DEF Join, Done
<1> QED
  BY <1>1, <1>2, <1>3, <1>4, <1>5, <1>6, <1>7 DEF Caller

\* The thread.
LEMMA ThreadStep ==
  ASSUME WatcherInv, Thread
  PROVE  WatcherInv'
<1> USE DEF WatcherInv, WatcherTypeOK, TodoInv, DestructorInv, HeldInv, InformedInv, SleepsInformed,
            tvars, evars, hvars, Running, Due, Reported, Values
<1>1. CASE Check
  BY <1>1 DEF Check
<1>2. CASE Timeout
  BY <1>2 DEF Timeout
<1>3. CASE BeginUpdate
  <2>1. PICK isFirst \in BOOLEAN : Begin(isFirst)
    BY <1>3 DEF BeginUpdate
  <2>2. /\ first' = isFirst /\ updated' = [o \in Options |-> Unknown]
        /\ UNCHANGED <<options, known, subs, destructing, joinable, callPc, value, failing>>
        /\ pc \in {"first", "woken"} /\ (pc = "woken" <=> ~isFirst)
    BY <1>3, <2>1 DEF BeginUpdate, Begin
  <2>3. skips' \in 0..MaxSkips
    BY <2>1, WatcherAssumption DEF Begin
  <2>4. first' \in BOOLEAN /\ updated' \in [Options -> Values] /\ Reported' = {}
    <3>1. first' \in BOOLEAN /\ updated' \in [Options -> Values]
      BY <2>2
    <3>2. Reported' = {}
      BY <2>2
    <3> QED
      BY <2>2, <3>1, <3>2
  <2>5. CASE pc' = "query" /\ todo' = options /\ UNCHANGED hvars
    <3>1. WatcherTypeOK' /\ TodoInv' /\ DestructorInv' /\ HeldInv'
      BY <2>2, <2>3, <2>4, <2>5
    <3>2. SleepsInformed'
      BY <2>5
    <3>3. ~first' => pc = "woken"
      BY <2>2
    <3>4. ~first' => \A o \in options' : known'[o] \in {Unknown, told'[o]} \/ o \in missed'
      BY <2>2, <2>4, <2>5, <3>3
    <3>5. InformedInv'
      BY <2>4, <2>5, <3>2, <3>4
    <3> QED
      BY <3>1, <3>5 DEF WatcherInv
  <2>6. CASE EndUpdate(isFirst, known) /\ UNCHANGED todo
    <3>1. CASE isFirst
      BY <2>2, <2>3, <2>4, <2>6, <3>1 DEF EndUpdate
    <3>2. CASE ~isFirst
      BY <2>2, <2>3, <2>4, <2>6, <3>2 DEF EndUpdate
    <3> QED
      BY <3>1, <3>2
  <2> QED
    BY <2>1, <2>5, <2>6 DEF Begin
<1>4. CASE EndAfterSleep
  BY <1>4 DEF EndAfterSleep
<1>5. ASSUME NEW o \in Options, Query(o) PROVE WatcherInv'
  BY <1>5 DEF Query, Queried, EndUpdate
<1>6. CASE Notify
  BY <1>6 DEF Notify
<1>7. CASE Raise
  BY <1>7 DEF Raise
<1> QED
  BY <1>1, <1>2, <1>3, <1>4, <1>5, <1>6, <1>7 DEF Thread

\* An option that changes by itself.
LEMMA ChangeStep ==
  ASSUME WatcherInv, NEW o \in Options, Change(o)
  PROVE  WatcherInv'
  BY WatcherAssumption
     DEF Change, WatcherInv, WatcherTypeOK, TodoInv, DestructorInv, HeldInv, InformedInv,
         SleepsInformed, tvars, hvars, Running, Due, Reported, Values

\* The invariant is inductive.
LEMMA WatcherInvariant == WatcherSpec => []WatcherInv
<1>1. WatcherInit => WatcherInv
  <2> SUFFICES ASSUME WatcherInit PROVE WatcherInv
    OBVIOUS
  <2>1. destructing \in BOOLEAN /\ joinable \in BOOLEAN /\ first \in BOOLEAN
    BY Zenon DEF WatcherInit
  <2>2. value \in [Options -> 0..MaxValue] /\ skips \in 0..MaxSkips
    BY WatcherAssumption DEF WatcherInit
  <2>3. WatcherTypeOK
    BY <2>1, <2>2 DEF WatcherInit, WatcherTypeOK, Values
  <2> QED
    BY <2>3 DEF WatcherInit, WatcherInv, TodoInv, DestructorInv, HeldInv, InformedInv, SleepsInformed, Running
<1>2. WatcherInv /\ [WatcherNext]_wvars => WatcherInv'
  <2> SUFFICES ASSUME WatcherInv, [WatcherNext]_wvars PROVE WatcherInv'
    OBVIOUS
  <2>1. ASSUME NEW c \in Callers, Caller(c) \/ Call(c) PROVE WatcherInv'
    BY <2>1, CallerStep, CallStep
  <2>2. CASE Thread
    BY <2>2, ThreadStep
  <2>3. ASSUME NEW o \in Options, Change(o) PROVE WatcherInv'
    BY <2>3, ChangeStep
  <2>4. CASE UNCHANGED wvars
    BY <2>4 DEF wvars, tvars, evars, hvars, WatcherInv, WatcherTypeOK, TodoInv, DestructorInv, HeldInv, InformedInv,
                SleepsInformed, Running, Due, Reported, Values
  <2> QED
    BY <2>1, <2>2, <2>3, <2>4 DEF WatcherNext, Over
<1> QED
  BY <1>1, <1>2, PTL DEF WatcherSpec

-------------------------------------------------------------------------------
\* Every variable stays in its type; no option goes that the thread has yet to
\* visit.
THEOREM WatcherTypeCorrect == WatcherSpec => []WatcherTypeOK
<1>1. WatcherInv => WatcherTypeOK
  BY DEF WatcherInv
<1> QED
  BY <1>1, WatcherInvariant, PTL

\* stop() joins the thread, whoever else starts and stops it at the same time:
\* it does not run on when the watcher is gone.
THEOREM ThreadDiesFirst == WatcherSpec => []ThreadIsHeld
<1>1. WatcherInv => ThreadIsHeld
  BY DEF WatcherInv, DestructorInv, HeldInv, ThreadIsHeld
<1> QED
  BY <1>1, WatcherInvariant, PTL

\* The thread never goes to sleep on a change that it has seen and not told,
\* unless raise() found that the last subscriber had gone.
THEOREM NoUpdateIsDropped == WatcherSpec => []SleepsInformed
<1>1. WatcherInv => SleepsInformed
  BY DEF WatcherInv, InformedInv
<1> QED
  BY <1>1, WatcherInvariant, PTL
===============================================================================
