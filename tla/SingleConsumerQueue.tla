------------------------- MODULE SingleConsumerQueue -------------------------
(***************************************************************************)
(* single_consumer_queue<T> (rsutils/concurrency/concurrency.h) at the     *)
(* level of its mutex and its two condition variables.                     *)
(*                                                                         *)
(* A step is one critical section of _mutex.  A thread inside              *)
(* condition_variable::wait is "waiting"; a notification (or a spurious    *)
(* wake-up, which C++ allows) makes it "woken": it will take the mutex     *)
(* again and re-evaluate its predicate.  The writers notify _deq_cv after  *)
(* they released the mutex, so that is a step of its own; the readers      *)
(* notify _enq_cv while they still hold it.                                *)
(*                                                                         *)
(* Every item is handed to the queue once; `fate' remembers what became of *)
(* it.                                                                     *)
(***************************************************************************)
EXTENDS Naturals, Sequences, FiniteSets

CONSTANTS
  Item,         \* what is queued, each handed to the queue once
  NoItem,       \* a producer holds nothing
  Cap,          \* _cap
  Producers,    \* threads calling enqueue / blocking_enqueue
  Consumers     \* threads calling dequeue / try_dequeue (one, by the class's name)

\* Every capacity the library passes is positive; with a capacity of 0
\* blocking_enqueue could never return.
ASSUME QueueAssumption ==
  /\ Cap \in Nat \ {0}
  /\ NoItem \notin Item
  /\ IsFiniteSet(Producers)
  /\ IsFiniteSet(Consumers)

VARIABLES
  queue,      \* _queue
  accepting,  \* _accepting
  ppc,        \* where each producer is
  item,       \* the item a producer inside blocking_enqueue holds
  cpc,        \* where each consumer is
  fate        \* what happened to each item

vars == <<queue, accepting, ppc, item, cpc, fate>>

Fifo == INSTANCE BoundedFifo

\* Threads by where they are in their condition variable.
EnqWaiting == {p \in Producers : ppc[p] = "waiting"}
EnqWoken   == {p \in Producers : ppc[p] = "woken"}
Notifying  == {p \in Producers : ppc[p] = "notify"}
DeqWaiting == {c \in Consumers : cpc[c] = "waiting"}
DeqWoken   == {c \in Consumers : cpc[c] = "woken"}

Init ==
  /\ queue = <<>>
  /\ accepting = TRUE
  /\ ppc = [p \in Producers |-> "idle"]
  /\ item = [p \in Producers |-> NoItem]
  /\ cpc = [c \in Consumers |-> "idle"]
  /\ fate = [i \in Item |-> "new"]

-------------------------------------------------------------------------------
(***************************************************************************)
(* Writers                                                                 *)
(***************************************************************************)

\* enqueue() and the tail of blocking_enqueue(), both of which reject on a
\* stopped queue: the item goes to on_drop_callback.
Reject(p, i) ==
  /\ ~accepting
  /\ fate' = [fate EXCEPT ![i] = "dropped"]
  /\ ppc' = [ppc EXCEPT ![p] = "idle"]
  /\ item' = [item EXCEPT ![p] = NoItem]
  /\ UNCHANGED <<queue, accepting, cpc>>

\* Mutant: blocking_enqueue pushes without looking at _accepting.
Push_WhenStopped(p, i) ==
  /\ queue' = Fifo!Pushed(queue, i)
  /\ fate' = [j \in Item |-> IF j = i THEN "queued"
                             ELSE IF Len(queue) = Cap /\ j = Head(queue) THEN "dropped"
                             ELSE fate[j]]
  /\ ppc' = [ppc EXCEPT ![p] = "notify"]
  /\ item' = [item EXCEPT ![p] = NoItem]
  /\ UNCHANGED <<accepting, cpc>>

\* push_back under the mutex; the notification comes after it is released.
Push(p, i) ==
  /\ accepting
  /\ queue' = Fifo!Pushed(queue, i)
  /\ fate' = [j \in Item |-> IF j = i THEN "queued"
                             ELSE IF Len(queue) = Cap /\ j = Head(queue) THEN "dropped"
                             ELSE fate[j]]
  /\ ppc' = [ppc EXCEPT ![p] = "notify"]
  /\ item' = [item EXCEPT ![p] = NoItem]
  /\ UNCHANGED <<accepting, cpc>>

\* bool enqueue(T&& item): never waits.
Enqueue(p, i) ==
  /\ ppc[p] = "idle"
  /\ fate[i] = "new"
  /\ Reject(p, i) \/ Push(p, i)

\* blocking_enqueue() has the mutex, at the call or after a wake-up: it goes
\* on when there is room, or (again) waits for it.
HasRoom == Len(queue) < Cap

BlockingEnqueue(p, i) ==
  /\ ppc[p] = "idle"
  /\ fate[i] = "new"
  /\ \/ HasRoom /\ (Reject(p, i) \/ Push(p, i))
     \/ /\ ~HasRoom
        /\ ppc' = [ppc EXCEPT ![p] = "waiting"]
        /\ item' = [item EXCEPT ![p] = i]
        /\ fate' = [fate EXCEPT ![i] = "held"]
        /\ UNCHANGED <<queue, accepting, cpc>>

BlockingEnqueueResumes(p) ==
  /\ ppc[p] = "woken"
  /\ \/ HasRoom /\ (Reject(p, item[p]) \/ Push(p, item[p]))
     \/ /\ ~HasRoom
        /\ ppc' = [ppc EXCEPT ![p] = "waiting"]
        /\ UNCHANGED <<queue, accepting, item, cpc, fate>>

\* Mutant: the writer does not notify.
NotifyDequeuer_Silent(p) ==
  /\ ppc[p] = "notify"
  /\ ppc' = [ppc EXCEPT ![p] = "idle"]
  /\ UNCHANGED <<queue, accepting, item, cpc, fate>>

\* _deq_cv.notify_one(), the mutex no longer held.
NotifyDequeuer(p) ==
  /\ ppc[p] = "notify"
  /\ ppc' = [ppc EXCEPT ![p] = "idle"]
  /\ \/ /\ DeqWaiting = {}
        /\ UNCHANGED cpc
     \/ \E c \in DeqWaiting : cpc' = [cpc EXCEPT ![c] = "woken"]
  /\ UNCHANGED <<queue, accepting, item, fate>>

-------------------------------------------------------------------------------
(***************************************************************************)
(* Readers                                                                 *)
(***************************************************************************)

\* Mutant: the reader does not tell the writers there is room.
NotifyEnqueuer_Silent == UNCHANGED ppc

\* _enq_cv.notify_one() under the mutex.
NotifyEnqueuer ==
  \/ EnqWaiting = {} /\ UNCHANGED ppc
  \/ \E p \in EnqWaiting : ppc' = [ppc EXCEPT ![p] = "woken"]

\* The successful tail of dequeue() and try_dequeue().
PopFront(c) ==
  /\ queue # <<>>
  /\ queue' = Tail(queue)
  /\ fate' = [fate EXCEPT ![Head(queue)] = "delivered"]
  /\ cpc' = [cpc EXCEPT ![c] = "idle"]
  /\ NotifyEnqueuer
  /\ UNCHANGED <<accepting, item>>

\* dequeue() returns false.
ReturnEmpty(c) ==
  /\ queue = <<>>
  /\ cpc' = [cpc EXCEPT ![c] = "idle"]
  /\ UNCHANGED <<queue, accepting, ppc, item, fate>>

DequeueReady == ~accepting \/ queue # <<>>

\* bool dequeue(T*, timeout): the call, and every time the predicate is
\* evaluated after a wake-up.  try_dequeue() is the case with an item.
Dequeue(c) ==
  /\ cpc[c] \in {"idle", "woken"}
  /\ \/ DequeueReady /\ (PopFront(c) \/ ReturnEmpty(c))
     \/ /\ ~DequeueReady
        /\ cpc' = [cpc EXCEPT ![c] = "waiting"]
        /\ UNCHANGED <<queue, accepting, ppc, item, fate>>

\* wait_for gives up: it evaluates its predicate one last time.
DequeueTimesOut(c) ==
  /\ cpc[c] \in {"waiting", "woken"}
  /\ PopFront(c) \/ ReturnEmpty(c)

-------------------------------------------------------------------------------
(***************************************************************************)
(* Control                                                                 *)
(***************************************************************************)

\* _clear(): empty the container and wake everybody, under the mutex.
\* Nobody is told about the items that were in it.
EmptyAndWakeAll ==
  /\ queue' = <<>>
  /\ fate' = [i \in Item |-> IF fate[i] = "queued" THEN "cleared" ELSE fate[i]]
  /\ ppc' = [p \in Producers |-> IF ppc[p] = "waiting" THEN "woken" ELSE ppc[p]]
  /\ cpc' = [c \in Consumers |-> IF cpc[c] = "waiting" THEN "woken" ELSE cpc[c]]

Stop == accepting' = FALSE /\ EmptyAndWakeAll /\ UNCHANGED item

Clear == EmptyAndWakeAll /\ UNCHANGED <<accepting, item>>

Start == accepting' = TRUE /\ UNCHANGED <<queue, ppc, item, cpc, fate>>

\* A condition variable may wake a thread for no reason.
SpuriousWakeup ==
  \/ /\ \E p \in EnqWaiting : ppc' = [ppc EXCEPT ![p] = "woken"]
     /\ UNCHANGED <<queue, accepting, item, cpc, fate>>
  \/ /\ \E c \in DeqWaiting : cpc' = [cpc EXCEPT ![c] = "woken"]
     /\ UNCHANGED <<queue, accepting, ppc, item, fate>>

Next ==
  \/ \E p \in Producers :
       \/ \E i \in Item : Enqueue(p, i) \/ BlockingEnqueue(p, i)
       \/ BlockingEnqueueResumes(p)
       \/ NotifyDequeuer(p)
  \/ \E c \in Consumers : Dequeue(c) \/ DequeueTimesOut(c)
  \/ Stop \/ Clear \/ Start
  \/ SpuriousWakeup

Spec == Init /\ [][Next]_vars

(***************************************************************************)
(* A thread that has work to do under the mutex gets it eventually, and    *)
(* the consumer keeps calling dequeue.  No fairness for the timeout of     *)
(* dequeue, for spurious wake-ups or for stop, clear and start: progress   *)
(* must not depend on them.                                                *)
(***************************************************************************)
Fairness ==
  /\ \A p \in Producers : WF_vars(BlockingEnqueueResumes(p)) /\ WF_vars(NotifyDequeuer(p))
  /\ \A c \in Consumers : WF_vars(Dequeue(c))

FairSpec == Spec /\ Fairness

-------------------------------------------------------------------------------
(***************************************************************************)
(* Properties                                                              *)
(***************************************************************************)

\* Every variable has its type, and the container never exceeds _cap.
TypeOK ==
  /\ queue \in Seq(Item)
  /\ Len(queue) <= Cap
  /\ accepting \in BOOLEAN
  /\ ppc \in [Producers -> {"idle", "waiting", "woken", "notify"}]
  /\ item \in [Producers -> Item \cup {NoItem}]
  /\ cpc \in [Consumers -> {"idle", "waiting", "woken"}]
  /\ fate \in [Item -> {"new", "held", "queued", "delivered", "dropped", "cleared"}]

\* A stopped queue is empty and nobody sleeps in it: stop() wakes every
\* blocked writer and reader, and nothing they do while the queue is stopped
\* fills it or puts them back to sleep.
StoppedIsQuiet ==
  ~accepting => queue = <<>> /\ EnqWaiting = {} /\ DeqWaiting = {}

\* No lost wake-up of a writer: while some writer sleeps for room, every free
\* place of the container is accounted for by a writer already woken.  The
\* single notify_one of dequeue() is enough only if this holds.
NoLostEnqueuer ==
  EnqWaiting # {} => Len(queue) + Cardinality(EnqWoken) >= Cap

\* No lost wake-up of a reader, though the writers notify after unlocking:
\* while a reader sleeps, each item in the container has a notification on
\* its way or a reader already woken for it.
NoLostDequeuer ==
  DeqWaiting # {} => Len(queue) <= Cardinality(Notifying) + Cardinality(DeqWoken)

\* Nobody sleeps in vain: not in a stopped queue, nor beside a place or an item
\* that nobody else was woken for.
NobodySleepsInVain == StoppedIsQuiet /\ NoLostEnqueuer /\ NoLostDequeuer

\* The queue implements the abstract FIFO.
ImplementsFifo == Fifo!Spec

\* A blocked writer gets through (its item accepted or rejected), without
\* help from a timeout or a spurious wake-up.
BlockedWriterReturns ==
  \A p \in Producers : ppc[p] \in {"waiting", "woken"} ~> ppc[p] \in {"notify", "idle"}

\* An accepted item does not stay in the queue while the consumer consumes.
AcceptedItemLeaves ==
  \A i \in Item : fate[i] = "queued" ~> fate[i] # "queued"

\* Whatever is enqueued gets through: its writer returns, and it leaves.
ItemsGetThrough == BlockedWriterReturns /\ AcceptedItemLeaves
==============================================================================
