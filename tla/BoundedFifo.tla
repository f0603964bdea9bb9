----------------------------- MODULE BoundedFifo -----------------------------
(***************************************************************************)
(* What single_consumer_queue (rsutils/concurrency/concurrency.h) promises *)
(* its users, with no thread, mutex or condition variable in sight: a FIFO *)
(* of at most Cap items that can be closed (losing its contents) and       *)
(* opened again.  An item gets in only while the queue is open, at the     *)
(* back; when a non-blocking writer finds it full the OLDEST item makes    *)
(* room; items leave from the front or all together.                       *)
(***************************************************************************)
EXTENDS Naturals, Sequences

CONSTANTS Item, Cap

VARIABLES queue, accepting

vars == <<queue, accepting>>

Init == queue = <<>> /\ accepting = TRUE

\* What the container holds after push_back, and pop_front if that made it too long.
Pushed(q, i) == IF Len(q) < Cap THEN Append(q, i) ELSE Append(Tail(q), i)

\* Mutant: takes items on a stopped queue.
Put_WhenStopped(i) == queue' = Pushed(queue, i) /\ UNCHANGED accepting

\* enqueue() on an open queue.
Put(i) ==
  /\ accepting
  /\ queue' = Pushed(queue, i)
  /\ UNCHANGED accepting

\* A reader takes the oldest item.
Take ==
  /\ queue # <<>>
  /\ queue' = Tail(queue)
  /\ UNCHANGED accepting

Clear == queue' = <<>> /\ UNCHANGED accepting

Stop == queue' = <<>> /\ accepting' = FALSE

Start == accepting' = TRUE /\ UNCHANGED queue

Next == (\E i \in Item : Put(i)) \/ Take \/ Clear \/ Stop \/ Start

Spec == Init /\ [][Next]_vars
==============================================================================
