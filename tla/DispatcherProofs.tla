--------------------------- MODULE DispatcherProofs ---------------------------
(***************************************************************************)
(* Proofs about dispatcher, for every capacity and any number of calls.    *)
(*                                                                         *)
(* invoke() reads _was_stopped without a lock and queues later, so nothing *)
(* about stopping follows from the flag alone: StartInv says how the flag, *)
(* the queue's own `accepting' and the progress of start() and stop() are  *)
(* tied together at every step in between.  FlushInv says where the        *)
(* actions that a flush waits for can be.                                  *)
(***************************************************************************)
EXTENDS Dispatcher, TLAPS

Starting == opc \in {"start_queue", "start_notify"}
Stopping == opc \in {"stop_wait", "stop_flag", "stop_notify"}

\* A closed queue is empty.
ClosedIsEmpty == ~accepting => queue = <<>>

\* start() clears the flag before it opens the queue ...
StartingIsStarted == Starting => ~wasStopped

\* ... and stop() closes the queue before it sets the flag.
StoppingIsClosed == Stopping => ~accepting

\* The one time the queue is open and the flag set is before the first
\* start(): then no call can be on its way to the queue.
OpenAndStopped ==
  accepting /\ wasStopped => queue = <<>> /\ \A c \in Item : pc[c] \notin {"queueing", "blocking"}

\* A worker found asleep although the flag is clear has start()'s
\* notification coming.
StartWillNotify == wpc = "wait_start" /\ ~wasStopped => Starting

StartInv ==
  /\ ClosedIsEmpty /\ StartingIsStarted /\ StoppingIsClosed
  /\ OpenAndStopped /\ StartWillNotify

-------------------------------------------------------------------------------
\* The queue stays within its capacity when an action is pushed ...
LEMMA PushedFits ==
  ASSUME NEW q \in Seq(Item), Len(q) <= Cap, NEW i \in Item
  PROVE  Fifo!Pushed(q, i) \in Seq(Item) /\ Len(Fifo!Pushed(q, i)) <= Cap
<1>1. Cap \in Nat \ {0}
  BY DispatcherAssumption
<1>2. CASE Len(q) < Cap
  BY <1>1, <1>2 DEF Fifo!Pushed
<1>3. CASE ~(Len(q) < Cap)
  <2>1. q # <<>> /\ Len(q) = Cap
    BY <1>1, <1>3
  <2>2. Tail(q) \in Seq(Item) /\ Len(Tail(q)) = Len(q) - 1
    BY <2>1
  <2> QED
    BY <1>1, <1>3, <2>1, <2>2 DEF Fifo!Pushed
<1> QED
  BY <1>2, <1>3

\* ... and when one is taken off.
LEMMA TakenFits ==
  ASSUME NEW q \in Seq(Item), Len(q) <= Cap, q # <<>>
  PROVE  Tail(q) \in Seq(Item) /\ Len(Tail(q)) <= Cap /\ Head(q) \in Item
  BY DispatcherAssumption

\* The actions that are pending are calls.
LEMMA PendingAreItems == TypeOK => Pending \subseteq Item
  BY DEF TypeOK, Pending

-------------------------------------------------------------------------------
(***************************************************************************)
(* Types                                                                   *)
(***************************************************************************)

\* A step of one of the calls preserves the types.
LEMMA CallType ==
  ASSUME TypeOK, NEW c \in Item, CallStep(c) \/ FlushTimesOut(c)
  PROVE  TypeOK'
<1> USE DEF qvars
<1>1. CASE CheckStopped(c)
  BY <1>1 DEF CheckStopped, TypeOK
<1>2. CASE FlushCalled(c)
  BY <1>2 DEF FlushCalled, TypeOK
<1>3. CASE QueueAction(c)
  <2>1. queue' \in Seq(Item) /\ Len(queue') <= Cap /\ accepting' \in BOOLEAN
    BY <1>3, PushedFits DEF QueueAction, Fifo!Put, TypeOK
  <2>2. before' \in [Flushes -> SUBSET Item]
    BY <1>3, PendingAreItems DEF QueueAction, TypeOK
  <2>3. pc' \in [Item -> {"new", "check", "queueing", "blocking", "wait", "asleep", "done"}]
    BY <1>3 DEF QueueAction, TypeOK
  <2> QED
    BY <1>3, <2>1, <2>2, <2>3 DEF QueueAction, TypeOK
<1>4. ASSUME ReturnFromWait(c)
      PROVE  /\ wpc' \in {"loop", "wait_start", "dequeue", "got", "run", "sleeping",
                          "sleep_check", "awake", "notify", "exited"}
             /\ pc' \in [Item -> {"new", "check", "queueing", "blocking", "wait", "asleep", "done"}]
  BY <1>4 DEF ReturnFromWait, WakeWorker, Asleep, TypeOK
<1>5. CASE EvaluateWait(c)
  BY <1>4, <1>5 DEF EvaluateWait, TypeOK
<1>6. CASE FlushTimesOut(c)
  BY <1>4, <1>6 DEF FlushTimesOut, TypeOK
<1> QED
  BY <1>1, <1>2, <1>3, <1>5, <1>6 DEF CallStep

\* A step of the worker preserves the types.
LEMMA WorkerType ==
  ASSUME TypeOK, WorkerStep \/ TrySleep \/ SleepTimesOut \/ WorkerTimesOut
  PROVE  TypeOK'
<1> USE DEF qvars
<1>1. CASE WaitForStart \/ DequeueNothing \/ WorkerTimesOut \/ BeginDispatch
  BY <1>1 DEF WaitForStart, DequeueNothing, WorkerTimesOut, BeginDispatch, TypeOK
<1>2. CASE DequeueAction
  BY <1>2, TakenFits DEF DequeueAction, Fifo!Take, TypeOK
<1>3. CASE TrySleep \/ SleepWoken \/ SleepTimesOut
  BY <1>3 DEF TrySleep, SleepWoken, SleepTimesOut, TypeOK
<1>4. CASE ActionEnds
  BY <1>4 DEF ActionEnds, TypeOK
<1>5. CASE SyncActionEnds
  BY <1>5 DEF SyncActionEnds, WakeCalls, TypeOK
<1>6. CASE SignalFlush
  <2>1. cur \in Item
    BY <1>6 DEF SignalFlush, Item
  <2> QED
    BY <1>6, <2>1 DEF SignalFlush, TypeOK
<1>7. CASE NotifyFlush
  BY <1>7 DEF NotifyFlush, WakeCalls, TypeOK
<1> QED
  BY <1>1, <1>2, <1>3, <1>4, <1>5, <1>6, <1>7 DEF WorkerStep

\* A step of the owner preserves the types.
LEMMA OwnerType ==
  ASSUME TypeOK, OwnerContinues \/ StartFlag \/ StopQueue \/ Destroy \/ Gone
  PROVE  TypeOK'
<1> USE DEF qvars
<1>1. CASE StartFlag \/ StopFlag \/ StopWaitDispatched \/ Destroy \/ Join \/ Gone
  BY <1>1 DEF StartFlag, StopFlag, StopWaitDispatched, Destroy, Join, Gone, vars, TypeOK
<1>2. CASE StartQueue
  BY <1>2 DEF StartQueue, Fifo!Start, TypeOK
<1>3. CASE StopQueue
  <2>1. Cap \in Nat
    BY DispatcherAssumption
  <2>2. <<>> \in Seq(Item) /\ Len(<<>>) <= Cap
    BY <2>1
  <2> QED
    BY <1>3, <2>2 DEF StopQueue, Fifo!Stop, TypeOK
<1>4. ASSUME NotifyAll
      PROVE  /\ wpc' \in {"loop", "wait_start", "dequeue", "got", "run", "sleeping",
                          "sleep_check", "awake", "notify", "exited"}
             /\ pc' \in [Item -> {"new", "check", "queueing", "blocking", "wait", "asleep", "done"}]
  BY <1>4 DEF NotifyAll, WakeWorker, WakeCalls, TypeOK
<1>5. CASE StartNotify \/ StopNotify
  BY <1>4, <1>5 DEF StartNotify, StopNotify, TypeOK
<1> QED
  BY <1>1, <1>2, <1>3, <1>5 DEF OwnerContinues

\* The constructor establishes the types.
LEMMA TypeInit == Init => TypeOK
  BY DispatcherAssumption DEF Init, TypeOK

\* Every step preserves them.
LEMMA TypeNext == TypeOK /\ [Next]_vars => TypeOK'
<1> SUFFICES ASSUME TypeOK, [Next]_vars PROVE TypeOK'
  OBVIOUS
<1>1. CASE UNCHANGED vars
  BY <1>1 DEF vars, TypeOK
<1> QED
  BY <1>1, CallType, WorkerType, OwnerType DEF Next

\* Every variable of the dispatcher keeps its type, and the queue its bound,
\* whatever the calls, the worker and the owner do.
THEOREM DispatcherTypeCorrect == Spec => []TypeOK
  BY TypeInit, TypeNext, PTL DEF Spec

-------------------------------------------------------------------------------
(***************************************************************************)
(* Starting and stopping                                                   *)
(***************************************************************************)

\* A step that leaves the flag, the queue and the owner alone, moves no call
\* towards the queue and does not put the worker to sleep changes nothing.
LEMMA Bystander ==
  ASSUME StartInv, UNCHANGED <<qvars, wasStopped, opc>>,
         \A c \in Item : pc'[c] \in {"queueing", "blocking"} => pc[c] \in {"queueing", "blocking"},
         wpc' = "wait_start" => wpc = "wait_start"
  PROVE  StartInv'
  BY DEF StartInv, qvars, Starting, Stopping, ClosedIsEmpty, StartingIsStarted, StoppingIsClosed,
         OpenAndStopped, StartWillNotify

\* Steps of the calls.
LEMMA CallStart ==
  ASSUME TypeOK, StartInv, NEW c \in Item, CallStep(c) \/ FlushTimesOut(c)
  PROVE  StartInv'
<1>1. CASE CheckStopped(c)
  <2>1. CASE wasStopped
    BY <1>1, <2>1, Bystander DEF CheckStopped, TypeOK
  <2>2. CASE ~wasStopped
    BY <1>1, <2>2
       DEF CheckStopped, qvars, StartInv, Starting, Stopping, ClosedIsEmpty, StartingIsStarted,
           StoppingIsClosed, OpenAndStopped, StartWillNotify
  <2> QED
    BY <2>1, <2>2
<1>2. CASE FlushCalled(c)
  BY <1>2, Bystander DEF FlushCalled, TypeOK
<1>3. CASE QueueAction(c)
  <2>1. pc[c] \in {"queueing", "blocking"}
    BY <1>3 DEF QueueAction
  <2>2. UNCHANGED <<wasStopped, wpc, opc>>
    BY <1>3 DEF QueueAction
  <2>3. CASE Fifo!Put(c)
    <3>1. accepting /\ accepting' /\ ~wasStopped
      BY <2>1, <2>3 DEF Fifo!Put, StartInv, OpenAndStopped
    <3> QED
      BY <2>2, <3>1
         DEF StartInv, Starting, Stopping, ClosedIsEmpty, StartingIsStarted,
             StoppingIsClosed, OpenAndStopped, StartWillNotify
  <2>4. CASE UNCHANGED qvars
    <3>1. \A d \in Item : pc'[d] \in {"queueing", "blocking"} => pc[d] \in {"queueing", "blocking"}
      BY <1>3 DEF QueueAction, TypeOK
    <3> QED
      BY <2>2, <2>4, <3>1, Bystander
  <2> QED
    BY <1>3, <2>3, <2>4 DEF QueueAction, qvars
<1>4. ASSUME ReturnFromWait(c)
      PROVE  /\ \A d \in Item : pc'[d] \in {"queueing", "blocking"} => pc[d] \in {"queueing", "blocking"}
             /\ wpc' = "wait_start" => wpc = "wait_start"
  BY <1>4 DEF ReturnFromWait, WakeWorker, TypeOK
<1>5. CASE EvaluateWait(c)
  <2>1. CASE ReturnFromWait(c)
    BY <1>4, <1>5, <2>1, Bystander DEF EvaluateWait
  <2>2. CASE pc' = [pc EXCEPT ![c] = "asleep"] /\ UNCHANGED wpc
    BY <1>5, <2>2, Bystander DEF EvaluateWait, TypeOK
  <2> QED
    BY <1>5, <2>1, <2>2 DEF EvaluateWait
<1>6. CASE FlushTimesOut(c)
  BY <1>4, <1>6, Bystander DEF FlushTimesOut
<1> QED
  BY <1>1, <1>2, <1>3, <1>5, <1>6 DEF CallStep

\* Steps of the worker.
LEMMA WorkerStart ==
  ASSUME TypeOK, StartInv, WorkerStep \/ TrySleep \/ SleepTimesOut \/ WorkerTimesOut
  PROVE  StartInv'
<1>1. CASE WaitForStart
  BY <1>1 DEF WaitForStart, qvars, StartInv, Starting, Stopping, ClosedIsEmpty, StartingIsStarted,
              StoppingIsClosed, OpenAndStopped, StartWillNotify
<1>2. CASE DequeueAction
  <2>1. accepting /\ accepting' /\ ~wasStopped
    BY <1>2 DEF DequeueAction, Fifo!Take, StartInv, ClosedIsEmpty, OpenAndStopped
  <2> QED
    BY <1>2, <2>1
       DEF DequeueAction, StartInv, Starting, Stopping, ClosedIsEmpty, StartingIsStarted,
           StoppingIsClosed, OpenAndStopped, StartWillNotify
<1>3. CASE DequeueNothing \/ WorkerTimesOut \/ BeginDispatch \/ TrySleep \/ SleepWoken
           \/ SleepTimesOut \/ ActionEnds \/ SignalFlush
  BY <1>3, Bystander
     DEF DequeueNothing, WorkerTimesOut, BeginDispatch, TrySleep, SleepWoken, SleepTimesOut,
         ActionEnds, SignalFlush
<1>4. ASSUME NEW S, WakeCalls(S)
      PROVE  \A d \in Item : pc'[d] \in {"queueing", "blocking"} => pc[d] \in {"queueing", "blocking"}
  BY <1>4 DEF WakeCalls
<1>5. CASE SyncActionEnds
  BY <1>4, <1>5, Bystander DEF SyncActionEnds
<1>6. CASE NotifyFlush
  BY <1>4, <1>6, Bystander DEF NotifyFlush
<1> QED
  BY <1>1, <1>2, <1>3, <1>5, <1>6 DEF WorkerStep

\* Steps of the owner.
LEMMA OwnerStart ==
  ASSUME TypeOK, StartInv, OwnerContinues \/ StartFlag \/ StopQueue \/ Destroy \/ Gone
  PROVE  StartInv'
<1> USE DEF StartInv, Starting, Stopping, ClosedIsEmpty, StartingIsStarted, StoppingIsClosed,
            OpenAndStopped, StartWillNotify, qvars
<1>1. CASE StartFlag
  BY <1>1 DEF StartFlag
<1>2. CASE StartQueue
  BY <1>2 DEF StartQueue, Fifo!Start
<1>3. CASE StartNotify
  BY <1>3 DEF StartNotify, NotifyAll, WakeWorker, WakeCalls
<1>4. CASE StopQueue
  BY <1>4 DEF StopQueue, Fifo!Stop
<1>5. CASE StopWaitDispatched
  BY <1>5 DEF StopWaitDispatched
<1>6. CASE StopFlag
  BY <1>6 DEF StopFlag
<1>7. CASE StopNotify
  BY <1>7 DEF StopNotify, NotifyAll, WakeWorker, WakeCalls
<1>8. CASE Destroy \/ Join
  BY <1>8 DEF Destroy, Join
<1>9. CASE Gone
  BY <1>9 DEF Gone, vars
<1> QED
  BY <1>1, <1>2, <1>3, <1>4, <1>5, <1>6, <1>7, <1>8, <1>9 DEF OwnerContinues

\* StartInv is an invariant of every behaviour of the dispatcher.
LEMMA Inductive == Spec => []StartInv
<1>1. Init => StartInv
  BY DEF Init, StartInv, Starting, Stopping, ClosedIsEmpty, StartingIsStarted, StoppingIsClosed,
         OpenAndStopped, StartWillNotify
<1>2. TypeOK /\ StartInv /\ [Next]_vars => StartInv'
  <2> SUFFICES ASSUME TypeOK, StartInv, [Next]_vars PROVE StartInv'
    OBVIOUS
  <2>1. CASE UNCHANGED vars
    BY <2>1, Bystander DEF vars, qvars
  <2> QED
    BY <2>1, CallStart, WorkerStart, OwnerStart DEF Next
<1> QED
  BY <1>1, <1>2, DispatcherTypeCorrect, PTL DEF Spec

\* assert( _queue.empty() ) in stop() never fails, although a call that read
\* _was_stopped long ago may reach the queue at any moment.
THEOREM StopAssertionHolds == Spec => []StopFindsQueueEmpty
<1>1. StartInv => StopFindsQueueEmpty
  BY DEF StartInv, Stopping, StoppingIsClosed, ClosedIsEmpty, StopFindsQueueEmpty
<1> QED
  BY <1>1, Inductive, PTL

\* No action is queued while the dispatcher counts as stopped, and the worker
\* never sleeps through a start() with actions queued: no lost wake-up in
\* _wait_for_start().
THEOREM QueuedAreReachable == Spec => []QueuedMeansStarted
<1>1. TypeOK /\ StartInv => QueuedMeansStarted
  BY DEF TypeOK, StartInv, Starting, ClosedIsEmpty, OpenAndStopped, StartWillNotify,
         QueuedMeansStarted
<1> QED
  BY <1>1, DispatcherTypeCorrect, Inductive, PTL
-------------------------------------------------------------------------------
(***************************************************************************)
(* What flush() waits for                                                  *)
(***************************************************************************)

\* The call is past its one chance to queue an action.
Past(c) == pc[c] \in {"wait", "asleep", "done"}

\* Whatever is pending, or was pending when a flush queued its own action,
\* comes from a call that cannot queue it again.
PendingArePast ==
  /\ \A n \in 1..Len(queue) : Past(queue[n])
  /\ cur # NoItem => Past(cur)
  /\ \A f \in Flushes : \A x \in before[f] : Past(x)

\* No action is pending twice.
PendingOnce ==
  \A n \in 1..Len(queue) :
    /\ queue[n] # cur
    /\ \A m \in 1..Len(queue) : queue[m] = queue[n] => m = n

\* A flush is signalled by its own action only.
SignalledArePast == \A f \in Flushes : signalled[f] => Past(f)

\* What a flush waits for is ahead of its own action ...
AheadInQueue ==
  \A f \in Flushes :
    /\ f \notin before[f]
    /\ \A n \in 1..Len(queue) : queue[n] = f =>
         \A m \in (n + 1)..Len(queue) : queue[m] \notin before[f]

\* ... and gone when that action is taken off the queue, and ever after.
GoneWhenTaken ==
  \A f \in Flushes : cur = f \/ signalled[f] =>
    /\ cur \notin before[f]
    /\ \A n \in 1..Len(queue) : queue[n] \notin before[f]

FlushInv ==
  PendingArePast /\ PendingOnce /\ SignalledArePast /\ AheadInQueue /\ GoneWhenTaken

\* The items of a queue after a push: the old ones, without the first if
\* there was no room, and the new one at the end.
LEMMA PushedItems ==
  ASSUME NEW q \in Seq(Item), Len(q) <= Cap, NEW i \in Item
  PROVE  \E k \in {0, 1} :
           /\ k <= Len(q)
           /\ Len(Fifo!Pushed(q, i)) = Len(q) - k + 1
           /\ \A n \in 1..(Len(q) - k) : Fifo!Pushed(q, i)[n] = q[n + k]
           /\ Fifo!Pushed(q, i)[Len(q) - k + 1] = i
<1>1. Cap \in Nat \ {0}
  BY DispatcherAssumption
<1>2. CASE Len(q) < Cap
  BY <1>1, <1>2 DEF Fifo!Pushed
<1>3. CASE ~(Len(q) < Cap)
  <2>1. q # <<>> /\ Len(q) = Cap
    BY <1>1, <1>3
  <2>2. /\ Tail(q) \in Seq(Item) /\ Len(Tail(q)) = Len(q) - 1
        /\ \A n \in 1..(Len(q) - 1) : Tail(q)[n] = q[n + 1]
    BY <2>1
  <2>3. Fifo!Pushed(q, i) = Append(Tail(q), i)
    BY <1>3 DEF Fifo!Pushed
  <2>4. /\ Len(Fifo!Pushed(q, i)) = Len(q)
        /\ \A n \in 1..(Len(q) - 1) : Fifo!Pushed(q, i)[n] = q[n + 1]
        /\ Fifo!Pushed(q, i)[Len(q)] = i
    BY <2>1, <2>2, <2>3
  <2> QED
    BY <1>1, <2>1, <2>4
<1> QED
  BY <1>2, <1>3

\* A step that only ends or forgets actions and lets calls go on.
LEMMA NothingNew ==
  ASSUME TypeOK, FlushInv,
         queue' = queue \/ queue' = <<>>, cur' \in {cur, NoItem}, before' = before,
         \A f \in Flushes : signalled'[f] = signalled[f],
         \A c \in Item : Past(c) => Past(c)'
  PROVE  FlushInv'
<1>1. NoItem \notin Item /\ Flushes \subseteq Item
  BY DispatcherAssumption DEF Item
<1>2. \A n \in 1..Len(queue) : queue[n] \in Item
  BY DEF TypeOK
<1>3. \A f \in Flushes : before[f] \subseteq Item
  BY DEF TypeOK
<1>4. PendingArePast'
  BY <1>1, <1>2, <1>3 DEF FlushInv, PendingArePast, TypeOK
<1>5. PendingOnce'
  BY <1>1, <1>2 DEF FlushInv, PendingOnce
<1>6. SignalledArePast'
  BY <1>1 DEF FlushInv, SignalledArePast
<1>7. AheadInQueue'
  BY DEF FlushInv, AheadInQueue
<1>8. GoneWhenTaken'
  BY <1>1, <1>3 DEF FlushInv, GoneWhenTaken
<1> QED
  BY <1>4, <1>5, <1>6, <1>7, <1>8 DEF FlushInv

\* Queueing an action.
LEMMA PutFlush ==
  ASSUME TypeOK, FlushInv, NEW c \in Item, QueueAction(c), Fifo!Put(c)
  PROVE  FlushInv'
<1> DEFINE next == [f \in Flushes |-> IF f = c THEN Pending ELSE before[f]]
<1>1. NoItem \notin Item /\ Flushes \subseteq Item
  BY DispatcherAssumption DEF Item
<1>2. /\ queue \in Seq(Item) /\ Len(queue) \in Nat
      /\ \A n \in 1..Len(queue) : queue[n] \in Item
      /\ \A f \in Flushes : before[f] \subseteq Item
  BY DEF TypeOK
<1>3. PICK k \in {0, 1} :
        /\ k <= Len(queue)
        /\ Len(queue') = Len(queue) - k + 1
        /\ \A n \in 1..(Len(queue) - k) : queue'[n] = queue[n + k]
        /\ queue'[Len(queue) - k + 1] = c
  BY PushedItems DEF Fifo!Put, TypeOK
<1>4. ~Past(c) /\ Past(c)' /\ \A d \in Item : Past(d) => Past(d)'
  BY DEF QueueAction, Past, TypeOK
<1>5. cur' = cur /\ signalled' = signalled
  BY DEF QueueAction
<1>6. before' = next
  BY DEF QueueAction, Fifo!Put, qvars
<1>7. c \notin Pending /\ Pending \subseteq Item /\ \A x \in Pending : Past(x)
  BY <1>2, <1>4, PendingAreItems DEF Pending, FlushInv, PendingArePast
<1>8. \A n \in 1..Len(queue') : \/ queue'[n] = c /\ n = Len(queue')
                                \/ n + k \in 1..Len(queue) /\ queue'[n] = queue[n + k]
  <2> SUFFICES ASSUME NEW n \in 1..Len(queue')
               PROVE  \/ queue'[n] = c /\ n = Len(queue')
                      \/ n + k \in 1..Len(queue) /\ queue'[n] = queue[n + k]
    OBVIOUS
  <2>1. k \in Nat /\ n \in Nat /\ n >= 1 /\ n <= Len(queue) - k + 1
    BY <1>2, <1>3
  <2>2. CASE n = Len(queue) - k + 1
    BY <1>3, <2>2
  <2>3. CASE n # Len(queue) - k + 1
    <3>1. n \in 1..(Len(queue) - k) /\ n + k \in 1..Len(queue)
      BY <1>2, <2>1, <2>3
    <3> QED
      BY <1>3, <3>1
  <2> QED
    BY <2>2, <2>3
<1>9. PendingArePast'
  BY <1>1, <1>2, <1>4, <1>5, <1>6, <1>7, <1>8 DEF FlushInv, PendingArePast, TypeOK
<1>10. PendingOnce'
  <2>1. c # cur /\ \A n \in 1..Len(queue) : queue[n] # c
    BY <1>1, <1>4 DEF FlushInv, PendingArePast
  <2>2. \A n \in 1..Len(queue') : queue'[n] # cur
    BY <1>8, <2>1 DEF FlushInv, PendingOnce
  <2>3. ASSUME NEW n \in 1..Len(queue'), NEW m \in 1..Len(queue'), queue'[m] = queue'[n]
        PROVE  m = n
    <3>1. CASE queue'[n] = c
      BY <1>8, <2>1, <2>3, <3>1
    <3>2. CASE queue'[n] # c
      <4>1. /\ n + k \in 1..Len(queue) /\ queue'[n] = queue[n + k]
            /\ m + k \in 1..Len(queue) /\ queue'[m] = queue[m + k]
        BY <1>8, <2>3, <3>2
      <4>2. m + k = n + k
        BY <2>3, <4>1 DEF FlushInv, PendingOnce
      <4> QED
        BY <1>2, <1>3, <4>2
    <3> QED
      BY <3>1, <3>2
  <2> QED
    BY <1>5, <2>2, <2>3 DEF PendingOnce
<1>11. SignalledArePast'
  BY <1>1, <1>4, <1>5 DEF FlushInv, SignalledArePast
<1>12. AheadInQueue'
  <2> SUFFICES ASSUME NEW f \in Flushes
               PROVE  /\ f \notin next[f]
                      /\ \A n \in 1..Len(queue') : queue'[n] = f =>
                           \A m \in (n + 1)..Len(queue') : queue'[m] \notin next[f]
    BY <1>6 DEF AheadInQueue
  <2>1. CASE f = c
    <3>1. \A n \in 1..Len(queue') : queue'[n] = c => n = Len(queue')
      BY <1>4, <1>8 DEF FlushInv, PendingArePast
    <3> QED
      BY <1>2, <1>3, <1>7, <2>1, <3>1
  <2>2. CASE f # c
    <3>1. next[f] = before[f] /\ c \notin before[f] /\ f \notin before[f]
      BY <1>4, <2>2 DEF FlushInv, PendingArePast, AheadInQueue
    <3>2. ASSUME NEW n \in 1..Len(queue'), queue'[n] = f, NEW m \in (n + 1)..Len(queue')
          PROVE  queue'[m] \notin before[f]
      <4>1. n + k \in 1..Len(queue) /\ queue[n + k] = f
        BY <1>8, <2>2, <3>2
      <4>2. m \in 1..Len(queue')
        BY <1>2, <1>3
      <4>3. CASE queue'[m] = c
        BY <3>1, <4>3
      <4>4. CASE m + k \in 1..Len(queue) /\ queue'[m] = queue[m + k]
        <5>1. m + k \in (n + k + 1)..Len(queue)
          BY <1>2, <1>3, <4>4
        <5> QED
          BY <4>1, <4>4, <5>1 DEF FlushInv, AheadInQueue
      <4> QED
        BY <1>8, <4>2, <4>3, <4>4
    <3> QED
      BY <3>1, <3>2
  <2> QED
    BY <2>1, <2>2
<1>13. GoneWhenTaken'
  <2> SUFFICES ASSUME NEW f \in Flushes, cur = f \/ signalled[f]
               PROVE  /\ cur \notin next[f]
                      /\ \A n \in 1..Len(queue') : queue'[n] \notin next[f]
    BY <1>5, <1>6 DEF GoneWhenTaken
  <2>1. Past(f)
    BY <1>1 DEF FlushInv, PendingArePast, SignalledArePast
  <2>2. f # c /\ next[f] = before[f] /\ c \notin before[f]
    BY <1>4, <2>1 DEF FlushInv, PendingArePast
  <2> QED
    BY <1>8, <2>2 DEF FlushInv, GoneWhenTaken
<1> QED
  BY <1>9, <1>10, <1>11, <1>12, <1>13 DEF FlushInv

\* Taking an action off the queue.
LEMMA TakeFlush ==
  ASSUME TypeOK, FlushInv, DequeueAction
  PROVE  FlushInv'
<1>1. NoItem \notin Item /\ Flushes \subseteq Item
  BY DispatcherAssumption DEF Item
<1>2. queue \in Seq(Item) /\ queue # <<>> /\ queue' = Tail(queue) /\ cur' = Head(queue)
  BY DEF DequeueAction, Fifo!Take, TypeOK
<1>3. /\ Len(queue) \in Nat \ {0} /\ Len(queue') = Len(queue) - 1
      /\ \A n \in 1..Len(queue') : n + 1 \in 1..Len(queue) /\ queue'[n] = queue[n + 1]
      /\ 1 \in 1..Len(queue) /\ cur' = queue[1]
  BY <1>2
<1>4. UNCHANGED <<pc, signalled, before>>
  BY DEF DequeueAction
<1>5. PendingArePast'
  BY <1>3, <1>4 DEF FlushInv, PendingArePast, Past
<1>6. PendingOnce'
  BY <1>3 DEF FlushInv, PendingOnce
<1>7. SignalledArePast'
  BY <1>4 DEF FlushInv, SignalledArePast, Past
<1>8. AheadInQueue'
  <2>1. ASSUME NEW f \in Flushes, NEW n \in 1..Len(queue'), queue'[n] = f,
               NEW m \in (n + 1)..Len(queue')
        PROVE  queue'[m] \notin before[f]
    <3>1. n + 1 \in 1..Len(queue) /\ queue[n + 1] = f /\ m + 1 \in (n + 1 + 1)..Len(queue)
          /\ queue'[m] = queue[m + 1]
      BY <1>3, <2>1
    <3> QED
      BY <3>1 DEF FlushInv, AheadInQueue
  <2> QED
    BY <1>4, <2>1 DEF FlushInv, AheadInQueue
<1>9. GoneWhenTaken'
  <2> SUFFICES ASSUME NEW f \in Flushes, queue[1] = f \/ signalled[f]
               PROVE  /\ queue[1] \notin before[f]
                      /\ \A n \in 1..Len(queue') : queue'[n] \notin before[f]
    BY <1>3, <1>4 DEF GoneWhenTaken
  <2>1. CASE signalled[f]
    BY <1>3, <2>1 DEF FlushInv, GoneWhenTaken
  <2>2. CASE queue[1] = f
    <3>1. \A n \in 1..Len(queue') : n + 1 \in (1 + 1)..Len(queue)
      BY <1>3
    <3> QED
      BY <1>3, <2>2, <3>1 DEF FlushInv, AheadInQueue
  <2> QED
    BY <2>1, <2>2
<1> QED
  BY <1>5, <1>6, <1>7, <1>8, <1>9 DEF FlushInv

\* The action of a flush runs.
LEMMA SignalFlushInv ==
  ASSUME TypeOK, FlushInv, SignalFlush
  PROVE  FlushInv'
<1>1. cur \in Flushes /\ UNCHANGED <<queue, accepting, cur, pc, before>>
  BY DEF SignalFlush, qvars
<1>2. \A f \in Flushes : signalled'[f] => signalled[f] \/ f = cur
  BY DEF SignalFlush, TypeOK
<1>3. PendingArePast' /\ PendingOnce' /\ AheadInQueue'
  BY <1>1 DEF FlushInv, PendingArePast, PendingOnce, AheadInQueue, Past
<1>4. cur # NoItem
  BY <1>1, DispatcherAssumption DEF Item
<1>5. SignalledArePast'
  BY <1>1, <1>2, <1>4 DEF FlushInv, PendingArePast, SignalledArePast, Past
<1>6. GoneWhenTaken'
  BY <1>1, <1>2 DEF FlushInv, GoneWhenTaken
<1> QED
  BY <1>3, <1>5, <1>6 DEF FlushInv

\* No step turns a call back.
LEMMA PastForGood ==
  ASSUME TypeOK, [Next]_vars
  PROVE  \A d \in Item : Past(d) => Past(d)'
<1> SUFFICES ASSUME NEW d \in Item, Past(d) PROVE Past(d)'
  OBVIOUS
<1> USE DEF Past
<1>1. ASSUME NEW S, WakeCalls(S) PROVE Past(d)'
  BY <1>1 DEF WakeCalls
<1>2. ASSUME NEW c \in Item, CallStep(c) \/ FlushTimesOut(c) PROVE Past(d)'
  <2>1. ASSUME ReturnFromWait(c) PROVE Past(d)'
    BY <2>1 DEF ReturnFromWait, TypeOK
  <2>2. CASE CheckStopped(c) \/ FlushCalled(c) \/ QueueAction(c)
    BY <2>2 DEF CheckStopped, FlushCalled, QueueAction, TypeOK
  <2>3. CASE EvaluateWait(c)
    BY <2>1, <2>3 DEF EvaluateWait, TypeOK
  <2>4. CASE FlushTimesOut(c)
    BY <2>1, <2>4 DEF FlushTimesOut
  <2> QED
    BY <1>2, <2>2, <2>3, <2>4 DEF CallStep
<1>3. CASE WorkerStep \/ TrySleep \/ SleepTimesOut \/ WorkerTimesOut
  BY <1>1, <1>3
     DEF WorkerStep, WaitForStart, DequeueAction, DequeueNothing, BeginDispatch, SleepWoken,
         ActionEnds, SyncActionEnds, SignalFlush, NotifyFlush, TrySleep, SleepTimesOut, WorkerTimesOut
<1>4. CASE OwnerContinues \/ StartFlag \/ StopQueue \/ Destroy \/ Gone \/ UNCHANGED vars
  BY <1>1, <1>4
     DEF OwnerContinues, StartQueue, StartNotify, StopWaitDispatched, StopFlag, StopNotify, Join,
         StartFlag, StopQueue, Destroy, Gone, NotifyAll, vars
<1> QED
  BY <1>2, <1>3, <1>4 DEF Next

\* Every step preserves FlushInv.
LEMMA FlushNext ==
  ASSUME TypeOK, FlushInv, [Next]_vars
  PROVE  FlushInv'
<1> USE DEF qvars
<1>0. \A d \in Item : Past(d) => Past(d)'
  BY PastForGood
<1>1. ASSUME NEW c \in Item, CheckStopped(c) \/ FlushCalled(c) \/ EvaluateWait(c) \/ FlushTimesOut(c)
      PROVE  FlushInv'
  BY <1>0, <1>1, NothingNew DEF CheckStopped, FlushCalled, EvaluateWait, FlushTimesOut
<1>2. ASSUME NEW c \in Item, QueueAction(c) PROVE FlushInv'
  <2>1. CASE Fifo!Put(c)
    BY <1>2, <2>1, PutFlush
  <2>2. CASE UNCHANGED <<qvars, before>>
    BY <1>0, <1>2, <2>2, NothingNew DEF QueueAction
  <2> QED
    BY <1>2, <2>1, <2>2 DEF QueueAction
<1>3. CASE WaitForStart \/ DequeueNothing \/ BeginDispatch \/ SleepWoken \/ ActionEnds \/ NotifyFlush
           \/ TrySleep \/ SleepTimesOut \/ WorkerTimesOut
  BY <1>0, <1>3, NothingNew
     DEF WaitForStart, DequeueNothing, BeginDispatch, SleepWoken, ActionEnds, NotifyFlush,
         TrySleep, SleepTimesOut, WorkerTimesOut
<1>4. CASE SyncActionEnds
  <2>1. \A f \in Flushes : signalled'[f] = signalled[f]
    BY <1>4, DispatcherAssumption DEF SyncActionEnds, TypeOK, Item
  <2> QED
    BY <1>0, <1>4, <2>1, NothingNew DEF SyncActionEnds
<1>5. CASE OwnerContinues \/ StartFlag \/ StopQueue \/ Destroy \/ Gone \/ UNCHANGED vars
  BY <1>0, <1>5, NothingNew
     DEF OwnerContinues, StartQueue, StartNotify, StopWaitDispatched, StopFlag, StopNotify, Join,
         StartFlag, StopQueue, Destroy, Gone, Fifo!Start, Fifo!Stop, vars
<1> QED
  BY <1>1, <1>2, <1>3, <1>4, <1>5, TakeFlush, SignalFlushInv DEF Next, CallStep, WorkerStep

\* When the action of a flush has run, nothing that was pending when flush()
\* queued it is still queued or running, although calls keep arriving, may
\* push actions out of a full queue, and the queue may be stopped and emptied.
THEOREM FlushWaitsForAll == Spec => []FlushWaits
<1>1. Init => FlushInv
  BY DispatcherAssumption
     DEF Init, FlushInv, PendingArePast, PendingOnce, SignalledArePast, AheadInQueue, GoneWhenTaken, Item
<1>2. TypeOK /\ FlushInv /\ [Next]_vars => FlushInv'
  BY FlushNext
<1>3. FlushInv => FlushWaits
  BY DEF FlushInv, GoneWhenTaken, FlushWaits, Pending
<1> QED
  BY <1>1, <1>2, <1>3, DispatcherTypeCorrect, PTL DEF Spec

\* The queue is empty while the dispatcher is stopped and reachable while it is
\* started, through all three steps of start() and four of stop().
THEOREM QueueFollows == Spec => []QueueFollowsState
  BY StopAssertionHolds, QueuedAreReachable, PTL DEF QueueFollowsState
==============================================================================
