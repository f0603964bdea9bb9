----------------------------- MODULE Dispatcher ------------------------------
(***************************************************************************)
(* dispatcher (rsutils/concurrency/concurrency.h, dispatcher.cpp): any     *)
(* thread queues actions, one worker thread runs them one at a time, the   *)
(* owner starts, stops and destroys it.                                    *)
(*                                                                         *)
(* The queue is used through its abstract operations (BoundedFifo, which   *)
(* SingleConsumerQueue is shown to implement).  Everything the dispatcher  *)
(* adds is kept at the grain of the code: the unlocked read of             *)
(* _was_stopped in invoke() and what follows it, the window between        *)
(* dequeue() and _dispatch_mutex, the three parts of stop(), and the       *)
(* condition variable _was_stopped_cv that the worker, its sleeping action *)
(* and the flushing threads share.                                         *)
(*                                                                         *)
(* A call of invoke, invoke_and_wait or flush is made once; the action it  *)
(* queues has the call's own name.                                         *)
(***************************************************************************)
EXTENDS Naturals, Sequences, FiniteSets

CONSTANTS
  Invokes,   \* calls of invoke()
  Syncs,     \* calls of invoke_and_wait()
  Flushes,   \* calls of flush()
  NoItem,    \* the worker holds nothing
  Cap        \* capacity of _queue

Item == Invokes \cup Syncs \cup Flushes

ASSUME DispatcherAssumption ==
  /\ Cap \in Nat \ {0}
  /\ NoItem \notin Item
  /\ Invokes \cap Syncs = {} /\ Invokes \cap Flushes = {} /\ Syncs \cap Flushes = {}

VARIABLES
  queue, accepting,  \* _queue
  wasStopped,        \* _was_stopped
  alive,             \* _is_alive
  wpc, cur,          \* the worker: where it is, the action it took off the queue
  opc,               \* the owner: where it is in start(), stop() or the destructor
  pc,                \* the calls: where each one is
  signalled,         \* `done' of an invoke_and_wait, `invoked' of a flush
  before             \* for a flush: the actions pending when its own was queued

qvars == <<queue, accepting>>
vars == <<queue, accepting, wasStopped, alive, wpc, cur, opc, pc, signalled, before>>

Fifo == INSTANCE BoundedFifo

\* The worker holds _dispatch_mutex.
Dispatching == wpc \in {"run", "sleeping", "sleep_check", "awake", "notify"}

\* The actions that were accepted and are not finished, dropped or cleared.
Pending == {queue[n] : n \in 1..Len(queue)} \cup ({cur} \ {NoItem})

Asleep(S) == {c \in S : pc[c] = "asleep"}

\* The threads S wake from a condition variable and will look at their
\* predicate again.
WakeCalls(S) == pc' = [c \in Item |-> IF c \in S THEN "wait" ELSE pc[c]]

\* _was_stopped_cv.notify_all(): the worker waiting for start, a sleeping
\* action, and the flushes.
WakeWorker ==
  wpc' = CASE wpc = "wait_start" -> "loop"
           [] wpc = "sleeping"   -> "sleep_check"
           [] OTHER              -> wpc

NotifyAll == WakeWorker /\ WakeCalls(Asleep(Flushes))

\* A thread pool of one: it starts with the object, which is born stopped.
Init ==
  /\ queue = <<>> /\ accepting = TRUE
  /\ wasStopped = TRUE
  /\ alive = TRUE
  /\ wpc = "loop" /\ cur = NoItem
  /\ opc = "idle"
  /\ pc = [c \in Item |-> "new"]
  /\ signalled = [c \in Item |-> FALSE]
  /\ before = [c \in Flushes |-> {}]

-------------------------------------------------------------------------------
(***************************************************************************)
(* The calls: invoke, invoke_and_wait, flush                               *)
(***************************************************************************)

\* invoke() reads _was_stopped, and only later reaches the queue.  When the
\* dispatcher is stopped invoke() just returns: an invoke_and_wait or a flush
\* goes on to its wait.
CheckStopped(c) ==
  /\ \/ pc[c] = "new" /\ c \notin Flushes
     \/ pc[c] = "check"
  /\ alive
  /\ IF wasStopped
       THEN pc' = [pc EXCEPT ![c] = IF c \in Invokes THEN "done" ELSE "wait"]
       ELSE \E next \in IF c \in Flushes THEN {"blocking"} ELSE {"blocking", "queueing"} :
              pc' = [pc EXCEPT ![c] = next]
  /\ UNCHANGED <<qvars, wasStopped, alive, wpc, cur, opc, signalled, before>>

\* flush() looks at _was_stopped itself first.
FlushCalled(c) ==
  /\ c \in Flushes /\ pc[c] = "new"
  /\ alive
  /\ pc' = [pc EXCEPT ![c] = IF wasStopped THEN "done" ELSE "check"]
  /\ UNCHANGED <<qvars, wasStopped, alive, wpc, cur, opc, signalled, before>>

\* enqueue() or blocking_enqueue(): accepted, or rejected by a stopped queue.
QueueAction(c) ==
  /\ \/ pc[c] = "queueing"
     \/ pc[c] = "blocking" /\ Len(queue) < Cap
  /\ \/ /\ Fifo!Put(c)
        /\ before' = [f \in Flushes |-> IF f = c THEN Pending ELSE before[f]]
     \/ ~accepting /\ UNCHANGED <<qvars, before>>
  /\ pc' = [pc EXCEPT ![c] = IF c \in Invokes THEN "done" ELSE "wait"]
  /\ UNCHANGED <<wasStopped, alive, wpc, cur, opc, signalled>>

\* The mutex a waiting call must hold to look at its predicate: for an
\* invoke_and_wait, _blocking_invoke_mutex, which such an action holds while
\* it runs.
MayEvaluate(c) == c \in Syncs => ~(cur \in Syncs /\ Dispatching)

Satisfied(c) == signalled[c] \/ (c \in Flushes /\ wasStopped)

\* When flush() returns, its copy of the signalling lambda's state goes away;
\* if the queued copy is already gone that invalidates the wait state, which
\* notifies everybody.
ReturnFromWait(c) ==
  IF c \in Flushes /\ c \notin Pending
    THEN /\ WakeWorker
         /\ pc' = [d \in Item |-> IF d = c THEN "done"
                                  ELSE IF d \in Asleep(Flushes) THEN "wait" ELSE pc[d]]
    ELSE /\ pc' = [pc EXCEPT ![c] = "done"]
         /\ UNCHANGED wpc

EvaluateWait(c) ==
  /\ pc[c] = "wait"
  /\ MayEvaluate(c)
  /\ \/ Satisfied(c) /\ ReturnFromWait(c)
     \/ ~Satisfied(c) /\ pc' = [pc EXCEPT ![c] = "asleep"] /\ UNCHANGED wpc
  /\ UNCHANGED <<qvars, wasStopped, alive, cur, opc, signalled, before>>

\* flush() has a timeout, invoke_and_wait() has none.
FlushTimesOut(c) ==
  /\ c \in Flushes
  /\ pc[c] \in {"wait", "asleep"}
  /\ ReturnFromWait(c)
  /\ UNCHANGED <<qvars, wasStopped, alive, cur, opc, signalled, before>>

-------------------------------------------------------------------------------
(***************************************************************************)
(* The worker thread                                                       *)
(***************************************************************************)

\* while( _is_alive ) and _wait_for_start().
WaitForStart ==
  /\ wpc = "loop"
  /\ wpc' = IF ~alive THEN "exited" ELSE IF wasStopped THEN "wait_start" ELSE "dequeue"
  /\ UNCHANGED <<qvars, wasStopped, alive, cur, opc, pc, signalled, before>>

\* Mutant: the newest action is taken, not the oldest.
DequeueAction_Newest ==
  /\ wpc = "dequeue"
  /\ queue # <<>>
  /\ cur' = queue[Len(queue)]
  /\ queue' = SubSeq(queue, 1, Len(queue) - 1)
  /\ wpc' = "got"
  /\ UNCHANGED <<accepting, wasStopped, alive, opc, pc, signalled, before>>

\* _queue.dequeue(&item, 5000) succeeds.
DequeueAction ==
  /\ wpc = "dequeue"
  /\ Fifo!Take
  /\ cur' = Head(queue)
  /\ wpc' = "got"
  /\ UNCHANGED <<wasStopped, alive, opc, pc, signalled, before>>

\* ... or returns false on a stopped queue.
DequeueNothing ==
  /\ wpc = "dequeue"
  /\ queue = <<>> /\ ~accepting
  /\ wpc' = "loop"
  /\ UNCHANGED <<qvars, wasStopped, alive, cur, opc, pc, signalled, before>>

\* The 5 seconds of either wait are over.
WorkerTimesOut ==
  /\ \/ wpc = "wait_start"
     \/ wpc = "dequeue" /\ queue = <<>>
  /\ wpc' = "loop"
  /\ UNCHANGED <<qvars, wasStopped, alive, cur, opc, pc, signalled, before>>

\* lock_guard lock(_dispatch_mutex).
BeginDispatch ==
  /\ wpc = "got"
  /\ wpc' = "run"
  /\ UNCHANGED <<qvars, wasStopped, alive, cur, opc, pc, signalled, before>>

\* cancellable_timer::try_sleep(), which an action may call.
TrySleep ==
  /\ wpc = "run" /\ cur \notin Flushes
  /\ wpc' = IF wasStopped THEN "awake" ELSE "sleeping"
  /\ UNCHANGED <<qvars, wasStopped, alive, cur, opc, pc, signalled, before>>

SleepWoken ==
  /\ wpc = "sleep_check"
  /\ wpc' = IF wasStopped THEN "awake" ELSE "sleeping"
  /\ UNCHANGED <<qvars, wasStopped, alive, cur, opc, pc, signalled, before>>

SleepTimesOut ==
  /\ wpc \in {"sleeping", "sleep_check"}
  /\ wpc' = "awake"
  /\ UNCHANGED <<qvars, wasStopped, alive, cur, opc, pc, signalled, before>>

\* An ordinary action is over, or threw (the worker catches everything).  An
\* invoke_and_wait that threw has not set `done' nor notified.
ActionEnds ==
  /\ wpc \in {"run", "awake"} /\ cur \notin Flushes
  /\ wpc' = "loop" /\ cur' = NoItem
  /\ UNCHANGED <<qvars, wasStopped, alive, opc, pc, signalled, before>>

\* The action of an invoke_and_wait sets `done' and notifies ONE of the
\* threads in _blocking_invoke_cv.
SyncActionEnds ==
  /\ wpc \in {"run", "awake"} /\ cur \in Syncs
  /\ wpc' = "loop" /\ cur' = NoItem
  /\ signalled' = [signalled EXCEPT ![cur] = TRUE]
  /\ \/ Asleep(Syncs) = {} /\ UNCHANGED pc
     \/ \E c \in Asleep(Syncs) : WakeCalls({c})
  /\ UNCHANGED <<qvars, wasStopped, alive, opc, before>>

\* The action of a flush: wait_state_t::signal sets the value under the
\* mutex, if the flush is still there ...
SignalFlush ==
  /\ wpc = "run" /\ cur \in Flushes
  /\ wpc' = IF pc[cur] = "done" THEN "awake" ELSE "notify"
  /\ signalled' = IF pc[cur] = "done" THEN signalled ELSE [signalled EXCEPT ![cur] = TRUE]
  /\ UNCHANGED <<qvars, wasStopped, alive, cur, opc, pc, before>>

\* ... and then notifies ONE of the threads in _was_stopped_cv.
NotifyFlush ==
  /\ \/ wpc = "notify"
        /\ \/ Asleep(Flushes) = {} /\ UNCHANGED pc
           \/ \E c \in Asleep(Flushes) : WakeCalls({c})
     \/ wpc = "awake" /\ cur \in Flushes /\ UNCHANGED pc
  /\ wpc' = "loop" /\ cur' = NoItem
  /\ UNCHANGED <<qvars, wasStopped, alive, opc, signalled, before>>

-------------------------------------------------------------------------------
(***************************************************************************)
(* The owner: start(), stop(), ~dispatcher()                               *)
(***************************************************************************)

StartFlag ==
  /\ opc = "idle"
  /\ wasStopped' = FALSE
  /\ opc' = "start_queue"
  /\ UNCHANGED <<qvars, alive, wpc, cur, pc, signalled, before>>

StartQueue ==
  /\ opc = "start_queue"
  /\ Fifo!Start
  /\ opc' = "start_notify"
  /\ UNCHANGED <<wasStopped, alive, wpc, cur, pc, signalled, before>>

\* Mutant: start() does not notify.
StartNotify_Silent ==
  /\ opc = "start_notify"
  /\ opc' = "idle"
  /\ UNCHANGED <<qvars, wasStopped, alive, wpc, cur, pc, signalled, before>>

StartNotify ==
  /\ opc = "start_notify"
  /\ NotifyAll
  /\ opc' = "idle"
  /\ UNCHANGED <<qvars, wasStopped, alive, cur, signalled, before>>

StopQueue ==
  /\ opc \in {"idle", "destroy"}
  /\ Fifo!Stop
  /\ opc' = "stop_wait"
  /\ UNCHANGED <<wasStopped, alive, wpc, cur, pc, signalled, before>>

\* stop() takes and releases _dispatch_mutex.
StopWaitDispatched ==
  /\ opc = "stop_wait"
  /\ ~Dispatching
  /\ opc' = "stop_flag"
  /\ UNCHANGED <<qvars, wasStopped, alive, wpc, cur, pc, signalled, before>>

StopFlag ==
  /\ opc = "stop_flag"
  /\ wasStopped' = TRUE
  /\ opc' = "stop_notify"
  /\ UNCHANGED <<qvars, alive, wpc, cur, pc, signalled, before>>

\* Mutant: stop() does not notify.
StopNotify_Silent ==
  /\ opc = "stop_notify"
  /\ opc' = IF alive THEN "idle" ELSE "join"
  /\ UNCHANGED <<qvars, wasStopped, alive, wpc, cur, pc, signalled, before>>

StopNotify ==
  /\ opc = "stop_notify"
  /\ NotifyAll
  /\ opc' = IF alive THEN "idle" ELSE "join"
  /\ UNCHANGED <<qvars, wasStopped, alive, cur, signalled, before>>

\* The destructor: nobody else may be using the object.
Destroy ==
  /\ opc = "idle" /\ alive
  /\ \A c \in Item : pc[c] \in {"new", "done"}
  /\ alive' = FALSE
  /\ opc' = "destroy"
  /\ UNCHANGED <<qvars, wasStopped, wpc, cur, pc, signalled, before>>

Join ==
  /\ opc = "join" /\ wpc = "exited"
  /\ opc' = "gone"
  /\ UNCHANGED <<qvars, wasStopped, alive, wpc, cur, pc, signalled, before>>

\* The object is no more.
Gone == opc = "gone" /\ UNCHANGED vars

-------------------------------------------------------------------------------
CallStep(c) == CheckStopped(c) \/ FlushCalled(c) \/ QueueAction(c) \/ EvaluateWait(c)

WorkerStep ==
  \/ WaitForStart \/ DequeueAction \/ DequeueNothing \/ BeginDispatch
  \/ SleepWoken \/ ActionEnds \/ SyncActionEnds \/ SignalFlush \/ NotifyFlush

OwnerContinues ==
  \/ StartQueue \/ StartNotify \/ StopWaitDispatched \/ StopFlag \/ StopNotify \/ Join
  \/ (opc = "destroy" /\ StopQueue)

Next ==
  \/ \E c \in Item : CallStep(c) \/ FlushTimesOut(c)
  \/ WorkerStep \/ TrySleep \/ SleepTimesOut \/ WorkerTimesOut
  \/ OwnerContinues \/ StartFlag \/ StopQueue \/ Destroy \/ Gone

Spec == Init /\ [][Next]_vars

(***************************************************************************)
(* Every thread that can go on does so; an action ends.  Not fair: making  *)
(* a call, starting, stopping and destroying, an action's choice to sleep, *)
(* and every timeout: nothing below may lean on the 5 seconds of the       *)
(* worker or the 10 of flush().                                            *)
(***************************************************************************)
Fairness ==
  /\ WF_vars(WorkerStep)
  /\ WF_vars(OwnerContinues)
  /\ \A c \in Item : WF_vars((pc[c] # "new") /\ CallStep(c))

\* Every sleep ends by itself, some time.
FairSpec == Spec /\ Fairness /\ WF_vars(SleepTimesOut)

-------------------------------------------------------------------------------
(***************************************************************************)
(* Properties                                                              *)
(***************************************************************************)

\* Types of the flags, the queue (within its capacity) and where each thread is.
TypeOK ==
  /\ queue \in Seq(Item) /\ Len(queue) <= Cap
  /\ accepting \in BOOLEAN /\ wasStopped \in BOOLEAN /\ alive \in BOOLEAN
  /\ wpc \in {"loop", "wait_start", "dequeue", "got", "run", "sleeping", "sleep_check",
              "awake", "notify", "exited"}
  /\ cur \in Item \cup {NoItem}
  /\ opc \in {"idle", "start_queue", "start_notify", "stop_wait", "stop_flag",
              "stop_notify", "destroy", "join", "gone"}
  /\ pc \in [Item -> {"new", "check", "queueing", "blocking", "wait", "asleep", "done"}]
  /\ signalled \in [Item -> BOOLEAN]
  /\ before \in [Flushes -> SUBSET Item]

\* assert( _queue.empty() ) in stop(): whatever the threads that had read
\* _was_stopped before, the queue stays empty from _queue.stop() on.
StopFindsQueueEmpty ==
  opc \in {"stop_wait", "stop_flag", "stop_notify"} => queue = <<>>

\* When a flush has seen its own action run, none of the actions that were
\* queued before it is still queued or running.
FlushWaits ==
  \A f \in Flushes : signalled[f] => before[f] \cap Pending = {}

\* While an action is queued the worker can get to it: the dispatcher counts
\* as started, and a worker asleep in _wait_for_start has its notification
\* coming.
QueuedMeansStarted ==
  queue # <<>> => ~wasStopped /\ (wpc = "wait_start" => opc \in {"start_queue", "start_notify"})

\* What is queued agrees with the state of the dispatcher: nothing while it is
\* stopped, and nothing that the worker would sleep through.
QueueFollowsState == StopFindsQueueEmpty /\ QueuedMeansStarted

\* An accepted action leaves the queue without help from any timeout.
QueuedActionLeaves ==
  \A c \in Item : c \in {queue[n] : n \in 1..Len(queue)} ~> c \notin {queue[n] : n \in 1..Len(queue)}

\* stop() returns, and so does the destructor, which joins the worker.
StopReturns == opc \in {"stop_wait", "stop_flag", "stop_notify"} ~> opc \in {"idle", "gone"}

\* If the dispatcher is stopped for good, no flush waits for its timeout.
StopEndsFlush ==
  (<>[]wasStopped) => \A f \in Flushes : pc[f] \in {"wait", "asleep"} ~> pc[f] = "done"

\* A stop ends what waits: itself, the destructor, and every flush.
StopEndsWaits == StopReturns /\ StopEndsFlush

==============================================================================
