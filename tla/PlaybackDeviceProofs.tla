------------------------- MODULE PlaybackDeviceProofs -------------------------
(***************************************************************************)
(* Proofs about playback_device, for any file, any sensors and any number  *)
(* of calls.                                                               *)
(***************************************************************************)
EXTENDS PlaybackDevice, TLAPS

Ops == {"add", "stop", "pause", "resume", "flush", "loop"}

\* An action is made with what it needs.
Actions == {a \in [op : Ops, s : Sensors \cup {None}] : a.op = "add" => a.s \in Sensors}

IInv == TypeOK /\ queue \in Seq(Actions) /\ StoppedIsQuiet /\ LoopAlive

-------------------------------------------------------------------------------
(***************************************************************************)
(* The queue of the read thread                                            *)
(***************************************************************************)

\* The actions of the code are such ones ...
LEMMA ActionIsAction ==
  ASSUME NEW op \in Ops, NEW s \in Sensors \cup {None}, op = "add" => s \in Sensors
  PROVE  Action(op, s) \in Actions /\ Action(op, s).op = op
  BY DEF Action, Actions

\* ... which is more than the type of the queue says.
LEMMA ActionsAreTyped ==
  ASSUME NEW q \in Seq(Actions)
  PROVE  q \in Seq([op : {"add", "stop", "pause", "resume", "flush", "loop"}, s : Sensors \cup {None}])
<1> DEFINE T == [op : {"add", "stop", "pause", "resume", "flush", "loop"}, s : Sensors \cup {None}]
<1>1. \A a \in Actions : a \in T
  BY DEF Actions, Ops
<1>2. \A i \in 1..Len(q) : q[i] \in T
  BY <1>1
<1> HIDE DEF T
<1>3. q \in Seq(T)
  BY <1>2
<1> QED
  BY <1>3 DEF T

\* What is in the queue q.
In(op, q) == \E i \in DOMAIN q : q[i].op = op

\* Nothing leaves the queue when an action is appended ...
LEMMA AppendKeeps ==
  ASSUME NEW q \in Seq(Actions), NEW a \in Actions, NEW op
  PROVE  /\ Append(q, a) \in Seq(Actions)
         /\ In(op, q) => In(op, Append(q, a))
         /\ In(a.op, Append(q, a))
<1>1. Append(q, a) \in Seq(Actions)
  OBVIOUS
<1>2. ASSUME NEW i \in DOMAIN q, q[i].op = op PROVE In(op, Append(q, a))
  <2>1. i \in DOMAIN Append(q, a) /\ Append(q, a)[i] = q[i]
    OBVIOUS
  <2> QED
    BY <1>2, <2>1 DEF In
<1>3. In(a.op, Append(q, a))
  <2>1. Len(q) + 1 \in DOMAIN Append(q, a) /\ Append(q, a)[Len(q) + 1] = a
    OBVIOUS
  <2> QED
    BY <2>1 DEF In
<1> QED
  BY <1>1, <1>2, <1>3 DEF In

\* ... and only the first when it is taken.
LEMMA TailKeeps ==
  ASSUME NEW q \in Seq(Actions), q # <<>>, NEW op
  PROVE  /\ Tail(q) \in Seq(Actions) /\ Head(q) \in Actions
         /\ In(op, q) /\ Head(q).op # op => In(op, Tail(q))
<1>1. Tail(q) \in Seq(Actions) /\ Head(q) \in Actions
  OBVIOUS
<1>2. ASSUME NEW i \in DOMAIN q, q[i].op = op, Head(q).op # op PROVE In(op, Tail(q))
  <2>1. i # 1
    BY <1>2
  <2>2. i - 1 \in DOMAIN Tail(q) /\ Tail(q)[i - 1] = q[i]
    BY <2>1
  <2> QED
    BY <1>2, <2>2 DEF In
<1> QED
  BY <1>1, <1>2 DEF In

\* The action that reads on is queued.
LEMMA WithLoopHasLoop ==
  ASSUME NEW q \in Seq(Actions)
  PROVE  WithLoop(q) \in Seq(Actions) /\ In("loop", WithLoop(q))
<1>1. Action("loop", None) \in Actions /\ Action("loop", None).op = "loop"
  BY ActionIsAction DEF Ops
<1> QED
  BY <1>1, AppendKeeps DEF WithLoop

\* An action that is under way is off the queue, which keeps its loop.
LEMMA TakenKeepsLoop ==
  ASSUME IInv, NEW op \in Ops, Next1(op)
  PROVE  /\ rpc = "idle" /\ Rest \in Seq(Actions) /\ Head(queue) \in Actions
         /\ op # "loop" /\ isStarted /\ ~isPaused => In("loop", Rest)
  BY TailKeeps DEF IInv, LoopAlive, Queued, In, Next1, Rest

-------------------------------------------------------------------------------
(***************************************************************************)
(* The steps                                                               *)
(***************************************************************************)

\* on_stopped() may add an action.
LEMMA DeactivateKeeps ==
  ASSUME IInv, NEW s, Deactivate(s)
  PROVE  /\ active' \subseteq Sensors /\ queue' \in Seq(Actions)
         /\ In("loop", queue) => In("loop", queue')
<1>1. Action("stop", None) \in Actions /\ queue \in Seq(Actions)
  BY ActionIsAction DEF Ops, IInv
<1>2. active' \subseteq Sensors
  BY DEF IInv, TypeOK, Deactivate
<1>3. CASE active = {s}
  <2>1. queue' = Append(queue, Action("stop", None))
    BY <1>3 DEF Deactivate
  <2> QED
    BY <1>1, <1>2, <2>1, AppendKeeps
<1>4. CASE active # {s}
  BY <1>1, <1>2, <1>4 DEF Deactivate
<1> QED
  BY <1>3, <1>4

\* A call of the application.
LEMMA ApplicationStep ==
  ASSUME IInv, Application
  PROVE  IInv'
<1> USE DEF rvars, dvars, svars, fvars, uvars
<1>0. \A op : Queued(op) <=> In(op, queue)
  BY DEF Queued, In
<1>1. ASSUME NEW s \in Sensors, Open(s) PROVE IInv'
  <2>1. calls' \in Nat
    BY <1>1, PlaybackAssumption DEF Open, Call, IInv, TypeOK
  <2> QED
    BY <1>1, <2>1 DEF Open, IInv, TypeOK, Frames, StoppedIsQuiet, LoopAlive, Queued
<1>2. ASSUME NEW s \in Sensors, Start(s) PROVE IInv'
  <2>1. Action("add", s) \in Actions
    BY ActionIsAction DEF Ops
  <2>2. queue' \in Seq(Actions) /\ (In("loop", queue) => In("loop", queue'))
    BY <1>2, <2>1, AppendKeeps DEF Start, IInv
  <2>3. calls' \in Nat
    BY <1>2, PlaybackAssumption DEF Start, Call, IInv, TypeOK
  <2>4. LoopAlive'
    BY <1>0, <1>2, <2>2 DEF Start, IInv, LoopAlive, Queued, In
  <2>5. /\ started' = started \cup {s} /\ UNCHANGED <<realTime, rpc, stopping, flushed, isStarted, isPaused, position,
             active, disp, pending, current, showing, lastPublished, misled, upc, us, requests, quiet, last, late, ghost>>
    BY <1>2 DEF Start
  <2>6. TypeOK'
    BY <2>2, <2>3, <2>5, ActionsAreTyped, ZenonT(60) DEF IInv, TypeOK
  <2> QED
    BY <2>2, <2>4, <2>5, <2>6 DEF IInv, StoppedIsQuiet
<1>3. ASSUME NEW s \in Sensors, UserStop(s) PROVE IInv'
  <2>1. calls' \in Nat
    BY <1>3, PlaybackAssumption DEF UserStop, Call, IInv, TypeOK
  <2>2. pending' \in [Sensors -> Frames]
    BY <1>3 DEF UserStop, StopSensor, IInv, TypeOK, Frames, Length, PlaybackAssumption
  <2> QED
    BY <1>3, <2>1, <2>2 DEF UserStop, StopSensor, IInv, TypeOK, StoppedIsQuiet, LoopAlive, Queued
<1>4. ASSUME NEW s \in Sensors, Close(s) PROVE IInv'
  <2>1. calls' \in Nat
    BY <1>4 DEF Close, Call, IInv, TypeOK
  <2>2. disp' \in [Sensors -> {"none", "running", "stopped"}]
    BY <1>4 DEF Close, IInv, TypeOK
  <2>3. UNCHANGED <<realTime, rvars, dvars, started, fvars, upc, us, requests, quiet, last, late, ghost>>
    BY <1>4 DEF Close
  <2> QED
    BY <1>4, <2>1, <2>2, <2>3 DEF IInv, TypeOK, StoppedIsQuiet, LoopAlive, Queued
<1>5. CASE UserStopped
  <2>1. /\ active' \subseteq Sensors /\ queue' \in Seq(Actions)
        /\ In("loop", queue) => In("loop", queue')
    BY <1>0, <1>5, DeactivateKeeps DEF UserStopped
  <2>2. LoopAlive'
    BY <1>0, <1>5, <2>1 DEF UserStopped, IInv, LoopAlive, Queued, In
  <2>3. ghost' \in BOOLEAN
    BY <1>5, Zenon DEF UserStopped
  <2> QED
    BY <1>5, <2>1, <2>2, <2>3, ActionsAreTyped DEF UserStopped, IInv, TypeOK, Frames, StoppedIsQuiet
<1>6. ASSUME NEW op \in {"pause", "resume", "stop"}, Request(op) PROVE IInv'
  <2>1. Action(op, None) \in Actions /\ Action("flush", None) \in Actions
    BY ActionIsAction DEF Ops
  <2>2. queue' = Append(Append(queue, Action(op, None)), Action("flush", None))
    BY <1>6, <2>1 DEF Request, IInv
  <2>3. queue' \in Seq(Actions) /\ (In("loop", queue) => In("loop", queue'))
    <3>1. queue \in Seq(Actions)
      BY DEF IInv
    <3> QED
      BY <2>1, <2>2, <3>1, AppendKeeps
  <2>4. LoopAlive'
    BY <1>0, <1>6, <2>3 DEF Request, IInv, LoopAlive, Queued, In
  <2>5. requests' \in 0..MaxRequests
    BY <1>6, PlaybackAssumption DEF Request, IInv, TypeOK
  <2>6. quiet' \in BOOLEAN
    BY <1>6, Zenon DEF Request
  <2> QED
    BY <1>6, <2>3, <2>4, <2>5, <2>6, ActionsAreTyped DEF Request, IInv, TypeOK, Frames, StoppedIsQuiet
<1> QED
  BY <1>1, <1>2, <1>3, <1>4, <1>5, <1>6 DEF Application

\* The read thread.
LEMMA ReadThreadStep ==
  ASSUME IInv, ReadThread
  PROVE  IInv'
<1> USE DEF rvars, dvars, svars, fvars, uvars
<1>0. /\ \A op : Queued(op) <=> In(op, queue)
      /\ Length \in Nat /\ queue \in Seq(Actions)
  BY PlaybackAssumption DEF Queued, In, Length, IInv
<1>1. CASE Activate
  <2>1. Rest \in Seq(Actions) /\ Head(queue) \in Actions /\ (isStarted /\ ~isPaused => In("loop", Rest))
    BY <1>1, TakenKeepsLoop DEF Activate, Ops
  <2>2. PICK s \in Sensors :
          /\ s = Head(queue).s
          /\ active' = active \cup {s}
          /\ IF active = {} /\ ~isStarted
               THEN isStarted' = TRUE /\ queue' = WithLoop(Rest)
               ELSE queue' = Rest /\ UNCHANGED isStarted
          /\ last' = [last EXCEPT ![s] = 0]
    BY <1>1, <2>1 DEF Activate, Next1, Actions
  <2>3. queue' \in Seq(Actions) /\ isStarted' \in BOOLEAN /\ (isStarted' /\ ~isPaused => In("loop", queue'))
    <3>1. CASE active = {} /\ ~isStarted
      BY <2>1, <2>2, <3>1, WithLoopHasLoop
    <3>2. CASE ~(active = {} /\ ~isStarted)
      BY <2>1, <2>2, <3>2 DEF IInv, TypeOK
    <3> QED
      BY <3>1, <3>2
  <2>4. LoopAlive'
    BY <1>1, <2>3 DEF Activate, LoopAlive, Queued, In
  <2>5. ghost' \in BOOLEAN
    BY <1>1, Zenon DEF Activate
  <2>6. last' \in [Sensors -> Frames]
    BY <1>0, <2>2 DEF IInv, TypeOK, Frames
  <2>7. active' \subseteq Sensors
    BY <2>2 DEF IInv, TypeOK
  <2> QED
    BY <1>1, <2>3, <2>4, <2>5, <2>6, <2>7, ActionsAreTyped DEF Activate, IInv, TypeOK, StoppedIsQuiet
<1>2. CASE StopInternal
  <2>1. Rest \in Seq(Actions)
    BY <1>2, TakenKeepsLoop DEF StopInternal, Ops
  <2>2. isStarted' = FALSE /\ isStarted' \in BOOLEAN
    BY <1>2, Zenon DEF StopInternal
  <2>3. isPaused' \in BOOLEAN /\ quiet' \in BOOLEAN
    <3>1. CASE isStarted
      BY <1>2, <3>1, Zenon DEF StopInternal
    <3>2. CASE ~isStarted
      BY <1>2, <3>2 DEF StopInternal, IInv, TypeOK
    <3> QED
      BY <3>1, <3>2
  <2>4. position' \in Frames /\ last' \in [Sensors -> Frames]
    <3>1. 0 \in Frames
      BY PlaybackAssumption DEF Frames, Length
    <3> QED
      BY <1>2, <3>1 DEF StopInternal, IInv, TypeOK
  <2>5. TypeOK'
    <3>1. queue' = Rest /\ UNCHANGED <<realTime, rpc, stopping, flushed, active, svars, fvars, uvars, late, ghost>>
      BY <1>2 DEF StopInternal
    <3>2. Rest \in Seq([op : {"add", "stop", "pause", "resume", "flush", "loop"}, s : Sensors \cup {None}])
      BY <2>1, ActionsAreTyped
    <3> QED
      BY <2>1, <2>2, <2>3, <2>4, <3>1, <3>2, ZenonT(60) DEF IInv, TypeOK
  <2>6. StoppedIsQuiet' /\ LoopAlive'
    BY <1>2, <2>2 DEF StopInternal, IInv, StoppedIsQuiet, LoopAlive
  <2> QED
    BY <1>2, <2>1, <2>5, <2>6 DEF StopInternal, IInv
<1>3. CASE Pause
  <2>1. Rest \in Seq(Actions)
    BY <1>3, TakenKeepsLoop DEF Pause, Ops
  <2>2. isPaused' = TRUE /\ isPaused' \in BOOLEAN
    BY <1>3, Zenon DEF Pause
  <2>3. rpc' \in {"idle", "pausing"} /\ stopping' \subseteq Sensors
    BY <1>3 DEF Pause, Next1, IInv, TypeOK
  <2> QED
    BY <1>3, <2>1, <2>2, <2>3, ActionsAreTyped DEF Pause, IInv, TypeOK, StoppedIsQuiet, LoopAlive
<1>4. CASE FlushSensor \/ Paused
  BY <1>4 DEF FlushSensor, Paused, IInv, TypeOK, StoppedIsQuiet, LoopAlive, Queued
<1>5. CASE Resume
  <2>1. Rest \in Seq(Actions) /\ (isStarted /\ ~isPaused => In("loop", Rest))
    BY <1>5, TakenKeepsLoop DEF Resume, Ops
  <2>2. queue' \in Seq(Actions) /\ (isStarted => In("loop", queue'))
    <3>1. CASE isPaused
      BY <1>5, <2>1, <3>1, WithLoopHasLoop DEF Resume
    <3>2. CASE ~isPaused
      BY <1>5, <2>1, <3>2 DEF Resume
    <3> QED
      BY <3>1, <3>2
  <2>3. LoopAlive'
    BY <1>5, <2>2 DEF Resume, LoopAlive, Queued, In
  <2>4. position' \in Frames /\ lastPublished' \in Frames /\ last' \in [Sensors -> Frames]
    BY <1>0, <1>5 DEF Resume, IInv, TypeOK, Frames
  <2>5. isPaused' \in BOOLEAN /\ misled' \in BOOLEAN
    <3>1. CASE isPaused
      BY <1>5, <3>1, Zenon DEF Resume
    <3>2. CASE ~isPaused
      <4>1. UNCHANGED misled /\ isPaused' = FALSE
        BY <1>5, <3>2 DEF Resume
      <4> QED
        BY <4>1, Zenon DEF IInv, TypeOK
    <3> QED
      BY <3>1, <3>2
  <2> QED
    BY <1>5, <2>2, <2>3, <2>4, <2>5, ActionsAreTyped DEF Resume, IInv, TypeOK, StoppedIsQuiet
<1>6. CASE Flushed
  <2>1. Rest \in Seq(Actions) /\ (isStarted /\ ~isPaused => In("loop", Rest))
    BY <1>6, TakenKeepsLoop DEF Flushed, Ops
  <2>2. LoopAlive'
    BY <1>6, <2>1 DEF Flushed, LoopAlive, Queued, In
  <2>3. quiet' \in BOOLEAN
    BY <1>6, Zenon DEF Flushed
  <2> QED
    BY <1>6, <2>1, <2>2, <2>3, ActionsAreTyped DEF Flushed, IInv, TypeOK, StoppedIsQuiet
<1>7. CASE Loop
  <2>1. Rest \in Seq(Actions)
    BY <1>7, TakenKeepsLoop DEF Loop, Ops
  <2>2. rpc' \in {"handing", "ending", "again"}
    BY <1>7 DEF Loop
  <2>3. position' \in Frames /\ pending' \in [Sensors -> Frames] /\ stopping' \subseteq Sensors
    <3>1. CASE ~isStarted \/ position = Length
      BY <1>7, <3>1 DEF Loop, IInv, TypeOK
    <3>2. CASE isStarted /\ position # Length
      <4>1. position + 1 \in Frames
        BY <1>0, <3>2 DEF IInv, TypeOK, Frames
      <4>2. /\ position' = position + 1 /\ UNCHANGED stopping
            /\ pending' = pending \/ pending' = [pending EXCEPT ![File[position + 1]] = position + 1]
        BY <1>7, <3>2 DEF Loop
      <4> QED
        BY <4>1, <4>2 DEF IInv, TypeOK
    <3> QED
      BY <3>1, <3>2 DEF IInv, TypeOK
  <2>4. /\ queue' = Rest
        /\ UNCHANGED <<realTime, flushed, isStarted, isPaused, active, started, disp, current, showing,
             lastPublished, misled, upc, us, calls, requests, quiet, last, late, ghost>>
    BY <1>7 DEF Loop
  <2>5. TypeOK'
    BY <2>1, <2>2, <2>3, <2>4, ActionsAreTyped, ZenonT(60) DEF IInv, TypeOK
  <2> QED
    BY <2>1, <2>2, <2>4, <2>5 DEF IInv, StoppedIsQuiet, LoopAlive
<1>8. CASE Handed
  BY <1>8 DEF Handed, IInv, TypeOK, StoppedIsQuiet, LoopAlive
<1>9. CASE EndFlush
  BY <1>9 DEF EndFlush, IInv, TypeOK, StoppedIsQuiet, LoopAlive
<1>10. CASE EndSensor
  <2>1. flushed' = None /\ flushed \in Sensors
    BY <1>10 DEF EndSensor, IInv, TypeOK
  <2>2. active' \subseteq Sensors /\ queue' \in Seq(Actions)
    BY <1>0, <1>10, DeactivateKeeps DEF EndSensor, IInv, TypeOK
  <2>3. /\ started' \subseteq Sensors /\ disp' \in [Sensors -> {"none", "running", "stopped"}]
        /\ pending' \in [Sensors -> Frames] /\ late' \subseteq Sensors
        /\ UNCHANGED <<current, showing, lastPublished, misled>>
    <3>1. 0 \in Frames
      BY <1>0 DEF Frames
    <3>2. CASE flushed \in started
      BY <1>10, <2>1, <3>1, <3>2 DEF EndSensor, StopSensor, IInv, TypeOK
    <3>3. CASE flushed \notin started
      BY <1>10, <3>3 DEF EndSensor, IInv, TypeOK
    <3> QED
      BY <3>2, <3>3
  <2>4. showing' \subseteq started'
    BY <1>10 DEF EndSensor, StopSensor, IInv, StoppedIsQuiet
  <2>5. ghost' \in BOOLEAN
    BY <1>10, Zenon DEF EndSensor
  <2> QED
    BY <1>10, <2>1, <2>2, <2>3, <2>4, <2>5, ActionsAreTyped DEF EndSensor, IInv, TypeOK, StoppedIsQuiet, LoopAlive
<1>11. CASE Ended
  <2>1. misled' = FALSE /\ misled' \in BOOLEAN
    BY <1>11, Zenon DEF Ended
  <2> QED
    BY <1>0, <1>11, <2>1 DEF Ended, IInv, TypeOK, Frames, StoppedIsQuiet, LoopAlive
<1>12. CASE Again
  <2>1. queue' \in Seq(Actions) /\ (isStarted /\ ~isPaused => In("loop", queue'))
    BY <1>0, <1>12, WithLoopHasLoop DEF Again
  <2> QED
    BY <1>12, <2>1, ActionsAreTyped DEF Again, IInv, TypeOK, StoppedIsQuiet, LoopAlive, Queued, In
<1> QED
  BY <1>1, <1>2, <1>3, <1>4, <1>5, <1>6, <1>7, <1>8, <1>9, <1>10, <1>11, <1>12 DEF ReadThread

\* The thread of a sensor's dispatcher.
LEMMA CallbackStep ==
  ASSUME IInv, NEW s \in Sensors, Callback(s)
  PROVE  IInv'
<1> USE DEF rvars, dvars, svars, uvars, IInv, TypeOK, StoppedIsQuiet, LoopAlive, Queued
<1>0. 0 \in Frames
  BY PlaybackAssumption DEF Frames, Length
<1>1. CASE Take(s)
  BY <1>0, <1>1 DEF Take
<1>2. CASE Show(s)
  BY <1>0, <1>2 DEF Show, Drop, Publish
<1>3. CASE Shown(s)
  <2>1. misled' \in BOOLEAN
    BY <1>3, Zenon DEF Shown
  <2> QED
    BY <1>0, <1>3, <2>1 DEF Shown
<1> QED
  BY <1>1, <1>2, <1>3 DEF Callback

\* The invariant is inductive.
LEMMA PlaybackInvariant == Spec => []IInv
<1>1. Init => IInv
  <2> SUFFICES ASSUME Init PROVE IInv
    OBVIOUS
  <2>1. isStarted \in BOOLEAN /\ isPaused \in BOOLEAN /\ quiet \in BOOLEAN /\ ghost \in BOOLEAN
        /\ misled \in BOOLEAN
    BY Zenon DEF Init
  <2>2. 0 \in Frames /\ 0 \in Nat /\ 0 \in 0..MaxRequests
    BY PlaybackAssumption DEF Frames, Length
  <2>3. StoppedIsQuiet /\ LoopAlive
    BY DEF Init, StoppedIsQuiet, LoopAlive
  <2> QED
    BY <2>1, <2>2, <2>3 DEF Init, IInv, TypeOK
<1>2. IInv /\ [Next]_vars => IInv'
  <2> SUFFICES ASSUME IInv, [Next]_vars PROVE IInv'
    OBVIOUS
  <2>1. CASE UNCHANGED vars
    BY <2>1 DEF vars, rvars, dvars, svars, fvars, uvars, IInv, TypeOK, StoppedIsQuiet, LoopAlive, Queued
  <2> QED
    BY <2>1, ApplicationStep, ReadThreadStep, CallbackStep DEF Next, Done
<1> QED
  BY <1>1, <1>2, PTL DEF Spec

-------------------------------------------------------------------------------
\* Every variable stays in its type.
THEOREM PlaybackTypeCorrect == Spec => []TypeOK
<1>1. IInv => TypeOK
  BY DEF IInv
<1> QED
  BY <1>1, PlaybackInvariant, PTL

\* playback_sensor::stop() waits for a callback that runs, and one that comes
\* late asks m_is_started again.
THEOREM StoppedSensorIsQuiet == Spec => []StoppedIsQuiet
<1>1. IInv => StoppedIsQuiet
  BY DEF IInv
<1> QED
  BY <1>1, PlaybackInvariant, PTL

\* do_loop() queues itself again unless the device stops or pauses, and whoever
\* starts or resumes it queues it anew.
THEOREM PlayingDeviceReadsOn == Spec => []LoopAlive
<1>1. IInv => LoopAlive
  BY DEF IInv
<1> QED
  BY <1>1, PlaybackInvariant, PTL

-------------------------------------------------------------------------------
(***************************************************************************)
(* Frames that are late                                                    *)
(*                                                                         *)
(* A frame that a sensor's thread had in hand when the sensor was stopped  *)
(* is waited for by no flush.  All the others belong to a sensor that is   *)
(* started and to a dispatcher that runs.                                  *)
(***************************************************************************)

Own(s) == pending[s] # 0 \/ (current[s] # 0 /\ s \notin late)

OwnShown == showing \ late

OwnInv == \A s \in Sensors : Own(s) => s \in started /\ disp[s] = "running"

LEMMA OwnInvariant == Spec => []OwnInv
<1> USE DEF rvars, dvars, svars, fvars, uvars
<1>1. Init => OwnInv
  BY DEF Init, OwnInv, Own
<1>2. IInv /\ OwnInv /\ [Next]_vars => OwnInv'
  <2> SUFFICES ASSUME IInv, OwnInv, [Next]_vars, NEW t \in Sensors, Own(t)'
               PROVE  t \in started' /\ disp'[t] = "running"
    BY DEF OwnInv
  <2>0. /\ disp \in [Sensors -> {"none", "running", "stopped"}]
        /\ pending \in [Sensors -> Frames] /\ current \in [Sensors -> Frames]
        /\ Own(t) => t \in started /\ disp[t] = "running"
    BY DEF IInv, TypeOK, OwnInv
  <2>1. CASE UNCHANGED <<started, disp, pending, current, late>>
    BY <2>0, <2>1 DEF Own
  <2>2. ASSUME NEW s \in Sensors, Open(s) \/ Start(s) \/ Close(s) PROVE t \in started' /\ disp'[t] = "running"
    BY <2>0, <2>2 DEF Open, Start, Close, Own
  <2>3. ASSUME NEW s \in Sensors, StopSensor(s) PROVE t \in started' /\ disp'[t] = "running"
    BY <2>0, <2>3 DEF StopSensor, Own
  <2>4. CASE EndSensor
    <3>1. flushed \in Sensors
      BY <2>4 DEF EndSensor, IInv, TypeOK
    <3> QED
      BY <2>1, <2>3, <2>4, <3>1 DEF EndSensor
  <2>5. CASE Loop
    <3>1. \/ UNCHANGED pending
          \/ \E s \in started : disp[s] = "running" /\ pending' = [pending EXCEPT ![s] = position + 1]
      BY <2>5 DEF Loop
    <3>2. UNCHANGED <<started, disp, current, late>>
      BY <2>5 DEF Loop
    <3> QED
      BY <2>0, <2>1, <3>1, <3>2 DEF Own
  <2>6. ASSUME NEW s \in Sensors, Callback(s) PROVE t \in started' /\ disp'[t] = "running"
    BY <2>0, <2>6 DEF Callback, Take, Show, Drop, Publish, Shown, Own
  <2>7. ASSUME NEW s \in Sensors, UserStop(s) PROVE t \in started' /\ disp'[t] = "running"
    BY <2>3, <2>7 DEF UserStop
  <2>8. CASE UserStopped \/ (\E op \in {"pause", "resume", "stop"} : Request(op)) \/ Done \/ UNCHANGED vars
    BY <2>1, <2>8 DEF UserStopped, Request, Done, vars
  <2>9. CASE Activate \/ StopInternal \/ Pause \/ FlushSensor \/ Paused \/ Resume
    BY <2>1, <2>9 DEF Activate, StopInternal, Pause, FlushSensor, Paused, Resume
  <2>10. CASE Flushed \/ Handed \/ EndFlush \/ Ended \/ Again
    BY <2>1, <2>10 DEF Flushed, Handed, EndFlush, Ended, Again
  <2> QED
    BY <2>2, <2>4, <2>5, <2>6, <2>7, <2>8, <2>9, <2>10 DEF Next, Application, ReadThread
<1> QED
  BY <1>1, <1>2, PlaybackInvariant, PTL DEF Spec

\* What a flush does not wait for was dropped, or is late.
LEMMA FlushLeavesOwn ==
  ASSUME IInv, OwnInv, NEW s \in Sensors, FlushReturns(s)
  PROVE  s \notin OwnShown
  BY DEF IInv, TypeOK, OwnInv, Own, OwnShown, FlushReturns, Busy

-------------------------------------------------------------------------------
(***************************************************************************)
(* A paused device is quiet                                                *)
(*                                                                         *)
(* The action of pause() waits for the callbacks only if the device is     *)
(* started and was not paused; a device that is paused while it is stopped *)
(* may be started later, by an action that was queued or by start().  That *)
(* no callback runs then depends on the order of the queue: pause() is     *)
(* called when every start() before it has queued its action, so whoever   *)
(* shows a frame when the device is paused is active, and a device with    *)
(* an active sensor is not started anew.  Frames that are late are left    *)
(* out: no flush waits for them.                                           *)
(***************************************************************************)

\* What the application waits for is the last of its actions, and it calls
\* start() no more after pause().
Wrong(first, second) ==
  \/ first = "flush" /\ second \in {"pause", "resume", "flush"}
  \/ first = "pause" /\ second = "add"

Ordered(q) == \A i, j \in DOMAIN q : i < j => ~Wrong(q[i].op, q[j].op)

AddIn(s, q) == \E i \in DOMAIN q : q[i] = Action("add", s)

Requests == {"pause", "resume", "flush"}
WaitInv == upc # "waiting" => \A op \in Requests : ~In(op, queue)
ResumeInv == In("resume", queue) => ~quiet
AddInv == \A s \in started : s \in active \/ AddIn(s, queue)
StopInv == upc = "stop" => us \notin started
QuietInv == quiet => isPaused /\ isStarted /\ rpc # "pausing"
ShownInv ==
  /\ rpc = "pausing" => isPaused /\ OwnShown \subseteq stopping
  /\ isPaused => /\ OwnShown \subseteq active
                 /\ isStarted /\ rpc # "pausing" => OwnShown = {}

PInv == Ordered(queue) /\ WaitInv /\ ResumeInv /\ AddInv /\ StopInv /\ QuietInv /\ ShownInv

\* From q to r no request came, and none changed its place.
Calm(q, r) == /\ Ordered(q) => Ordered(r)
              /\ \A op \in Requests : In(op, r) => In(op, q)

\* Every sensor to be activated in q is to be activated in r.
Adds(q, r) == \A s \in Sensors : AddIn(s, q) => AddIn(s, r)

\* An action appended comes after all others.
LEMMA AppendOrders ==
  ASSUME NEW q \in Seq(Actions), NEW a \in Actions
  PROVE  /\ Ordered(q) /\ (\A op \in Ops : In(op, q) => ~Wrong(op, a.op)) => Ordered(Append(q, a))
         /\ \A op : In(op, Append(q, a)) => In(op, q) \/ op = a.op
         /\ Adds(q, Append(q, a))
         /\ \A s : a = Action("add", s) => AddIn(s, Append(q, a))
<1> DEFINE r == Append(q, a)
<1>1. /\ DOMAIN r = 1..Len(q) + 1 /\ DOMAIN q = 1..Len(q) /\ Len(q) \in Nat
      /\ \A i \in DOMAIN q : r[i] = q[i] /\ i \in DOMAIN r /\ q[i].op \in Ops
      /\ r[Len(q) + 1] = a
  BY DEF Actions
<1> HIDE DEF r
<1>2. ASSUME Ordered(q), \A op \in Ops : In(op, q) => ~Wrong(op, a.op),
             NEW i \in DOMAIN r, NEW j \in DOMAIN r, i < j
      PROVE  ~Wrong(r[i].op, r[j].op)
  <2>1. i \in DOMAIN q
    BY <1>1, <1>2
  <2>2. CASE j \in DOMAIN q
    BY <1>1, <1>2, <2>1, <2>2 DEF Ordered
  <2>3. CASE j = Len(q) + 1
    BY <1>1, <1>2, <2>1, <2>3 DEF In
  <2> QED
    BY <1>1, <2>2, <2>3
<1>3. ASSUME NEW op, In(op, r) PROVE In(op, q) \/ op = a.op
  BY <1>1, <1>3 DEF In
<1>4. \A s : AddIn(s, q) => AddIn(s, r)
  BY <1>1 DEF AddIn
<1>5. \A s : a = Action("add", s) => AddIn(s, r)
  BY <1>1 DEF AddIn
<1> QED
  BY <1>2, <1>3, <1>4, <1>5 DEF r, Ordered, Adds

\* An action of the read thread's own is no request.
LEMMA AppendIsCalm ==
  ASSUME NEW q \in Seq(Actions), NEW a \in Actions, a.op \in {"loop", "stop"}
  PROVE  Calm(q, Append(q, a)) /\ Adds(q, Append(q, a))
<1>1. \A op : ~Wrong(op, a.op)
  BY DEF Wrong
<1> QED
  BY <1>1, AppendOrders DEF Calm, Requests

\* What is taken came before all others.
LEMMA TailOrders ==
  ASSUME NEW q \in Seq(Actions), q # <<>>
  PROVE  /\ Calm(q, Tail(q))
         /\ Ordered(q) => \A op : In(op, Tail(q)) => ~Wrong(Head(q).op, op)
         /\ \A s : AddIn(s, q) => AddIn(s, Tail(q)) \/ Head(q) = Action("add", s)
<1> DEFINE r == Tail(q)
<1>1. /\ DOMAIN r = 1..Len(q) - 1 /\ DOMAIN q = 1..Len(q) /\ Len(q) \in Nat \ {0}
      /\ \A i \in DOMAIN r : r[i] = q[i + 1] /\ i + 1 \in DOMAIN q
      /\ Head(q) = q[1] /\ 1 \in DOMAIN q
  OBVIOUS
<1> HIDE DEF r
<1>2. Ordered(q) => Ordered(r)
  BY <1>1 DEF Ordered
<1>3. \A op : In(op, r) => In(op, q)
  BY <1>1 DEF In
<1>4. ASSUME Ordered(q), NEW op, In(op, r) PROVE ~Wrong(Head(q).op, op)
  <2>1. PICK i \in DOMAIN r : r[i].op = op
    BY <1>4 DEF In
  <2>2. i + 1 \in DOMAIN q /\ q[i + 1].op = op /\ 1 < i + 1
    BY <1>1, <2>1
  <2> QED
    BY <1>1, <1>4, <2>2 DEF Ordered
<1>5. ASSUME NEW s, AddIn(s, q), Head(q) # Action("add", s) PROVE AddIn(s, r)
  <2>1. PICK i \in DOMAIN q : q[i] = Action("add", s)
    BY <1>5 DEF AddIn
  <2>2. i # 1
    BY <1>1, <1>5, <2>1
  <2>3. i - 1 \in DOMAIN r /\ r[i - 1] = q[i]
    BY <1>1, <2>2
  <2> QED
    BY <2>1, <2>3 DEF AddIn
<1> QED
  BY <1>2, <1>3, <1>4, <1>5 DEF r, Calm

\* The actions of the read thread that are no activation.
LEMMA TakenIsCalm ==
  ASSUME IInv, PInv, NEW op \in Ops, Next1(op)
  PROVE  /\ rpc = "idle" /\ Rest \in Seq(Actions) /\ In(op, queue)
         /\ Calm(queue, Rest) /\ Calm(queue, WithLoop(Rest))
         /\ op # "add" => Adds(queue, Rest) /\ Adds(queue, WithLoop(Rest))
         /\ \A second : In(second, Rest) => ~Wrong(op, second)
<1>1. /\ queue \in Seq(Actions) /\ queue # <<>> /\ Head(queue).op = op /\ Rest = Tail(queue)
      /\ rpc = "idle" /\ Ordered(queue)
  BY DEF IInv, PInv, Next1, Rest
<1>2. Rest \in Seq(Actions) /\ In(op, queue)
  <2>1. 1 \in DOMAIN queue /\ queue[1] = Head(queue)
    BY <1>1
  <2> QED
    BY <1>1, <2>1 DEF In
<1>3. Calm(queue, Rest) /\ \A second : In(second, Rest) => ~Wrong(op, second)
  BY <1>1, TailOrders
<1>4. op # "add" => Adds(queue, Rest)
  <2>1. \A s : Action("add", s).op = "add"
    BY DEF Action
  <2> QED
    BY <1>1, <2>1, TailOrders DEF Adds
<1>5. Calm(Rest, WithLoop(Rest)) /\ Adds(Rest, WithLoop(Rest))
  <2>1. Action("loop", None) \in Actions /\ Action("loop", None).op = "loop"
    BY ActionIsAction DEF Ops
  <2> QED
    BY <1>2, <2>1, AppendIsCalm DEF WithLoop
<1>6. Calm(queue, WithLoop(Rest))
  BY <1>3, <1>5 DEF Calm
<1>7. op # "add" => Adds(queue, WithLoop(Rest))
  BY <1>4, <1>5 DEF Adds
<1> QED
  BY <1>1, <1>2, <1>3, <1>4, <1>6, <1>7

\* What a step without a request leaves of the invariant.
LEMMA CalmStep ==
  ASSUME PInv, Calm(queue, queue'), quiet' => quiet, upc' # "waiting" => upc # "waiting"
  PROVE  Ordered(queue') /\ WaitInv' /\ ResumeInv'
  BY DEF PInv, Calm, WaitInv, ResumeInv, Requests

LEMMA AddsStep ==
  ASSUME IInv, PInv, Adds(queue, queue'), started' \subseteq started,
         \A s \in started' : s \in active => s \in active'
  PROVE  AddInv'
  BY DEF IInv, TypeOK, PInv, Adds, AddInv

LEMMA SameQueue == Calm(queue, queue) /\ Adds(queue, queue)
  BY DEF Calm, Adds

\* on_stopped() of a sensor that is not started.
LEMMA DeactivateIsCalm ==
  ASSUME IInv, NEW s, Deactivate(s)
  PROVE  /\ Calm(queue, queue') /\ Adds(queue, queue')
         /\ \A t : t # s /\ t \in active => t \in active'
<1>1. Action("stop", None) \in Actions /\ Action("stop", None).op = "stop" /\ queue \in Seq(Actions)
  BY ActionIsAction DEF Ops, IInv
<1>2. Calm(queue, Append(queue, Action("stop", None))) /\ Adds(queue, Append(queue, Action("stop", None)))
  BY <1>1, AppendIsCalm
<1> QED
  BY <1>2, SameQueue DEF Deactivate

LEMMA ApplicationIsQuiet ==
  ASSUME IInv, PInv, Application
  PROVE  PInv'
<1> USE DEF rvars, dvars, svars, fvars, uvars
<1>0. queue \in Seq(Actions) /\ \A t \in Sensors \cup {None} : t \in Sensors => Action("add", t) \in Actions
  BY ActionIsAction DEF IInv, Ops
<1>1. ASSUME NEW s \in Sensors, Open(s) \/ Close(s) PROVE PInv'
  BY <1>1 DEF Open, Close, PInv, Ordered, WaitInv, ResumeInv, AddInv, StopInv, QuietInv, ShownInv, OwnShown, In, AddIn
<1>2. ASSUME NEW s \in Sensors, Start(s) PROVE PInv'
  <2>1. /\ upc = "idle" /\ upc' = "idle" /\ started' = started \cup {s}
        /\ queue' = Append(queue, Action("add", s))
        /\ UNCHANGED <<active, quiet, isPaused, isStarted, rpc, stopping, OwnShown>>
    BY <1>2 DEF Start, Call, OwnShown
  <2>2. Action("add", s) \in Actions /\ Action("add", s).op = "add"
    BY ActionIsAction DEF Ops
  <2>3. \A op \in Ops : In(op, queue) => ~Wrong(op, "add")
    BY <2>1 DEF PInv, WaitInv, Requests, Wrong
  <2>4. /\ Ordered(queue') /\ Adds(queue, queue') /\ AddIn(s, queue')
        /\ \A op : In(op, queue') => In(op, queue) \/ op = "add"
    BY <1>0, <2>1, <2>2, <2>3, AppendOrders DEF PInv
  <2>5. WaitInv' /\ ResumeInv'
    BY <2>1, <2>4 DEF PInv, WaitInv, ResumeInv, Requests
  <2>6. AddInv'
    BY <2>1, <2>4 DEF IInv, TypeOK, PInv, AddInv, Adds
  <2>7. StopInv' /\ QuietInv' /\ ShownInv'
    BY <2>1 DEF PInv, StopInv, QuietInv, ShownInv
  <2> QED
    BY <2>4, <2>5, <2>6, <2>7 DEF PInv
<1>3. ASSUME NEW s \in Sensors, UserStop(s) PROVE PInv'
  <2>1. /\ upc = "idle" /\ upc' = "stop" /\ us' = s /\ started' = started \ {s}
        /\ UNCHANGED <<queue, active, quiet, isPaused, isStarted, rpc, stopping, OwnShown>>
    BY <1>3 DEF UserStop, Call, StopSensor, OwnShown
  <2>2. Ordered(queue)' /\ WaitInv' /\ ResumeInv' /\ AddInv'
    BY <2>1 DEF PInv, Ordered, WaitInv, ResumeInv, AddInv, In, AddIn
  <2>3. StopInv' /\ QuietInv' /\ ShownInv'
    BY <2>1 DEF PInv, StopInv, QuietInv, ShownInv
  <2> QED
    BY <2>2, <2>3 DEF PInv
<1>4. CASE UserStopped
  <2>1. /\ upc = "stop" /\ upc' = "idle" /\ us \notin started /\ Deactivate(us)
        /\ UNCHANGED <<started, quiet, isPaused, isStarted, rpc, stopping, OwnShown>>
    BY <1>4 DEF UserStopped, PInv, StopInv, OwnShown
  <2>2. /\ Calm(queue, queue') /\ Adds(queue, queue')
        /\ \A t \in started : t \in active => t \in active'
    BY <2>1, DeactivateIsCalm
  <2>3. Ordered(queue') /\ WaitInv' /\ ResumeInv'
    BY <2>1, <2>2, CalmStep
  <2>4. AddInv'
    BY <2>1, <2>2, AddsStep
  <2>5. StopInv' /\ QuietInv'
    BY <2>1 DEF PInv, StopInv, QuietInv
  <2>6. ShownInv'
    <3>1. OwnShown \subseteq started
      BY DEF IInv, StoppedIsQuiet, OwnShown
    <3> QED
      BY <2>1, <2>2, <3>1 DEF PInv, ShownInv
  <2> QED
    BY <2>3, <2>4, <2>5, <2>6 DEF PInv
<1>5. ASSUME NEW op \in {"pause", "resume", "stop"}, Request(op) PROVE PInv'
  <2> DEFINE q == Append(queue, Action(op, None))
  <2>1. /\ upc = "idle" /\ upc' = "waiting"
        /\ quiet' = (quiet /\ op = "pause")
        /\ UNCHANGED <<active, started, isPaused, isStarted, rpc, stopping, OwnShown, us>>
    BY <1>5 DEF Request, Call, OwnShown
  <2>2. /\ Action(op, None) \in Actions /\ Action(op, None).op = op
        /\ Action("flush", None) \in Actions /\ Action("flush", None).op = "flush"
    BY ActionIsAction DEF Ops
  <2>3. queue' = Append(q, Action("flush", None))
    BY <1>0, <1>5, <2>2 DEF Request
  <2>4. \A o \in Requests : ~In(o, queue)
    BY <2>1 DEF PInv, WaitInv
  <2>5. /\ q \in Seq(Actions) /\ Ordered(q) /\ Adds(queue, q)
        /\ \A o : In(o, q) => In(o, queue) \/ o = op
    <3>1. \A o \in Ops : In(o, queue) => ~Wrong(o, op)
      BY <2>4 DEF Wrong, Requests
    <3> QED
      BY <1>0, <2>2, <3>1, AppendOrders, AppendKeeps DEF PInv
  <2> HIDE DEF q
  <2>6. /\ Ordered(queue') /\ Adds(q, queue')
        /\ \A o : In(o, queue') => In(o, q) \/ o = "flush"
    <3>1. \A o \in Ops : In(o, q) => ~Wrong(o, "flush")
      BY <2>4, <2>5 DEF Wrong, Requests
    <3> QED
      BY <2>2, <2>3, <2>5, <3>1, AppendOrders
  <2>7. ResumeInv'
    <3>1. In("resume", queue') => op = "resume"
      BY <2>4, <2>5, <2>6 DEF Requests
    <3> QED
      BY <2>1, <3>1 DEF ResumeInv
  <2>8. AddInv'
    BY <2>1, <2>5, <2>6 DEF IInv, TypeOK, PInv, AddInv, Adds
  <2>9. WaitInv' /\ StopInv' /\ QuietInv' /\ ShownInv'
    BY <2>1 DEF PInv, WaitInv, StopInv, QuietInv, ShownInv
  <2> QED
    BY <2>6, <2>7, <2>8, <2>9 DEF PInv
<1> QED
  BY <1>1, <1>2, <1>3, <1>4, <1>5 DEF Application

LEMMA ReadThreadIsQuiet ==
  ASSUME IInv, OwnInv, PInv, ReadThread
  PROVE  PInv'
<1> USE DEF rvars, dvars, svars, fvars, uvars
<1>1. CASE Activate
  <2>1. /\ Calm(queue, Rest) /\ Calm(queue, WithLoop(Rest)) /\ rpc = "idle" /\ Rest \in Seq(Actions)
        /\ queue \in Seq(Actions) /\ queue # <<>> /\ Rest = Tail(queue)
    BY <1>1, TakenIsCalm DEF Activate, Next1, Ops, Rest, IInv
  <2>2. PICK s :
          /\ s = Head(queue).s
          /\ active' = active \cup {s}
          /\ IF active = {} /\ ~isStarted
               THEN isStarted' = TRUE /\ queue' = WithLoop(Rest)
               ELSE queue' = Rest /\ UNCHANGED isStarted
          /\ UNCHANGED <<rpc, isPaused, started, upc, us, quiet, OwnShown>>
    BY <1>1 DEF Activate, OwnShown
  <2>3. Calm(queue, queue')
    BY <2>1, <2>2
  <2>4. Ordered(queue') /\ WaitInv' /\ ResumeInv'
    BY <2>2, <2>3, CalmStep
  <2>5. AddInv'
    <3> SUFFICES ASSUME NEW t \in started, t \notin active' PROVE AddIn(t, queue')
      BY <2>2 DEF AddInv
    <3>1. AddIn(t, queue) /\ t # s
      BY <2>2 DEF PInv, AddInv
    <3>2. Action("add", t).s = t
      BY DEF Action
    <3>3. AddIn(t, Rest)
      BY <2>1, <2>2, <3>1, <3>2, TailOrders
    <3>4. Adds(Rest, WithLoop(Rest))
      <4>1. Action("loop", None) \in Actions /\ Action("loop", None).op = "loop"
        BY ActionIsAction DEF Ops
      <4> QED
        BY <2>1, <4>1, AppendIsCalm DEF WithLoop
    <3> QED
      BY <2>2, <3>3, <3>4 DEF Adds, IInv, TypeOK
  <2>6. StopInv' /\ QuietInv'
    BY <2>1, <2>2 DEF PInv, StopInv, QuietInv
  <2>7. ShownInv'
    BY <2>1, <2>2 DEF PInv, ShownInv
  <2> QED
    BY <2>4, <2>5, <2>6, <2>7 DEF PInv
<1>2. CASE StopInternal
  <2>1. Calm(queue, Rest) /\ Adds(queue, Rest) /\ rpc = "idle"
    BY <1>2, TakenIsCalm DEF StopInternal, Ops
  <2>2. /\ queue' = Rest /\ isStarted' = FALSE
        /\ isStarted => isPaused' = FALSE /\ quiet' = FALSE
        /\ ~isStarted => UNCHANGED <<isPaused, quiet>>
        /\ UNCHANGED <<rpc, active, started, upc, us, OwnShown>>
    BY <1>2 DEF StopInternal, OwnShown
  <2>3. ~quiet'
    BY <2>2 DEF PInv, QuietInv
  <2>4. Ordered(queue') /\ WaitInv' /\ ResumeInv'
    BY <2>1, <2>2, <2>3, CalmStep
  <2>5. AddInv'
    BY <2>1, <2>2, AddsStep
  <2>6. StopInv' /\ QuietInv' /\ ShownInv'
    BY <2>1, <2>2, <2>3 DEF PInv, StopInv, QuietInv, ShownInv
  <2> QED
    BY <2>4, <2>5, <2>6 DEF PInv
<1>3. CASE Pause
  <2>1. Calm(queue, Rest) /\ Adds(queue, Rest) /\ rpc = "idle" /\ ~In("add", Rest)
    BY <1>3, TakenIsCalm DEF Pause, Ops, Wrong
  <2>2. /\ queue' = Rest /\ isPaused' = TRUE
        /\ rpc' = IF isStarted /\ ~isPaused THEN "pausing" ELSE "idle"
        /\ isStarted /\ ~isPaused => stopping' = Sensors
        /\ UNCHANGED <<isStarted, active, started, upc, us, quiet, OwnShown>>
    BY <2>1, <1>3 DEF Pause, OwnShown
  <2>3. Ordered(queue') /\ WaitInv' /\ ResumeInv'
    BY <2>1, <2>2, CalmStep
  <2>4. AddInv'
    BY <2>1, <2>2, AddsStep
  <2>5. StopInv' /\ QuietInv'
    BY <2>1, <2>2 DEF PInv, StopInv, QuietInv
  <2>6. started \subseteq active
    <3>1. \A s : ~AddIn(s, Rest)
      <4>1. \A s : Action("add", s).op = "add"
        BY DEF Action
      <4> QED
        BY <2>1, <4>1 DEF AddIn, In
    <3> QED
      BY <2>2, <2>4, <3>1 DEF AddInv
  <2>7. ShownInv'
    <3>1. OwnShown \subseteq started /\ started \subseteq Sensors
      BY DEF IInv, TypeOK, StoppedIsQuiet, OwnShown
    <3> QED
      BY <2>1, <2>2, <2>6, <3>1 DEF PInv, ShownInv
  <2> QED
    BY <2>3, <2>4, <2>5, <2>7 DEF PInv
<1>4. CASE FlushSensor \/ Paused
  <2>1. /\ rpc = "pausing"
        /\ UNCHANGED <<queue, isStarted, isPaused, active, started, upc, us, quiet, OwnShown>>
    BY <1>4 DEF FlushSensor, Paused, OwnShown
  <2>2. Ordered(queue') /\ WaitInv' /\ ResumeInv' /\ AddInv'
    BY <2>1, SameQueue, CalmStep, AddsStep
  <2>3. StopInv' /\ QuietInv'
    BY <2>1 DEF PInv, StopInv, QuietInv
  <2>4. ShownInv'
    <3>1. CASE FlushSensor
      <4>1. PICK s \in stopping : FlushReturns(s) /\ stopping' = stopping \ {s} /\ rpc' = "pausing"
        BY <2>1, <3>1 DEF FlushSensor
      <4>2. s \notin OwnShown
        BY <4>1, FlushLeavesOwn DEF IInv, TypeOK
      <4> QED
        BY <2>1, <4>1, <4>2 DEF PInv, ShownInv
    <3>2. CASE Paused
      BY <2>1, <3>2 DEF Paused, PInv, ShownInv
    <3> QED
      BY <1>4, <3>1, <3>2
  <2> QED
    BY <2>2, <2>3, <2>4 DEF PInv
<1>5. CASE Resume
  <2>1. /\ Calm(queue, Rest) /\ Adds(queue, Rest) /\ In("resume", queue) /\ rpc = "idle"
        /\ Calm(queue, WithLoop(Rest)) /\ Adds(queue, WithLoop(Rest))
    BY <1>5, TakenIsCalm DEF Resume, Ops
  <2>2. /\ queue' \in {Rest, WithLoop(Rest)} /\ isPaused' = FALSE
        /\ UNCHANGED <<rpc, isStarted, active, started, upc, us, quiet, OwnShown>>
    BY <1>5 DEF Resume, OwnShown
  <2>3. Ordered(queue') /\ WaitInv' /\ ResumeInv' /\ AddInv'
    <3>1. Calm(queue, queue') /\ Adds(queue, queue')
      BY <2>1, <2>2
    <3> QED
      BY <2>2, <3>1, CalmStep, AddsStep
  <2>4. ~quiet
    BY <2>1 DEF PInv, ResumeInv
  <2>5. StopInv' /\ QuietInv' /\ ShownInv'
    BY <2>1, <2>2, <2>4 DEF PInv, StopInv, QuietInv, ShownInv
  <2> QED
    BY <2>3, <2>5 DEF PInv
<1>6. CASE Flushed
  <2>1. /\ Calm(queue, Rest) /\ Adds(queue, Rest) /\ rpc = "idle"
        /\ \A op \in Requests : ~In(op, Rest)
    BY <1>6, TakenIsCalm DEF Flushed, Ops, Wrong, Requests
  <2>2. /\ queue' = Rest /\ upc' = "idle" /\ quiet' = (isPaused /\ isStarted)
        /\ UNCHANGED <<rpc, isStarted, isPaused, active, started, us, OwnShown>>
    BY <1>6 DEF Flushed, OwnShown
  <2>3. Ordered(queue') /\ WaitInv' /\ ResumeInv'
    BY <2>1, <2>2 DEF PInv, Calm, WaitInv, ResumeInv, Requests
  <2>4. AddInv'
    BY <2>1, <2>2, AddsStep
  <2>5. StopInv' /\ QuietInv' /\ ShownInv'
    BY <2>1, <2>2 DEF PInv, StopInv, QuietInv, ShownInv
  <2> QED
    BY <2>3, <2>4, <2>5 DEF PInv
<1>7. CASE Loop
  <2>1. Calm(queue, Rest) /\ Adds(queue, Rest) /\ rpc = "idle"
    BY <1>7, TakenIsCalm DEF Loop, Ops
  <2>2. /\ queue' = Rest /\ rpc' # "pausing"
        /\ UNCHANGED <<isStarted, isPaused, active, started, upc, us, quiet, OwnShown>>
    BY <1>7 DEF Loop, OwnShown
  <2>3. Ordered(queue') /\ WaitInv' /\ ResumeInv' /\ AddInv'
    BY <2>1, <2>2, CalmStep, AddsStep
  <2>4. StopInv' /\ QuietInv' /\ ShownInv'
    BY <2>1, <2>2 DEF PInv, StopInv, QuietInv, ShownInv
  <2> QED
    BY <2>3, <2>4 DEF PInv
<1>8. CASE Handed \/ EndFlush \/ Ended
  <2>1. /\ rpc # "pausing" /\ rpc' # "pausing"
        /\ UNCHANGED <<queue, isStarted, isPaused, active, started, upc, us, quiet, OwnShown>>
    BY <1>8 DEF Handed, EndFlush, Ended, OwnShown
  <2>2. Ordered(queue') /\ WaitInv' /\ ResumeInv' /\ AddInv'
    BY <2>1, SameQueue, CalmStep, AddsStep
  <2>3. StopInv' /\ QuietInv' /\ ShownInv'
    BY <2>1 DEF PInv, StopInv, QuietInv, ShownInv
  <2> QED
    BY <2>2, <2>3 DEF PInv
<1>9. CASE EndSensor
  <2>1. UNCHANGED <<rpc, isStarted, isPaused, upc, us, quiet>> /\ rpc = "ending"
    BY <1>9 DEF EndSensor
  <2>2. /\ Calm(queue, queue') /\ Adds(queue, queue') /\ OwnShown' = OwnShown
        /\ started' \subseteq started /\ OwnShown \subseteq started'
        /\ \A t \in started' : t \in active => t \in active'
    <3>0. OwnShown \subseteq started
      BY DEF IInv, StoppedIsQuiet, OwnShown
    <3>1. CASE flushed \in started
      <4>1. started' = started \ {flushed} /\ OwnShown' = OwnShown /\ flushed \notin OwnShown
        BY <1>9, <3>1 DEF EndSensor, StopSensor, OwnShown
      <4>2. Calm(queue, queue') /\ Adds(queue, queue') /\ \A t : t # flushed /\ t \in active => t \in active'
        BY <1>9, <3>1, DeactivateIsCalm DEF EndSensor
      <4> QED
        BY <3>0, <4>1, <4>2
    <3>2. CASE flushed \notin started
      <4>1. UNCHANGED <<queue, active, started, OwnShown>>
        BY <1>9, <3>2 DEF EndSensor, OwnShown
      <4> QED
        BY <3>0, <4>1, SameQueue
    <3> QED
      BY <3>1, <3>2
  <2>3. Ordered(queue') /\ WaitInv' /\ ResumeInv' /\ AddInv'
    BY <2>1, <2>2, CalmStep, AddsStep
  <2>4. StopInv' /\ QuietInv' /\ ShownInv'
    BY <2>1, <2>2 DEF PInv, StopInv, QuietInv, ShownInv
  <2> QED
    BY <2>3, <2>4 DEF PInv
<1>10. CASE Again
  <2>1. /\ rpc = "again" /\ rpc' = "idle" /\ queue' \in {queue, WithLoop(queue)}
        /\ UNCHANGED <<isStarted, isPaused, active, started, upc, us, quiet, OwnShown>>
    BY <1>10 DEF Again, OwnShown
  <2>2. Calm(queue, queue') /\ Adds(queue, queue')
    <3>1. /\ Action("loop", None) \in Actions /\ Action("loop", None).op = "loop"
          /\ queue \in Seq(Actions)
      BY ActionIsAction DEF Ops, IInv
    <3>2. Calm(queue, WithLoop(queue)) /\ Adds(queue, WithLoop(queue))
      BY <3>1, AppendIsCalm DEF WithLoop
    <3> QED
      BY <2>1, <3>2, SameQueue
  <2>3. Ordered(queue') /\ WaitInv' /\ ResumeInv' /\ AddInv'
    BY <2>1, <2>2, CalmStep, AddsStep
  <2>4. StopInv' /\ QuietInv' /\ ShownInv'
    BY <2>1 DEF PInv, StopInv, QuietInv, ShownInv
  <2> QED
    BY <2>3, <2>4 DEF PInv
<1> QED
  BY <1>1, <1>2, <1>3, <1>4, <1>5, <1>6, <1>7, <1>8, <1>9, <1>10 DEF ReadThread

LEMMA CallbackIsQuiet ==
  ASSUME IInv, PInv, NEW s \in Sensors, Callback(s)
  PROVE  PInv'
<1>1. /\ UNCHANGED <<queue, rpc, stopping, isStarted, isPaused, active, started, upc, us, quiet>>
      /\ isPaused => OwnShown' \subseteq OwnShown
  BY DEF Callback, Take, Show, Drop, Publish, Shown, OwnShown, rvars, dvars, svars, uvars
<1>2. Ordered(queue') /\ WaitInv' /\ ResumeInv' /\ AddInv'
  BY <1>1, SameQueue, CalmStep, AddsStep
<1>3. StopInv' /\ QuietInv' /\ ShownInv'
  BY <1>1 DEF PInv, StopInv, QuietInv, ShownInv
<1> QED
  BY <1>2, <1>3 DEF PInv

LEMMA QuietInvariant == Spec => []PInv
<1>1. Init => PInv
  BY DEF Init, PInv, Ordered, WaitInv, ResumeInv, AddInv, StopInv, QuietInv, ShownInv, OwnShown, In
<1>2. IInv /\ OwnInv /\ PInv /\ [Next]_vars => PInv'
  <2> SUFFICES ASSUME IInv, OwnInv, PInv, [Next]_vars PROVE PInv'
    OBVIOUS
  <2>1. CASE UNCHANGED vars
    <3>1. UNCHANGED <<queue, rpc, stopping, isStarted, isPaused, active, started, upc, us, quiet, OwnShown>>
      BY <2>1 DEF vars, rvars, dvars, svars, fvars, uvars, OwnShown
    <3>2. Ordered(queue') /\ WaitInv' /\ ResumeInv' /\ AddInv'
      BY <3>1, SameQueue, CalmStep, AddsStep
    <3>3. StopInv' /\ QuietInv' /\ ShownInv'
      BY <3>1 DEF PInv, StopInv, QuietInv, ShownInv
    <3> QED
      BY <3>2, <3>3 DEF PInv
  <2> QED
    BY <2>1, ApplicationIsQuiet, ReadThreadIsQuiet, CallbackIsQuiet DEF Next, Done
<1> QED
  BY <1>1, <1>2, PlaybackInvariant, OwnInvariant, PTL DEF Spec

\* A device that pause() has paused shows nobody a frame until it is resumed or
\* stops, but one that a sensor's thread had in hand when the sensor was stopped;
\* nor does a sensor that was stopped, for any file, sensors and calls.
THEOREM PausedDeviceIsQuiet == Spec => []QuietWhenTold
<1>1. PInv => PausedIsQuiet
  BY DEF PInv, QuietInv, ShownInv, OwnShown, PausedIsQuiet
<1> QED
  BY <1>1, QuietInvariant, StoppedSensorIsQuiet, PTL DEF QuietWhenTold

-------------------------------------------------------------------------------
(***************************************************************************)
(* The frames of a sensor that does not play in real time                  *)
(***************************************************************************)

Stopping(s) == upc = "stop" /\ us = s

\* The one frame of an active sensor that is on its way to a callback is the one
\* the read thread waits for in handle_frame().
FlightInv ==
  \A s \in Sensors : Own(s) =>
    /\ rpc = "handing" /\ position # 0 /\ s = File[position] /\ s \in active
    /\ pending[s] \in {0, position}
    /\ s \notin late => current[s] \in {0, position} /\ 0 \in {pending[s], current[s]}

LateInv == \A s \in late : current[s] # 0

\* Sensors that have shown a frame and may show more.
Told(s) == s \in active \cap started /\ last[s] # 0

\* What is published last is the frame to come back to, unless a late frame was.
ToldInv ==
  /\ \A s \in active \ started : last[s] = 0 \/ Stopping(s)
  /\ OwnShown # {} => ~isPaused
  /\ ~misled /\ OwnShown = {} /\ (\E s \in Sensors : last[s] # 0) => lastPublished <= position
  /\ \A s \in Sensors : Told(s) =>
       /\ disp[s] = "running"
       /\ rpc = "ending" => s \in stopping \cup {flushed}
       /\ ~misled /\ OwnShown = {} => last[s] <= lastPublished

\* The frame of s that is on its way has yet to be shown.
Coming(s) == Own(s) /\ s \notin OwnShown

\* Of what is read, all but the frame on its way is shown; of a paused device,
\* all that will not be read again.
FramesInv ==
  \A s \in Sensors : Told(s) =>
    IF isPaused
      THEN ~misled => \A k \in (last[s] + 1)..lastPublished : File[k] # s
      ELSE /\ last[s] <= position
           /\ Coming(s) => last[s] < position
           /\ \A k \in (last[s] + 1)..position : File[k] = s => Coming(s) /\ k = position

SInv == ~realTime => FlightInv /\ LateInv /\ ToldInv /\ FramesInv

\* Whatever is idle has no frame on its way, but a late one.
LEMMA IdleIsEmpty ==
  ASSUME IInv, SInv, ~realTime, rpc # "handing"
  PROVE  /\ OwnShown = {}
         /\ \A s \in Sensors : ~Own(s) /\ pending[s] = 0 /\ (s \notin late => current[s] = 0)
<1>1. \A s \in Sensors : ~Own(s) /\ pending[s] = 0 /\ (s \notin late => current[s] = 0)
  BY DEF SInv, FlightInv, Own
<1> QED
  BY <1>1 DEF OwnShown, IInv, TypeOK

\* The application touches neither the frames on their way nor the reader.
LEMMA ApplicationShows ==
  ASSUME IInv, OwnInv, SInv, ~realTime, Application
  PROVE  SInv'
<1> USE DEF rvars, dvars, svars, fvars, uvars
<1>0. /\ disp \in [Sensors -> {"none", "running", "stopped"}] /\ pending \in [Sensors -> Frames]
      /\ FlightInv /\ LateInv /\ ToldInv /\ FramesInv
      /\ \A s \in Sensors : Own(s) => s \in started
  BY DEF IInv, TypeOK, SInv, OwnInv
<1>1. ASSUME NEW s \in Sensors, Open(s) \/ Close(s) PROVE SInv'
  <2>1. /\ s \notin started /\ upc = "idle" /\ \E d : disp' = [disp EXCEPT ![s] = d]
        /\ UNCHANGED <<realTime, rvars, dvars, started, fvars, upc, us, last, late>>
    BY <1>1 DEF Open, Close, Call
  <2>2. FlightInv' /\ LateInv'
    BY <1>0, <2>1 DEF FlightInv, LateInv, Own
  <2>3. ToldInv' /\ FramesInv'
    BY <1>0, <2>1 DEF ToldInv, FramesInv, Told, Coming, Own, OwnShown, Stopping
  <2> QED BY <2>2, <2>3 DEF SInv
<1>2. ASSUME NEW s \in Sensors, Start(s) PROVE SInv'
  <2>1. /\ upc = "idle" /\ s \notin started /\ started' = started \cup {s}
        /\ UNCHANGED <<realTime, rpc, stopping, flushed, dvars, disp, fvars, upc, us, last, late>>
    BY <1>2 DEF Start, Call
  <2>2. \A t \in Sensors : Told(t)' = Told(t)
    BY <1>0, <2>1 DEF ToldInv, Told, Stopping
  <2>3. FlightInv' /\ LateInv'
    BY <1>0, <2>1 DEF FlightInv, LateInv, Own
  <2>4. ToldInv' /\ FramesInv'
    BY <1>0, <2>1, <2>2 DEF ToldInv, FramesInv, Coming, Own, OwnShown, Stopping
  <2> QED BY <2>3, <2>4 DEF SInv
<1>3. ASSUME NEW s \in Sensors, UserStop(s) PROVE SInv'
  <2>1. /\ upc = "idle" /\ s \in started /\ s \notin showing
        /\ started' = started \ {s} /\ upc' = "stop" /\ us' = s
        /\ disp' = [disp EXCEPT ![s] = "stopped"] /\ pending' = [pending EXCEPT ![s] = 0]
        /\ late' = IF current[s] # 0 THEN late \cup {s} ELSE late
        /\ UNCHANGED <<realTime, rvars, dvars, current, showing, lastPublished, misled, last>>
    BY <1>3 DEF UserStop, StopSensor, Call
  <2>2. /\ OwnShown' = OwnShown /\ ~Own(s)'
        /\ \A t \in Sensors : t # s => Own(t)' = Own(t) /\ pending'[t] = pending[t] /\ disp'[t] = disp[t]
        /\ \A t : t # s => (t \in late' <=> t \in late)
    BY <1>0, <2>1 DEF Own, OwnShown
  <2>3. FlightInv' /\ LateInv'
    BY <1>0, <2>1, <2>2 DEF FlightInv, LateInv
  <2>4. \A t \in Sensors : Told(t)' => Told(t) /\ t # s /\ Coming(t)' = Coming(t)
    BY <2>1, <2>2 DEF Told, Coming
  <2>5. ToldInv'
    BY <1>0, <2>1, <2>2, <2>4 DEF ToldInv, Stopping
  <2>6. FramesInv'
    BY <1>0, <2>1, <2>4 DEF FramesInv
  <2> QED BY <2>3, <2>5, <2>6 DEF SInv
<1>4. CASE UserStopped
  <2>1. \A s \in Sensors : ~Own(s)
    BY <1>4, IdleIsEmpty DEF UserStopped
  <2>2. /\ active' = active \ {us} /\ upc = "stop"
        /\ UNCHANGED <<realTime, rpc, stopping, flushed, isStarted, isPaused, position, svars, fvars, last, late>>
    BY <1>4 DEF UserStopped, Deactivate
  <2>3. FlightInv' /\ LateInv'
    BY <1>0, <2>1, <2>2 DEF FlightInv, LateInv, Own
  <2>4. ToldInv' /\ FramesInv'
    BY <1>0, <2>2 DEF ToldInv, FramesInv, Told, Coming, Own, OwnShown, Stopping
  <2> QED BY <2>3, <2>4 DEF SInv
<1>5. ASSUME NEW op \in {"pause", "resume", "stop"}, Request(op) PROVE SInv'
  <2>1. upc = "idle" /\ UNCHANGED <<realTime, rpc, stopping, flushed, dvars, svars, fvars, us, last, late>>
    BY <1>5 DEF Request
  <2>2. FlightInv' /\ LateInv'
    BY <1>0, <2>1 DEF FlightInv, LateInv, Own
  <2>3. ToldInv' /\ FramesInv'
    BY <1>0, <2>1 DEF ToldInv, FramesInv, Told, Coming, Own, OwnShown, Stopping
  <2> QED BY <2>2, <2>3 DEF SInv
<1> QED
  BY <1>1, <1>2, <1>3, <1>4, <1>5 DEF Application

\* An idle read thread finds no frame on its way: it only moves the reader.
LEMMA EmptyStep ==
  ASSUME IInv, SInv, ~realTime, rpc # "handing", rpc' # "handing",
         UNCHANGED <<realTime, pending, current, late>>, ToldInv', FramesInv'
  PROVE  SInv'
<1>1. \A s \in Sensors : ~Own(s)
  BY IdleIsEmpty
<1>2. FlightInv' /\ LateInv'
  BY <1>1 DEF FlightInv, LateInv, SInv, Own
<1> QED BY <1>2 DEF SInv

\* The read thread forgets what was shown, or takes the next frame when the last is shown.
LEMMA ReadThreadShows ==
  ASSUME IInv, OwnInv, PInv, SInv, ~realTime, ReadThread
  PROVE  SInv'
<1> USE DEF rvars, dvars, svars, fvars, uvars
<1>0. /\ last \in [Sensors -> Frames] /\ lastPublished \in Nat /\ position \in Nat /\ Length \in Nat
      /\ pending \in [Sensors -> Frames] /\ active \subseteq Sensors /\ started \subseteq Sensors
      /\ disp \in [Sensors -> {"none", "running", "stopped"}]
      /\ 0 \in Frames /\ \A s \in Sensors : last[s] \in Nat
      /\ FlightInv /\ LateInv /\ ToldInv /\ FramesInv
  <2>1. Length \in Nat /\ Frames \subseteq Nat /\ 0 \in Frames
    BY PlaybackAssumption DEF Frames, Length
  <2>2. FlightInv /\ LateInv /\ ToldInv /\ FramesInv
    BY DEF SInv
  <2> QED BY <2>1, <2>2 DEF IInv, TypeOK
<1>1. CASE Activate
  <2>1. PICK s \in Sensors : active' = active \cup {s} /\ last' = [last EXCEPT ![s] = 0]
    <3>1. Head(queue) \in Actions /\ Head(queue).op = "add"
      BY <1>1, TakenKeepsLoop DEF Activate, Next1, Ops
    <3> QED BY <1>1, <3>1 DEF Activate, Actions
  <2>2. /\ rpc = "idle" /\ OwnShown' = OwnShown
        /\ UNCHANGED <<realTime, rpc, stopping, flushed, isPaused, position, svars, fvars, uvars, late>>
    BY <1>1 DEF Activate, Next1, OwnShown
  <2>3. \A t \in Sensors : last'[t] = IF t = s THEN 0 ELSE last[t]
    BY <1>0, <2>1
  <2>4. \A t \in Sensors : Told(t)' => Told(t) /\ t # s /\ Coming(t)' = Coming(t) /\ last'[t] = last[t]
    BY <2>1, <2>2, <2>3 DEF Told, Coming, Own
  <2>5. ToldInv'
    BY <1>0, <2>1, <2>2, <2>3, <2>4 DEF ToldInv, Stopping
  <2>6. FramesInv'
    BY <1>0, <2>2, <2>4 DEF FramesInv
  <2> QED BY <2>2, <2>5, <2>6, EmptyStep
<1>2. CASE StopInternal
  <2>1. /\ rpc = "idle" /\ OwnShown = {}
        /\ UNCHANGED <<realTime, rpc, stopping, flushed, active, svars, fvars, uvars, late>>
    BY <1>2, IdleIsEmpty DEF StopInternal, Next1
  <2>2. CASE isStarted
    <3>1. last' = [s \in Sensors |-> 0]
      BY <1>2, <2>2 DEF StopInternal
    <3>2. OwnShown' = {} /\ \A s \in Sensors : last'[s] = 0 /\ ~Told(s)'
      BY <2>1, <3>1 DEF Told, OwnShown
    <3>3. ToldInv' /\ FramesInv'
      BY <1>0, <2>1, <3>2 DEF ToldInv, FramesInv
    <3> QED BY <2>1, <3>3, EmptyStep
  <2>3. CASE ~isStarted
    <3>1. UNCHANGED <<isPaused, position, last>>
      BY <1>2, <2>3 DEF StopInternal
    <3>2. ToldInv' /\ FramesInv'
      BY <1>0, <2>1, <3>1 DEF ToldInv, FramesInv, Told, Coming, Own, OwnShown, Stopping
    <3> QED BY <2>1, <3>2, EmptyStep
  <2> QED BY <2>2, <2>3
<1>3. CASE Pause
  <2>1. /\ rpc = "idle" /\ OwnShown = {} /\ rpc' \in {"idle", "pausing"} /\ isPaused' = TRUE
        /\ \A s \in Sensors : ~Own(s)
        /\ UNCHANGED <<realTime, flushed, position, active, svars, fvars, uvars, last, late>>
    BY <1>3, IdleIsEmpty DEF Pause, Next1
  <2>2. OwnShown' = OwnShown /\ \A s \in Sensors : Told(s)' = Told(s)
    BY <2>1 DEF Told, OwnShown
  <2>3. ToldInv'
    BY <1>0, <2>1, <2>2 DEF ToldInv, Stopping
  <2>4. ASSUME ~misled, NEW s \in Sensors, Told(s), NEW k \in (last[s] + 1)..lastPublished
        PROVE  File[k] # s
    <3>1. lastPublished <= position
      BY <1>0, <2>1, <2>4 DEF ToldInv, Told
    <3>2. CASE isPaused
      BY <1>0, <2>4, <3>2 DEF FramesInv
    <3>3. CASE ~isPaused
      BY <1>0, <2>1, <2>4, <3>1, <3>3 DEF FramesInv, Coming
    <3> QED BY <3>2, <3>3
  <2>5. FramesInv'
    BY <2>1, <2>2, <2>4 DEF FramesInv
  <2> QED BY <2>1, <2>3, <2>5, EmptyStep
<1>4. CASE FlushSensor \/ Paused
  <2>1. /\ rpc = "pausing" /\ rpc' \in {"pausing", "idle"}
        /\ UNCHANGED <<realTime, flushed, dvars, svars, fvars, uvars, last, late>>
    BY <1>4 DEF FlushSensor, Paused
  <2>2. ToldInv' /\ FramesInv'
    BY <1>0, <2>1 DEF ToldInv, FramesInv, Told, Coming, Own, OwnShown, Stopping
  <2> QED BY <2>1, <2>2, EmptyStep
<1>5. CASE Resume
  <2>1. /\ rpc = "idle" /\ OwnShown = {} /\ isPaused' = FALSE /\ \A s \in Sensors : ~Own(s)
        /\ UNCHANGED <<realTime, rpc, stopping, flushed, active, svars, pending, current, showing, uvars, late>>
    BY <1>5, IdleIsEmpty DEF Resume, Next1
  <2>2. CASE ~isPaused
    <3>1. UNCHANGED <<position, lastPublished, misled, last, isPaused>>
      BY <1>5, <2>1, <2>2 DEF Resume, IInv, TypeOK
    <3>2. ToldInv' /\ FramesInv'
      BY <1>0, <2>1, <3>1 DEF ToldInv, FramesInv, Told, Coming, Own, OwnShown, Stopping
    <3> QED BY <2>1, <3>2, EmptyStep
  <2>3. CASE isPaused /\ (lastPublished >= Length \/ lastPublished = 0 \/ misled)
    <3>1. last' = [s \in Sensors |-> 0]
      BY <1>5, <2>3 DEF Resume
    <3>2. OwnShown' = {} /\ \A s \in Sensors : last'[s] = 0 /\ ~Told(s)'
      BY <2>1, <3>1 DEF Told, OwnShown
    <3>3. ToldInv' /\ FramesInv'
      BY <1>0, <2>1, <3>2 DEF ToldInv, FramesInv
    <3> QED BY <2>1, <3>3, EmptyStep
  <2>4. CASE isPaused /\ ~(lastPublished >= Length \/ lastPublished = 0 \/ misled)
    <3>1. position' = lastPublished /\ UNCHANGED <<lastPublished, last>> /\ ~misled
      BY <1>5, <2>4 DEF Resume
    <3>2. OwnShown' = {} /\ \A s \in Sensors : Told(s)' = Told(s) /\ ~Coming(s)'
      BY <2>1, <3>1 DEF Told, Coming, Own, OwnShown
    <3>3. ToldInv'
      BY <1>0, <2>1, <3>1, <3>2 DEF ToldInv, Stopping
    <3>4. \A s \in Sensors : Told(s) =>
            last[s] <= lastPublished /\ \A k \in (last[s] + 1)..lastPublished : File[k] # s
      BY <1>0, <2>1, <2>4, <3>1 DEF ToldInv, FramesInv
    <3>5. FramesInv'
      BY <1>0, <2>1, <3>1, <3>2, <3>4 DEF FramesInv
    <3> QED BY <2>1, <3>3, <3>5, EmptyStep
  <2> QED BY <2>2, <2>3, <2>4
<1>6. CASE Flushed
  <2>1. /\ rpc = "idle"
        /\ UNCHANGED <<realTime, rpc, stopping, flushed, dvars, svars, fvars, us, last, late>>
    BY <1>6 DEF Flushed, Next1
  <2>2. upc = "waiting"
    BY <1>6, TakenIsCalm DEF PInv, WaitInv, Flushed, Ops, Requests
  <2>3. ToldInv' /\ FramesInv'
    BY <1>0, <2>1, <2>2 DEF ToldInv, FramesInv, Told, Coming, Own, OwnShown, Stopping
  <2> QED BY <2>1, <2>3, EmptyStep
<1>7. CASE Loop
  <2>1. /\ rpc = "idle" /\ OwnShown = {} /\ \A s \in Sensors : ~Own(s) /\ (s \notin late => current[s] = 0)
        /\ UNCHANGED <<realTime, flushed, isStarted, isPaused, active, svars, current, showing, lastPublished, misled, uvars, last, late>>
    BY <1>7, IdleIsEmpty DEF Loop, Next1
  <2>2. OwnShown' = {} /\ \A t \in Sensors : Told(t)' = Told(t)
    BY <2>1 DEF Told, OwnShown
  <2>3. CASE ~isStarted
    <3>1. rpc' = "again" /\ UNCHANGED <<position, pending, stopping>>
      BY <1>7, <2>3 DEF Loop
    <3>2. ToldInv' /\ FramesInv'
      BY <1>0, <2>1, <3>1 DEF ToldInv, FramesInv, Told, Coming, Own, OwnShown, Stopping
    <3> QED BY <2>1, <3>1, <3>2, EmptyStep
  <2>4. CASE isStarted /\ position = Length
    <3>1. rpc' = "ending" /\ stopping' = active /\ UNCHANGED <<position, pending>>
      BY <1>7, <2>4 DEF Loop
    <3>2. ToldInv' /\ FramesInv'
      BY <1>0, <2>1, <3>1 DEF ToldInv, FramesInv, Told, Coming, Own, OwnShown, Stopping
    <3> QED BY <2>1, <3>1, <3>2, EmptyStep
  <2>5. CASE isStarted /\ position # Length
    <3> DEFINE s == File[position + 1]
    <3>1. s \in Sensors /\ position + 1 \in 1..Length
      <4>1. position \in Frames
        BY DEF IInv, TypeOK
      <4> QED BY <2>5, <4>1, PlaybackAssumption DEF Frames, Length
    <3>2. /\ position' = position + 1 /\ UNCHANGED stopping
          /\ rpc' = IF s \in active \cap started THEN "handing" ELSE "again"
          /\ pending' = IF s \in active \cap started /\ disp[s] = "running"
                          THEN [pending EXCEPT ![s] = position + 1] ELSE pending
      BY <1>7, <2>5 DEF Loop
    <3>3. s = File[position']
      BY <3>2
    <3> HIDE DEF s
    <3>4. /\ \A t \in Sensors : Own(t)' <=> t = s /\ s \in active \cap started /\ disp[s] = "running"
          /\ \A t \in Sensors : Coming(t)' <=> Own(t)'
      BY <1>0, <2>1, <2>2, <3>1, <3>2 DEF Own, Coming
    <3>5. pending[s] = 0 /\ pending'[s] \in {0, position'} /\ (s \notin late => current[s] = 0)
      BY <1>0, <2>1, <3>1, <3>2 DEF Own
    <3>6. FlightInv' /\ LateInv'
      BY <1>0, <2>1, <3>2, <3>3, <3>4, <3>5 DEF FlightInv, LateInv
    <3>7. ToldInv'
      BY <1>0, <2>1, <2>2, <3>2 DEF ToldInv, Stopping
    <3>8. ASSUME NEW t \in Sensors, Told(t), ~isPaused
          PROVE  /\ last[t] < position'
                 /\ \A k \in (last[t] + 1)..position' : File[k] = t => Coming(t)' /\ k = position'
      <4>1. last[t] <= position /\ \A k \in (last[t] + 1)..position : File[k] # t
        BY <1>0, <2>1, <3>8 DEF FramesInv, Coming
      <4>2. last[t] \in Nat /\ last[t] < position'
        BY <1>0, <3>2, <4>1
      <4>3. ASSUME NEW k \in (last[t] + 1)..position', File[k] = t PROVE Coming(t)' /\ k = position'
        <5>1. k = position'
          BY <1>0, <3>2, <4>1, <4>2, <4>3
        <5>2. t = s
          BY <3>3, <4>3, <5>1
        <5> QED BY <1>0, <3>4, <3>8, <5>1, <5>2 DEF ToldInv, Told
      <4> QED BY <4>2, <4>3
    <3>9. FramesInv'
      BY <1>0, <2>1, <2>2, <3>2, <3>8 DEF FramesInv
    <3> QED BY <3>6, <3>7, <3>9 DEF SInv
  <2> QED BY <2>3, <2>4, <2>5
<1>8. CASE Handed
  <2>1. /\ rpc = "handing" /\ FlushReturns(File[position]) /\ rpc' = "again"
        /\ UNCHANGED <<realTime, stopping, flushed, dvars, svars, fvars, uvars, last, late>>
    BY <1>8 DEF Handed
  <2>2. \A s \in Sensors : ~Own(s)
    BY <1>0, <2>1 DEF FlightInv, OwnInv, FlushReturns, Own, Busy
  <2>3. FlightInv' /\ LateInv'
    BY <1>0, <2>1, <2>2 DEF FlightInv, LateInv, Own
  <2>4. ToldInv' /\ FramesInv'
    BY <1>0, <2>1 DEF ToldInv, FramesInv, Told, Coming, Own, OwnShown, Stopping
  <2> QED BY <2>3, <2>4 DEF SInv
<1>9. CASE EndFlush
  <2>1. /\ rpc = "ending" /\ flushed = None /\ stopping \cup {None} \subseteq stopping' \cup {flushed'} \cup {None}
        /\ UNCHANGED <<realTime, rpc, dvars, svars, fvars, uvars, last, late>>
    BY <1>9 DEF EndFlush
  <2>2. None \notin Sensors
    BY PlaybackAssumption
  <2>3. ToldInv' /\ FramesInv'
    BY <1>0, <2>1, <2>2 DEF ToldInv, FramesInv, Told, Coming, Own, OwnShown, Stopping
  <2> QED BY <2>1, <2>3, EmptyStep
<1>10. CASE EndSensor
  <2>1. /\ rpc = "ending" /\ OwnShown = {} /\ \A t \in Sensors : ~Own(t)
        /\ UNCHANGED <<realTime, rpc, stopping, isStarted, isPaused, position, uvars, last>>
        /\ flushed \in Sensors /\ flushed' = None
    BY <1>10, IdleIsEmpty DEF EndSensor, IInv, TypeOK
  <2>2. CASE flushed \in started
    <3>1. /\ started' = started \ {flushed} /\ active' = active \ {flushed}
          /\ disp' = [disp EXCEPT ![flushed] = "stopped"] /\ pending' = [pending EXCEPT ![flushed] = 0]
          /\ late' = IF current[flushed] # 0 THEN late \cup {flushed} ELSE late
          /\ UNCHANGED <<current, showing, lastPublished, misled>>
      BY <1>10, <2>2 DEF EndSensor, StopSensor, Deactivate
    <3>2. OwnShown' = {} /\ \A t \in Sensors : ~Own(t)'
      BY <1>0, <2>1, <3>1 DEF Own, OwnShown
    <3>3. \A t \in Sensors : Told(t)' => Told(t) /\ t # flushed /\ disp'[t] = disp[t]
      BY <1>0, <2>1, <3>1 DEF Told
    <3>4. FlightInv' /\ LateInv'
      BY <1>0, <3>1, <3>2 DEF FlightInv, LateInv
    <3>5. ToldInv'
      BY <1>0, <2>1, <3>1, <3>2, <3>3 DEF ToldInv, Stopping
    <3>6. FramesInv'
      BY <1>0, <2>1, <3>1, <3>2, <3>3 DEF FramesInv, Coming
    <3> QED BY <3>4, <3>5, <3>6 DEF SInv
  <2>3. CASE flushed \notin started
    <3>1. UNCHANGED <<svars, fvars, late, active>>
      BY <1>10, <2>3 DEF EndSensor
    <3>2. ToldInv' /\ FramesInv'
      BY <1>0, <2>1, <2>3, <3>1 DEF ToldInv, FramesInv, Told, Coming, Own, OwnShown, Stopping
    <3> QED BY <2>1, <3>1, <3>2, EmptyStep
  <2> QED BY <2>2, <2>3
<1>11. CASE Ended
  <2>1. /\ rpc = "ending" /\ stopping = {} /\ flushed = None /\ rpc' = "again" /\ lastPublished' = 0
        /\ UNCHANGED <<realTime, dvars, svars, pending, current, showing, uvars, last, late>>
    BY <1>11 DEF Ended
  <2>2. OwnShown' = OwnShown /\ \A s \in Sensors : ~Told(s) /\ ~Told(s)'
    BY <1>0, <2>1, PlaybackAssumption DEF ToldInv, Told, OwnShown
  <2>3. ToldInv' /\ FramesInv'
    BY <1>0, <2>1, <2>2 DEF ToldInv, FramesInv, Stopping
  <2> QED BY <2>1, <2>3, EmptyStep
<1>12. CASE Again
  <2>1. /\ rpc = "again" /\ rpc' = "idle"
        /\ UNCHANGED <<realTime, stopping, flushed, dvars, svars, fvars, uvars, last, late>>
    BY <1>12 DEF Again
  <2>2. ToldInv' /\ FramesInv'
    BY <1>0, <2>1 DEF ToldInv, FramesInv, Told, Coming, Own, OwnShown, Stopping
  <2> QED BY <2>1, <2>2, EmptyStep
<1> QED
  BY <1>1, <1>2, <1>3, <1>4, <1>5, <1>6, <1>7, <1>8, <1>9, <1>10, <1>11, <1>12 DEF ReadThread

\* A callback shows its frame, and publishes its time when it returns.
LEMMA CallbackShows ==
  ASSUME IInv, OwnInv, SInv, ~realTime, NEW s \in Sensors, Callback(s)
  PROVE  /\ SInv'
         /\ \A t \in showing' \ (showing \cup late) : last[t] # 0 =>
              current[t] > last[t] /\ Between(t, last[t], current[t]) = {}
<1> USE DEF rvars, dvars, svars, uvars
<1>0. /\ last \in [Sensors -> Frames] /\ lastPublished \in Nat /\ position \in Nat
      /\ pending \in [Sensors -> Frames] /\ current \in [Sensors -> Frames] /\ 0 \in Frames
      /\ showing \subseteq Sensors /\ active \subseteq Sensors /\ isPaused \in BOOLEAN
      /\ \A t \in Sensors : last[t] \in Nat
      /\ FlightInv /\ LateInv /\ ToldInv /\ FramesInv
      /\ \A t \in showing : current[t] # 0
      /\ \A t \in Sensors : Own(t) => t \in started /\ disp[t] = "running"
  <2>1. Frames \subseteq Nat /\ 0 \in Frames
    BY PlaybackAssumption DEF Frames, Length
  <2>2. /\ FlightInv /\ LateInv /\ ToldInv /\ FramesInv
        /\ \A t \in Sensors : Own(t) => t \in started /\ disp[t] = "running"
    BY DEF SInv, OwnInv
  <2> QED
    BY <2>1, <2>2 DEF IInv, TypeOK
<1>1. UNCHANGED <<realTime, rvars, dvars, svars, uvars>>
  BY DEF Callback, Take, Show, Shown
<1>2. CASE Take(s)
  <2>1. /\ pending[s] # 0 /\ current[s] = 0 /\ UNCHANGED <<showing, lastPublished, misled, last, late>>
        /\ pending' = [pending EXCEPT ![s] = 0] /\ current' = [current EXCEPT ![s] = pending[s]]
    BY <1>2 DEF Take
  <2>2. s \notin late /\ pending[s] = position /\ s \notin showing
    BY <1>0, <2>1 DEF LateInv, FlightInv, Own
  <2>3. /\ \A t \in Sensors : Own(t)' <=> Own(t)
        /\ OwnShown' = OwnShown
        /\ \A t \in Sensors : t # s => pending'[t] = pending[t] /\ current'[t] = current[t]
        /\ pending'[s] = 0 /\ current'[s] = position
    BY <1>0, <2>1, <2>2 DEF Own, OwnShown
  <2>4. FlightInv' /\ LateInv'
    BY <1>0, <1>1, <2>1, <2>2, <2>3 DEF FlightInv, LateInv
  <2>5. ToldInv' /\ FramesInv'
    BY <1>0, <1>1, <2>1, <2>3 DEF ToldInv, FramesInv, Told, Coming, Stopping
  <2> QED BY <2>1, <2>4, <2>5 DEF SInv
<1>3. CASE Show(s) /\ (s \notin started \/ isPaused)
  <2>1. /\ current' = [current EXCEPT ![s] = 0] /\ late' = late \ {s} /\ s \notin showing
        /\ UNCHANGED <<showing, last, pending, lastPublished, misled>>
    BY <1>3 DEF Show, Drop
  <2>2. /\ \A t \in Sensors : Own(t)' => Own(t)
        /\ \A t \in Sensors : t # s => (Own(t)' <=> Own(t)) /\ current'[t] = current[t]
        /\ current'[s] = 0 /\ OwnShown' = OwnShown
    BY <1>0, <2>1 DEF Own, OwnShown
  <2>3. ~isPaused => (Own(s)' <=> Own(s))
    BY <1>0, <1>3, <2>2
  <2>4. FlightInv' /\ LateInv'
    BY <1>0, <1>1, <2>1, <2>2 DEF FlightInv, LateInv
  <2>5. ToldInv' /\ FramesInv'
    BY <1>0, <1>1, <2>1, <2>2, <2>3 DEF ToldInv, FramesInv, Told, Coming, Stopping
  <2> QED BY <2>1, <2>4, <2>5 DEF SInv
<1>4. CASE Show(s) /\ s \in started /\ ~isPaused /\ s \in late
  <2>1. /\ showing' = showing \cup {s} /\ UNCHANGED <<current, pending, lastPublished, misled, last, late>>
    BY <1>4 DEF Show, Publish
  <2>2. OwnShown' = OwnShown /\ \A t \in Sensors : Own(t)' <=> Own(t)
    BY <1>4, <2>1 DEF Own, OwnShown
  <2>3. FlightInv' /\ LateInv'
    BY <1>0, <1>1, <2>1, <2>2 DEF FlightInv, LateInv
  <2>4. ToldInv' /\ FramesInv'
    BY <1>0, <1>1, <2>1, <2>2 DEF ToldInv, FramesInv, Told, Coming, Stopping
  <2> QED BY <1>4, <2>1, <2>3, <2>4 DEF SInv
<1>5. CASE Show(s) /\ s \in started /\ ~isPaused /\ s \notin late
  <2>1. s \notin showing /\ current[s] # 0
    BY <1>5 DEF Show
  <2>2. /\ Own(s) /\ s \in active /\ current[s] = position /\ pending[s] = 0 /\ position # 0
        /\ \A t \in Sensors : Own(t) => t = s
    BY <1>0, <1>5, <2>1 DEF FlightInv, Own
  <2>3. /\ showing' = showing \cup {s} /\ last' = [last EXCEPT ![s] = position]
        /\ UNCHANGED <<current, pending, lastPublished, misled, late>>
    BY <1>5, <2>1, <2>2 DEF Show, Publish
  <2>4. /\ \A t \in Sensors : Own(t)' <=> Own(t)
        /\ \A t \in Sensors : t # s => last'[t] = last[t] /\ (Told(t)' <=> Told(t)) /\ (Coming(t)' <=> Coming(t))
        /\ last'[s] = position /\ s \in OwnShown' /\ OwnShown' = OwnShown \cup {s} /\ ~Coming(s)'
    BY <1>0, <1>1, <1>5, <2>3 DEF Own, Told, Coming, OwnShown
  <2>5. FlightInv' /\ LateInv'
    BY <1>0, <1>1, <2>3, <2>4 DEF FlightInv, LateInv
  <2>6. ToldInv'
    <3>1. OwnShown' # {} /\ ~isPaused'
      BY <1>1, <1>5, <2>4
    <3>2. \A t \in active' \ started' : last'[t] = 0 \/ Stopping(t)'
      BY <1>0, <1>1, <1>5, <2>4 DEF ToldInv, Stopping
    <3>3. \A t \in Sensors : Told(t)' => disp'[t] = "running" /\ rpc' # "ending"
      BY <1>0, <1>1, <2>2, <2>4 DEF ToldInv, FlightInv
    <3> QED BY <3>1, <3>2, <3>3 DEF ToldInv
  <2>7. FramesInv'
    BY <1>0, <1>1, <1>5, <2>2, <2>3, <2>4 DEF FramesInv
  <2>8. last[s] # 0 => current[s] > last[s] /\ Between(s, last[s], current[s]) = {}
    <3> SUFFICES ASSUME last[s] # 0 PROVE current[s] > last[s] /\ Between(s, last[s], current[s]) = {}
      OBVIOUS
    <3>1. Told(s) /\ Coming(s)
      BY <1>5, <2>1, <2>2 DEF Told, Coming, OwnShown
    <3>2. /\ last[s] < position
          /\ \A k \in (last[s] + 1)..position : File[k] = s => k = position
      BY <1>0, <1>5, <3>1 DEF FramesInv
    <3>3. \A k \in (last[s] + 1)..(position - 1) : File[k] # s
      BY <1>0, <3>2
    <3> QED BY <1>0, <2>2, <3>2, <3>3 DEF Between
  <2> QED BY <2>3, <2>5, <2>6, <2>7, <2>8 DEF SInv
<1>6. CASE Shown(s) /\ s \in late
  <2>1. /\ s \in showing /\ showing' = showing \ {s} /\ late' = late \ {s} /\ current' = [current EXCEPT ![s] = 0]
        /\ UNCHANGED <<pending, last>>
    BY <1>6 DEF Shown
  <2>2. misled'
    BY <1>6, Zenon DEF Shown
  <2>3. /\ \A t \in Sensors : Own(t)' <=> Own(t)
        /\ \A t \in Sensors : t # s => current'[t] = current[t]
        /\ current'[s] = 0 /\ OwnShown' = OwnShown
    BY <1>0, <1>6, <2>1 DEF Own, OwnShown
  <2>4. FlightInv' /\ LateInv'
    BY <1>0, <1>1, <2>1, <2>3 DEF FlightInv, LateInv
  <2>5. ToldInv' /\ FramesInv'
    BY <1>0, <1>1, <2>1, <2>2, <2>3 DEF ToldInv, FramesInv, Told, Coming, Stopping
  <2> QED BY <2>1, <2>4, <2>5 DEF SInv
<1>7. CASE Shown(s) /\ s \notin late
  <2>1. /\ s \in showing /\ showing' = showing \ {s} /\ current' = [current EXCEPT ![s] = 0]
        /\ lastPublished' = current[s] /\ UNCHANGED <<pending, last, late>>
    BY <1>7 DEF Shown
  <2>2. /\ Own(s) /\ s \in OwnShown /\ current[s] = position /\ pending[s] = 0 /\ ~isPaused
        /\ \A t \in Sensors : Own(t) => t = s
    BY <1>0, <1>7, <2>1 DEF FlightInv, ToldInv, Own, OwnShown
  <2>3. /\ \A t \in Sensors : ~Own(t)'
        /\ \A t \in Sensors : t # s => current'[t] = current[t]
        /\ current'[s] = 0 /\ OwnShown' = OwnShown \ {s}
    BY <1>0, <1>7, <2>1, <2>2 DEF Own, OwnShown
  <2>4. FlightInv' /\ LateInv'
    BY <1>0, <1>1, <1>7, <2>1, <2>3 DEF FlightInv, LateInv
  <2>5. ASSUME NEW t \in Sensors, Told(t)
        PROVE  last[t] <= position /\ \A k \in (last[t] + 1)..position : File[k] # t
    <3>1. ~Coming(t)
      BY <2>2 DEF Coming
    <3> QED BY <1>0, <2>2, <2>5, <3>1 DEF FramesInv
  <2>6. ToldInv'
    BY <1>0, <1>1, <2>1, <2>2, <2>5 DEF ToldInv, Told, Stopping
  <2>7. FramesInv'
    BY <1>1, <2>1, <2>2, <2>3, <2>5 DEF FramesInv, Told, Coming
  <2> QED BY <2>1, <2>4, <2>6, <2>7 DEF SInv
<1> QED
  BY <1>2, <1>3, <1>4, <1>5, <1>6, <1>7 DEF Callback, Show

\* Only a callback shows anything.
LEMMA OthersShowNothing ==
  ASSUME Application \/ ReadThread \/ Done \/ UNCHANGED vars
  PROVE  UNCHANGED <<realTime, showing>>
<1> USE DEF rvars, dvars, svars, fvars, uvars
<1>1. CASE Application
  BY <1>1 DEF Application, Open, Start, UserStop, StopSensor, UserStopped, Close, Request
<1>2. CASE ReadThread
  BY <1>2 DEF ReadThread, Activate, StopInternal, Pause, FlushSensor, Paused, Resume, Flushed, Loop, Handed,
              EndFlush, EndSensor, StopSensor, Ended, Again
<1> QED
  BY <1>1, <1>2 DEF Done, vars

LEMMA ShowInvariant == Spec => []SInv
<1>1. Init => SInv
  BY DEF Init, SInv, FlightInv, LateInv, ToldInv, FramesInv, Told, Own, OwnShown
<1>2. IInv /\ OwnInv /\ PInv /\ SInv /\ [Next]_vars => SInv'
  <2> SUFFICES ASSUME IInv, OwnInv, PInv, SInv, [Next]_vars PROVE SInv'
    OBVIOUS
  <2>1. realTime' = realTime
    <3>1. ASSUME NEW s \in Sensors, Callback(s) PROVE realTime' = realTime
      BY <3>1 DEF Callback, Take, Show, Shown
    <3> QED BY <3>1, OthersShowNothing DEF Next
  <2>2. CASE realTime
    BY <2>1, <2>2 DEF SInv
  <2>3. CASE ~realTime /\ UNCHANGED vars
    BY <2>3 DEF vars, rvars, dvars, svars, fvars, uvars, SInv, FlightInv, LateInv, ToldInv, FramesInv,
                Told, Coming, Own, OwnShown, Stopping
  <2> QED
    BY <2>2, <2>3, ApplicationShows, ReadThreadShows, CallbackShows DEF Next, Done
<1> QED
  BY <1>1, <1>2, PlaybackInvariant, OwnInvariant, QuietInvariant, PTL DEF Spec

\* A sensor that does not play in real time shows the frames of the file one by
\* one: the read thread waits in handle_frame() for the callback of each, and
\* resume() goes back to the last one published, so that no pause loses or
\* repeats any, unless it is misled by a frame that was late; for any file,
\* sensors and calls.
THEOREM FramesAreShownOneByOne == Spec => EveryFrameShown
<1> DEFINE OneByOne(s) == ~realTime /\ s \in showing' \ (showing \cup late) /\ last[s] # 0 =>
                            current[s] > last[s] /\ Between(s, last[s], current[s]) = {}
<1>1. IInv /\ OwnInv /\ SInv /\ [Next]_vars => [\A s \in Sensors : OneByOne(s)]_vars
  <2> SUFFICES ASSUME IInv, OwnInv, SInv, [Next]_vars, ~realTime, NEW s \in Sensors PROVE OneByOne(s)
    OBVIOUS
  <2> QED
    BY OthersShowNothing, CallbackShows DEF Next
<1> QED
  BY <1>1, PlaybackInvariant, OwnInvariant, ShowInvariant, PTL DEF Spec, EveryFrameShown

===============================================================================
