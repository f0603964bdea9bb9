---------------------------- MODULE PlaybackDevice -----------------------------
(***************************************************************************)
(* playback_device and its playback_sensors (media/playback): a file is    *)
(* read by actions on a dispatcher, m_read_thread; every sensor has a      *)
(* dispatcher of its own on which the user's callback runs.  The calls of  *)
(* the application change some of the state at once and leave the rest to  *)
(* actions queued behind whatever the read thread still has to do.         *)
(*                                                                         *)
(* The file is a sequence of frames, frame k at time k.  A sensor has one  *)
(* stream.  Dispatchers themselves are in module Dispatcher.               *)
(***************************************************************************)
EXTENDS Naturals, Sequences, FiniteSets

CONSTANTS
  Sensors,   \* the recorded sensors
  None,      \* no sensor
  File,      \* the sensor of each frame of the file
  MaxCalls,    \* bound: calls that concern a sensor, of a device in real time and not
  MaxRequests  \* bound: those that concern the device

ASSUME PlaybackAssumption ==
  IsFiniteSet(Sensors) /\ None \notin Sensors /\ File \in Seq(Sensors) /\ MaxCalls \in [BOOLEAN -> Nat] /\ MaxRequests \in Nat

VARIABLES
  realTime,   \* m_real_time
  queue,      \* actions of the read thread: [op, s]
  rpc,        \* the read thread: "idle", "handing" (inside handle_frame()), "ending" (the file is
              \*   over: the sensors are stopped), "again" (the end of the loop action), "pausing"
  stopping,   \* sensors that pause(), or the ending loop, has yet to flush
  flushed,    \* the sensor the ending loop has flushed and has yet to stop
  isStarted,  \* m_is_started of the device
  isPaused,   \* m_is_paused
  position,   \* frames the reader is past
  lastPublished, \* m_last_published_timestamp
  active,     \* m_active_sensors
  started,    \* sensors with m_is_started
  disp,       \* dispatcher of each sensor: "none", "running", "stopped"
  pending,    \* the frame queued in it, or 0
  current,    \* the frame its thread has in hand, or 0
  showing,    \* sensors whose current frame is with the user's callback
  upc,        \* the application: "idle", "stop" (half way through a sensor's stop()),
              \*   "waiting" (for its flush of the read thread)
  us,         \* the sensor it is stopping
  calls,
  requests,
  quiet,      \* history: pause() has returned, and nothing was resumed or stopped since
  last,       \* history: when not in real time, the last frame each sensor showed since it was
              \*   activated or the file rewound
  late,       \* history: sensors whose current frame was in hand when they were stopped
  misled,     \* history: when not in real time, lastPublished is that of such a frame
  ghost       \* history: a sensor was stopped before it was activated, or activated in a device
              \*   about to stop

rvars == <<queue, rpc, stopping, flushed>>
dvars == <<isStarted, isPaused, position, active>>
svars == <<started, disp>>
fvars == <<pending, current, showing, lastPublished, misled>>
uvars == <<upc, us, calls, requests>>
vars == <<realTime, rvars, dvars, svars, fvars, uvars, quiet, last, late, ghost>>

Length == Len(File)
Action(op, s) == [op |-> op, s |-> s]
Busy(s) == pending[s] # 0 \/ current[s] # 0

\* dispatcher::flush(): one that is stopped is not waited for, although its
\* thread may still have a frame in hand.
FlushReturns(s) == disp[s] # "running" \/ ~Busy(s)

\* Opening the sensors touches nothing else: they may all have been opened.
Init ==
  /\ realTime \in BOOLEAN
  /\ queue = <<>> /\ rpc = "idle" /\ stopping = {} /\ flushed = None
  /\ isStarted = FALSE /\ isPaused = FALSE /\ position = 0 /\ lastPublished = 0
  /\ active = {} /\ started = {}
  /\ \E d \in {"none", "running"} : disp = [s \in Sensors |-> d]
  /\ pending = [s \in Sensors |-> 0] /\ current = [s \in Sensors |-> 0] /\ showing = {}
  /\ upc = "idle" /\ us = None /\ calls = 0 /\ requests = 0
  /\ quiet = FALSE /\ last = [s \in Sensors |-> 0] /\ late = {} /\ misled = FALSE /\ ghost = FALSE

Queued(op) == \E i \in DOMAIN queue : queue[i].op = op

-------------------------------------------------------------------------------
(***************************************************************************)
(* The application                                                         *)
(***************************************************************************)

Call == upc = "idle" /\ calls < MaxCalls[realTime] /\ calls' = calls + 1

\* playback_sensor::open() makes the dispatcher, or starts the one there is.
Open(s) ==
  /\ Call /\ s \notin started
  /\ disp' = [disp EXCEPT ![s] = "running"]
  /\ UNCHANGED <<realTime, rvars, dvars, started, fvars, upc, us, requests, quiet, last, late, ghost>>

\* start(): the sensor counts as started at once and is activated later.
Start(s) ==
  /\ Call /\ disp[s] # "none" /\ s \notin started
  /\ started' = started \cup {s}
  /\ queue' = Append(queue, Action("add", s))
  /\ UNCHANGED <<realTime, rpc, stopping, flushed, dvars, disp, fvars, upc, us, requests, quiet, last, late, ghost>>

\* What stop() does under m_mutex: its dispatcher drops what is queued and
\* waits for the callback, but not for one whose frame it has only just taken.
StopSensor(s) ==
  /\ s \in started /\ s \notin showing
  /\ started' = started \ {s}
  /\ disp' = [disp EXCEPT ![s] = "stopped"]
  /\ pending' = [pending EXCEPT ![s] = 0]
  /\ late' = IF current[s] # 0 THEN late \cup {s} ELSE late
  /\ UNCHANGED <<current, showing, lastPublished, misled>>

\* The on_stopped callback: with its last active sensor the device stops, later.
Deactivate(s) ==
  /\ active' = active \ {s}
  /\ queue' = IF active = {s} THEN Append(queue, Action("stop", None)) ELSE queue

UserStop(s) ==
  /\ Call /\ StopSensor(s)
  /\ upc' = "stop" /\ us' = s
  /\ UNCHANGED <<realTime, rvars, dvars, requests, quiet, last, ghost>>

\* _active_sensors_mutex is held by the read thread in handle_frame().
UserStopped ==
  /\ upc = "stop" /\ rpc # "handing"
  /\ Deactivate(us)
  /\ ghost' = (ghost \/ us \notin active \/ (active = {us} /\ Queued("add")))
  /\ upc' = "idle" /\ us' = None
  /\ UNCHANGED <<realTime, rpc, stopping, flushed, isStarted, isPaused, position, svars, fvars, calls, requests, quiet, last, late>>

\* close(): the dispatcher goes, once its thread has come to an end.
Close(s) ==
  /\ Call /\ disp[s] # "none" /\ s \notin started /\ ~Busy(s)
  /\ disp' = [disp EXCEPT ![s] = "none"]
  /\ UNCHANGED <<realTime, rvars, dvars, started, fvars, upc, us, requests, quiet, last, late, ghost>>

\* pause(), resume() and stop() of the device: an action, and a flush.
Request(op) ==
  /\ upc = "idle" /\ requests < MaxRequests /\ requests' = requests + 1
  /\ queue' = queue \o <<Action(op, None), Action("flush", None)>>
  /\ upc' = "waiting"
  /\ quiet' = (quiet /\ op = "pause")
  /\ UNCHANGED <<realTime, rpc, stopping, flushed, dvars, svars, fvars, us, calls, last, late, ghost>>

Application ==
  \/ \E s \in Sensors : Open(s) \/ Start(s) \/ UserStop(s) \/ Close(s)
  \/ UserStopped
  \/ \E op \in {"pause", "resume", "stop"} : Request(op)

-------------------------------------------------------------------------------
(***************************************************************************)
(* The read thread                                                         *)
(***************************************************************************)

Next1(op) == rpc = "idle" /\ queue # <<>> /\ Head(queue).op = op
Rest == Tail(queue)
WithLoop(q) == Append(q, Action("loop", None))

\* on_started: the first active sensor starts the device, unless it is started.
Activate ==
  /\ Next1("add")
  /\ LET s == Head(queue).s IN
       /\ active' = active \cup {s}
       /\ IF active = {} /\ ~isStarted
            THEN isStarted' = TRUE /\ queue' = WithLoop(Rest)
            ELSE queue' = Rest /\ UNCHANGED isStarted
       /\ last' = [last EXCEPT ![s] = 0]
       /\ ghost' = (ghost \/ s \notin started \/ (active = {} /\ isStarted))
  /\ UNCHANGED <<realTime, rpc, stopping, flushed, isPaused, position, svars, fvars, uvars, quiet, late>>

\* stop_internal()
StopInternal ==
  /\ Next1("stop")
  /\ queue' = Rest
  /\ isStarted' = FALSE
  /\ IF isStarted
       THEN isPaused' = FALSE /\ position' = 0 /\ quiet' = FALSE /\ last' = [s \in Sensors |-> 0]
       ELSE UNCHANGED <<isPaused, position, quiet, last>>
  /\ UNCHANGED <<realTime, rpc, stopping, flushed, active, svars, fvars, uvars, late, ghost>>

\* Mutant: callbacks that have begun are not waited for.
Pause_NoFlush ==
  /\ Next1("pause")
  /\ queue' = Rest
  /\ isPaused' = TRUE
  /\ UNCHANGED <<rpc, realTime, stopping, flushed, isStarted, position, active, svars, fvars, uvars, quiet, last, late, ghost>>

\* The action of pause(): a started device flushes its sensors, one by one.
Pause ==
  /\ Next1("pause")
  /\ queue' = Rest
  /\ isPaused' = TRUE
  /\ IF isStarted /\ ~isPaused
       THEN rpc' = "pausing" /\ stopping' = Sensors
       ELSE UNCHANGED <<rpc, stopping>>
  /\ UNCHANGED <<realTime, flushed, isStarted, position, active, svars, fvars, uvars, quiet, last, late, ghost>>

FlushSensor ==
  /\ rpc = "pausing"
  /\ \E s \in stopping : FlushReturns(s) /\ stopping' = stopping \ {s}
  /\ UNCHANGED <<realTime, queue, rpc, flushed, dvars, svars, fvars, uvars, quiet, last, late, ghost>>

Paused ==
  /\ rpc = "pausing" /\ stopping = {}
  /\ rpc' = "idle"
  /\ UNCHANGED <<realTime, queue, stopping, flushed, dvars, svars, fvars, uvars, quiet, last, late, ghost>>

\* Mutant: the reader goes on from where it is.
Resume_InPlace ==
  /\ Next1("resume")
  /\ isPaused' = FALSE
  /\ queue' = IF isPaused THEN WithLoop(Rest) ELSE Rest
  /\ UNCHANGED <<realTime, rpc, stopping, flushed, isStarted, position, active, svars, fvars, uvars, quiet, last, late, ghost>>

\* The action of resume(): the reader goes back to the frame last published and
\* skips it; after the last one of the file it goes back to the beginning.  (What
\* was shown before does not count if that frame was a late one.)
Resume ==
  /\ Next1("resume")
  /\ isPaused' = FALSE
  /\ IF isPaused
       THEN LET p == IF lastPublished >= Length THEN 0 ELSE lastPublished IN
              /\ position' = p /\ lastPublished' = p
              /\ last' = IF p = 0 \/ misled THEN [s \in Sensors |-> 0] ELSE last
              /\ misled' = FALSE
              /\ queue' = WithLoop(Rest)
       ELSE UNCHANGED <<position, lastPublished, last, misled>> /\ queue' = Rest
  /\ UNCHANGED <<realTime, rpc, stopping, flushed, isStarted, active, svars, pending, current, showing, uvars, quiet, late, ghost>>

\* Mutant: the flush gives way to what was queued behind it.
Flushed_Last ==
  /\ Next1("flush")
  /\ IF Rest # <<>>
       THEN queue' = Append(Rest, Head(queue)) /\ UNCHANGED <<upc, quiet>>
       ELSE queue' = Rest /\ upc' = "idle" /\ quiet' = (isPaused /\ isStarted)
  /\ UNCHANGED <<realTime, rpc, stopping, flushed, dvars, svars, fvars, us, calls, requests, last, late, ghost>>

\* The application's flush.
Flushed ==
  /\ Next1("flush")
  /\ queue' = Rest
  /\ upc' = "idle"
  /\ quiet' = (isPaused /\ isStarted)
  /\ UNCHANGED <<realTime, rpc, stopping, flushed, dvars, svars, fvars, us, calls, requests, last, late, ghost>>

\* The action of do_loop(): a frame of an active, started sensor is handed to
\* its dispatcher, and if not in real time waited for; at the end of the file
\* the active sensors are stopped.
Loop ==
  /\ Next1("loop")
  /\ queue' = Rest
  /\ IF ~isStarted
       THEN rpc' = "again" /\ UNCHANGED <<position, pending, stopping>>
       ELSE IF position = Length
         THEN rpc' = "ending" /\ stopping' = active /\ UNCHANGED <<position, pending>>
         ELSE LET s == File[position + 1] IN
                /\ position' = position + 1
                /\ rpc' = IF s \in active \cap started /\ ~realTime THEN "handing" ELSE "again"
                /\ pending' = IF s \in active \cap started /\ disp[s] = "running"
                                THEN [pending EXCEPT ![s] = position + 1] ELSE pending
                /\ UNCHANGED stopping
  /\ UNCHANGED <<realTime, flushed, isStarted, isPaused, active, svars, current, showing, lastPublished, misled, uvars, quiet, last, late, ghost>>

\* The flush of the sensor's dispatcher in handle_frame().
Handed ==
  /\ rpc = "handing" /\ FlushReturns(File[position])
  /\ rpc' = "again"
  /\ UNCHANGED <<realTime, queue, stopping, flushed, dvars, svars, fvars, uvars, quiet, last, late, ghost>>

\* flush_pending_frames() of one sensor after another, at the end of the file ...
EndFlush ==
  /\ rpc = "ending" /\ flushed = None
  /\ \E s \in stopping : FlushReturns(s) /\ stopping' = stopping \ {s} /\ flushed' = s
  /\ UNCHANGED <<realTime, queue, rpc, dvars, svars, fvars, uvars, quiet, last, late, ghost>>

\* Mutant: the device is not told that its sensor has stopped.
EndSensor_Silent ==
  /\ rpc = "ending" /\ flushed # None
  /\ flushed' = None
  /\ IF flushed \in started THEN StopSensor(flushed) ELSE UNCHANGED <<svars, fvars, late>>
  /\ UNCHANGED <<realTime, queue, rpc, stopping, dvars, uvars, quiet, last, ghost>>

\* ... and its stop( false ).
EndSensor ==
  /\ rpc = "ending" /\ flushed # None
  /\ flushed' = None
  /\ IF flushed \in started
       THEN StopSensor(flushed) /\ Deactivate(flushed)
       ELSE UNCHANGED <<svars, fvars, late, active, queue>>
  /\ ghost' = (ghost \/ (flushed \in started /\ active = {flushed} /\ Queued("add")))
  /\ UNCHANGED <<realTime, rpc, stopping, isStarted, isPaused, position, uvars, quiet, last>>

Ended ==
  /\ rpc = "ending" /\ stopping = {} /\ flushed = None
  /\ lastPublished' = 0 /\ misled' = FALSE
  /\ rpc' = "again"
  /\ UNCHANGED <<realTime, queue, stopping, flushed, dvars, svars, pending, current, showing, uvars, quiet, last, late, ghost>>

\* Continue looping?
Again ==
  /\ rpc = "again"
  /\ rpc' = "idle"
  /\ queue' = IF isStarted /\ ~isPaused THEN WithLoop(queue) ELSE queue
  /\ UNCHANGED <<realTime, stopping, flushed, dvars, svars, fvars, uvars, quiet, last, late, ghost>>

ReadThread ==
  \/ Activate \/ StopInternal \/ Pause \/ FlushSensor \/ Paused \/ Resume \/ Flushed
  \/ Loop \/ Handed \/ EndFlush \/ EndSensor \/ Ended \/ Again

-------------------------------------------------------------------------------
(***************************************************************************)
(* The sensors' dispatchers                                                *)
(***************************************************************************)

Take(s) ==
  /\ disp[s] = "running" /\ pending[s] # 0 /\ current[s] = 0
  /\ pending' = [pending EXCEPT ![s] = 0] /\ current' = [current EXCEPT ![s] = pending[s]]
  /\ UNCHANGED <<realTime, rvars, dvars, svars, showing, lastPublished, misled, uvars, quiet, last, late, ghost>>

Drop(s) ==
  /\ current' = [current EXCEPT ![s] = 0] /\ late' = late \ {s}
  /\ UNCHANGED <<showing, last>>

\* The user's callback is called; last is told of frames of this start only.
Publish(s) ==
  /\ showing' = showing \cup {s}
  /\ last' = IF s \in late \/ realTime THEN last ELSE [last EXCEPT ![s] = current[s]]
  /\ UNCHANGED <<current, late>>

\* After its sleep the callback checks again whether to publish.
Show(s) ==
  /\ current[s] # 0 /\ s \notin showing
  /\ IF s \notin started \/ isPaused THEN Drop(s) ELSE Publish(s)
  /\ UNCHANGED <<realTime, rvars, dvars, svars, pending, lastPublished, misled, uvars, quiet, ghost>>

\* The user's callback returns.
Shown(s) ==
  /\ s \in showing
  /\ showing' = showing \ {s} /\ late' = late \ {s}
  /\ lastPublished' = current[s] /\ misled' = (s \in late /\ ~realTime)
  /\ current' = [current EXCEPT ![s] = 0]
  /\ UNCHANGED <<realTime, rvars, dvars, svars, pending, uvars, quiet, last, ghost>>

Callback(s) == Take(s) \/ Show(s) \/ Shown(s)

Done == upc = "idle" /\ calls = MaxCalls[realTime] /\ requests = MaxRequests /\ queue = <<>> /\ rpc = "idle" /\ UNCHANGED vars

Next == Application \/ ReadThread \/ (\E s \in Sensors : Callback(s)) \/ Done
Spec == Init /\ [][Next]_vars
FairSpec ==
  Spec /\ WF_vars(ReadThread) /\ WF_vars(UserStopped) /\ \A s \in Sensors : WF_vars(Callback(s))

-------------------------------------------------------------------------------
(***************************************************************************)
(* Properties                                                              *)
(***************************************************************************)

Frames == 0..Length

TypeOK ==
  /\ realTime \in BOOLEAN
  /\ queue \in Seq([op : {"add", "stop", "pause", "resume", "flush", "loop"}, s : Sensors \cup {None}])
  /\ rpc \in {"idle", "handing", "ending", "again", "pausing"} /\ stopping \subseteq Sensors
  /\ flushed \in Sensors \cup {None}
  /\ isStarted \in BOOLEAN /\ isPaused \in BOOLEAN
  /\ position \in Frames /\ lastPublished \in Frames
  /\ active \subseteq Sensors /\ started \subseteq Sensors
  /\ disp \in [Sensors -> {"none", "running", "stopped"}]
  /\ pending \in [Sensors -> Frames] /\ current \in [Sensors -> Frames]
  /\ showing \subseteq {s \in Sensors : current[s] # 0}
  /\ upc \in {"idle", "stop", "waiting"} /\ us \in Sensors \cup {None} /\ calls \in Nat
  /\ requests \in 0..MaxRequests
  /\ quiet \in BOOLEAN /\ last \in [Sensors -> Frames] /\ late \subseteq Sensors
  /\ misled \in BOOLEAN /\ ghost \in BOOLEAN

\* After pause() of a started device has returned no callback runs until
\* resume() is called or the device stops, although the loop may have queued
\* another read before it was paused.  Only a frame that a sensor's thread had in
\* hand when the sensor was stopped, and that is shown after all because it was
\* started again, may still be with the user: its dispatcher is not waited for.
PausedIsQuiet == quiet => showing \subseteq late

\* Once a sensor's stop() has passed its dispatcher no callback runs, not even
\* for a frame its thread had taken before.
StoppedIsQuiet == showing \subseteq started

\* A device that is paused, and a sensor that is stopped, call nobody.
QuietWhenTold == PausedIsQuiet /\ StoppedIsQuiet

\* A device that plays always has the action queued that reads on, however
\* starts, stops, pauses and resumes were interleaved with it.
LoopAlive == isStarted /\ ~isPaused /\ rpc \in {"idle", "pausing"} => Queued("loop")

\* The frames of sensor s between i and j.
Between(s, i, j) == {k \in (i + 1)..(j - 1) : File[k] = s}

\* When not in real time, a sensor shows the frames of the file one by one:
\* a pause neither loses nor repeats any, even the one read while the pause
\* was under way; a resume() that is misled by a late frame begins anew.
EveryFrameShown ==
  [][\A s \in Sensors : ~realTime /\ s \in showing' \ (showing \cup late) /\ last[s] # 0 =>
       current[s] > last[s] /\ Between(s, last[s], current[s]) = {}]_vars

\* pause(), resume() and stop() return.
CallsReturn == upc # "idle" ~> upc = "idle"

\* A device that plays comes to the end of the file and stops there, if every
\* sensor was activated while it was started and the device was not about to
\* stop.
PlaybackEnds == isStarted ~> ~isStarted \/ isPaused \/ ghost

===============================================================================
