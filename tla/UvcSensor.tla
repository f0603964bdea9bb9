------------------------------ MODULE UvcSensor -------------------------------
(***************************************************************************)
(* uvc_sensor (uvc-sensor.cpp) on a multi_pins_uvc_device (uvc-device.h)   *)
(* whose pins are v4l_uvc_devices (linux/backend-v4l2.cpp): open, start,   *)
(* stop and close, the shared power count, and the life of each pin's      *)
(* capture thread.  Other threads use the device meanwhile through         *)
(* invoke_powered(); every call of the operating system may fail.          *)
(*                                                                         *)
(* open() and close() hold _configure_lock from end to end, so there is    *)
(* one of them at a time; they go from step to step while helpers and      *)
(* capture threads run.  acquire_power() and release_power() hold          *)
(* _power_lock from end to end and are one step each.  What becomes of     *)
(* buffers and frames is in V4lCapture.                                    *)
(***************************************************************************)
EXTENDS Naturals, FiniteSets

CONSTANTS
  Pins,      \* the video nodes of the sensor
  Helpers,   \* threads inside invoke_powered() or a bulk operation
  None,      \* no pin
  MaxFaults  \* bound: calls of the operating system that fail

ASSUME SensorAssumption ==
  IsFiniteSet(Pins) /\ IsFiniteSet(Helpers) /\ None \notin Pins /\ MaxFaults \in Nat

VARIABLES
  count,       \* _user_count
  powered,     \* helpers that hold a power object
  appPower,    \* the open() under way, or _power of the open sensor, holds one
  opened,      \* _is_opened
  streaming,   \* _is_streaming
  config,      \* the profiles requested; _internal_config of the open sensor
  configured,  \* _configured_indexes
  apc,         \* the call that holds _configure_lock: "idle", "acquire", "commit", "rollback",
               \*   "onopen", "stream", "undo", "close", "release"; "terminated" ends the program
  todo,        \* pins its loop has yet to visit
  joining,     \* the pin whose capture thread it joins
  state,       \* _state of each pin
  callback,    \* pins with a _callback, that is with buffers
  capturing,   \* pins with _is_capturing
  started,     \* pins with _is_started
  pipe,        \* pins with a byte in their stop pipe
  thread,      \* each pin's thread: "none", "polling", "callback", "ended" (not joined)
  leftover,    \* history: pins that a failing call has left as they were
  faults       \* faults so far

pvars == <<count, state>>
avars == <<powered, appPower, opened, streaming, config, apc>>
lvars == <<todo, joining, configured>>
dvars == <<callback, capturing, started, pipe, thread>>
vars == <<pvars, avars, lvars, dvars, leftover, faults>>

Alive == apc # "terminated"
Running(p) == thread[p] \in {"polling", "callback"}
Fault == faults < MaxFaults /\ faults' = faults + 1

Init ==
  /\ count = 0 /\ powered = {} /\ appPower = FALSE
  /\ opened = FALSE /\ streaming = FALSE /\ config = {} /\ configured = {}
  /\ apc = "idle" /\ todo = {} /\ joining = None
  /\ state = [p \in Pins |-> "D3"]
  /\ callback = {} /\ capturing = {} /\ started = {} /\ pipe = {}
  /\ thread = [p \in Pins |-> "none"]
  /\ leftover = {} /\ faults = 0

-------------------------------------------------------------------------------
(***************************************************************************)
(* Power                                                                   *)
(***************************************************************************)

\* Pins in on are mapped; their stop pipes are new if they were not.
PowerUp(on) ==
  /\ state' = [p \in Pins |-> IF p \in on THEN "D0" ELSE state[p]]
  /\ pipe' = pipe \ {p \in on : state[p] = "D3"}

\* acquire_power() that returns: only the first user powers the device.
Acquire ==
  /\ count' = count + 1
  /\ IF count = 0 THEN PowerUp(Pins) ELSE UNCHANGED <<state, pipe>>
  /\ UNCHANGED <<leftover, faults>>

\* acquire_power() that throws, from set_power_state() of a pin or from
\* init_xu(): the pins before it stay powered.
AcquireThrows ==
  /\ count = 0 /\ Fault
  /\ \E on \in SUBSET Pins : PowerUp(on) /\ leftover' = leftover \cup on
  /\ UNCHANGED count

\* The close() in set_power_state( D3 ); the pin that throws may have got so far.
CallbacksAfter(off, bad) == {callback \ off, callback \ (off \cup bad)}

\* set_power_state( D3 ): a pin in D0 closes what it has committed, waiting for
\* its thread if it is capturing, and is unmapped.  The pins in off get there;
\* if they are not all, one pin throws, from streamoff() or from the unmapping,
\* those after it are not tried, and release_power() only logs it.
PowerDown(off) ==
  LET on == {p \in Pins : state[p] = "D0"}
  IN  \E bad \in SUBSET (on \ off) :
        /\ off \subseteq on
        /\ IF off = on THEN bad = {} /\ UNCHANGED faults ELSE Cardinality(bad) = 1 /\ Fault
        /\ \A p \in off \cup (bad \cap capturing) : thread[p] # "callback"
        /\ state' = [p \in Pins |-> IF p \in off THEN "D3" ELSE state[p]]
        /\ callback' \in CallbacksAfter(off, bad)
        /\ capturing' = capturing \ (off \cup bad)
        /\ started' = started \ ((off \cup bad) \cap capturing)
        /\ pipe' = (pipe \cup (bad \cap capturing)) \ off
        /\ thread' = [p \in Pins |-> IF p \in (off \cup bad) \cap capturing THEN "none" ELSE thread[p]]
        /\ leftover' = on \ off

\* Mutant: every user powers the device down.
Release_Always ==
  /\ count' = count - 1
  /\ \E off \in SUBSET Pins : PowerDown(off)

Release ==
  /\ count' = count - 1
  /\ IF count = 1
       THEN \E off \in SUBSET Pins : PowerDown(off)
       ELSE UNCHANGED <<state, dvars, leftover, faults>>

\* invoke_powered(): the power object is made, or its constructor throws ...
HelperAcquires(h) ==
  /\ Alive /\ h \notin powered
  /\ \/ Acquire /\ powered' = powered \cup {h}
     \/ AcquireThrows /\ UNCHANGED powered
  /\ UNCHANGED <<appPower, opened, streaming, config, apc, lvars, callback, capturing, started, thread>>

\* ... and destroyed after the action.
HelperReleases(h) ==
  /\ Alive /\ h \in powered
  /\ Release
  /\ powered' = powered \ {h}
  /\ UNCHANGED <<appPower, opened, streaming, config, apc, lvars>>

-------------------------------------------------------------------------------
(***************************************************************************)
(* open()                                                                  *)
(***************************************************************************)

\* A call that is out of sequence throws and changes nothing.
Open ==
  /\ apc = "idle" /\ ~opened
  /\ \E R \in SUBSET Pins \ {{}} : config' = R
  /\ apc' = "acquire"
  /\ UNCHANGED <<pvars, powered, appPower, opened, streaming, lvars, dvars, leftover, faults>>

OpenAcquires ==
  /\ apc = "acquire"
  /\ \/ Acquire /\ appPower' = TRUE /\ apc' = "commit" /\ todo' = config
     \/ AcquireThrows /\ apc' = "idle" /\ UNCHANGED <<appPower, todo>>
  /\ UNCHANGED <<powered, opened, streaming, config, joining, configured, callback, capturing, started, thread>>

\* What probe_and_commit() asks of the pin.
Free(p) == p \notin capturing \cup callback

\* probe_and_commit(): the multi-pin device notes the index first.
Commit(p) ==
  /\ apc = "commit" /\ p \in todo
  /\ Free(p)
  /\ configured' = configured \cup {p}
  /\ callback' = callback \cup {p}
  /\ todo' = todo \ {p}
  /\ UNCHANGED <<pvars, avars, joining, capturing, started, pipe, thread, leftover, faults>>

\* Mutant: open() goes on without the pin.
CommitThrows_Ignored(p) ==
  /\ apc = "commit" /\ p \in todo
  /\ \/ ~Free(p) /\ UNCHANGED faults
     \/ Fault
  /\ todo' = todo \ {p}
  /\ UNCHANGED <<pvars, avars, configured, joining, dvars, leftover>>

\* It throws: "Device already streaming!" or an ioctl.  The profiles committed
\* so far will be closed.
CommitThrows(p) ==
  /\ apc = "commit" /\ p \in todo
  /\ \/ ~Free(p) /\ UNCHANGED faults
     \/ Fault
  /\ configured' = configured \cup {p}
  /\ todo' = config \ todo
  /\ apc' = "rollback"
  /\ UNCHANGED <<pvars, powered, appPower, opened, streaming, config, joining, dvars, leftover>>

Committed ==
  /\ apc = "commit" /\ todo = {}
  /\ apc' = "onopen"
  /\ UNCHANGED <<pvars, powered, appPower, opened, streaming, config, lvars, dvars, leftover, faults>>

\* verify_supported_requests(), or _on_open after the commits, may throw; then
\* nothing is closed.  Otherwise the sensor counts as opened.
OnOpen ==
  /\ \/ /\ apc = "onopen"
        /\ opened' = TRUE /\ apc' = "stream" /\ todo' = configured
        /\ UNCHANGED leftover
     \/ /\ apc = "onopen" \/ (apc = "commit" /\ todo = config)
        /\ apc' = "release" /\ todo' = {}
        /\ leftover' = leftover \cup (config \ todo)
        /\ UNCHANGED opened
  /\ UNCHANGED <<pvars, powered, appPower, streaming, config, joining, configured, dvars, faults>>

\* stream_on() of a configured pin, unless it is capturing.  Its thread
\* replaces the former one.
StreamOn(p) ==
  /\ apc = "stream" /\ p \in todo /\ p \in callback
  /\ p \in capturing \/ thread[p] = "none"
  /\ capturing' = capturing \cup {p}
  /\ thread' = IF p \in capturing THEN thread ELSE [thread EXCEPT ![p] = "polling"]
  /\ todo' = todo \ {p}
  /\ UNCHANGED <<pvars, avars, joining, configured, callback, started, pipe, leftover, faults>>

\* To replace a thread that was not joined ends the program (std::terminate).
StreamOnTerminates(p) ==
  /\ apc = "stream" /\ p \in todo
  /\ p \in callback /\ p \notin capturing /\ thread[p] # "none"
  /\ apc' = "terminated"
  /\ UNCHANGED <<pvars, powered, appPower, opened, streaming, config, lvars, dvars, leftover, faults>>

\* The driver refuses, in any case a pin without buffers.
StreamOnThrows(p) ==
  /\ apc = "stream" /\ p \in todo
  /\ p \notin capturing
  /\ \/ p \notin callback /\ UNCHANGED faults
     \/ Fault
  /\ apc' = "undo" /\ todo' = config
  /\ UNCHANGED <<pvars, powered, appPower, opened, streaming, config, joining, configured, dvars, leftover>>

OpenReturns ==
  /\ apc = "stream" /\ todo = {}
  /\ apc' = "idle"
  /\ UNCHANGED <<pvars, powered, appPower, opened, streaming, config, lvars, dvars, leftover, faults>>

-------------------------------------------------------------------------------
(***************************************************************************)
(* start(), stop(), close()                                                *)
(***************************************************************************)

Start ==
  /\ apc = "idle" /\ opened /\ ~streaming
  /\ streaming' = TRUE /\ started' = started \cup configured
  /\ UNCHANGED <<pvars, powered, appPower, opened, config, apc, lvars, callback, capturing, pipe, thread, leftover, faults>>

Stop ==
  /\ apc = "idle" /\ streaming
  /\ streaming' = FALSE /\ started' = started \ configured
  /\ UNCHANGED <<pvars, powered, appPower, opened, config, apc, lvars, callback, capturing, pipe, thread, leftover, faults>>

Close ==
  /\ apc = "idle" /\ opened /\ ~streaming
  /\ apc' = "close" /\ todo' = config
  /\ UNCHANGED <<pvars, powered, appPower, opened, streaming, config, joining, configured, dvars, leftover, faults>>

Closing == apc \in {"rollback", "undo", "close"}

\* stop_data_capture() up to the join.
SignalStop(p) ==
  /\ Closing /\ joining = None /\ p \in todo \cap capturing
  /\ capturing' = capturing \ {p} /\ started' = started \ {p}
  /\ pipe' = pipe \cup {p}
  /\ joining' = p
  /\ UNCHANGED <<pvars, avars, todo, configured, callback, thread, leftover, faults>>

\* Mutant: the thread is told to stop and not waited for.
CanFinish_NoJoin(p) == Closing /\ p \in todo /\ (joining = p \/ (joining = None /\ p \notin capturing))

CanFinish(p) ==
  /\ Closing /\ p \in todo
  /\ \/ joining = p /\ thread[p] = "ended"
     \/ joining = None /\ p \notin capturing

Joined(p) == thread' = IF joining = p /\ thread[p] = "ended" THEN [thread EXCEPT ![p] = "none"] ELSE thread

FinishClose(p) ==
  /\ CanFinish(p)
  /\ Joined(p)
  /\ callback' = callback \ {p}
  /\ configured' = configured \ {p} /\ leftover' = leftover \ {p}
  /\ todo' = todo \ {p} /\ joining' = None
  /\ UNCHANGED <<pvars, avars, capturing, started, pipe, faults>>

\* close() of a pin throws, from streamoff() after the join or because the
\* device lists its profiles no more.  The rollback ends there and leaves the
\* profiles after it, the other loops go on.
CloseThrows(p) ==
  /\ Closing /\ p \in todo /\ Fault
  /\ (joining = p /\ thread[p] = "ended") \/ joining = None
  /\ Joined(p)
  /\ IF apc = "rollback"
       THEN leftover' = leftover \cup todo /\ todo' = {}
       ELSE leftover' = leftover \cup {p} /\ todo' = todo \ {p}
  /\ joining' = None
  /\ UNCHANGED <<pvars, avars, configured, callback, capturing, started, pipe>>

Closed ==
  /\ Closing /\ todo = {}
  /\ apc' = "release"
  /\ UNCHANGED <<pvars, powered, appPower, opened, streaming, config, lvars, dvars, leftover, faults>>

\* The power object of open(), or _power, is destroyed.
AppReleases ==
  /\ apc = "release"
  /\ Release
  /\ appPower' = FALSE /\ opened' = FALSE
  /\ apc' = "idle"
  /\ UNCHANGED <<powered, streaming, config, lvars>>

-------------------------------------------------------------------------------
(***************************************************************************)
(* The capture threads                                                     *)
(***************************************************************************)

\* A frame reaches the sensor's callback.  With a byte in the stop pipe poll()
\* looks no further.
Deliver(p) ==
  /\ Alive /\ thread[p] = "polling" /\ p \in started \ pipe /\ streaming
  /\ thread' = [thread EXCEPT ![p] = "callback"]
  /\ UNCHANGED <<pvars, avars, lvars, callback, capturing, started, pipe, leftover, faults>>

CallbackEnds(p) ==
  /\ Alive /\ thread[p] = "callback"
  /\ thread' = [thread EXCEPT ![p] = "polling"]
  /\ UNCHANGED <<pvars, avars, lvars, callback, capturing, started, pipe, leftover, faults>>

\* Mutant: close() is noticed only when a frame comes.
ThreadEnds_OnFrame(p) ==
  /\ Alive /\ thread[p] = "polling" /\ p \notin capturing /\ p \in started
  /\ thread' = [thread EXCEPT ![p] = "ended"]
  /\ UNCHANGED <<pvars, avars, lvars, callback, capturing, started, pipe, leftover, faults>>

\* capture_loop() ends.
ThreadEnds(p) ==
  /\ Alive /\ thread[p] = "polling" /\ p \notin capturing
  /\ thread' = [thread EXCEPT ![p] = "ended"]
  /\ UNCHANGED <<pvars, avars, lvars, callback, capturing, started, pipe, leftover, faults>>

\* select() fails: the thread stops the stream itself, and ends.
SelectFails(p) ==
  /\ Alive /\ thread[p] = "polling" /\ Fault
  /\ capturing' = capturing \ {p} /\ started' = started \ {p}
  /\ thread' = [thread EXCEPT ![p] = "ended"]
  /\ UNCHANGED <<pvars, avars, lvars, callback, pipe, leftover>>

CaptureThread(p) == CallbackEnds(p) \/ ThreadEnds(p)

\* The steps of the call that holds _configure_lock.
Call ==
  \/ OpenAcquires \/ Committed \/ OnOpen \/ OpenReturns \/ Closed \/ AppReleases
  \/ \E p \in Pins :
       \/ Commit(p) \/ CommitThrows(p) \/ StreamOn(p) \/ StreamOnTerminates(p) \/ StreamOnThrows(p)
       \/ SignalStop(p) \/ FinishClose(p) \/ CloseThrows(p)

User == Open \/ Start \/ Stop \/ Close
Helper == \E h \in Helpers : HelperAcquires(h) \/ HelperReleases(h)
Capture == \E p \in Pins : Deliver(p) \/ CaptureThread(p) \/ SelectFails(p)

Terminated == apc = "terminated" /\ UNCHANGED vars

Next == Call \/ User \/ Helper \/ Capture \/ Terminated

Spec == Init /\ [][Next]_vars

Fairness ==
  /\ WF_vars(Call)
  /\ \A p \in Pins : WF_vars(CaptureThread(p))

FairSpec == Spec /\ Fairness

-------------------------------------------------------------------------------
(***************************************************************************)
(* Properties                                                              *)
(***************************************************************************)

TypeOK ==
  /\ count \in Nat /\ powered \subseteq Helpers
  /\ appPower \in BOOLEAN /\ opened \in BOOLEAN /\ streaming \in BOOLEAN
  /\ config \subseteq Pins /\ configured \subseteq Pins /\ todo \subseteq Pins
  /\ joining \in Pins \cup {None}
  /\ apc \in {"idle", "acquire", "commit", "rollback", "onopen", "stream", "undo", "close", "release", "terminated"}
  /\ state \in [Pins -> {"D0", "D3"}]
  /\ callback \subseteq Pins /\ capturing \subseteq Pins /\ started \subseteq Pins /\ pipe \subseteq Pins
  /\ thread \in [Pins -> {"none", "polling", "callback", "ended"}]
  /\ leftover \subseteq Pins /\ faults \in 0..MaxFaults

\* The user count is the number of power objects there are, whatever calls
\* failed in between (acquire_power() takes its count back).
UsersAreCounted == count = Cardinality(powered) + (IF appPower THEN 1 ELSE 0)

\* Whoever holds a power object finds every pin in D0: no release and no
\* failed call of another thread powers the device down under its feet.
PoweredWhileHeld == (powered # {} \/ appPower) => \A p \in Pins : state[p] = "D0"

\* A capture thread that runs has its node mapped and its _callback set: close()
\* and set_power_state() join it first.
CaptureIsBacked == \A p \in Pins : Running(p) => state[p] = "D0" /\ p \in callback

\* An open sensor has committed what it was asked for, and every pin of its
\* configuration has had its thread made; no other pin captures.
OpenIsComplete ==
  opened /\ apc = "idle" =>
    /\ config \subseteq callback
    /\ \A p \in config : thread[p] # "none"
    /\ capturing \subseteq config \cup leftover

\* Once close() or a failed open() has returned no capture thread runs, and no
\* callback of the user with it, except where a call failed.
QuietWhenClosed ==
  ~opened /\ apc \in {"idle", "acquire"} => \A p \in Pins \ leftover : ~Running(p)

\* A device nobody uses is off and holds no committed profile, even after an
\* open() that threw from _on_open or half way, except where a call failed.
OffIsClean ==
  count = 0 => \A p \in Pins \ leftover : state[p] = "D3" /\ p \notin callback

\* Power follows its users: counted, kept while there are any, gone after them.
PowerFollowsUsers == UsersAreCounted /\ PoweredWhileHeld /\ OffIsClean

\* What the sensor says of itself is so: open means that all of it captures,
\* closed that nothing does.
OpenTellsTheTruth == OpenIsComplete /\ QuietWhenClosed

\* open() and close() return: the join finds the thread, wherever it was.
CallsReturn == apc # "idle" ~> apc \in {"idle", "terminated"}

===============================================================================
