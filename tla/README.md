# librealsense in TLA+

TLA+ models of the concurrent core of librealsense, from the capture thread of a video
node up to the pipeline: the queue and the dispatcher that its threads are built from,
the frame archive that its frames live in, the matchers and the syncer that put frames
together, the V4L2 backend and the sensor that drive a device, the options watcher, the
playback of a file, and the pipeline over all of it. TLC checks the models on small
instances; TLAPS proves the most important facts for every value of the constants.
`PROJECT.json` lists the runs, the source lines behind every definition, the hazards
the properties are for, and the findings.

To check a run: `tlc -workers 2 -config queue.cfg MCSingleConsumerQueue`.
To check proofs: `tlapm PipelineProofs.tla`.

## 1. Inventory

Paths are relative to `src/` of the repository.

| Component | Code | State | Operations | What is hard | What makes it correct |
|---|---|---|---|---|---|
| Queue | `rsutils/concurrency.h`, `single_consumer_queue` | container, `_accepting`, two condition variables | enqueue, blocking_enqueue, dequeue, try_dequeue, clear, stop, start | notifications given after the unlock; `notify_one`; several blocked writers; stop while threads sleep | FIFO within the capacity, no lost wake-up, nobody asleep in a stopped queue |
| Dispatcher | `concurrency.h`, `dispatcher.cpp`, `waiting-on.h` | queue, `_was_stopped`, `_is_alive`, worker thread, shared condition variables | invoke, invoke_and_wait, flush, try_sleep, start, stop, destroy | unlocked reads of `_was_stopped`; window between dequeue and dispatch; three-step start and stop | stop and destruction return, flush waits for what it should, nothing stays queued |
| active_object, watchdog | `concurrency.h` | a dispatcher that re-queues its own action | start, stop, kick | self-requeue against stop | the loop ends with stop, a kick prevents one firing |
| Matchers | `sync.cpp` | a queue per stream, activity flags, next expected frame | dispatch, sync, stop | streams that lag, lose frames or fall silent; order of a map keyed by address | framesets in step, queues never full, streams not left behind |
| Syncer | `proc/syncer-processing-block.cpp` | match queue, two mutexes, enable options | processing callback, stop | try-lock hand-over between threads | matches delivered once, in order, and not forgotten |
| Frame archive | `frame-archive.h`, `small-heap.h`, `callback-invocation.h`, `frame.cpp` | fixed heap, published count, freelist, callbacks in flight, reference counts | publish, acquire, keep, release, begin/end callback, flush | keep and release race without a lock; flush against callbacks | count exact, no place reused while referenced, flush leaves nothing |
| frame_source | `source.cpp`, `proc/synthetic-stream.cpp` | archives per stream under one recursive mutex | init, alloc, invoke_callback, flush, reset | flush waits while it holds the mutex | flush returns |
| UVC sensor | `uvc-sensor.cpp`, `platform/uvc-device.h` | opened/streaming flags, committed profiles, power count | open, close, start, stop, acquire/release power | every call may fail half way; other threads power the device; threads that have passed the streaming check | open is complete or refused, closed is quiet, powered exactly while used |
| V4L2 backend | `linux/backend-v4l2.cpp` | buffers, capture thread, video and metadata syncer, stop pipe | stream_on, poll, upload, stop, close | buffers with four possible holders; two nodes that lose frames; stop against `select()` | a buffer has one holder, the driver is fed, pairs in order, close returns |
| HID, software sensors | `hid-sensor.cpp`, `software-sensor.cpp` | as the UVC sensor | open, close, start, stop | as the UVC sensor | as the UVC sensor |
| Options watcher | `core/options-watcher.cpp`, `synthetic-options-watcher.cpp` | options, subscriptions, polling thread | register, unregister, subscribe, stop | notify without the mutex; a finished but joinable thread; flags read without a lock | changes are told, the thread ends before the watcher |
| Pipeline | `pipeline/` | active profile, dispatcher, aggregator queue, syncer | start, stop, wait/poll/try_wait | reconnection inside a wait; restart of a file without a lock; calls that throw half way; callbacks inside what is replaced | frame sets whole and advancing, the profile true, calls return |
| Device hub, watcher | `device_hub.cpp`, `polling-device-watcher.h`, `backend-device-factory.cpp` | device lists, callbacks | wait_for_device, on change | event between check and wait | a connected device is found |
| Record, playback | `media/` | read dispatcher, per-sensor dispatchers, pause/seek state | play, pause, resume, seek, stop | calls that act at once against actions queued; the loop that queues itself | quiet when paused or stopped, no frame skipped or repeated, playback ends |
| Firmware update | `fw-update/` | DFU state of device, block number, retries | update, detach | retry after the device was reset by another process | the image arrives whole or the update fails |
| Hardware monitor, other backends, DDS, processing blocks, viewer and tools | see `PROJECT.json` | | | operating system, pixels, user interface | not modelled |

How they interact: a backend thread per stream allocates a frame from the archive,
passes it to the user callback or to a chain of processing blocks, the last of which
is usually the syncer; the syncer's matcher (under one mutex) queues frames per stream
and pushes matches on a queue; the pipeline's aggregator, `rs2::frame_queue` and the
playback reader sit behind further queues. Dispatchers run notifications, playback
reads, device events and the watchdogs. All threads share the frame archive.

## 2. Modules

| Module | Models | Composed with |
|---|---|---|
| `BoundedFifo` | what the queue promises, no threads | used by the next five |
| `SingleConsumerQueue` | the queue with mutex and condition variables; refines `BoundedFifo` | |
| `Dispatcher` | the dispatcher over `BoundedFifo` | |
| `CompositeMatcher` | the part of the matchers that is shared | extended by the next two |
| `FrameNumberMatcher`, `TimestampMatcher` | the two matchers | |
| `Syncer` | the syncer's processing callback | matchers reduced to what comes out |
| `FrameArchive` | archive, heap, callbacks in flight, references | |
| `V4lCapture` | a video node and its metadata node: buffers, capture thread, pairing | the sensor reduced to its flags |
| `UvcSensor` | open, start, stop, close and power of a sensor of several nodes | the capture thread reduced to its life |
| `OptionsWatcher` | the polling of options and its callers | |
| `PlaybackDevice` | the read thread, the sensors' dispatchers, the calls | dispatchers reduced to their order |
| `Pipeline` | pipeline, config, aggregator, reconnection, restart of a file | syncer, sensors and device hub reduced to what the pipeline sees |
| `ConditionVariableProofs` | theorems about `SingleConsumerQueue` and `OptionsWatcher` | extends both |
| `SyncProofs` | theorems about `Syncer`, `FrameNumberMatcher` and `TimestampMatcher` | extends the three |
| `...Proofs` (the other 6) | theorems about the module of that name | extend it |
| `MC...` | model values for TLC | |

Definitions named `X_Something` with a comment "Mutant" are variants of `X` with a
plausible mistake; no specification uses them. Replacing `X` by one of them makes TLC
report the property listed with it in `PROJECT.json`.

### SingleConsumerQueue

A step is one critical section of `_mutex`. `ppc` and `cpc` say where each writer and
reader is: `waiting` inside a condition variable, `woken` (notified, or spuriously) and
about to take the mutex again. The writers' `notify_one` comes after the unlock, so it
is a step of its own (`NotifyDequeuer`); the readers' `notify_one` is inside the
critical section (`NotifyEnqueuer`). `fate` is a history of each item. `try_dequeue`
is `Dequeue` with an item; peek, size and empty change nothing.

### Dispatcher

The queue appears through its abstract operations, which is what the refinement is
for. A call (`pc`) reads `_was_stopped`, then reaches the queue, then (for
`invoke_and_wait` and `flush`) evaluates its predicate and sleeps: each is a step. The
worker (`wpc`) waits for start, dequeues, locks `_dispatch_mutex` and runs the action,
which may call `try_sleep` or throw; these are steps too. The owner (`opc`) runs the
three steps of start and the four of stop; destruction is stop with `_is_alive` false
followed by a join, and is only allowed when no call is in progress. The predicate
`exit_condition` of `invoke_and_wait` belongs to the caller and is taken to be false.
The destruction of flush's copy of the signalling lambda, which invalidates the wait
state, is part of `ReturnFromWait`.

### Matchers

A frame is a stream and a stamp. The thread in the syncer's mutex is at `arrived`
(activity checked) or in the loop of `sync()`, one iteration per step, because `stop()`
only shares the mutex of an iteration. `find_matcher`, `clean_inactive_streams`,
`update_last_arrived`, `update_next_expected` and the enqueue are one step
(`FindAndEnqueue`); that `stop()` may also fall between them is not modelled, nor is the
data race it has with them on the map. `Sort` is the single pass over the
queue heads, in the order of a map keyed by address (any order); `sorted` is the result
of the pass after each place of the map, so that it can be reasoned about. Time in
`TimestampMatcher` is counted in units in which every gap is whole; half a gap is
compared by doubling. Frame numbers start at 0, which `_last_arrived` takes for "never
arrived" (`sync.cpp:500`). Timestamps lie on no common grid: a frame comes at any time a
gap, less the `Jitter`, after the last of its stream, so streams have phases of their own
that drift, and "less than half a gap apart" is not an equality. Left out: matchers
created from a device, nested composites, streams of different timestamp domains, a
frame rate that changes.

### Syncer

The matcher is reduced to the number of matches a frame completes (`burst`). Matches are
numbered, so order and loss are visible. The critical section of `_mutex` is several
steps: the frame is dispatched, its matches are queued one by one, the mutex is released.
`blocking` is chosen once: the frames of a file that is not played in real time are
blocking ones, and so are the matches that are made of them (`synthetic-stream.cpp:521`);
those wait for room, with the mutex in hand, where others displace the oldest.
`Passthrough` and `DispatchStopped` are the two early returns.

### FrameArchive

`free` has the slots of the fixed heap and the heap objects not in use, `ref`, `kept`
are the frame's own, `keeping` are frames whose `keep()` has set the flag and not yet
decremented the count, `dying` and `retired` are the two stages of `release()` after
the last reference. When a frame is recycled its flag moves, with the buffer, to the
freelist; the model leaves it set, since nobody looks at either until `publish()`
clears it. Callbacks take the single place of `callbacks_heap` if they can (`tracked`).
`early` is a history variable: producers whose callback began before flush stopped the
heap. Notification of `wait_until_empty` is not modelled as a step: a single thread
waits, and it evaluates its predicate under the mutex of the decrement.

### V4lCapture

Each node has its own set of `Buffers`. `empty` is what is queued in the driver,
`filled` what it has filled, `queue` the syncer's two queues, `mgr` the local `buf_mgr`
of the `poll()` under way, `attached` the flag `_must_enqueue` of a buffer. The capture
thread takes one step per stretch between two points where another thread can be seen:
the loop's condition, `select()`, the metadata node, the video node, the upload, the
callback with the guards' destructors. The sensor's thread takes the steps of
`stream_on`, `start`, `stop` and `close` in the code's order, so the thread runs before
the syncer is ready and after it was stopped. Frames are lost on either node, a video
frame may be empty or incomplete, and metadata number 0 may come twice, as a comment in
the code says. A buffer is lost when none of the four places has it: the code queues it
again nowhere. Sequence numbers do not wrap: a session ends long before 2^32 frames.
Left out: the copy of the frame, the frame drop monitor, formats, the nodes without
metadata.

### UvcSensor

`_configure_lock` is held through `open()` and `close()`, so one call is under way, at
`apc`; its loops over pins are `todo`. `_power_lock` is held through acquire and
release, which are one step each; helpers do the same for `invoke_powered()`. Every
operating system call may fail, up to `MaxFaults` times: powering a pin up or down,
`probe_and_commit`, `_on_open`, `stream_on`, `close`, `select()`. A failing power-down
leaves every choice of pins done. A capture thread is `polling`, in the user's
`callback`, or `ended` and not joined; replacing an unjoined `std::thread` is
`StreamOnTerminates`. `leftover` is a history variable: pins that a failed call has left
as they were, of which the properties make an exception. Left out: XUs, options,
the conversion of frames, the fourcc lookup.

### OptionsWatcher

Only `_options` is under the mutex; `should_stop()` and the handle of the thread are
read without it, and callers are several threads. A step of a caller is one such read or
write. The thread holds the mutex while it queries (`pc = "query"`), one option per
step. `known` is `p_last_known_value`, `updated` the list of changes of this round,
`told` what subscribers have last heard. A device without power makes an update empty
(`MaxSkips`). Creating a second thread over a joinable one ends the program, as
`std::thread` does; the properties allow for that end. The last check of the loop
(`Notify`, line 112) and the report are two steps: `Raise` takes its copy of the
subscribers (`signal.h:91-101`) later, and may find none. `missed` is a history of the
changes for which it did. The calls of the copied subscribers are one step with the copy.
`Create` is one step, though the code runs the thread shortly before `_updater` is joinable.

### PlaybackDevice

Frame `k` of `File` is read at time `k`. The read thread's dispatcher is the sequence
`queue` of actions; `rpc` says where the action under way waits: in `handle_frame` for
its sensor (not real time), in the flushes of `pause()`, flushing and stopping sensors
at the end of the file, or about to queue itself again. A flush ends when its dispatcher
is idle, and at once when that is stopped (`FlushReturns`, `dispatcher.cpp:106-118`). Each sensor's dispatcher has a frame queued
(`pending`) and one in hand (`current`), which it shows after looking again at
`m_is_started` and `m_is_paused`. A frame that was in hand when its sensor stopped may
thus still be shown after the sensor was started again, when nobody waits for it: `late`
is a history of those, `misled` says that such a frame was the last one published.
The application makes any sequence of `MaxCalls` calls for sensors (one bound for a
device in real time, one for a device that is not) and `MaxRequests` for the device;
`stop()` of a sensor is two steps, because it runs on the caller's thread against the
read thread. Left out: seeking, the playback rate (a sleep ends at any time), the
timeouts of flushes, read errors, filters, and recording.

### Pipeline

The calls hold `_mtx`, so one is under way, at `pc`, with the sensors it has yet to go
over in `todo`, which come in the order of their indices (`First`), as the maps of
`multistream` are ordered by them. Sensors' threads (`cb`) run in the aggregator they
entered with; the syncer either holds a frame or lets it out with others. A device object
is numbered; `valid` says whether the device was there since it was made, so that an
unplugged device refuses and a new one must be resolved. It is also what `is_connected()`
asks (`device.cpp:59-64`): a wait without frames reconnects once the device has been
away, be it back or not. An unplug is the moment the device objects learn of it.
`_active_profile` and `_prev_conf` are set in two steps (`Activate`, `CopyConfig`), and a
restart between them ends the program (`RestartCrashes`). `config` is the set of disabled
streams and the resolved profile it caches, which a second `start()` takes. The end of a
file is reported through a copy of the subscribers (`raising`), queued in the dispatcher
(`pending`) and carried out by it (`rs`) without a lock. Histories: `got` (what the
application received), `base` (frames before the last start), `left` (a start or stop
threw half way, or a restart overtook a stop), `early` (the file ended before start() had
set the profile). Left out: a user callback instead of the aggregator, recording, and how
stream requests are resolved to profiles.

## 3. Runs

A property may be a conjunction of named parts that make one statement (`BuffersGoRound
== OneOwner /\ DriverFed`). The type invariants of the modules with proofs are theorems,
that of the frame-number matcher as part of `NoOverflow`; `AlwaysRoom` has that of the
timestamp matcher in it. `Pipeline`'s is an invariant of its run as
well, for the bound of the aggregator's queue that is in it.

| Run | Instance | Checks |
|---|---|---|
| `queue` | 2 writers, 2 readers, 4 items, capacity 2 | `NobodySleepsInVain` (a stopped queue is quiet, no writer and no reader misses a wake-up), refinement of `BoundedFifo`, `ItemsGetThrough` |
| `dispatcher` | 2 invokes, 1 invoke_and_wait, 1 flush, capacity 2 | `QueueFollowsState` (the assertion of `stop()`, nothing queued while stopped), `FlushWaits`, `QueuedActionLeaves`, `StopEndsWaits` |
| `framenumber` | 3 streams, numbers 0 to 12, up to one lost at a time, the code's 5, 4 and 10 | `NoOverflow`, `SameNumberTogether` |
| `timestamp` | 3 streams of one rate, gaps of 3 units with a jitter of 1, any phases, all map orders, time to 15, frames at most 1 unit late, a cutout of 2 and a queue of 5 | `AlwaysRoom`, `FramesetInStep`, `NotLeftBehind` |
| `syncer` | 3 threads, 4 matches, queue of 2, bursts of 2, blocking or not | `DeliveredInOrder`, `MatchIsPickedUp` |
| `archive` | 2 slots, 1 extra object, 1 producer, queue size 0 to 2 | `CountIsExact`, `LifeCycle`, `FlushIsThorough` (nothing recycled after it, callbacks waited for), `FlushReturns` |
| `v4l_capture` | 3 buffers per node, 3 frames per session, any number of sessions | `BuffersGoRound`, `LossIsExplained`, `PairsInOrder`, `CloseReturns` |
| `uvc_sensor` | 2 pins, 1 helper, 3 failures | `PowerFollowsUsers`, `CaptureIsBacked`, `OpenTellsTheTruth`, `CallsReturn` |
| `options_watcher` | 2 callers, 1 option, 1 subscription at a time, 1 change, 1 update without power | `SleepsInformed`, `ThreadIsHeld`, `DestructorReturns`, `ChangeIsReported` |
| `playback` | a file of 4 frames of 2 sensors, 4 calls for sensors (3 in real time) and 2 for the device | `QuietWhenTold`, `EveryFrameShown`, `CallsReturn`, `PlaybackEnds` |
| `pipeline` | depth (synced) and gyro, 2 frames each, 2 device objects, 4 calls, 2 failures; live, file, repeated file | `TypeOK`, `AggregatorIsFresh`, `ProfileTellsTheTruth`, `FramesetsAdvance`, `CallsReturn`, `PlaysAgain` |
| `pipeline_stop` | the same | `StopStops`, which fails |

Bounds. Two blocked writers and two readers are the least for which a `notify_one` can
reach the wrong thread; capacity 2 with four items lets the queue fill with both
writers blocked and lets order be seen. Two actions and capacity 2 let a call displace
an action that a flush waits for. Numbers from 0 to 12 let a stream be declared inactive (5
frames) and return, and let a stream that delivered nothing but frame 0 hold up another
until its queue of 10 is full, which is the case `NoOverflow` excepts; a longer horizon
repeats the same relative positions. The timestamp run scales the matcher down: a gap of
3 units is the least in which heads can be in step without being equal, out of step by
less than a gap, and near in one pair but not across (4, 5 and 6), and a cutout of 2 gaps
with a queue of 5 stands for the code's 7 and 10, of which the theorem speaks (section 4).
Five is the least: with a queue of 4 TLC finds one that is full when a frame arrives.
`MaxLate` is how much older than the newest frame a frame may be when it arrives. The
streams of both runs are alike, so they use the symmetry. Two slots and an extra object
let a frame be published while another is being kept and a third unpublished. The
matchers stop at the bound, hence no deadlock check for them.

Three buffers are one more than the syncer's queue keeps, the least for which the
driver is fed at all (the code has four; the theorems hold for any number). Three
frames let the queue of one node overflow while the other loses. Two
pins are what a rollback, and a power-down that stops half way, need to have something
before and after the failing one; three failures let a rollback of a failed open fail
and the power-down after it too. One option is enough for a change to be recorded and
dropped, two callers for one to stop what the other starts. Three calls for sensors are
start, stop and start again of one (open sensors are among the initial states), which
brings a late callback about, or the start of both and the stop of one. Not in real
time a fourth is needed: start both, stop and start again the one whose late frame
then sets back what `resume()` goes on from. Two for the device are a pause, and a
resume or a stop. The file has two frames of one sensor in a row, and a last one after
a frame of the other.
Four calls of the pipeline are start, wait, stop, start, or start and three waits, one
of which reconnects; two device objects are the one it loses and the one it finds. Two failures
are an unplug and a replug, or a fault inside the reconnection.

Fairness. Threads that can go on do (weak fairness of each thread's own next step):
mutexes of the code are held for a bounded time and the operating system schedules
every thread. The consumer keeps consuming, actions and user callbacks return, and a
sleep ends. Nothing is assumed of timeouts, spurious wake-ups, the application's calls,
arriving frames, failures, or the release of frames: progress that would rely on the
5-second and 10-second timeouts is not counted as progress. There are two exceptions.
The options watcher's interval ends (it is a step of its thread), since polling at an
interval is what it does; its destructor may wait for it. In `Syncer` frames keep
coming (a stream's thread is fair), and `MatchIsPickedUp` is exactly about that. In
`Pipeline` a wait that finds no frame ends with its timeout, which is a step of the call.

### Findings

* `pipeline_stop`: the action that restarts a repeated file takes no lock and sees
  `_active_profile` until `unsafe_stop()` resets it. It may open and start the sensors
  between the `close()` of `unsafe_stop()` and the stop of the dispatcher, and the file
  plays on after `stop()` has returned ("stops the device streaming").

Observed in the models, with no run kept for them:

* Dispatcher: the worker takes an action off the queue before it locks
  `_dispatch_mutex`; stop() can run from beginning to end in between, and the action
  runs after it ("While we're dispatching the item, we cannot stop!", `dispatcher.cpp:28`).
* Dispatcher: stop() waits for the action in progress before it sets `_was_stopped`, so
  it never interrupts `try_sleep` ("its sleep will still be interrupted",
  `concurrency.h:276`).
* Dispatcher: two `invoke_and_wait` share `_blocking_invoke_cv` and `notify_one`; the
  caller whose action has run may never be woken, and it has no timeout. If the action
  throws, or is dropped from the queue, the caller waits as well. Two flushes have the
  same problem, but flush has a timeout. And `concurrency.h:371` says a dispatcher is
  started after construction, while `dispatcher.cpp:10` starts it stopped.
* Frame number matcher: a stream that delivers frame 0 and falls silent is never taken for
  inactive, because `_last_arrived` 0 also means that nothing came (`sync.cpp:500`). The
  others wait for it until their queues are full and drop frames (or, if those are
  blocking, wait under the syncer's mutex). `NoOverflow` names this case (`StuckAtZero`).
* Timestamp matcher: frames two gaps late fill a queue of the code's size even at one
  rate. With gaps of 10: `M@30`, then `A@10` and no more of it, `B@16`, `B@26` and so on.
  `ThereIsAlwaysRoom` says how late frames may be.
* Timestamp matcher: a frameset may hold frames that are not near each other, and leave a
  frame behind that is earlier than some in it: heads `A@10`, `B@6`, `C@14` go out
  together when the map has A first, and of `A@14`, `B@11`, `C@8`, `D@12` (in that order)
  C and D go out and `B@11` stays. The comment at `sync.cpp:383` says that the synced
  frames "should be the earliest possible!"; `FramesetInStep` says what does hold.
* Timestamp matcher: a missing stream is looked at through one head only. With `B@100` and
  `A@104` and `M` expected at 108, B and A go out without M if that head is B's, though A
  is near what is expected; `NotLeftBehind` requires all of them to be near.
* Timestamp matcher: with streams of two rates and a third that falls silent, the cutout
  is seven gaps of the slower stream and the queue of the faster overflows
  (`sync.cpp:706`).
* Frame number matcher: with three streams a frame goes out without an active stream
  that is due, because missing streams are only looked at when all heads match.
* Matchers: `stop()` iterates over `_frames_queue` under a mutex that `find_matcher()`
  does not take.
* Syncer: a thread that loses the try-lock leaves its match to a holder that may already
  have seen the queue empty; it waits for the next frame, which does deliver it
  (`MatchIsPickedUp`). A frame that has passed the activity check is queued after stop().
* Syncer: a blocking match waits for room under `_mutex` (`concurrency.h:209-215`). When
  the queue is full and the last holder of `_callback_mutex` is past its last look at it,
  or when one frame completes more matches than there is room for, nobody is left to make
  any: the thread that waits would have been the next to empty the queue, and all others
  wait for `_mutex` (`Blocked`). The comment at `syncer-processing-block.cpp:69` relies on
  another thread to "dequeue all the frames".
* Archive: only one callback in flight is tracked (`callbacks_heap` has one place), so
  with two at once flush() does not wait for the second.
* V4L2: the byte of the stop pipe is never read (`backend-v4l2.cpp:1338`). After close()
  and open() while another user keeps the device in D0 every `poll()` sees it first and
  no frame is delivered; line 1432 takes it for an error.
* V4L2: after a frame lost on one node the pair shown holds a buffer of an earlier
  `poll()` while the continuation belongs to another: neither is queued again, although
  the comment at line 1717 says so. With `LossIsExplained` this is one of three ways to
  lose a buffer; the others are a callback that finds its sensor stopped, and a buffer
  dequeued before the syncer is ready.
* V4L2: a thread that ended because `select()` failed stays joinable; the next
  `stream_on()` over it terminates the program.
* UVC sensor: a profile whose commit failed stays in `_configured_indexes`
  (`uvc-device.h:269`), and the rollback of `open()` stops at the first close that
  throws (`uvc-sensor.cpp:262-266`), hiding the first error.
* Options watcher: a loop that ended by itself is never replaced, because its thread is
  still joinable (`options-watcher.cpp:70`), though `options-watcher.h:24` says that
  options are updated automatically once a user subscribes; a caller of `unregister_option()` may join
  a thread that another caller keeps alive; two first subscribers may both make a thread.
* Options watcher: when the last subscription is cancelled between the last check
  (`options-watcher.cpp:112`) and the copy that `raise()` makes, and another is made
  before line 98 is reached, the thread goes on with values put down as known that were
  told to nobody (`missed`).
* Playback: `stop()` of the device leaves its sensors marked as started
  (`rs_record_playback.h:183` says that it stops all streaming sensors), so they cannot
  be started again; a `start()` and a `stop()` of a sensor may be carried out in the
  other order (`ghost`).
* Playback: a flush of a stopped dispatcher returns at once (`dispatcher.cpp:108`), also
  while its thread still holds a frame. If the sensor is started again the frame is shown
  after all: after `pause()` has returned ("Wait for any remaining sensor callbacks to
  return", `playback_device.cpp:356`), or after later frames of another sensor, and then
  it sets `m_last_published_timestamp` back, so that `resume()` shows frames again.
* Pipeline: the copy of a config drops the disabled streams (`config.h:36`), so a
  reconnection streams what was disabled. `pipeline.cpp:241` and 302 say that the "hub
  returns true even if device already reconnected"; it asks the device object, which a
  removal has made invalid for good, so that a wait reconnects. And a file that ends as
  `start()` returns may have its restart run between lines 122 and 123, where
  `_prev_conf` is null (`RestartCrashes`).

## 4. Proofs

`tlapm` checks eight modules to the last leaf. Each theorem holds for every value of
the constants that satisfies the named assumption of the component's module.

**`ConditionVariableProofs`**, about the two components that sleep on a condition variable
of their own.

The queue (`QueueAssumption`: a positive capacity, finitely many threads, distinct names):
* `TypeCorrect`. `TypeInv` adds to `TypeOK` that a writer inside the wait of
  `blocking_enqueue` still holds an item (`HoldsItem`), without which its push is not
  known to push an item.
* `Refinement`: the queue implements `BoundedFifo`. The mapping is the identity on the
  container and `accepting`; pushing is `Put`, taking is `Take`, everything about
  condition variables is a stutter.
* `NoSleepInVain`, from `StopIsQuiet` and `NoLostWakeup`. The two wake-up invariants are not
  inductive by themselves: a woken writer that is *rejected* uses up its wake-up without
  filling a place, so `WakeInv` joins them with `StoppedIsQuiet` (only a stopped queue
  rejects, and nobody sleeps there). The rest is counting: free places against woken
  writers, queued items against pending notifications and woken readers.

The options watcher (`WatcherAssumption`: finitely many options and callers):
* `ThreadDiesFirst`: while the destructor runs nobody else is inside a call
  (`DestructorInv`), and a running thread is joinable (`HeldInv`), hence joined.
* `NoUpdateIsDropped`: between the query and the report, what is known and untold is
  among the updates (`InformedInv`, option by option `Due`); an update found stopped after
  that ends the thread, and a report that finds nobody puts it among the `missed`.

**`DispatcherProofs`** (`DispatcherAssumption`: a positive capacity, the three kinds of
calls disjoint).
* `DispatcherTypeCorrect`.
* `QueueFollows`, from `StopAssertionHolds` and `QueuedAreReachable`. `invoke()` reads `_was_stopped` and
  queues later, so neither follows from the flag. `StartInv` ties the flag, the queue's
  own `accepting` and the progress of `start()` and `stop()` together: a closed queue is
  empty; `start()` clears the flag before it opens the queue, `stop()` closes the queue
  before it sets the flag; the one time the queue is open and the flag set is before the
  first `start()`, and then no call is on its way to the queue; and a worker found
  asleep although the flag is clear has start()'s notification coming.
* `FlushWaitsForAll`. `FlushWaits` compares what is pending now with what was pending
  when the flush queued its action. `FlushInv` makes that inductive: an action, pending
  or waited for, comes from a call that cannot queue it again; nothing is pending twice;
  what a flush waits for is ahead of its own action in the queue, so it is gone when that
  action is taken off, also when a full queue pushed some of it out or `stop()` emptied it.

**`FrameArchiveProofs`** (`ArchiveAssumption`: slots and extra objects disjoint, all
finite).
* `CountCorrect`, `FramesHaveOneStage`, `ArchiveTypeCorrect`. The invariant is
  `Shape /\ LifeCycle /\ CountIsExact`: the count is inductive only with the life cycle
  of a frame, which says that `keep()` and `unpublish_frame()` find a frame in no other
  stage; and that the unsigned counter stays at or above zero (its type) follows from
  the count, not the other way round.
* `NothingLeftInFreelist`: with the invariant that recycling is off from the third step
  of `flush()` on.
* `FlushWaitsForSeenCallback`, for any number of producers: `CallbackInv` says that the
  one place of `callbacks_heap` is taken exactly while one producer holds it, and that
  nobody takes it once `flush()` has closed the heap; so what may run on after `flush()`
  is a callback that found the place taken.
* `FlushThorough`: with one producer (`OneProducer`) that never happens. The code has
  one: an archive belongs to one stream (`archive_id`, `source.h:20`), whose frames come
  from one capture thread. With two it is false, which is among the observations above.

**`SyncProofs`**, about the syncer (`SyncerAssumption`: positive bounds) and the two
matchers of `sync.cpp` that run under it: by frame number (`FrameNumberAssumption`:
positive gaps, window and capacity; any streams) and by timestamp (`TimestampAssumption`:
finitely many streams, for the map has an order; positive gaps and bounds, a jitter less
than each gap).
* `MatchesComeInOrder`. What is delivered must be compared with what is still queued:
  `Newest` says that the queue holds the last matches made, without a gap, whatever a
  full queue has dropped at its front; `HandInv` that the match in a thread's hand is
  older than all of them and newer than the last one delivered. Both need that only the
  owner of `_callback_mutex` has a match in hand (`LockInv`). One match more keeps
  `Newest`, whether it found room or displaced the oldest (`PushedIsNewest`).
* `SyncerTypeCorrect` includes that each mutex has one owner at most.
* `NoQueueOverflows`. Between two frames everything queued waits for one active stream,
  whose next expected number none of the queued frames precedes (`AwaitedInv`); the last
  numbers of two active streams are at most `InactiveGap` apart, because
  `clean_inactive_streams()` runs before each frame is queued (`GapInv`); a queue ascends
  to the last frame of its stream (`QueueInv`). So it has room for `InactiveGap` numbers
  and the frame just added, below the code's capacity of 10 with its gap of 5. The
  bound does not depend on the number of streams. A stream at frame number 0 escapes
  `GapInv`, as it does in the code: what waits for it starts no later than `WaitWindow`
  frames after the one expected of it (`StuckAtZero`), with no bound but the capacity.
* `MatchesAreWhole`: as queues ascend, a frame with the number that leaves is a head, and
  all heads of that number are in the same match.
* `TimestampTypeCorrect`, for any frame rates. With `PaceInv`: what is queued of a stream
  goes up by a gap less the jitter at least (`Step`), and the time the stream is expected is
  a gap after its last frame. `StopInv` says that after `stop()` a frame on its way finds
  empty queues.
* `FramesetsAreInStep` and `NobodyIsLeftBehind`, for any rates, phases and jitter. `Found`
  says what the loop over the heads has found after each place of the map, whatever its
  order: everything synced is near the head it compares with, and, at one rate, every
  other head is later than that one. It goes by the least place of the map at which that
  would fail (`SortFinds`); that `sorted` has a value at each place is a lemma too
  (`LoopTurns`). Nothing more holds of what stays behind, since nearness is not
  transitive. When all that leaves is near what is expected of a missing stream, so is
  the head that `skip_missing_stream()` happens to look at.
* `ThereIsAlwaysRoom`, for one rate (`OneRate`) and a queue that is long enough
  (`Enough`): for some lead, which covers the lateness of frames, the jitter and the half
  gap of nearness (`Leads`), the frames of one gap more than the cutout and the lead fit
  in one place less than it has (`EnoughFor`). The code's cutout of 7 and queue of 10 do,
  for any number of streams, with frames up to a gap late and no jitter, or half a gap
  late with a jitter of an eighteenth. A stream with nothing queued is expected soon after
  any frame that waits (`ExpectedInv`): either nothing was waiting, and no stream is further
  ahead than frames are late (`LateInv`), or its last frame left with others and near to
  them (`LeftSoonAfter`). So what waits for it within the cutout spans no more time than
  that (`SpanInv`), and by `PaceInv` holds that many frames. The bound cannot be lowered
  in general: four streams with a cutout of 4, no jitter and frames two gaps late overflow
  a queue of 7, and `Enough` asks for 8.

**`V4lCaptureProofs`** (`CaptureAssumption`: finitely many buffers).
* `BuffersAlwaysGoRound`, from `BufferHasOneOwner` and `DriverIsFed`. `Owned` says that
  the driver's queue, its filled buffers, the syncer's queues, the attached buffers and
  the one in the guard's hand are disjoint and without repetition; attached is a place
  of its own, which a buffer enters from the syncer and leaves for the driver. What
  `poll()` holds outside its own steps (`LocalsInv`), and that the syncer is empty while
  it is not ready (`SyncerInv`), make it inductive. `DriverIsFed` counts: the syncer
  keeps two, so if fewer than all but two are lost one is with the driver.
* `EveryLossIsExplained`, an action property: each step keeps what was not lost, or is
  one of the three. `VideoInv` adds that no guard has a buffer when the video node is
  dequeued.
* `PairsComeInOrder`. The video frames on their way are in line: what was shown, what the
  syncer keeps, what the driver has filled, what is still to come (`LineInv`). A pair has
  equal numbers when it is shown, so the order of the video node is that of the pairs.

**`UvcSensorProofs`** (`SensorAssumption`: finitely many pins and helpers).
* `PowerIsOfUsers`, `CaptureThreadsAreBacked`, `OpenIsTrue`. The invariant goes along
  the phases of a call (`PhaseInv`), with the power count over helpers and the open
  sensor. `BackingInv`: committed pins are powered, capturing ones committed, a thread
  that runs captures or is being joined. `KeptInv` follows what is committed through the
  loops (what is done, what is to do, what a failed call has left) and `CompleteInv` what
  each loop has achieved. That a rollback that breaks off adds all it has yet to do to
  `leftover` shows only with three pins; two would satisfy a simpler, wrong account.

**`PlaybackDeviceProofs`** (`PlaybackAssumption`: a finite set of sensors, any file).
* `PlayingDeviceReadsOn`: the read loop queues itself unless the device stops or pauses,
  and whoever starts or resumes it queues it anew. It needs that actions that concern a
  sensor name one (`Actions`).
* `PausedDeviceIsQuiet`. That a sensor stopped is quiet is inductive with the types.
  That a paused device is quiet depends on the order of the queue: `pause()` waits for
  callbacks only if the device is started and was not paused, and a device paused while
  stopped may be started by an action that is already queued. `Ordered` (no activation
  behind a pause, nothing of the application behind its flush), with `AddInv` (a started
  sensor is active or about to be) and `ShownInv` (who shows in a paused device is
  active), rules that out. A frame is a sensor's own or a late one (`OwnInv`); only its own
  are waited for by a flush.
* `FramesAreShownOneByOne`. At most one frame is on its way to a callback, and it is the
  one `handle_frame()` waits for (`FlightInv`). Of a playing device, all that was read of
  a sensor but that frame is shown; of a paused one, all that will not be read again,
  for `resume()` goes back to the last frame published (`FramesInv`, `ToldInv`). A frame in
  hand when its sensor was stopped is late until it is gone (`LateInv`), and the accounts
  hold until such a frame is the last one published.

**`PipelineProofs`** (`PipelineAssumption`: finitely many sensors, numbered, as the keys of
`multistream`'s map are; the synced ones are among them). For any sensors, and any number
of calls, frames, devices and faults.
* `PipelineTypeCorrect`. `CallInv` says which profiles a call works with at each stage: a
  starting one has its own and no active one, the others the active one, also the one that
  has yet to copy its config. `CountInv` (every
  frame set was asked for), `PendingInv` (every restart comes from an end of the file) and
  `RestartInv` (a restart goes on with the active profile, and none is under way or can
  begin when `unsafe_stop()` drops it) are what the bounds and the profile need. That the
  sensor whose turn it is exists needs the lowest of a set of indices (`FirstOf`, by
  well-foundedness).
* `ProfileIsTrue`. `CleanInv` follows what a sensor may be open for through the loops of
  `multistream` (`Rightly`): the profile that starts, as far as it has come, the active one
  until it is closed, or a restart that overtakes the close. `StreamInv` says the same of
  streaming, `InsideInv` that a thread in a callback keeps its sensor open.
* `NothingOldIsGiven`. Whatever waits (in the aggregator, in the syncer, in a callback) is
  newer than the frames counted when the aggregator was made (`FreshInv`). It rests on
  `CleanInv`: no sensor is open when `start()` makes a new one, so nobody brings it an older
  frame.
* `FramesetsGoOn`. A frame is in one place and those ahead are older: the application's
  last set, the aggregator's, what the syncer holds, what a callback brings (`NumberInv`,
  `HeldInv`, `QueueInv`). It holds also when a call failed half way and a thread still
  brings frames to an aggregator that was replaced, because whatever is open belongs to
  a profile in use (`OwnerInv`).

Only model-checked: everything that "eventually" happens (liveness under fairness is
outside the prover), and `AlwaysRoom` for the run's queue of 5: for its cutout, jitter and
lateness and any number of streams the theorem asks for 6.

## 5. Not modelled, and the plan

What would be worth adding, in this order:

1. `FrameSource`: several archives under one recursive mutex, which flush holds while it
   waits for callbacks that a processing block may need it in.
2. Seeking and recording, next to `PlaybackDevice`.
3. `FwUpdate`: the DFU download with its retries and 16-bit block numbers, a sequential
   machine driven by the device's answers.
4. `Watchdog` and `ActiveObject` over `Dispatcher` (the loop that queues itself is in
   `PlaybackDevice`), and the device hub with the polling watcher.
5. HID and software sensors, which follow the protocol of `UvcSensor` without its
   failure paths; the DDS device proxies, whose protocol is in a library of its own.

Theorems worth proving next: how late frames may be for a given number of streams
(`AlwaysRoom`), and how long the timestamp matcher's queues get at several rates; an abstract
specification of the frame archive (a pool of counted places) and of the pipeline (a
sequence of frame sets), with proofs that the detailed modules implement them.

Not planned: image processing blocks and calibration (pixel arithmetic with no
protocol), device-specific option and XU code, the rsusb and Windows backends (the same
protocol over another operating system interface), the DDS protocol stack, the unit
tests, the viewer, tools, examples and wrappers. They are most of the repository's
lines, which is why the models cover a small part of them: the part that has threads.
