------------------------------- MODULE Pipeline --------------------------------
(***************************************************************************)
(* pipeline (pipeline/pipeline.cpp) with its config, its aggregator and    *)
(* the multistream of its profile.  The application's calls hold _mtx;     *)
(* the sensors' threads come in through the frame callback; for a file the *)
(* read thread of the playback device reports the end of the file and the  *)
(* pipeline's dispatcher starts the sensors again.                         *)
(*                                                                         *)
(* A sensor has one stream.  The syncer, the dispatcher and the sensors    *)
(* themselves are in modules Syncer, Dispatcher, UvcSensor and             *)
(* PlaybackDevice; here a synced frame either waits in the syncer or comes *)
(* out with others that waited.                                            *)
(***************************************************************************)
EXTENDS Naturals, Sequences, FiniteSets

CONSTANTS
  Sensors,    \* the indices of the sensors, the keys of multistream's _results
  Synced,     \* those whose stream is one of _synced_streams
  MaxFrames,  \* bound: frames of each sensor
  MaxMade,    \* bound: device objects created
  MaxCalls,   \* bound: calls of the application
  MaxFaults   \* bound: unplugs, replugs and failures

ASSUME PipelineAssumption ==
  /\ Sensors \subseteq Nat /\ IsFiniteSet(Sensors) /\ Synced \subseteq Sensors
  /\ MaxFrames \in Nat /\ MaxMade \in Nat /\ MaxCalls \in Nat /\ MaxFaults \in Nat

VARIABLES
  file,     \* [play, repeat]: the device is a file, to be repeated
  plugged,  \* the device is connected
  valid,    \* device objects whose device has not been removed (is_valid())
  made,     \* device objects created
  sens,     \* of each object and sensor: "closed", "open" or "streaming"
  conf,     \* the application's config: [off, cached] (_streams_to_disable, _resolved_profile)
  active,   \* _active_profile
  prevOff,  \* _streams_to_disable of _prev_conf
  pc,       \* the call under way: [op, todo, again]; again: a reconnect follows
  cur,      \* the profile it starts
  agg,      \* the aggregator: [id, on, accepting, lastSet, queue]
  held,     \* frames waiting in the syncer
  cb,       \* the callback each sensor's thread is in: [frame, dev, id], or frame 0
  n,        \* frames each sensor has produced
  token,    \* the pipeline is subscribed to the playback status
  raising,  \* the read thread is about to call it
  pending,  \* restarts queued in _dispatcher
  rs,       \* the restart under way: [op, todo]
  dispOn,   \* _dispatcher is running
  calls, faults,
  got,      \* history: frame sets returned to the application, and the last one
  base,     \* history: n when the aggregator was made
  left,     \* history: a start() or a stop() threw half way, or a restart overtook a stop()
  early     \* history: the file ended before start() had set _active_profile

devs  == <<file, plugged, valid, made>>
flow  == <<held, cb, n>>
disp  == <<token, raising, pending, rs, dispOn>>
hist  == <<got, base, left, early>>
bounds == <<calls, faults>>
vars  == <<devs, sens, conf, active, prevOff, pc, cur, agg, flow, disp, hist, bounds>>

NoProfile == [dev |-> 0, on |-> {}]
None(x) == x = NoProfile
Zero == [s \in Sensors |-> 0]
Idle == [op |-> "idle", todo |-> {}, again |-> FALSE]
Live(d) == file.play \/ d \in valid
Out == [frame |-> 0, dev |-> 0, id |-> 0]

Init ==
  /\ file \in {[play |-> FALSE, repeat |-> FALSE]} \cup [play : {TRUE}, repeat : BOOLEAN]
  /\ plugged = TRUE /\ valid = {} /\ made = 0
  /\ sens = [d \in 1..MaxMade |-> [s \in Sensors |-> "closed"]]
  /\ conf = [off |-> {}, cached |-> NoProfile]
  /\ active = NoProfile /\ prevOff = {} /\ pc = Idle /\ cur = NoProfile
  /\ agg = [id |-> 0, on |-> {}, accepting |-> FALSE, lastSet |-> Zero, queue |-> <<>>]
  /\ held = {} /\ cb = [s \in Sensors |-> Out] /\ n = Zero
  /\ token = FALSE /\ raising = FALSE /\ pending = 0 /\ rs = [op |-> "none", todo |-> {}] /\ dispOn = FALSE
  /\ calls = 0 /\ faults = 0
  /\ got = [times |-> 0, set |-> Zero] /\ base = Zero /\ left = FALSE /\ early = FALSE

Call == pc.op = "idle" /\ calls < MaxCalls /\ calls' = calls + 1
Goto(op, todo) == pc' = [pc EXCEPT !.op = op, !.todo = todo]

\* multistream goes over a map, from the lowest index up.
First(todo) == CHOOSE s \in todo : \A t \in todo : s <= t
Turn == First(pc.todo)
Rest == pc.todo \ {Turn}
Fault == faults < MaxFaults /\ faults' = faults + 1

\* A device object nobody refers to closes its sensors and waits for their threads.
Abandoned(d) == d # 0 /\ d # conf.cached.dev
CanRelease(d) == Abandoned(d) => \A s \in Sensors : cb[s].dev # d
Released(d) == IF Abandoned(d) THEN [sens EXCEPT ![d] = [s \in Sensors |-> "closed"]] ELSE sens

-------------------------------------------------------------------------------
(***************************************************************************)
(* config                                                                  *)
(***************************************************************************)

\* enable_stream() and disable_stream(): what was resolved before is dropped.
Configure ==
  /\ Call /\ None(active)
  /\ \E s \in Sensors :
       LET off == IF s \in conf.off THEN conf.off \ {s} ELSE conf.off \cup {s} IN
         /\ off # Sensors
         /\ conf' = [off |-> off, cached |-> NoProfile]
  /\ \A s \in Sensors : cb[s].frame = 0
  /\ sens' = [d \in 1..MaxMade |-> [s \in Sensors |-> "closed"]]
  /\ UNCHANGED <<devs, active, prevOff, pc, cur, agg, flow, disp, hist, faults>>

\* The copy constructor: the disabled streams are not among what is copied.
Copied(off) == {}

\* resolve(): a device object is created and the streams that are not disabled
\* are taken from it.
Profile(off) == [dev |-> made + 1, on |-> Sensors \ off]
CanResolve == (file.play \/ plugged) /\ made < MaxMade
Resolve(off) ==
  /\ CanResolve
  /\ made' = made + 1 /\ valid' = valid \cup {made + 1}
  /\ cur' = Profile(off)
  /\ UNCHANGED <<file, plugged>>

-------------------------------------------------------------------------------
(***************************************************************************)
(* unsafe_start()                                                          *)
(***************************************************************************)

Start ==
  /\ Call /\ None(active)
  /\ pc' = [Idle EXCEPT !.op = "start"]
  /\ IF None(conf.cached)
       THEN Resolve(conf.off) /\ conf' = [conf EXCEPT !.cached = Profile(conf.off)]
       ELSE cur' = conf.cached /\ UNCHANGED <<devs, conf>>
  /\ UNCHANGED <<sens, active, prevOff, agg, flow, disp, got, base, left, early, faults>>

\* The copy of the config that wait_for_frames() starts with has nothing cached.
Reconnect ==
  /\ pc.op = "reconnect"
  /\ Resolve(prevOff)
  /\ Goto("start", {})
  /\ UNCHANGED <<sens, conf, active, prevOff, agg, flow, disp, hist, bounds>>

\* Mutant: it waits for a device without end.
NoDevice_Retries == pc.op = "reconnect" /\ UNCHANGED vars

NoDevice ==
  /\ pc.op = "reconnect"
  /\ pc' = Idle
  /\ UNCHANGED <<devs, sens, conf, active, prevOff, cur, agg, flow, disp, hist, bounds>>

\* on_start() makes a syncer and an aggregator; then the playback status is
\* subscribed to and the dispatcher started.
OnStart ==
  /\ pc.op = "start"
  /\ agg' = [id |-> agg.id + 1, on |-> cur.on, accepting |-> TRUE, lastSet |-> Zero, queue |-> <<>>]
  /\ held' = {} /\ base' = n
  /\ token' = file.play /\ dispOn' = TRUE
  /\ Goto("open", cur.on)
  /\ UNCHANGED <<devs, sens, conf, active, prevOff, cur, cb, n, raising, pending, rs, got, left, early, bounds>>

Set(d, s, x) == sens' = [sens EXCEPT ![d][s] = x]

\* A live sensor is opened once; a sensor of a file may be opened again.
CanOpen(d, s) ==
  /\ Live(d)
  /\ file.play \/ \A e \in 1..MaxMade : sens[e][s] = "closed"

Open ==
  /\ pc.op = "open" /\ pc.todo # {} /\ CanOpen(cur.dev, Turn)
  /\ IF file.play /\ sens[cur.dev][Turn] # "closed" THEN UNCHANGED sens ELSE Set(cur.dev, Turn, "open")
  /\ Goto("open", Rest)
  /\ UNCHANGED <<devs, conf, active, prevOff, cur, agg, flow, disp, hist, bounds>>

Opened ==
  /\ pc.op = "open" /\ pc.todo = {}
  /\ Goto("begin", cur.on)
  /\ UNCHANGED <<devs, sens, conf, active, prevOff, cur, agg, flow, disp, hist, bounds>>

Begin ==
  /\ pc.op = "begin" /\ pc.todo # {} /\ Live(cur.dev)
  /\ Set(cur.dev, Turn, "streaming")
  /\ Goto("begin", Rest)
  /\ UNCHANGED <<devs, conf, active, prevOff, cur, agg, flow, disp, hist, bounds>>

\* A sensor throws on its own account, or because it cannot be opened or started.
Throws ==
  /\ pc.op \in {"open", "begin"} /\ pc.todo # {}
  /\ IF (pc.op = "open" /\ ~CanOpen(cur.dev, Turn)) \/ ~Live(cur.dev)
       THEN UNCHANGED faults
       ELSE ~file.play /\ Fault

\* Mutant: the exception is swallowed.
StartThrows_Swallowed ==
  /\ Throws
  /\ Goto(pc.op, Rest)
  /\ UNCHANGED <<devs, sens, conf, active, prevOff, cur, agg, flow, disp, hist, calls>>

\* The exception ends start(): nothing is undone.
StartThrows ==
  /\ Throws /\ CanRelease(cur.dev)
  /\ sens' = Released(cur.dev)
  /\ pc' = Idle /\ cur' = NoProfile /\ left' = TRUE
  /\ UNCHANGED <<devs, conf, active, prevOff, agg, flow, disp, got, base, early, calls>>

Activate ==
  /\ pc.op = "begin" /\ pc.todo = {}
  /\ active' = cur /\ cur' = NoProfile
  /\ Goto("copy", {})
  /\ UNCHANGED <<devs, sens, conf, prevOff, agg, flow, disp, hist, bounds>>

CopyConfig ==
  /\ pc.op = "copy"
  /\ prevOff' = Copied(IF pc.again THEN prevOff ELSE conf.off)
  /\ pc' = IF pc.again THEN [Idle EXCEPT !.op = "wait again"] ELSE Idle
  /\ UNCHANGED <<devs, sens, conf, active, cur, agg, flow, disp, hist, bounds>>

-------------------------------------------------------------------------------
(***************************************************************************)
(* unsafe_stop()                                                           *)
(***************************************************************************)

\* The syncer and the aggregator stop, the subscription is cancelled.
StopFlow(again) ==
  /\ agg' = [agg EXCEPT !.accepting = FALSE, !.queue = <<>>]
  /\ token' = FALSE
  /\ pc' = [op |-> "stop", todo |-> active.on, again |-> again]
  /\ UNCHANGED <<devs, sens, conf, active, prevOff, cur, flow, raising, pending, rs, dispOn, hist, faults>>

Stop == Call /\ ~None(active) /\ StopFlow(FALSE)

\* The sensor calls no more, but may be inside a call.
StopSensor ==
  /\ pc.op = "stop" /\ pc.todo # {}
  /\ file.play \/ sens[active.dev][Turn] = "streaming"
  /\ IF sens[active.dev][Turn] = "streaming" THEN Set(active.dev, Turn, "open") ELSE UNCHANGED sens
  /\ Goto("stop", Rest)
  /\ UNCHANGED <<devs, conf, active, prevOff, cur, agg, flow, disp, hist, bounds>>

SensorsStopped ==
  /\ pc.op = "stop" /\ pc.todo = {}
  /\ Goto("close", active.on)
  /\ UNCHANGED <<devs, sens, conf, active, prevOff, cur, agg, flow, disp, hist, bounds>>

CloseSensor ==
  /\ pc.op = "close" /\ pc.todo # {} /\ cb[Turn].frame = 0
  /\ Set(active.dev, Turn, "closed")
  /\ Goto("close", Rest)
  /\ UNCHANGED <<devs, conf, active, prevOff, cur, agg, flow, disp, hist, bounds>>

\* A sensor of a device that is gone throws: the rest of stop() is skipped.
StopThrows ==
  /\ pc.op \in {"stop", "close"} /\ pc.todo # {} /\ ~Live(active.dev)
  /\ Goto("reset", {})
  /\ left' = (left \/ ~Abandoned(active.dev))
  /\ UNCHANGED <<devs, sens, conf, active, prevOff, cur, agg, flow, disp, got, base, early, bounds>>

\* The dispatcher drops what is queued and waits for what is running.
StopDispatcher ==
  /\ pc.op = "close" /\ pc.todo = {} /\ rs.op = "none"
  /\ dispOn' = FALSE /\ pending' = 0
  /\ Goto("reset", {})
  /\ UNCHANGED <<devs, sens, conf, active, prevOff, cur, agg, flow, token, raising, rs, hist, bounds>>

\* _active_profile.reset(): wait_for_frames() has kept the config it started with.
Reset ==
  /\ pc.op = "reset" /\ CanRelease(active.dev)
  /\ sens' = Released(active.dev)
  /\ active' = NoProfile
  /\ prevOff' = IF pc.again THEN prevOff ELSE {}
  /\ pc' = IF pc.again THEN [pc EXCEPT !.op = "reconnect"] ELSE Idle
  /\ UNCHANGED <<devs, conf, cur, agg, flow, disp, hist, bounds>>

-------------------------------------------------------------------------------
(***************************************************************************)
(* wait_for_frames(), try_wait_for_frames() and poll_for_frames()          *)
(***************************************************************************)

WaitCall ==
  /\ Call /\ ~None(active)
  /\ Goto("wait", {})
  /\ UNCHANGED <<devs, sens, conf, active, prevOff, cur, agg, flow, disp, hist, faults>>

\* Mutant: the frame set stays in the queue.
Take_Keeps ==
  /\ got' = [times |-> got.times + 1,
             set |-> [s \in Sensors |-> IF s \in agg.on THEN Head(agg.queue)[s] ELSE got.set[s]]]
  /\ UNCHANGED agg
  /\ pc' = Idle
  /\ UNCHANGED <<devs, sens, conf, active, prevOff, cur, flow, disp, base, left, early, faults>>

Take ==
  /\ got' = [times |-> got.times + 1,
             set |-> [s \in Sensors |-> IF s \in agg.on THEN Head(agg.queue)[s] ELSE got.set[s]]]
  /\ agg' = [agg EXCEPT !.queue = <<>>]
  /\ pc' = Idle
  /\ UNCHANGED <<devs, sens, conf, active, prevOff, cur, flow, disp, base, left, early, faults>>

Frames == pc.op \in {"wait", "wait again"} /\ agg.queue # <<>> /\ Take /\ UNCHANGED calls
Poll == Call /\ ~None(active) /\ agg.queue # <<>> /\ Take

\* No frames in time.  is_connected() asks the device object, which is lost with
\* the first removal: that the device is back does not matter.
Timeout ==
  /\ pc.op \in {"wait", "wait again"} /\ agg.queue = <<>>
  /\ Live(active.dev) \/ pc.op = "wait again"
  /\ pc' = Idle
  /\ UNCHANGED <<devs, sens, conf, active, prevOff, cur, agg, flow, disp, hist, bounds>>

Disconnected ==
  /\ pc.op = "wait" /\ agg.queue = <<>> /\ ~Live(active.dev)
  /\ StopFlow(TRUE) /\ UNCHANGED calls

CallSteps ==
  \/ Reconnect \/ NoDevice \/ OnStart \/ Open \/ Opened \/ Begin \/ StartThrows \/ Activate \/ CopyConfig
  \/ StopSensor \/ SensorsStopped \/ CloseSensor \/ StopThrows \/ StopDispatcher \/ Reset
  \/ Frames \/ Timeout \/ Disconnected

Application == Configure \/ Start \/ Stop \/ WaitCall \/ Poll

-------------------------------------------------------------------------------
(***************************************************************************)
(* The sensors' threads                                                    *)
(***************************************************************************)

\* A frame is handed to the callback the sensor was started with.
Arrive(s) ==
  /\ cb[s].frame = 0 /\ n[s] < MaxFrames
  /\ \E d \in 1..MaxMade :
       /\ Live(d) /\ sens[d][s] = "streaming"
       /\ cb' = [cb EXCEPT ![s] = [frame |-> n[s] + 1, dev |-> d, id |-> agg.id]]
  /\ n' = [n EXCEPT ![s] = @ + 1]
  /\ UNCHANGED <<devs, sens, conf, active, prevOff, pc, cur, agg, held, disp, hist, bounds>>

Complete(set) == \A s \in agg.on : set[s] # 0

\* Mutant: what there is of the frame set is published.
Aggregated_Partial(set, publish) ==
  [agg EXCEPT !.lastSet = set, !.queue = IF publish THEN <<set>> ELSE @]

\* Mutant: the queue does not drop.
Aggregated_Keeps(set, publish) ==
  [agg EXCEPT !.lastSet = set, !.queue = IF publish /\ Complete(set) THEN Append(@, set) ELSE @]

\* The queue holds one frame set, the last.
Aggregated(set, publish) ==
  [agg EXCEPT !.lastSet = set, !.queue = IF publish /\ Complete(set) THEN <<set>> ELSE @]

\* aggregator::handle_frame() of a composite frame, and of a frame that is not
\* synced: such a frame makes a frame set only when no stream is synced.
Composite(frames) ==
  Aggregated([s \in Sensors |-> IF \E f \in frames : f[1] = s THEN (CHOOSE f \in frames : f[1] = s)[2]
                                ELSE agg.lastSet[s]], TRUE)
Single(s, f) == Aggregated([agg.lastSet EXCEPT ![s] = f], agg.on \cap Synced = {})

Handle(s) ==
  /\ cb[s].frame # 0
  /\ cb' = [cb EXCEPT ![s] = Out]
  /\ IF ~agg.accepting
       THEN UNCHANGED <<agg, held>>
       ELSE IF s \in Synced
         THEN LET all == {f \in held : f[1] # s} \cup {<<s, cb[s].frame>>} IN
                \/ agg' = Composite(all) /\ held' = {}
                \/ (agg.on \cap Synced) # {s} /\ held' = all /\ UNCHANGED agg
         ELSE agg' = Single(s, cb[s].frame) /\ UNCHANGED held
  /\ UNCHANGED <<devs, sens, conf, active, prevOff, pc, cur, n, disp, hist, bounds>>

-------------------------------------------------------------------------------
(***************************************************************************)
(* The file and the restart; the device                                    *)
(***************************************************************************)

\* The playback device stops the sensors that play and reports it: the list of
\* subscribers is copied first.
EndOfFile ==
  /\ file.play /\ ~raising /\ Fault
  /\ \E d \in 1..MaxMade :
       /\ \E s \in Sensors : sens[d][s] = "streaming"
       /\ \A s \in Sensors : cb[s].dev # d
       /\ sens' = [sens EXCEPT ![d] = [s \in Sensors |-> IF @[s] = "streaming" THEN "open" ELSE @[s]]]
  /\ raising' = token
  /\ UNCHANGED <<devs, conf, active, prevOff, pc, cur, agg, flow, token, pending, rs, dispOn, hist, calls>>

Raise ==
  /\ raising /\ raising' = FALSE
  /\ pending' = IF dispOn THEN pending + 1 ELSE pending
  /\ UNCHANGED <<devs, sens, conf, active, prevOff, pc, cur, agg, flow, token, rs, dispOn, hist, bounds>>

\* Mutant: the action gives up while a call is under way.
Restart_Last ==
  /\ dispOn /\ pending > 0 /\ rs.op = "none" /\ pc.op # "copy" /\ pending' = pending - 1
  /\ rs' = IF ~None(active) /\ file.repeat /\ pc.op = "idle" THEN [op |-> "open", todo |-> active.on] ELSE rs
  /\ early' = (early \/ None(active))
  /\ UNCHANGED <<devs, sens, conf, active, prevOff, pc, cur, agg, flow, token, raising, dispOn, got, base, left, bounds>>

\* The action takes no lock: _active_profile is what the calls have made of it so far.
Restart ==
  /\ dispOn /\ pending > 0 /\ rs.op = "none" /\ pc.op # "copy" /\ pending' = pending - 1
  /\ rs' = IF ~None(active) /\ file.repeat THEN [op |-> "open", todo |-> active.on] ELSE rs
  /\ early' = (early \/ None(active))
  /\ UNCHANGED <<devs, sens, conf, active, prevOff, pc, cur, agg, flow, token, raising, dispOn, got, base, left, bounds>>

\* When start() has set _active_profile and has yet to set _prev_conf, the action
\* asks a config that is not there: the program ends.
RestartCrashes ==
  /\ dispOn /\ pending > 0 /\ rs.op = "none" /\ pc.op = "copy"
  /\ pc' = [Idle EXCEPT !.op = "crashed"]
  /\ UNCHANGED <<devs, sens, conf, active, prevOff, cur, agg, flow, disp, hist, bounds>>

Reopen ==
  /\ rs.op = "open"
  /\ IF rs.todo = {}
       THEN rs' = [op |-> "begin", todo |-> active.on] /\ UNCHANGED sens
       ELSE LET s == First(rs.todo) IN
              /\ rs' = [rs EXCEPT !.todo = @ \ {s}]
              /\ IF sens[active.dev][s] = "closed" THEN Set(active.dev, s, "open") ELSE UNCHANGED sens
  /\ UNCHANGED <<devs, conf, active, prevOff, pc, cur, agg, flow, token, raising, pending, dispOn, hist, bounds>>

\* A sensor started behind close() fails on its first frame.
Rebegin ==
  /\ rs.op = "begin"
  /\ IF rs.todo = {}
       THEN rs' = [op |-> "none", todo |-> {}] /\ UNCHANGED <<sens, left>>
       ELSE /\ LET s == First(rs.todo) IN
                 /\ rs' = [rs EXCEPT !.todo = @ \ {s}]
                 /\ IF sens[active.dev][s] = "closed" THEN UNCHANGED sens ELSE Set(active.dev, s, "streaming")
            /\ left' = (left \/ pc.op \in {"stop", "close"})
  /\ UNCHANGED <<devs, conf, active, prevOff, pc, cur, agg, flow, token, raising, pending, dispOn, got, base, early, bounds>>

Unplug ==
  /\ ~file.play /\ Fault
  /\ plugged' = ~plugged /\ valid' = {}
  /\ UNCHANGED <<file, made, sens, conf, active, prevOff, pc, cur, agg, flow, disp, hist, calls>>

Dispatcher == Restart \/ RestartCrashes \/ Reopen \/ Rebegin
Threads == \E s \in Sensors : Arrive(s) \/ Handle(s)

Crashed == pc.op = "crashed"

Done ==
  /\ \/ Crashed
     \/ pc.op = "idle" /\ calls = MaxCalls /\ ~raising /\ pending = 0 /\ rs.op = "none"
  /\ UNCHANGED vars

Next ==
  \/ /\ ~Crashed
     /\ Application \/ CallSteps \/ Threads \/ EndOfFile \/ Raise \/ Dispatcher \/ Unplug
  \/ Done
Spec == Init /\ [][Next]_vars
FairSpec ==
  /\ Spec /\ WF_vars(CallSteps) /\ WF_vars(~Crashed /\ Raise) /\ WF_vars(~Crashed /\ Dispatcher)
  /\ \A s \in Sensors : WF_vars(~Crashed /\ Handle(s))

-------------------------------------------------------------------------------
(***************************************************************************)
(* Properties                                                              *)
(***************************************************************************)

States == {"closed", "open", "streaming"}
Profiles == [dev : 0..MaxMade, on : SUBSET Sensors]
FrameSets == [Sensors -> 0..MaxFrames]

Calls == {"idle", "start", "open", "begin", "stop", "close", "reset", "reconnect", "wait", "wait again",
          "copy", "crashed"}

TypeOK ==
  /\ file \in [play : BOOLEAN, repeat : BOOLEAN] /\ plugged \in BOOLEAN
  /\ made \in 0..MaxMade /\ valid \subseteq 1..made
  /\ sens \in [1..MaxMade -> [Sensors -> States]]
  /\ conf \in [off : SUBSET Sensors, cached : Profiles]
  /\ active \in Profiles /\ cur \in Profiles /\ prevOff \subseteq Sensors
  /\ pc \in [op : Calls, todo : SUBSET Sensors, again : BOOLEAN]
  /\ agg \in [id : Nat, on : SUBSET Sensors, accepting : BOOLEAN, lastSet : FrameSets, queue : Seq(FrameSets)]
  /\ Len(agg.queue) <= 1
  /\ held \subseteq Sensors \X (1..MaxFrames)
  /\ cb \in [Sensors -> [frame : 0..MaxFrames, dev : 0..MaxMade, id : 0..agg.id]]
  /\ n \in FrameSets /\ base \in FrameSets /\ got \in [times : 0..MaxCalls, set : FrameSets]
  /\ token \in BOOLEAN /\ raising \in BOOLEAN /\ dispOn \in BOOLEAN /\ pending \in 0..MaxFaults
  /\ rs \in [op : {"none", "open", "begin"}, todo : SUBSET Sensors]
  /\ left \in BOOLEAN /\ early \in BOOLEAN /\ calls \in 0..MaxCalls /\ faults \in 0..MaxFaults

\* What waits for the application is whole, one frame of every stream of the
\* profile, and all of it was produced since the pipeline was last started.
FramesetsWhole ==
  left \/ \A i \in DOMAIN agg.queue : \A s \in agg.on : agg.queue[i][s] > base[s]

\* A thread that is in the callback finds there the syncer and the aggregator
\* it entered with: start() replaces them, so the threads of the last start()
\* must be gone by then, the device's reconnection included.
NobodyLeftInside == left \/ \A s \in Sensors : cb[s].frame # 0 => cb[s].id = agg.id

\* What waits in the aggregator, and who is on the way to it, belong to the last
\* start.
AggregatorIsFresh == FramesetsWhole /\ NobodyLeftInside

\* When the calls have returned, an active profile of a device that is there
\* has all of its sensors streaming, after a reconnection too.
ActiveMeansStreaming ==
  ~file.play /\ pc.op = "idle" /\ active.dev \in valid =>
    \A s \in active.on : sens[active.dev][s] = "streaming"

\* A live device has no open sensor once stop() has returned.
StopCloses ==
  ~file.play /\ ~left /\ pc.op = "idle" /\ None(active) =>
    \A d \in 1..MaxMade, s \in Sensors : sens[d][s] = "closed"

\* The restart goes on with the profile it began with.
RestartHasProfile == rs.op # "none" => ~None(active)

\* The active profile tells what the sensors do: they stream while there is one,
\* are closed when there is none, and it stays while a restart goes on.
ProfileTellsTheTruth == ActiveMeansStreaming /\ StopCloses /\ RestartHasProfile

\* The application never gets the same frame set twice, nor a stream that goes
\* back, whatever was stopped, lost and started in between.
FramesetsAdvance ==
  [][got'.times # got.times =>
       got'.set # got.set /\ \A s \in Sensors : got'.set[s] >= got.set[s]]_vars

\* Every call returns, unless the restart ends the program: stop() waits for
\* callbacks and for the restart.
CallsReturn == pc.op # "idle" ~> pc.op = "idle" \/ Crashed

\* A file that is to be repeated plays again after its end, until the
\* application stops it.
PlaysAgain ==
  (file.repeat /\ ~None(active) /\ \A s \in Sensors : sens[active.dev][s] # "streaming")
    ~> (None(active) \/ early \/ Crashed \/ \E s \in Sensors : sens[active.dev][s] = "streaming")

\* "stops the device streaming and releases the device resources" (rs_pipeline.h).
StopStops ==
  file.play /\ pc.op = "idle" /\ None(active) /\ rs.op = "none" =>
    \A d \in 1..MaxMade, s \in Sensors : sens[d][s] # "streaming"

===============================================================================
