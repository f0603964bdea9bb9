---------------------------- MODULE PipelineProofs ----------------------------
(***************************************************************************)
(* Proofs about pipeline, for any sensors and streams and any number of    *)
(* frames, devices, calls and faults.                                      *)
(***************************************************************************)
EXTENDS Pipeline, WellFoundedInduction, TLAPS

Starting == pc.op \in {"start", "open", "begin"}
Ending == pc.op \in {"stop", "close", "reset"}
Waiting == pc.op \in {"wait", "wait again"}
Made(p) == None(p) \/ p.dev \in 1..made

\* What a call works with: start() with a profile of its own and no active one,
\* the others with the active profile.
CallInv ==
  /\ Starting <=> ~None(cur)
  /\ Ending \/ Waiting \/ pc.op = "copy" => ~None(active)
  /\ Starting \/ pc.op = "reconnect" => None(active)
  /\ Made(cur) /\ Made(active) /\ Made(conf.cached)
  /\ prevOff = {}
  /\ pc.op \in {"open", "begin"} => pc.todo \subseteq cur.on
  /\ pc.op \in {"stop", "close"} => pc.todo \subseteq active.on
  /\ pc.again => Starting \/ Ending \/ pc.op \in {"reconnect", "copy"}

\* Every frame set was asked for, and a call that still may return one too.
CountInv == got.times <= calls /\ (pc.again \/ Waiting => got.times < calls)

\* Every restart comes from an end of the file.
PendingInv == pending <= faults /\ (raising => pending < faults)

\* A restart goes on with the active profile; none is under way, nor can begin,
\* when stop() drops that.
RestartInv ==
  /\ ~file.play => ~token /\ ~raising /\ pending = 0 /\ rs.op = "none"
  /\ rs.op # "none" => ~None(active) /\ rs.todo \subseteq active.on
  /\ pc.op = "reset" => rs.op = "none" /\ (file.play => ~dispOn)

IInv == TypeOK /\ CallInv /\ CountInv /\ PendingInv /\ RestartInv

CallType == [op : Calls, todo : SUBSET Sensors, again : BOOLEAN]
AggType == [id : Nat, on : SUBSET Sensors, accepting : BOOLEAN, lastSet : FrameSets, queue : Seq(FrameSets)]
ConfType == [off : SUBSET Sensors, cached : Profiles]
SensType == [1..MaxMade -> [Sensors -> States]]

-------------------------------------------------------------------------------
(***************************************************************************)
(* The sensors one after another                                           *)
(***************************************************************************)

\* A set of indices has a lowest one.
LEMMA FirstOf ==
  ASSUME NEW todo \in SUBSET Sensors, todo # {}
  PROVE  First(todo) \in todo
<1> DEFINE Less == {p \in Nat \X Nat : p[1] < p[2]}
<1>0. todo \subseteq Nat
  BY PipelineAssumption
<1>1. IsWellFoundedOn(Less, Nat)
  BY NatLessThanWellFounded DEF OpToRel
<1>2. ASSUME NEW x \in todo, NEW y \in todo, <<y, x>> \notin Less PROVE x <= y
  <2>1. <<y, x>> \in Nat \X Nat /\ ~(y < x) /\ x \in Nat /\ y \in Nat
    BY <1>0, <1>2
  <2> QED BY <2>1
<1>3. \E x \in todo : \A y \in todo : ~(<<y, x>> \in Less)
  <2> HIDE DEF Less
  <2> QED BY <1>0, <1>1, WFMin
<1> QED BY <1>2, <1>3 DEF First

\* The sensor whose turn it is.
LEMMA TurnIsNext ==
  ASSUME TypeOK, pc.todo # {}
  PROVE  Turn \in pc.todo /\ Turn \in Sensors /\ Rest \subseteq pc.todo /\ Rest \subseteq Sensors
  BY FirstOf DEF Turn, Rest, TypeOK

\* One state of one sensor is set.
LEMMA SetKeepsType ==
  ASSUME TypeOK, NEW d, NEW s, NEW x \in States, Set(d, s, x)
  PROVE  /\ sens' \in [1..MaxMade -> [Sensors -> States]]
         /\ d \in 1..MaxMade /\ s \in Sensors =>
              \A e \in 1..MaxMade, t \in Sensors : sens'[e][t] = IF e = d /\ t = s THEN x ELSE sens[e][t]
  BY DEF Set, TypeOK

\* A device that nobody refers to is closed.
LEMMA ReleasedType ==
  ASSUME TypeOK, NEW d
  PROVE  Released(d) \in SensType
  BY DEF Released, TypeOK, SensType, States

\* The constants.
LEMMA Bounds ==
  /\ MaxFrames \in Nat /\ MaxMade \in Nat /\ MaxCalls \in Nat /\ MaxFaults \in Nat
  /\ Synced \subseteq Sensors /\ Zero \in FrameSets /\ NoProfile \in Profiles
  BY PipelineAssumption DEF Zero, FrameSets, NoProfile, Profiles

-------------------------------------------------------------------------------
(***************************************************************************)
(* Types, calls and restarts                                               *)
(***************************************************************************)

\* A resolved profile is of a new device.
LEMMA ResolveMakes ==
  ASSUME IInv, NEW off \in SUBSET Sensors, Resolve(off)
  PROVE  /\ made' = made + 1 /\ made' \in 0..MaxMade /\ valid' \subseteq 1..made'
         /\ cur' = Profile(off) /\ cur' \in Profiles /\ ~None(cur)' /\ cur'.dev \in 1..made'
         /\ cur'.on = Sensors \ off /\ UNCHANGED <<file, plugged>>
<1>1. made \in 0..MaxMade /\ made < MaxMade /\ valid \subseteq 1..made /\ MaxMade \in Nat
  BY Bounds DEF Resolve, CanResolve, IInv, TypeOK
<1>2. made' = made + 1 /\ valid' = valid \cup {made + 1} /\ cur' = Profile(off)
      /\ UNCHANGED <<file, plugged>>
  BY DEF Resolve
<1>3. made + 1 \in 1..MaxMade /\ Profile(off) = [dev |-> made + 1, on |-> Sensors \ off]
  BY <1>1 DEF Profile
<1> QED BY <1>1, <1>2, <1>3 DEF Profiles, None, NoProfile

\* Where a call goes on.
LEMMA GotoKeepsType ==
  ASSUME TypeOK, NEW op \in Calls, NEW todo \in SUBSET Sensors, Goto(op, todo)
  PROVE  /\ pc' \in CallType
         /\ pc'.op = op /\ pc'.todo = todo /\ pc'.again = pc.again
  BY DEF Goto, TypeOK, CallType

\* A call is over.
LEMMA IdleType ==
  /\ Idle \in CallType
  /\ Idle.op = "idle" /\ Idle.todo = {} /\ Idle.again = FALSE
  BY DEF Idle, Calls, CallType

\* The aggregator is emptied.
LEMMA EmptiedType ==
  ASSUME TypeOK, NEW accepting \in BOOLEAN, agg' = [agg EXCEPT !.accepting = accepting, !.queue = <<>>]
  PROVE  agg' \in AggType /\ Len(agg'.queue) <= 1 /\ agg'.id = agg.id /\ agg'.on = agg.on
         /\ agg'.lastSet = agg.lastSet /\ agg'.queue = <<>>
<1>1. agg \in AggType
  BY DEF TypeOK, AggType
<1>2. agg' = [id |-> agg.id, on |-> agg.on, accepting |-> accepting, lastSet |-> agg.lastSet, queue |-> <<>>]
  BY <1>1 DEF AggType
<1>3. <<>> \in Seq(FrameSets) /\ Len(<<>>) = 0
  OBVIOUS
<1>4. agg'.id = agg.id /\ agg'.on = agg.on /\ agg'.lastSet = agg.lastSet /\ agg'.queue = <<>>
  BY <1>2
<1>5. agg' \in AggType
  BY <1>1, <1>2, <1>3 DEF AggType
<1>6. Len(agg'.queue) <= 1
  BY <1>3, <1>4
<1> QED BY <1>4, <1>5, <1>6

\* stop() begins, on its own or because the device is gone.
LEMMA StopFlowStep ==
  ASSUME IInv, NEW again \in BOOLEAN, StopFlow(again), ~None(active), ~Starting,
         calls' \in 0..MaxCalls, got.times < calls'
  PROVE  IInv'
<1> USE DEF devs, flow, disp, hist, bounds
<1>1. /\ agg' = [agg EXCEPT !.accepting = FALSE, !.queue = <<>>] /\ token' = FALSE
      /\ pc' = [op |-> "stop", todo |-> active.on, again |-> again]
      /\ UNCHANGED <<devs, sens, conf, active, prevOff, cur, flow, raising, pending, rs, dispOn, hist, faults>>
  BY DEF StopFlow
<1>2. pc' \in CallType /\ pc'.op = "stop" /\ pc'.todo = active.on /\ token' \in BOOLEAN
  BY <1>1 DEF IInv, TypeOK, Profiles, Calls, CallType
<1>3. agg' \in AggType /\ Len(agg'.queue) <= 1 /\ agg'.id = agg.id
  BY <1>1, EmptiedType DEF IInv
<1>4. TypeOK'
  BY <1>1, <1>2, <1>3 DEF IInv, TypeOK, AggType, CallType
<1>5. got' = got /\ got.times \in Nat /\ calls' \in Nat
  BY <1>1, Bounds DEF IInv, TypeOK
<1>6. CallInv'
  BY <1>1, <1>2 DEF IInv, CallInv, Starting, Ending, Waiting, Made, None
<1>7. CountInv'
  BY <1>1, <1>5 DEF CountInv
<1>8. PendingInv' /\ RestartInv'
  BY <1>1, <1>2 DEF IInv, PendingInv, RestartInv, None
<1> QED BY <1>4, <1>6, <1>7, <1>8 DEF IInv

\* The application gets a frame set.
LEMMA TakeStep ==
  ASSUME IInv, Take, agg.queue # <<>>, ~Starting, ~Ending,
         calls' \in 0..MaxCalls, got.times < calls'
  PROVE  IInv'
<1> USE DEF devs, flow, disp, hist, bounds
<1>1. /\ pc' = Idle /\ agg' = [agg EXCEPT !.queue = <<>>]
      /\ UNCHANGED <<devs, sens, conf, active, prevOff, cur, flow, disp, base, left, early, faults>>
  BY DEF Take
<1>2. agg' \in AggType /\ Len(agg'.queue) <= 1 /\ agg'.id = agg.id
  <2>1. agg.accepting \in BOOLEAN /\ agg' = [agg EXCEPT !.accepting = agg.accepting, !.queue = <<>>]
    BY <1>1 DEF IInv, TypeOK
  <2> QED BY <2>1, EmptiedType DEF IInv
<1>3. got' \in [times : 0..MaxCalls, set : FrameSets] /\ got'.times = got.times + 1 /\ got'.times <= calls'
  <2> DEFINE set == [s \in Sensors |-> IF s \in agg.on THEN Head(agg.queue)[s] ELSE got.set[s]]
  <2>1. Head(agg.queue) \in FrameSets /\ got.set \in FrameSets /\ got.times \in Nat /\ calls' \in 0..MaxCalls
        /\ MaxCalls \in Nat
    BY Bounds DEF IInv, TypeOK
  <2>2. set \in FrameSets
    BY <2>1 DEF FrameSets
  <2>3. got' = [times |-> got.times + 1, set |-> set]
    BY DEF Take
  <2> HIDE DEF set
  <2>4. got.times + 1 \in 0..MaxCalls /\ got.times + 1 <= calls'
    BY <2>1
  <2> QED BY <2>2, <2>3, <2>4
<1>4. pc' \in CallType /\ pc'.op = "idle" /\ ~pc'.again
  BY <1>1, IdleType
<1>5. TypeOK'
  BY <1>1, <1>2, <1>3, <1>4 DEF IInv, TypeOK, AggType, CallType
<1>6. CallInv'
  BY <1>1, <1>4 DEF IInv, CallInv, Starting, Ending, Waiting, Made, None
<1>7. CountInv'
  BY <1>3, <1>4 DEF CountInv, Waiting
<1>8. PendingInv' /\ RestartInv'
  BY <1>1, <1>4 DEF IInv, PendingInv, RestartInv, None
<1> QED BY <1>5, <1>6, <1>7, <1>8 DEF IInv

\* The calls of the application.
LEMMA ApplicationStep ==
  ASSUME IInv, Application
  PROVE  IInv'
<1> USE Bounds DEF devs, flow, disp, hist, bounds
<1>0. calls \in 0..MaxCalls /\ MaxCalls \in Nat /\ got.times \in Nat
  BY DEF IInv, TypeOK
<1>a. Call => pc.op = "idle" /\ calls' = calls + 1 /\ calls' \in 0..MaxCalls /\ got.times < calls'
  BY <1>0 DEF Call, IInv, CountInv
<1>1. CASE Configure
  <2>1. /\ conf'.cached = NoProfile /\ conf' \in ConfType /\ sens' \in SensType
        /\ UNCHANGED <<devs, active, prevOff, pc, cur, agg, flow, disp, hist, faults>>
    BY <1>1 DEF Configure, IInv, TypeOK, States, ConfType, SensType
  <2>2. Call
    BY <1>1 DEF Configure
  <2>3. TypeOK'
    BY <1>a, <2>1, <2>2 DEF IInv, TypeOK, ConfType, SensType
  <2>4. CallInv'
    BY <1>a, <2>1, <2>2 DEF IInv, CallInv, Starting, Ending, Waiting, Made, None
  <2>5. CountInv'
    <3>1. got' = got /\ got.times < calls' /\ calls' \in Nat
      BY <1>a, <2>1, <2>2
    <3> QED BY <1>0, <3>1 DEF CountInv
  <2>6. PendingInv' /\ RestartInv'
    BY <2>1 DEF IInv, PendingInv, RestartInv, None
  <2> QED BY <2>3, <2>4, <2>5, <2>6 DEF IInv
<1>2. CASE Start
  <2>1. Call /\ None(active)
        /\ UNCHANGED <<sens, active, prevOff, agg, flow, disp, got, base, left, early, faults>>
    BY <1>2 DEF Start
  <2>2. pc' \in CallType /\ pc'.op = "start" /\ pc'.todo = {} /\ ~pc'.again
    <3>1. pc' = [op |-> "start", todo |-> {}, again |-> FALSE]
      BY <1>2 DEF Start, Idle
    <3> QED BY <3>1 DEF Calls, CallType
  <2>3. /\ cur' \in Profiles /\ ~None(cur)' /\ made' \in 0..MaxMade /\ valid' \subseteq 1..made'
        /\ made <= made' /\ made \in Nat /\ cur'.dev \in 1..made' /\ UNCHANGED <<file, plugged>>
        /\ conf' \in ConfType /\ conf'.cached = cur'
    <3>1. CASE None(conf.cached)
      <4>1. Resolve(conf.off) /\ conf' = [conf EXCEPT !.cached = Profile(conf.off)] /\ conf.off \in SUBSET Sensors
        BY <1>2, <3>1 DEF Start, IInv, TypeOK
      <4>2. conf \in ConfType /\ made \in Nat
        BY DEF IInv, TypeOK, ConfType
      <4>3. cur' = Profile(conf.off) /\ cur' \in Profiles /\ made' = made + 1
        BY <4>1, ResolveMakes
      <4>4. conf' \in ConfType /\ conf'.cached = cur'
        BY <4>1, <4>2, <4>3 DEF ConfType
      <4>5. made <= made'
        BY <4>2, <4>3
      <4> QED BY <4>1, <4>2, <4>3, <4>4, <4>5, ResolveMakes
    <3>2. CASE ~None(conf.cached)
      <4>1. cur' = conf.cached /\ UNCHANGED <<devs, conf>>
        BY <1>2, <3>2 DEF Start
      <4> QED BY <4>1, <3>2 DEF IInv, TypeOK, CallInv, Made, None, ConfType
    <3> QED BY <3>1, <3>2
  <2>4. TypeOK'
    BY <1>a, <2>1, <2>2, <2>3 DEF IInv, TypeOK, ConfType, CallType
  <2>5. CallInv'
    BY <1>a, <2>1, <2>2, <2>3 DEF IInv, CallInv, Starting, Ending, Waiting, Made, None
  <2>6. CountInv'
    <3>1. got' = got /\ got.times < calls' /\ calls' \in Nat
      BY <1>a, <2>1
    <3> QED BY <1>0, <3>1 DEF CountInv
  <2>7. PendingInv' /\ RestartInv'
    BY <2>1, <2>2, <2>3 DEF IInv, PendingInv, RestartInv, None
  <2> QED BY <2>4, <2>5, <2>6, <2>7 DEF IInv
<1>3. CASE Stop
  <2>1. Call /\ ~None(active) /\ StopFlow(FALSE) /\ ~Starting
    BY <1>a, <1>3 DEF Stop, Starting
  <2> QED BY <1>a, <2>1, StopFlowStep
<1>4. CASE WaitCall
  <2>1. /\ Call /\ ~None(active) /\ Goto("wait", {})
        /\ UNCHANGED <<devs, sens, conf, active, prevOff, cur, agg, flow, disp, hist, faults>>
    BY <1>4 DEF WaitCall
  <2>2. pc' \in CallType /\ pc'.op = "wait" /\ pc'.again = pc.again
    BY <2>1, GotoKeepsType DEF IInv, Calls, CallType
  <2>3. TypeOK'
    BY <1>a, <2>1, <2>2 DEF IInv, TypeOK, CallType
  <2>4. CallInv'
    BY <1>a, <2>1, <2>2 DEF IInv, CallInv, Starting, Ending, Waiting, Made, None
  <2>5. CountInv'
    <3>1. got' = got /\ got.times < calls' /\ calls' \in Nat
      BY <1>a, <2>1
    <3> QED BY <1>0, <3>1 DEF CountInv
  <2>6. PendingInv' /\ RestartInv'
    BY <2>1, <2>2 DEF IInv, PendingInv, RestartInv, None
  <2> QED BY <2>3, <2>4, <2>5, <2>6 DEF IInv
<1>5. CASE Poll
  <2>1. Call /\ Take /\ agg.queue # <<>> /\ ~Starting /\ ~Ending
    BY <1>a, <1>5 DEF Poll, Starting, Ending
  <2> QED BY <1>a, <2>1, TakeStep
<1> QED BY <1>1, <1>2, <1>3, <1>4, <1>5 DEF Application

\* A step of a call that is neither an answer nor the beginning of a wait.
LEMMA CountStays ==
  ASSUME IInv, UNCHANGED <<got, calls>>, (pc.again \/ Waiting)' => pc.again \/ Waiting
  PROVE  CountInv'
  BY DEF IInv, CountInv

\* What only goes over from one phase of a call to the next.
LEMMA PhaseStep ==
  ASSUME IInv, NEW op \in Calls, NEW todo \in SUBSET Sensors, Goto(op, todo),
         UNCHANGED <<devs, conf, active, prevOff, cur, agg, flow, disp, got, base, early, bounds>>,
         sens' \in SensType, left' \in BOOLEAN, op \notin {"wait", "wait again"},
         op \in {"start", "open", "begin"} <=> Starting,
         op \in {"stop", "close", "reset"} <=> Ending,
         op \in {"open", "begin"} => todo \subseteq cur.on,
         op \in {"stop", "close"} => todo \subseteq active.on,
         op = "reset" => pc.op = "reset",
         op \notin {"reconnect", "idle", "copy", "crashed"}
  PROVE  IInv'
<1> USE DEF devs, flow, disp, hist, bounds
<1>1. pc' \in CallType /\ pc'.op = op /\ pc'.todo = todo /\ pc'.again = pc.again
  BY GotoKeepsType DEF IInv, CallType
<1>2. TypeOK'
  BY <1>1 DEF IInv, TypeOK, CallType, SensType
<1>3. CallInv'
  <2>1. (Starting' <=> Starting) /\ (Ending' <=> Ending) /\ ~Waiting' /\ pc'.op \notin {"reconnect", "copy"}
    BY <1>1 DEF Starting, Ending, Waiting
  <2>2. pc'.again => Starting \/ Ending
    BY <1>1 DEF IInv, TypeOK, Starting, Ending, Calls
  <2>3. UNCHANGED <<devs, conf, active, prevOff, cur>> /\ (Made(cur) <=> Made(cur)') /\ (None(cur) <=> None(cur)')
        /\ (Made(active) <=> Made(active)') /\ (None(active) <=> None(active)') /\ (Made(conf.cached) <=> Made(conf.cached)')
    BY DEF Made, None
  <2>4. (pc'.op \in {"open", "begin"} => pc'.todo \subseteq cur'.on) /\ (pc'.op \in {"stop", "close"} => pc'.todo \subseteq active'.on)
    BY <1>1
  <2> QED BY <2>1, <2>2, <2>3, <2>4 DEF IInv, CallInv
<1>4. CountInv'
  BY <1>1, CountStays DEF Waiting
<1>5. PendingInv' /\ RestartInv'
  BY <1>1 DEF IInv, PendingInv, RestartInv, None
<1> QED BY <1>2, <1>3, <1>4, <1>5 DEF IInv

\* The steps of start().
LEMMA StartSteps ==
  ASSUME IInv, Reconnect \/ NoDevice \/ OnStart \/ Open \/ Opened \/ Begin \/ StartThrows \/ Activate \/ CopyConfig
  PROVE  IInv'
<1> USE Bounds DEF devs, flow, disp, hist, bounds
<1>a. sens \in SensType /\ cur \in Profiles /\ left \in BOOLEAN /\ cur.on \subseteq Sensors
  BY DEF IInv, TypeOK, SensType, Profiles
<1>b. (pc.op \in {"open", "begin"} => Starting) /\ (Starting <=> pc.op \in {"start", "open", "begin"})
      /\ (Starting => ~Ending) /\ (pc.op \in {"open", "begin"} => pc.todo \subseteq cur.on)
  BY DEF Starting, Ending, IInv, CallInv
<1>1. CASE Reconnect
  <2>1. pc.op = "reconnect" /\ Resolve(prevOff) /\ Goto("start", {})
        /\ UNCHANGED <<sens, conf, active, prevOff, agg, flow, disp, hist, bounds>>
    BY <1>1 DEF Reconnect
  <2>2. /\ cur' \in Profiles /\ ~None(cur)' /\ made' \in 0..MaxMade /\ valid' \subseteq 1..made'
        /\ made <= made' /\ made \in Nat /\ cur'.dev \in 1..made' /\ UNCHANGED <<file, plugged>>
    <3>1. prevOff \in SUBSET Sensors /\ made \in Nat
      BY DEF IInv, TypeOK
    <3>2. made' = made + 1
      BY <2>1, <3>1, ResolveMakes
    <3>3. made <= made'
      BY <3>1, <3>2
    <3> QED BY <2>1, <3>1, <3>3, ResolveMakes
  <2>3. pc' \in CallType /\ pc'.op = "start" /\ pc'.todo = {} /\ pc'.again = pc.again
    BY <2>1, GotoKeepsType DEF IInv, Calls, CallType
  <2>4. TypeOK'
    BY <2>1, <2>2, <2>3 DEF IInv, TypeOK, CallType
  <2>5. CallInv'
    BY <2>1, <2>2, <2>3 DEF IInv, CallInv, Starting, Ending, Waiting, Made, None
  <2>6. CountInv'
    BY <2>1, <2>3, CountStays DEF Waiting
  <2>7. PendingInv' /\ RestartInv'
    BY <2>1, <2>2, <2>3 DEF IInv, PendingInv, RestartInv, None
  <2> QED BY <2>4, <2>5, <2>6, <2>7 DEF IInv
<1>2. CASE NoDevice
  <2>1. pc.op = "reconnect" /\ pc' = Idle
        /\ UNCHANGED <<devs, sens, conf, active, prevOff, cur, agg, flow, disp, hist, bounds>>
    BY <1>2 DEF NoDevice
  <2>2. pc' \in CallType /\ pc'.op = "idle" /\ ~pc'.again
    BY <2>1, IdleType
  <2>3. TypeOK'
    BY <2>1, <2>2 DEF IInv, TypeOK, CallType
  <2>4. CallInv'
    BY <2>1, <2>2 DEF IInv, CallInv, Starting, Ending, Waiting, Made, None
  <2>5. CountInv'
    BY <2>1, <2>2, CountStays DEF Waiting
  <2>6. PendingInv' /\ RestartInv'
    BY <2>1, <2>2 DEF IInv, PendingInv, RestartInv, None
  <2> QED BY <2>3, <2>4, <2>5, <2>6 DEF IInv
<1>3. CASE OnStart
  <2>1. /\ pc.op = "start" /\ held' = {} /\ base' = n /\ token' = file.play /\ dispOn' = TRUE /\ Goto("open", cur.on)
        /\ UNCHANGED <<devs, sens, conf, active, prevOff, cur, cb, n, raising, pending, rs, got, left, early, bounds>>
    BY <1>3 DEF OnStart
  <2>2. pc' \in CallType /\ pc'.op = "open" /\ pc'.todo = cur.on /\ pc'.again = pc.again
    BY <1>a, <2>1, GotoKeepsType DEF IInv, Calls, CallType
  <2>3. agg' \in AggType /\ Len(agg'.queue) <= 1 /\ agg'.id = agg.id + 1
    <3>1. agg' = [id |-> agg.id + 1, on |-> cur.on, accepting |-> TRUE, lastSet |-> Zero, queue |-> <<>>]
      BY <1>3 DEF OnStart
    <3>2. agg.id + 1 \in Nat /\ <<>> \in Seq(FrameSets) /\ Len(<<>>) = 0
      BY DEF IInv, TypeOK
    <3>3. agg'.queue = <<>> /\ agg'.id = agg.id + 1
      BY <3>1
    <3>4. agg' \in AggType
      BY <1>a, <3>1, <3>2 DEF AggType
    <3> QED BY <3>2, <3>3, <3>4
  <2>4. cb' \in [Sensors -> [frame : 0..MaxFrames, dev : 0..MaxMade, id : 0..agg'.id]]
    <3>1. agg.id \in Nat /\ cb \in [Sensors -> [frame : 0..MaxFrames, dev : 0..MaxMade, id : 0..agg.id]] /\ cb' = cb
      BY <2>1 DEF IInv, TypeOK
    <3>2. 0..agg.id \subseteq 0..agg'.id
      BY <2>3, <3>1
    <3> QED BY <3>1, <3>2
  <2>5. TypeOK'
    <3>1. token' \in BOOLEAN
      BY <2>1 DEF IInv, TypeOK
    <3> QED BY <2>1, <2>2, <2>3, <2>4, <3>1 DEF IInv, TypeOK, CallType, AggType
  <2>6. CallInv'
    BY <2>1, <2>2 DEF IInv, CallInv, Starting, Ending, Waiting, Made, None
  <2>7. CountInv'
    BY <2>1, <2>2, CountStays DEF Waiting
  <2>8. PendingInv' /\ RestartInv'
    BY <2>1, <2>2 DEF IInv, PendingInv, RestartInv, None
  <2> QED BY <2>5, <2>6, <2>7, <2>8 DEF IInv
<1>4. CASE Open
  <2>1. Turn \in Sensors /\ Rest \subseteq pc.todo /\ Rest \subseteq Sensors
    BY <1>4, TurnIsNext DEF Open, IInv
  <2>2. sens' \in SensType
    BY <1>4, <1>a, SetKeepsType DEF Open, IInv, SensType, States
  <2>3. UNCHANGED <<devs, conf, active, prevOff, cur, agg, flow, disp, hist, bounds>> /\ Goto("open", Rest) /\ pc.op = "open"
    BY <1>4 DEF Open
  <2> QED BY <1>a, <1>b, <2>1, <2>2, <2>3, PhaseStep DEF Calls
<1>5. CASE Opened
  <2>1. UNCHANGED <<devs, sens, conf, active, prevOff, cur, agg, flow, disp, hist, bounds>> /\ Goto("begin", cur.on) /\ pc.op = "open"
    BY <1>5 DEF Opened
  <2> QED BY <1>a, <1>b, <2>1, PhaseStep DEF Calls
<1>6. CASE Begin
  <2>1. Turn \in Sensors /\ Rest \subseteq pc.todo /\ Rest \subseteq Sensors
    BY <1>6, TurnIsNext DEF Begin, IInv
  <2>2. sens' \in SensType
    BY <1>6, <1>a, SetKeepsType DEF Begin, IInv, SensType, States
  <2>3. UNCHANGED <<devs, conf, active, prevOff, cur, agg, flow, disp, hist, bounds>> /\ Goto("begin", Rest) /\ pc.op = "begin"
    BY <1>6 DEF Begin
  <2> QED BY <1>a, <1>b, <2>1, <2>2, <2>3, PhaseStep DEF Calls
<1>7. CASE StartThrows
  <2>1. /\ pc.op \in {"open", "begin"} /\ sens' = Released(cur.dev) /\ pc' = Idle /\ cur' = NoProfile /\ left' = TRUE
        /\ UNCHANGED <<devs, conf, active, prevOff, agg, flow, disp, got, base, early, calls>>
    BY <1>7 DEF StartThrows, Throws
  <2>2. faults' \in 0..MaxFaults /\ faults <= faults' /\ faults \in Nat
    <3>1. faults' = faults \/ (faults < MaxFaults /\ faults' = faults + 1)
      BY <1>7 DEF StartThrows, Throws, Fault
    <3> QED BY <3>1 DEF IInv, TypeOK
  <2>3. sens' \in SensType
    BY <1>a, <2>1, ReleasedType DEF IInv
  <2>4. pc' \in CallType /\ pc'.op = "idle" /\ ~pc'.again
    BY <2>1, IdleType
  <2>5. TypeOK'
    BY <2>1, <2>2, <2>3, <2>4 DEF IInv, TypeOK, CallType, SensType
  <2>6. CallInv'
    BY <1>b, <2>1, <2>4 DEF IInv, CallInv, Starting, Ending, Waiting, Made, None
  <2>7. CountInv'
    BY <2>1, <2>4, CountStays DEF Waiting
  <2>8. PendingInv'
    <3>1. pending \in Nat
      BY DEF IInv, TypeOK
    <3> QED BY <2>1, <2>2, <3>1 DEF IInv, PendingInv
  <2>9. RestartInv'
    BY <2>1, <2>4 DEF IInv, RestartInv, None
  <2> QED BY <2>5, <2>6, <2>7, <2>8, <2>9 DEF IInv
<1>8. CASE Activate
  <2>1. /\ pc.op = "begin" /\ active' = cur /\ cur' = NoProfile /\ Goto("copy", {})
        /\ UNCHANGED <<devs, sens, conf, prevOff, agg, flow, disp, hist, bounds>>
    BY <1>8 DEF Activate
  <2>2. pc' \in CallType /\ pc'.op = "copy" /\ pc'.again = pc.again
    BY <2>1, GotoKeepsType DEF IInv, Calls, CallType
  <2>3. TypeOK'
    BY <1>a, <2>1, <2>2 DEF IInv, TypeOK, CallType
  <2>4. CallInv'
    BY <1>b, <2>1, <2>2 DEF IInv, CallInv, Starting, Ending, Waiting, Made, None
  <2>5. CountInv'
    BY <2>1, <2>2, CountStays DEF Waiting
  <2>6. PendingInv' /\ RestartInv'
    BY <1>b, <2>1, <2>2 DEF IInv, CallInv, PendingInv, RestartInv, None
  <2> QED BY <2>3, <2>4, <2>5, <2>6 DEF IInv
<1>9. CASE CopyConfig
  <2>1. /\ pc.op = "copy" /\ prevOff' = {}
        /\ UNCHANGED <<devs, sens, conf, active, cur, agg, flow, disp, hist, bounds>>
    BY <1>9 DEF CopyConfig, Copied
  <2>2. pc' \in CallType /\ pc'.op \in {"idle", "wait again"} /\ ~pc'.again /\ (pc'.op = "wait again" => pc.again)
    <3>1. CASE pc.again
      <4>1. pc' = [op |-> "wait again", todo |-> {}, again |-> FALSE]
        BY <1>9, <3>1 DEF CopyConfig, Idle
      <4> QED BY <3>1, <4>1 DEF Calls, CallType
    <3>2. CASE ~pc.again
      BY <1>9, <3>2, IdleType DEF CopyConfig
    <3> QED BY <3>1, <3>2
  <2>3. TypeOK'
    BY <2>1, <2>2 DEF IInv, TypeOK, CallType
  <2>4. CallInv'
    BY <2>1, <2>2 DEF IInv, CallInv, Starting, Ending, Waiting, Made, None
  <2>5. CountInv'
    BY <2>1, <2>2, CountStays DEF Waiting
  <2>6. PendingInv' /\ RestartInv'
    BY <2>1, <2>2 DEF IInv, PendingInv, RestartInv, None
  <2> QED BY <2>3, <2>4, <2>5, <2>6 DEF IInv
<1> QED BY <1>1, <1>2, <1>3, <1>4, <1>5, <1>6, <1>7, <1>8, <1>9

\* The steps of stop().
LEMMA StopSteps ==
  ASSUME IInv, StopSensor \/ SensorsStopped \/ CloseSensor \/ StopThrows \/ StopDispatcher \/ Reset
  PROVE  IInv'
<1> USE Bounds DEF devs, flow, disp, hist, bounds
<1>a. sens \in SensType /\ active \in Profiles /\ left \in BOOLEAN /\ active.on \subseteq Sensors
  BY DEF IInv, TypeOK, SensType, Profiles
<1>b. (pc.op \in {"stop", "close"} => Ending /\ ~None(active) /\ pc.todo \subseteq active.on) /\ (Starting => ~Ending)
  BY DEF Starting, Ending, IInv, CallInv
<1>1. CASE StopSensor
  <2>1. Turn \in Sensors /\ Rest \subseteq pc.todo /\ Rest \subseteq Sensors
    BY <1>1, TurnIsNext DEF StopSensor, IInv
  <2>2. sens' \in SensType
    BY <1>1, <1>a, SetKeepsType DEF StopSensor, IInv, SensType, States
  <2>3. UNCHANGED <<devs, conf, active, prevOff, cur, agg, flow, disp, hist, bounds>> /\ Goto("stop", Rest) /\ pc.op = "stop"
    BY <1>1 DEF StopSensor
  <2> QED BY <1>a, <1>b, <2>1, <2>2, <2>3, PhaseStep DEF Calls
<1>2. CASE SensorsStopped
  <2>1. UNCHANGED <<devs, sens, conf, active, prevOff, cur, agg, flow, disp, hist, bounds>> /\ Goto("close", active.on) /\ pc.op = "stop"
    BY <1>2 DEF SensorsStopped
  <2> QED BY <1>a, <1>b, <2>1, PhaseStep DEF Calls
<1>3. CASE CloseSensor
  <2>1. Turn \in Sensors /\ Rest \subseteq pc.todo /\ Rest \subseteq Sensors
    BY <1>3, TurnIsNext DEF CloseSensor, IInv
  <2>2. sens' \in SensType
    BY <1>3, <1>a, SetKeepsType DEF CloseSensor, IInv, SensType, States
  <2>3. UNCHANGED <<devs, conf, active, prevOff, cur, agg, flow, disp, hist, bounds>> /\ Goto("close", Rest) /\ pc.op = "close"
    BY <1>3 DEF CloseSensor
  <2> QED BY <1>a, <1>b, <2>1, <2>2, <2>3, PhaseStep DEF Calls
<1>4. CASE StopThrows \/ StopDispatcher
  <2>1. /\ pc.op \in {"stop", "close"} /\ Goto("reset", {}) /\ left' \in BOOLEAN
        /\ UNCHANGED <<devs, sens, conf, active, prevOff, cur, agg, flow, token, raising, rs, got, base, early, bounds>>
        /\ pending' \in 0..MaxFaults /\ (pending' = pending \/ pending' = 0) /\ dispOn' \in BOOLEAN
    <3>0. pending \in 0..MaxFaults /\ 0 \in 0..MaxFaults /\ dispOn \in BOOLEAN
      BY DEF IInv, TypeOK
    <3>1. CASE StopThrows
      <4>1. left' = (left \/ ~Abandoned(active.dev))
        BY <3>1 DEF StopThrows
      <4>2. left' \in BOOLEAN
        BY <4>1
      <4> QED BY <3>0, <3>1, <4>2 DEF StopThrows
    <3>2. CASE StopDispatcher
      BY <1>a, <3>0, <3>2 DEF StopDispatcher
    <3> QED BY <1>4, <3>1, <3>2
  <2>2. pc' \in CallType /\ pc'.op = "reset" /\ pc'.again = pc.again
    BY <2>1, GotoKeepsType DEF IInv, Calls, CallType
  <2>3. TypeOK'
    BY <2>1, <2>2 DEF IInv, TypeOK, CallType
  <2>4. CallInv'
    BY <1>b, <2>1, <2>2 DEF IInv, CallInv, Starting, Ending, Waiting, Made, None
  <2>5. CountInv'
    BY <2>1, <2>2, CountStays DEF Waiting
  <2>6. PendingInv'
    <3>1. faults \in Nat /\ pending \in Nat /\ pending <= faults /\ (raising => pending < faults)
      BY DEF IInv, TypeOK, PendingInv
    <3>2. faults' = faults /\ raising' = raising /\ (pending' = pending \/ pending' = 0)
      BY <2>1
    <3> QED BY <3>1, <3>2 DEF PendingInv
  <2>7. rs'.op = "none" /\ (file'.play => ~dispOn')
    <3>1. CASE StopThrows
      <4>1. ~file.play /\ UNCHANGED <<devs, disp>>
        BY <3>1 DEF StopThrows, Live
      <4>2. rs.op = "none"
        BY <4>1 DEF IInv, RestartInv
      <4> QED BY <4>1, <4>2
    <3>2. CASE StopDispatcher
      BY <3>2 DEF StopDispatcher
    <3> QED BY <1>4, <3>1, <3>2
  <2>8. RestartInv'
    BY <2>1, <2>2, <2>7 DEF IInv, RestartInv, None
  <2> QED BY <2>3, <2>4, <2>5, <2>6, <2>8 DEF IInv
<1>5. CASE Reset
  <2>1. /\ pc.op = "reset" /\ sens' = Released(active.dev) /\ active' = NoProfile
        /\ UNCHANGED <<devs, conf, cur, agg, flow, disp, hist, bounds>>
    BY <1>5 DEF Reset
  <2>2. prevOff = {} /\ prevOff' = {}
    BY <1>5 DEF Reset, IInv, CallInv
  <2>3. pc' \in CallType /\ pc'.op \in {"idle", "reconnect"} /\ (pc'.again => pc.again /\ pc'.op = "reconnect")
    <3>1. CASE pc.again
      <4>1. pc' = [pc EXCEPT !.op = "reconnect"] /\ pc \in CallType
        BY <1>5, <3>1 DEF Reset, IInv, TypeOK, CallType
      <4>2. pc' \in CallType /\ pc'.op = "reconnect"
        BY <4>1 DEF Calls, CallType
      <4> QED BY <3>1, <4>2
    <3>2. CASE ~pc.again
      BY <1>5, <3>2, IdleType DEF Reset
    <3> QED BY <3>1, <3>2
  <2>4. TypeOK'
    <3>1. sens' \in SensType
      BY <2>1, ReleasedType DEF IInv
    <3> QED BY <1>a, <2>1, <2>2, <2>3, <3>1 DEF IInv, TypeOK, CallType, SensType
  <2>5. CallInv'
    BY <2>1, <2>2, <2>3 DEF IInv, CallInv, Starting, Ending, Waiting, Made, None
  <2>6. CountInv'
    BY <2>1, <2>3, CountStays DEF Waiting
  <2>7. PendingInv' /\ RestartInv'
    BY <2>1, <2>3 DEF IInv, PendingInv, RestartInv, None
  <2> QED BY <2>4, <2>5, <2>6, <2>7 DEF IInv
<1> QED BY <1>1, <1>2, <1>3, <1>4, <1>5

\* The steps of wait_for_frames().
LEMMA WaitSteps ==
  ASSUME IInv, Frames \/ Timeout \/ Disconnected
  PROVE  IInv'
<1> USE Bounds DEF devs, flow, disp, hist, bounds
<1>a. Waiting => ~Starting /\ ~Ending /\ ~None(active) /\ got.times < calls /\ calls \in 0..MaxCalls
  BY DEF Waiting, Starting, Ending, IInv, TypeOK, CallInv, CountInv
<1>1. CASE Frames
  <2>1. Take /\ agg.queue # <<>> /\ calls' = calls /\ Waiting
    BY <1>1 DEF Frames, Waiting
  <2> QED BY <1>a, <2>1, TakeStep
<1>2. CASE Timeout
  <2>1. Waiting /\ pc' = Idle /\ UNCHANGED <<devs, sens, conf, active, prevOff, cur, agg, flow, disp, hist, bounds>>
    BY <1>2 DEF Timeout, Waiting
  <2>2. pc' \in CallType /\ pc'.op = "idle" /\ ~pc'.again
    BY <2>1, IdleType
  <2>3. TypeOK'
    BY <2>1, <2>2 DEF IInv, TypeOK, CallType
  <2>4. CallInv'
    BY <1>a, <2>1, <2>2 DEF IInv, CallInv, Starting, Ending, Waiting, Made, None
  <2>5. CountInv'
    BY <2>1, <2>2, CountStays DEF Waiting
  <2>6. PendingInv' /\ RestartInv'
    BY <2>1, <2>2 DEF IInv, PendingInv, RestartInv, None
  <2> QED BY <2>3, <2>4, <2>5, <2>6 DEF IInv
<1>3. CASE Disconnected
  <2>1. StopFlow(TRUE) /\ calls' = calls /\ Waiting
    BY <1>3 DEF Disconnected, Waiting
  <2> QED BY <1>a, <2>1, StopFlowStep
<1> QED BY <1>1, <1>2, <1>3

\* The aggregator keeps its types whatever is put together.
LEMMA AggregatedType ==
  ASSUME TypeOK, NEW set \in FrameSets, NEW publish \in BOOLEAN, agg' = Aggregated(set, publish)
  PROVE  /\ agg' \in AggType /\ Len(agg'.queue) <= 1
         /\ agg'.id = agg.id /\ agg'.on = agg.on /\ agg'.accepting = agg.accepting /\ agg'.lastSet = set
         /\ agg'.queue = agg.queue \/ (agg'.queue = <<set>> /\ Complete(set))
<1>1. agg \in AggType /\ Len(agg.queue) <= 1
  BY DEF TypeOK, AggType
<1> DEFINE queue == IF publish /\ Complete(set) THEN <<set>> ELSE agg.queue
<1>2. agg' = [id |-> agg.id, on |-> agg.on, accepting |-> agg.accepting, lastSet |-> set, queue |-> queue]
  BY <1>1 DEF Aggregated, AggType
<1>3. queue \in Seq(FrameSets) /\ Len(queue) <= 1
  BY <1>1 DEF AggType
<1>4. queue = agg.queue \/ (queue = <<set>> /\ Complete(set))
  OBVIOUS
<1> HIDE DEF queue
<1>5. agg'.id = agg.id /\ agg'.on = agg.on /\ agg'.accepting = agg.accepting /\ agg'.lastSet = set /\ agg'.queue = queue
  BY <1>2
<1>6. agg' \in AggType
  BY <1>1, <1>2, <1>3 DEF AggType
<1> QED BY <1>3, <1>4, <1>5, <1>6

\* What a composite frame makes of the last frames.
LastSet(frames) ==
  [s \in Sensors |-> IF \E f \in frames : f[1] = s THEN (CHOOSE f \in frames : f[1] = s)[2] ELSE agg.lastSet[s]]

\* Each sensor's frame is one of those that come, or the last.
LEMMA LastSetType ==
  ASSUME TypeOK, NEW frames \in SUBSET (Sensors \X (1..MaxFrames))
  PROVE  /\ LastSet(frames) \in FrameSets
         /\ \A s \in Sensors : \/ \E f \in frames : f[1] = s /\ LastSet(frames)[s] = f[2]
                               \/ LastSet(frames)[s] = agg.lastSet[s] /\ \A f \in frames : f[1] # s
<1>1. ASSUME NEW s \in Sensors
      PROVE  /\ LastSet(frames)[s] \in 0..MaxFrames
             /\ \/ \E f \in frames : f[1] = s /\ LastSet(frames)[s] = f[2]
                \/ LastSet(frames)[s] = agg.lastSet[s] /\ \A f \in frames : f[1] # s
  <2>1. CASE \E f \in frames : f[1] = s
    <3> DEFINE g == CHOOSE f \in frames : f[1] = s
    <3>1. g \in frames /\ g[1] = s
      BY <2>1
    <3>2. LastSet(frames)[s] = g[2]
      BY <2>1 DEF LastSet
    <3> HIDE DEF g
    <3>3. g[2] \in 0..MaxFrames
      BY <3>1, Bounds
    <3> QED BY <3>1, <3>2, <3>3
  <2>2. CASE ~\E f \in frames : f[1] = s
    <3>1. LastSet(frames)[s] = agg.lastSet[s] /\ agg.lastSet[s] \in 0..MaxFrames
      BY <2>2 DEF LastSet, TypeOK, FrameSets
    <3> QED BY <2>2, <3>1
  <2> QED BY <2>1, <2>2
<1>2. LastSet(frames) \in FrameSets
  BY <1>1 DEF LastSet, FrameSets
<1> QED BY <1>1, <1>2

\* The three things that can happen to a frame that the aggregator takes: it
\* comes out with those that waited, it waits, or it is not synced.
Waits(s) == {f \in held : f[1] # s} \cup {<<s, cb[s].frame>>}
ComesOut(s) == agg.accepting /\ s \in Synced /\ agg' = Aggregated(LastSet(Waits(s)), TRUE) /\ held' = {}
IsHeld(s) == agg.accepting /\ s \in Synced /\ held' = Waits(s) /\ UNCHANGED agg
IsAlone(s) ==
  /\ agg.accepting /\ s \notin Synced /\ UNCHANGED held
  /\ agg' = Aggregated([agg.lastSet EXCEPT ![s] = cb[s].frame], agg.on \cap Synced = {})
IsDropped(s) == ~agg.accepting /\ UNCHANGED <<agg, held>>

\* There is no other.
LEMMA HandleCases ==
  ASSUME TypeOK, NEW s \in Sensors, Handle(s)
  PROVE  /\ cb[s].frame \in 1..MaxFrames /\ Waits(s) \in SUBSET (Sensors \X (1..MaxFrames))
         /\ cb' = [cb EXCEPT ![s] = Out]
         /\ UNCHANGED <<devs, sens, conf, active, prevOff, pc, cur, n, disp, hist, bounds>>
         /\ ComesOut(s) \/ IsHeld(s) \/ IsAlone(s) \/ IsDropped(s)
<1>1. cb[s].frame \in 1..MaxFrames
  BY Bounds DEF Handle, TypeOK
<1>2. Waits(s) \in SUBSET (Sensors \X (1..MaxFrames))
  BY <1>1 DEF Waits, TypeOK
<1>3. ComesOut(s) \/ IsHeld(s) \/ IsAlone(s) \/ IsDropped(s)
  BY DEF Handle, Composite, Single, LastSet, Waits, ComesOut, IsHeld, IsAlone, IsDropped
<1> QED BY <1>1, <1>2, <1>3 DEF Handle

\* The sensors' threads.
LEMMA ThreadSteps ==
  ASSUME IInv, Threads
  PROVE  IInv'
<1> USE Bounds DEF devs, flow, disp, hist, bounds
<1>1. PICK s \in Sensors : Arrive(s) \/ Handle(s)
  BY DEF Threads
<1>2. /\ UNCHANGED <<devs, sens, conf, active, prevOff, pc, cur, disp, hist, bounds>>
      /\ cb' \in [Sensors -> [frame : 0..MaxFrames, dev : 0..MaxMade, id : 0..agg.id]]
      /\ n' \in FrameSets /\ held' \subseteq Sensors \X (1..MaxFrames)
      /\ agg' \in AggType /\ Len(agg'.queue) <= 1 /\ agg'.id = agg.id
  <2>0. /\ cb \in [Sensors -> [frame : 0..MaxFrames, dev : 0..MaxMade, id : 0..agg.id]] /\ agg.id \in Nat
        /\ n \in FrameSets /\ held \subseteq Sensors \X (1..MaxFrames) /\ agg \in AggType /\ Len(agg.queue) <= 1
    BY DEF IInv, TypeOK, AggType
  <2>1. CASE Arrive(s)
    <3>1. PICK d \in 1..MaxMade : cb' = [cb EXCEPT ![s] = [frame |-> n[s] + 1, dev |-> d, id |-> agg.id]]
      BY <2>1 DEF Arrive
    <3>2. n[s] + 1 \in 0..MaxFrames /\ n' = [n EXCEPT ![s] = n[s] + 1]
          /\ UNCHANGED <<devs, sens, conf, active, prevOff, pc, cur, agg, held, disp, hist, bounds>>
      BY <2>0, <2>1 DEF Arrive, FrameSets
    <3>3. n' \in FrameSets
      BY <2>0, <3>2 DEF FrameSets
    <3>4. cb' \in [Sensors -> [frame : 0..MaxFrames, dev : 0..MaxMade, id : 0..agg.id]]
      BY <2>0, <3>1, <3>2
    <3> QED BY <2>0, <3>2, <3>3, <3>4
  <2>2. CASE Handle(s)
    <3>1. /\ cb[s].frame \in 1..MaxFrames /\ Waits(s) \in SUBSET (Sensors \X (1..MaxFrames))
          /\ cb' = [cb EXCEPT ![s] = Out]
          /\ UNCHANGED <<devs, sens, conf, active, prevOff, pc, cur, n, disp, hist, bounds>>
          /\ ComesOut(s) \/ IsHeld(s) \/ IsAlone(s) \/ IsDropped(s)
      BY <2>2, HandleCases DEF IInv
    <3>2. Out \in [frame : 0..MaxFrames, dev : 0..MaxMade, id : 0..agg.id]
      BY <2>0 DEF Out
    <3>3. cb' \in [Sensors -> [frame : 0..MaxFrames, dev : 0..MaxMade, id : 0..agg.id]]
      BY <2>0, <3>1, <3>2
    <3>4. CASE ComesOut(s)
      <4>1. LastSet(Waits(s)) \in FrameSets
        BY <3>1, LastSetType DEF IInv
      <4>2. agg' \in AggType /\ Len(agg'.queue) <= 1 /\ agg'.id = agg.id
        BY <3>4, <4>1, AggregatedType DEF ComesOut, IInv
      <4>3. held' = {}
        BY <3>4 DEF ComesOut
      <4> QED BY <2>0, <3>1, <3>3, <4>2, <4>3
    <3>5. CASE IsAlone(s)
      <4>1. [agg.lastSet EXCEPT ![s] = cb[s].frame] \in FrameSets
        BY <2>0, <3>1 DEF AggType, FrameSets
      <4>2. (agg.on \cap Synced = {}) \in BOOLEAN
        OBVIOUS
      <4>3. agg' \in AggType /\ Len(agg'.queue) <= 1 /\ agg'.id = agg.id
        BY <3>5, <4>1, <4>2, AggregatedType DEF IsAlone, IInv
      <4> QED BY <2>0, <3>1, <3>3, <3>5, <4>3 DEF IsAlone
    <3>6. CASE IsHeld(s) \/ IsDropped(s)
      BY <2>0, <3>1, <3>3, <3>6 DEF IsHeld, IsDropped
    <3> QED BY <3>1, <3>4, <3>5, <3>6
  <2> QED BY <1>1, <2>1, <2>2
<1>3. TypeOK'
  BY <1>2 DEF IInv, TypeOK, AggType
<1>4. CallInv'
  BY <1>2 DEF IInv, CallInv, Starting, Ending, Waiting, Made, None
<1>5. CountInv'
  BY <1>2, CountStays DEF Waiting
<1>6. PendingInv' /\ RestartInv'
  BY <1>2 DEF IInv, PendingInv, RestartInv, None
<1> QED BY <1>3, <1>4, <1>5, <1>6 DEF IInv

\* The end of a file, the restart that follows, and the device.
LEMMA DeviceSteps ==
  ASSUME IInv, EndOfFile \/ Raise \/ Dispatcher \/ Unplug
  PROVE  IInv'
<1> USE Bounds DEF devs, flow, disp, hist, bounds
<1>a. /\ sens \in SensType /\ active.on \subseteq Sensors /\ pending \in 0..MaxFaults /\ faults \in 0..MaxFaults
      /\ rs \in [op : {"none", "open", "begin"}, todo : SUBSET Sensors]
      /\ left \in BOOLEAN /\ early \in BOOLEAN /\ raising \in BOOLEAN /\ token \in BOOLEAN /\ PendingInv
  BY DEF IInv, TypeOK, SensType, Profiles
<1>1. CASE EndOfFile
  <2>1. /\ file.play /\ ~raising /\ faults < MaxFaults /\ faults' = faults + 1 /\ raising' = token
        /\ UNCHANGED <<devs, conf, active, prevOff, pc, cur, agg, flow, token, pending, rs, dispOn, hist, calls>>
    BY <1>1 DEF EndOfFile, Fault
  <2>2. sens' \in SensType
    BY <1>1, <1>a DEF EndOfFile, SensType, States
  <2>3. faults' \in 0..MaxFaults /\ pending < faults'
    BY <1>a, <2>1 DEF PendingInv
  <2>4. TypeOK'
    BY <1>a, <2>1, <2>2, <2>3 DEF IInv, TypeOK, SensType
  <2>5. CallInv' /\ RestartInv'
    BY <2>1 DEF IInv, CallInv, RestartInv, Starting, Ending, Waiting, Made, None
  <2>6. CountInv'
    BY <2>1, CountStays DEF Waiting
  <2>7. PendingInv'
    BY <1>a, <2>1, <2>3 DEF PendingInv
  <2> QED BY <2>4, <2>5, <2>6, <2>7 DEF IInv
<1>2. CASE Raise
  <2>1. /\ raising /\ raising' = FALSE /\ (pending' = pending + 1 \/ pending' = pending)
        /\ UNCHANGED <<devs, sens, conf, active, prevOff, pc, cur, agg, flow, token, rs, dispOn, hist, bounds>>
    BY <1>2 DEF Raise
  <2>2. pending' \in 0..MaxFaults /\ pending' <= faults /\ file.play
    BY <1>a, <2>1 DEF PendingInv, IInv, RestartInv
  <2>3. TypeOK'
    BY <1>a, <2>1, <2>2 DEF IInv, TypeOK
  <2>4. CallInv' /\ RestartInv'
    BY <2>1, <2>2 DEF IInv, CallInv, RestartInv, Starting, Ending, Waiting, Made, None
  <2>5. CountInv'
    BY <2>1, CountStays DEF Waiting
  <2>6. PendingInv'
    BY <1>a, <2>1, <2>2 DEF PendingInv
  <2> QED BY <2>3, <2>4, <2>5, <2>6 DEF IInv
<1>3. CASE Restart
  <2>1. /\ dispOn /\ pending > 0 /\ rs.op = "none" /\ pending' = pending - 1
        /\ UNCHANGED <<devs, sens, conf, active, prevOff, pc, cur, agg, flow, token, raising, dispOn, got, base, left, bounds>>
    BY <1>3 DEF Restart
  <2>2. \/ ~None(active) /\ rs' = [op |-> "open", todo |-> active.on]
        \/ rs' = rs
    BY <1>3 DEF Restart
  <2>3. early' \in BOOLEAN
    <3>1. early' = (early \/ None(active))
      BY <1>3 DEF Restart
    <3> QED BY <3>1
  <2>4. pending' \in 0..MaxFaults /\ pending' <= faults /\ file.play
    BY <1>a, <2>1 DEF PendingInv, IInv, RestartInv
  <2>5. rs' \in [op : {"none", "open", "begin"}, todo : SUBSET Sensors]
    BY <1>a, <2>2
  <2>6. TypeOK'
    BY <2>1, <2>3, <2>4, <2>5 DEF IInv, TypeOK
  <2>7. CallInv'
    BY <2>1 DEF IInv, CallInv, Starting, Ending, Waiting, Made, None
  <2>8. CountInv'
    BY <2>1, CountStays DEF Waiting
  <2>9. PendingInv'
    BY <1>a, <2>1, <2>4 DEF PendingInv
  <2>10. pc.op # "reset"
    BY <2>1, <2>4 DEF IInv, RestartInv
  <2>11. RestartInv'
    BY <2>1, <2>2, <2>4, <2>10 DEF IInv, RestartInv, None
  <2> QED BY <2>6, <2>7, <2>8, <2>9, <2>11 DEF IInv
<1>4. CASE Reopen \/ Rebegin
  <2>1. /\ rs.op # "none"
        /\ UNCHANGED <<devs, conf, active, prevOff, pc, cur, agg, flow, token, raising, pending, dispOn, got, base, early, bounds>>
    BY <1>4 DEF Reopen, Rebegin
  <2>2. rs.todo # {} => First(rs.todo) \in Sensors
    BY <1>a, FirstOf
  <2>3. left' \in BOOLEAN
    <3>1. left' = left \/ left' = (left \/ pc.op \in {"stop", "close"})
      BY <1>4 DEF Reopen, Rebegin
    <3> QED BY <1>a, <3>1
  <2>4. sens' \in SensType
    <3>1. sens' = sens \/ \E s \in Sensors, x \in States : Set(active.dev, s, x)
      BY <1>4, <2>2 DEF Reopen, Rebegin, States
    <3> QED BY <1>a, <3>1, SetKeepsType DEF SensType, IInv
  <2>5. rs' \in [op : {"none", "open", "begin"}, todo : SUBSET Sensors] /\ rs'.todo \subseteq active.on
    <3>1. rs.todo \subseteq active.on
      BY <2>1 DEF IInv, RestartInv
    <3>2. \/ rs' = [op |-> "begin", todo |-> active.on]
          \/ rs' = [op |-> "none", todo |-> {}]
          \/ rs' = [rs EXCEPT !.todo = @ \ {First(rs.todo)}]
      BY <1>4 DEF Reopen, Rebegin
    <3> QED BY <1>a, <3>1, <3>2
  <2>6. TypeOK'
    BY <2>1, <2>3, <2>4, <2>5 DEF IInv, TypeOK, SensType
  <2>7. CallInv'
    BY <2>1 DEF IInv, CallInv, Starting, Ending, Waiting, Made, None
  <2>8. CountInv'
    BY <2>1, CountStays DEF Waiting
  <2>9. PendingInv'
    BY <1>a, <2>1 DEF PendingInv
  <2>10. pc.op # "reset" /\ ~None(active) /\ file.play
    BY <2>1 DEF IInv, RestartInv
  <2>11. RestartInv'
    BY <2>1, <2>5, <2>10 DEF IInv, RestartInv, None
  <2> QED BY <2>6, <2>7, <2>8, <2>9, <2>11 DEF IInv
<1>5. CASE Unplug
  <2>1. /\ ~file.play /\ faults < MaxFaults /\ faults' = faults + 1 /\ valid' = {} /\ plugged' = ~plugged
        /\ UNCHANGED <<file, made, sens, conf, active, prevOff, pc, cur, agg, flow, disp, hist, calls>>
    BY <1>5 DEF Unplug, Fault
  <2>2. faults' \in 0..MaxFaults /\ plugged' \in BOOLEAN
    BY <1>a, <2>1
  <2>3. TypeOK'
    BY <2>1, <2>2 DEF IInv, TypeOK
  <2>4. CallInv'
    BY <2>1 DEF IInv, CallInv, Starting, Ending, Waiting, Made, None
  <2>5. RestartInv'
    BY <2>1 DEF IInv, RestartInv, None
  <2>6. CountInv'
    BY <2>1, CountStays DEF Waiting
  <2>7. PendingInv'
    BY <1>a, <2>1 DEF PendingInv
  <2> QED BY <2>3, <2>4, <2>5, <2>6, <2>7 DEF IInv
<1>6. CASE RestartCrashes
  <2>1. /\ pc.op = "copy" /\ pc' = [Idle EXCEPT !.op = "crashed"]
        /\ UNCHANGED <<devs, sens, conf, active, prevOff, cur, agg, flow, disp, hist, bounds>>
    BY <1>6 DEF RestartCrashes
  <2>2. pc' \in CallType /\ pc'.op = "crashed" /\ ~pc'.again
    <3>1. pc' = [op |-> "crashed", todo |-> {}, again |-> FALSE]
      BY <2>1 DEF Idle
    <3> QED BY <3>1 DEF Calls, CallType
  <2>3. TypeOK'
    BY <2>1, <2>2 DEF IInv, TypeOK, CallType
  <2>4. CallInv'
    BY <2>1, <2>2 DEF IInv, CallInv, Starting, Ending, Waiting, Made, None
  <2>5. CountInv'
    BY <2>1, <2>2, CountStays DEF Waiting
  <2>6. PendingInv' /\ RestartInv'
    BY <2>1, <2>2 DEF IInv, PendingInv, RestartInv, None
  <2> QED BY <2>3, <2>4, <2>5, <2>6 DEF IInv
<1> QED BY <1>1, <1>2, <1>3, <1>4, <1>5, <1>6 DEF Dispatcher

\* What holds when nothing happens.
LEMMA Stutter ==
  ASSUME IInv, UNCHANGED vars
  PROVE  IInv'
<1> USE DEF vars, devs, flow, disp, hist, bounds
<1>1. TypeOK'
  BY DEF IInv, TypeOK
<1>2. CallInv' /\ CountInv'
  BY DEF IInv, CallInv, CountInv, Starting, Ending, Waiting, Made, None
<1>3. PendingInv' /\ RestartInv'
  BY DEF IInv, PendingInv, RestartInv, None
<1> QED BY <1>1, <1>2, <1>3 DEF IInv

\* The steps of a call.
LEMMA CallStepsStep ==
  ASSUME IInv, CallSteps
  PROVE  IInv'
  BY StartSteps, StopSteps, WaitSteps DEF CallSteps

\* The initial states.
LEMMA InitHolds ==
  ASSUME Init
  PROVE  IInv
<1> USE Bounds DEF Init
<1>1. /\ file \in [play : BOOLEAN, repeat : BOOLEAN] /\ plugged \in BOOLEAN
      /\ made = 0 /\ made \in 0..MaxMade /\ valid \subseteq 1..made
      /\ sens \in SensType /\ conf \in ConfType /\ conf.cached = NoProfile
  <2>1. file \in [play : BOOLEAN, repeat : BOOLEAN]
    <3>1. file \in {[play |-> FALSE, repeat |-> FALSE]} \cup [play : {TRUE}, repeat : BOOLEAN]
      OBVIOUS
    <3>2. CASE file = [play |-> FALSE, repeat |-> FALSE]
      BY ONLY <3>2
    <3>3. CASE file \in [play : {TRUE}, repeat : BOOLEAN]
      <4>1. PICK play \in {TRUE}, again \in BOOLEAN : file = [play |-> play, repeat |-> again]
        BY ONLY <3>3, ZenonT(20)
      <4> QED BY ONLY <4>1, ZenonT(20)
    <3> QED BY <3>1, <3>2, <3>3
  <2>2. sens \in SensType
    BY DEF SensType, States
  <2>3. conf \in ConfType /\ conf.cached = NoProfile
    BY DEF ConfType
  <2> QED BY <2>1, <2>2, <2>3
<1>2. pc \in CallType /\ pc.op = "idle" /\ ~pc.again
  BY IdleType
<1>3. agg \in AggType /\ Len(agg.queue) <= 1 /\ agg.id = 0
  <2>1. <<>> \in Seq(FrameSets) /\ Len(<<>>) = 0
    OBVIOUS
  <2>2. agg = [id |-> 0, on |-> {}, accepting |-> FALSE, lastSet |-> Zero, queue |-> <<>>]
    OBVIOUS
  <2>3. agg.queue = <<>> /\ agg.id = 0
    BY <2>2
  <2>4. agg \in AggType
    BY <2>1, <2>2 DEF AggType
  <2> QED BY <2>1, <2>3, <2>4
<1>4. cb \in [Sensors -> [frame : 0..MaxFrames, dev : 0..MaxMade, id : 0..agg.id]]
  BY <1>3 DEF Out
<1>5. rs \in [op : {"none", "open", "begin"}, todo : SUBSET Sensors] /\ rs.op = "none"
  OBVIOUS
<1>6. got \in [times : 0..MaxCalls, set : FrameSets] /\ got.times = 0
  OBVIOUS
<1>7. TypeOK
  <2>1. /\ active \in Profiles /\ cur \in Profiles /\ prevOff = {} /\ held = {}
        /\ n \in FrameSets /\ base \in FrameSets
    OBVIOUS
  <2>2. token \in BOOLEAN /\ raising \in BOOLEAN /\ dispOn \in BOOLEAN /\ left \in BOOLEAN /\ early \in BOOLEAN
    OBVIOUS
  <2>3. pending \in 0..MaxFaults /\ calls \in 0..MaxCalls /\ faults \in 0..MaxFaults
    OBVIOUS
  <2> QED BY <1>1, <1>2, <1>3, <1>4, <1>5, <1>6, <2>1, <2>2, <2>3 DEF TypeOK, SensType, ConfType, CallType, AggType
<1>8. CallInv
  BY <1>1, <1>2 DEF CallInv, Starting, Ending, Waiting, Made, None
<1>9. CountInv /\ PendingInv
  BY <1>2, <1>6 DEF CountInv, PendingInv, Waiting
<1>10. RestartInv
  BY <1>2, <1>5 DEF RestartInv
<1> QED BY <1>7, <1>8, <1>9, <1>10 DEF IInv

\* Every step keeps the invariant.
LEMMA IInvariant == Spec => []IInv
<1>1. IInv /\ [Next]_vars => IInv'
  BY ApplicationStep, CallStepsStep, ThreadSteps, DeviceSteps, Stutter DEF Next, Done
<1> QED BY <1>1, InitHolds, PTL DEF Spec

\* Every variable stays in its type: the aggregator's queue never holds more than
\* one frame set, every restart queued comes from an end of the file, and a
\* call goes over sensors of the profile only, for any sensors and streams.
THEOREM PipelineTypeCorrect == Spec => []TypeOK
<1>1. IInv => TypeOK
  BY DEF IInv
<1> QED BY <1>1, IInvariant, PTL

-------------------------------------------------------------------------------
(***************************************************************************)
(* The sensors and the profiles                                            *)
(***************************************************************************)

Used(d, s) == sens[d][s] # "closed"

\* A thread is in the callback of a sensor that is not closed: close() and the
\* end of a device wait for it.
InsideInv == \A s \in Sensors : cb[s].frame # 0 => cb[s].dev \in 1..MaxMade /\ Used(cb[s].dev, s)

\* What a sensor is open for when no call has failed: the profile that starts,
\* as far as it has come, or the active one, until it is closed; a restart may
\* open it again, but not start it, without being seen to.
Rightly(d, s) ==
  \/ pc.op = "open" /\ d = cur.dev /\ s \in cur.on \ pc.todo
  \/ pc.op = "begin" /\ d = cur.dev /\ s \in cur.on
  \/ /\ ~None(active) /\ d = active.dev /\ s \in active.on
     /\ pc.op = "close" /\ s \notin pc.todo => rs.op = "open" \/ (rs.op = "begin" /\ rs.todo # {})
     /\ pc.op = "reset" => Abandoned(d)
CleanInv == ~left => \A d \in 1..MaxMade, s \in Sensors : Used(d, s) => Rightly(d, s)

\* What start() has started streams, and goes on when it has returned.
StreamInv ==
  ~file.play =>
    /\ pc.op = "begin" /\ cur.dev \in valid => \A s \in cur.on \ pc.todo : sens[cur.dev][s] = "streaming"
    /\ (pc.op \in {"idle", "copy"} \/ Waiting) /\ active.dev \in valid =>
         \A s \in active.on : sens[active.dev][s] = "streaming"

\* The devices of the profiles in use exist.
LEMMA DevicesExist ==
  ASSUME IInv
  PROVE  /\ Starting => cur.dev \in 1..MaxMade /\ cur.on \subseteq Sensors
         /\ ~None(active) => active.dev \in 1..MaxMade /\ active.on \subseteq Sensors
         /\ None(active) => active.dev = 0
         /\ None(cur) => cur.dev = 0
<1>1. 1..made \subseteq 1..MaxMade
  BY Bounds DEF IInv, TypeOK
<1>2. cur.on \subseteq Sensors /\ active.on \subseteq Sensors
  BY DEF IInv, TypeOK, Profiles
<1>3. Starting => cur.dev \in 1..made
  BY DEF IInv, CallInv, Made
<1>4. ~None(active) => active.dev \in 1..made
  BY DEF IInv, CallInv, Made
<1> QED BY <1>1, <1>2, <1>3, <1>4 DEF None, NoProfile

\* A sensor is set: the others stay as they are.
LEMMA SetUsed ==
  ASSUME TypeOK, NEW d \in 1..MaxMade, NEW s \in Sensors, NEW x \in States, Set(d, s, x)
  PROVE  /\ sens'[d][s] = x
         /\ \A e \in 1..MaxMade, t \in Sensors : e # d \/ t # s => sens'[e][t] = sens[e][t]
         /\ \A e \in 1..MaxMade, t \in Sensors : Used(e, t)' => Used(e, t) \/ (e = d /\ t = s)
         /\ x # "closed" => \A e \in 1..MaxMade, t \in Sensors : Used(e, t) => Used(e, t)'
  BY SetKeepsType DEF Used

\* A sensor that is in a callback is not closed by a device that is given up.
LEMMA ReleasedUsed ==
  ASSUME TypeOK, NEW d \in 1..MaxMade, CanRelease(d), sens' = Released(d)
  PROVE  /\ \A e \in 1..MaxMade, t \in Sensors : Used(e, t)' => Used(e, t) /\ (e = d => ~Abandoned(d))
         /\ \A t \in Sensors : cb[t].dev \in 1..MaxMade /\ Used(cb[t].dev, t) => sens'[cb[t].dev][t] # "closed"
<1>1. CASE ~Abandoned(d)
  BY <1>1 DEF Released, Used
<1>2. CASE Abandoned(d)
  <2>1. sens' = [sens EXCEPT ![d] = [s \in Sensors |-> "closed"]] /\ \A t \in Sensors : cb[t].dev # d
    BY <1>2 DEF CanRelease, Released
  <2>2. \A e \in 1..MaxMade, t \in Sensors : sens'[e][t] = IF e = d THEN "closed" ELSE sens[e][t]
    BY <2>1 DEF TypeOK
  <2> QED BY <2>1, <2>2 DEF Used
<1> QED BY <1>1, <1>2

\* start() opens and starts the sensors of its profile one by one.
LEMMA StartSensors ==
  ASSUME IInv, Open \/ Begin
  PROVE  /\ cur.dev \in 1..MaxMade /\ Turn \in Sensors /\ Turn \in pc.todo /\ pc.todo \subseteq cur.on
         /\ Turn \in cur.on /\ Rest = pc.todo \ {Turn}
         /\ UNCHANGED <<devs, conf, active, prevOff, cur, agg, flow, disp, hist, bounds>>
         /\ pc'.op = pc.op /\ pc'.todo = Rest /\ pc'.again = pc.again
         /\ Set(cur.dev, Turn, IF pc.op = "open" THEN "open" ELSE "streaming")
            \/ (pc.op = "open" /\ file.play /\ UNCHANGED sens /\ Used(cur.dev, Turn))
<1>1. pc.todo # {} /\ pc.op \in {"open", "begin"} /\ Goto(pc.op, Rest)
      /\ UNCHANGED <<devs, conf, active, prevOff, cur, agg, flow, disp, hist, bounds>>
  BY DEF Open, Begin
<1>2. Starting /\ pc.todo \subseteq cur.on
  BY <1>1 DEF Starting, IInv, CallInv
<1>3. Turn \in Sensors /\ Turn \in pc.todo /\ Rest \subseteq Sensors
  BY <1>1, TurnIsNext DEF IInv
<1>4. pc'.op = pc.op /\ pc'.todo = Rest /\ pc'.again = pc.again
  BY <1>1, <1>3, GotoKeepsType DEF IInv, Calls
<1>5. Set(cur.dev, Turn, IF pc.op = "open" THEN "open" ELSE "streaming")
      \/ (pc.op = "open" /\ file.play /\ UNCHANGED sens /\ Used(cur.dev, Turn))
  BY DEF Open, Begin, Used
<1> QED BY <1>1, <1>2, <1>3, <1>4, <1>5, DevicesExist DEF Rest

\* stop() stops and closes those of the active one.
LEMMA StopSensors ==
  ASSUME IInv, StopSensor \/ CloseSensor
  PROVE  /\ ~None(active) /\ active.dev \in 1..MaxMade /\ Turn \in Sensors /\ Turn \in pc.todo
         /\ pc.todo \subseteq active.on /\ Rest = pc.todo \ {Turn}
         /\ UNCHANGED <<devs, conf, active, prevOff, cur, agg, flow, disp, hist, bounds>>
         /\ pc'.op = pc.op /\ pc'.todo = Rest /\ pc'.again = pc.again
         /\ \/ pc.op = "stop" /\ (UNCHANGED sens \/ (Used(active.dev, Turn) /\ Set(active.dev, Turn, "open")))
            \/ pc.op = "close" /\ cb[Turn].frame = 0 /\ Set(active.dev, Turn, "closed")
<1>1. pc.todo # {} /\ pc.op \in {"stop", "close"} /\ Goto(pc.op, Rest)
      /\ UNCHANGED <<devs, conf, active, prevOff, cur, agg, flow, disp, hist, bounds>>
  BY DEF StopSensor, CloseSensor
<1>2. ~None(active) /\ pc.todo \subseteq active.on
  BY <1>1 DEF Ending, IInv, CallInv
<1>3. Turn \in Sensors /\ Turn \in pc.todo /\ Rest \subseteq Sensors
  BY <1>1, TurnIsNext DEF IInv
<1>4. pc'.op = pc.op /\ pc'.todo = Rest /\ pc'.again = pc.again
  BY <1>1, <1>3, GotoKeepsType DEF IInv, Calls
<1>5. \/ pc.op = "stop" /\ (UNCHANGED sens \/ (Used(active.dev, Turn) /\ Set(active.dev, Turn, "open")))
      \/ pc.op = "close" /\ cb[Turn].frame = 0 /\ Set(active.dev, Turn, "closed")
  BY DEF StopSensor, CloseSensor, Used
<1> QED BY <1>1, <1>2, <1>3, <1>4, <1>5, DevicesExist DEF Rest

\* So does a restart, from the dispatcher, whatever call is under way.
LEMMA RestartSensors ==
  ASSUME IInv, Reopen \/ Rebegin
  PROVE  /\ ~None(active) /\ active.dev \in 1..MaxMade /\ file.play /\ pc.op # "reset" /\ ~Starting
         /\ UNCHANGED <<devs, conf, active, prevOff, pc, cur, agg, flow, got, base, early, bounds>>
         /\ \/ UNCHANGED sens
            \/ /\ rs.todo # {} /\ First(rs.todo) \in active.on \cap Sensors
               /\ \/ rs.op = "open" /\ Set(active.dev, First(rs.todo), "open")
                  \/ rs.op = "begin" /\ Used(active.dev, First(rs.todo)) /\ Set(active.dev, First(rs.todo), "streaming")
         /\ rs.op = "begin" /\ rs.todo # {} /\ ~left' => pc.op # "close"
         /\ rs.op = "open" /\ ~left' => ~left /\ (rs'.op = "open" \/ (rs'.op = "begin" /\ rs'.todo = active.on))
         /\ ~left' => ~left
<1>1. rs.op # "none" /\ UNCHANGED <<devs, conf, active, prevOff, pc, cur, agg, flow, got, base, early, bounds>>
  BY DEF Reopen, Rebegin, hist
<1>2. ~None(active) /\ rs.todo \subseteq active.on /\ file.play /\ pc.op # "reset" /\ ~Starting
  BY <1>1 DEF IInv, RestartInv, CallInv
<1>3. rs.todo # {} => First(rs.todo) \in active.on \cap Sensors
  <2>1. rs.todo \in SUBSET Sensors
    BY DEF IInv, TypeOK
  <2> QED BY <1>2, <2>1, FirstOf
<1>4. \/ UNCHANGED sens
      \/ /\ rs.todo # {}
         /\ \/ rs.op = "open" /\ Set(active.dev, First(rs.todo), "open")
            \/ rs.op = "begin" /\ Used(active.dev, First(rs.todo)) /\ Set(active.dev, First(rs.todo), "streaming")
  BY DEF Reopen, Rebegin, Used
<1>5. (~left' => ~left) /\ (rs.op = "begin" /\ rs.todo # {} /\ ~left' => pc.op # "close")
  BY DEF Reopen, Rebegin, hist
<1>6. rs.op = "open" => rs'.op = "open" \/ (rs'.op = "begin" /\ rs'.todo = active.on)
  <2>1. rs \in [op : {"none", "open", "begin"}, todo : SUBSET Sensors]
    BY DEF IInv, TypeOK
  <2> QED BY <2>1 DEF Reopen, Rebegin
<1> QED BY <1>1, <1>2, <1>3, <1>4, <1>5, <1>6, DevicesExist

\* The steps that leave the sensors alone.
SensorsAlone ==
  \/ Start \/ Stop \/ WaitCall \/ Poll \/ Reconnect \/ NoDevice \/ OnStart \/ Opened \/ Activate
  \/ CopyConfig \/ SensorsStopped \/ StopThrows \/ StopDispatcher \/ Frames \/ Timeout \/ Disconnected
  \/ Raise \/ Restart \/ RestartCrashes \/ Unplug \/ UNCHANGED vars

LEMMA AloneUnchanged ==
  ASSUME SensorsAlone
  PROVE  UNCHANGED <<sens, cb>> /\ (UNCHANGED n)
<1> USE DEF devs, flow, disp, hist, bounds
<1>1. CASE Start \/ WaitCall \/ Reconnect \/ NoDevice \/ OnStart \/ Opened \/ Activate \/ CopyConfig
  BY <1>1 DEF Start, WaitCall, Reconnect, NoDevice, OnStart, Opened, Activate, CopyConfig
<1>2. CASE Stop \/ Disconnected
  BY <1>2 DEF Stop, Disconnected, StopFlow
<1>3. CASE Poll \/ Frames
  BY <1>3 DEF Poll, Frames, Take
<1>4. CASE SensorsStopped \/ StopThrows \/ StopDispatcher \/ Timeout
  BY <1>4 DEF SensorsStopped, StopThrows, StopDispatcher, Timeout
<1>5. CASE Raise \/ Restart \/ RestartCrashes \/ Unplug
  BY <1>5 DEF Raise, Restart, RestartCrashes, Unplug
<1>6. CASE UNCHANGED vars
  BY <1>6 DEF vars
<1> QED BY <1>1, <1>2, <1>3, <1>4, <1>5, <1>6 DEF SensorsAlone

\* What is left of start() when the profile is active: the config, unless a
\* restart comes first.
LEMMA CopySteps ==
  ASSUME TypeOK, CopyConfig \/ RestartCrashes
  PROVE  /\ UNCHANGED <<devs, sens, conf, active, cur, agg, flow, disp, hist, bounds>>
         /\ pc.op = "copy" /\ pc'.op \in {"idle", "wait again", "crashed"}
<1>1. CASE CopyConfig
  BY <1>1, IdleType DEF CopyConfig, Idle
<1>2. CASE RestartCrashes
  BY <1>2 DEF RestartCrashes, Idle
<1> QED BY <1>1, <1>2

\* The steps, by what they do to the sensors.
LEMMA StepsBySensors ==
  ASSUME [Next]_vars
  PROVE  \/ SensorsAlone
         \/ Configure \/ Open \/ Begin \/ StartThrows \/ StopSensor \/ CloseSensor \/ Reset
         \/ Threads \/ EndOfFile \/ Reopen \/ Rebegin
  BY DEF Next, Application, CallSteps, Dispatcher, Done, SensorsAlone

\* Nobody is left in the callback of a closed sensor.
LEMMA InsideStep ==
  ASSUME IInv, InsideInv, [Next]_vars
  PROVE  InsideInv'
<1> USE DEF flow
<1>a. sens \in SensType /\ TypeOK
  BY DEF IInv, TypeOK, SensType
<1>b. \A s \in Sensors : cb[s].frame # 0 => cb[s].dev \in 1..MaxMade /\ sens[cb[s].dev][s] # "closed"
  BY DEF InsideInv, Used
<1>c. ASSUME cb' = cb, \A s \in Sensors : cb[s].frame # 0 => sens'[cb[s].dev][s] # "closed"
      PROVE  InsideInv'
  BY <1>b, <1>c DEF InsideInv, Used
<1>d. ASSUME cb' = cb, \A d \in 1..MaxMade, s \in Sensors : Used(d, s) => Used(d, s)'
      PROVE  InsideInv'
  BY <1>b, <1>c, <1>d DEF Used
<1>1. CASE SensorsAlone
  BY <1>1, <1>b, <1>c, AloneUnchanged
<1>2. CASE Configure
  BY <1>2 DEF Configure, InsideInv
<1>3. CASE Open \/ Begin
  <2>1. cb' = cb /\ cur.dev \in 1..MaxMade /\ Turn \in Sensors
    BY <1>3, StartSensors
  <2>2. UNCHANGED sens \/ Set(cur.dev, Turn, "open") \/ Set(cur.dev, Turn, "streaming")
    BY <1>3, StartSensors
  <2>3. \A d \in 1..MaxMade, s \in Sensors : Used(d, s) => Used(d, s)'
    BY <1>a, <2>1, <2>2, SetUsed DEF Used, States
  <2> QED BY <1>d, <2>1, <2>3
<1>4. CASE StartThrows
  <2>1. cb' = cb /\ CanRelease(cur.dev) /\ sens' = Released(cur.dev) /\ cur.dev \in 1..MaxMade
    BY <1>4, DevicesExist DEF StartThrows, Throws, Starting
  <2> QED BY <1>a, <1>b, <1>c, <2>1, ReleasedUsed DEF Used
<1>5. CASE StopSensor \/ CloseSensor
  <2>1. cb' = cb /\ active.dev \in 1..MaxMade /\ Turn \in Sensors
    BY <1>5, StopSensors
  <2>2. CASE UNCHANGED sens \/ Set(active.dev, Turn, "open")
    <3>1. \A d \in 1..MaxMade, s \in Sensors : Used(d, s) => Used(d, s)'
      BY <1>a, <2>1, <2>2, SetUsed DEF Used, States
    <3> QED BY <1>d, <2>1, <3>1
  <2>3. CASE cb[Turn].frame = 0 /\ Set(active.dev, Turn, "closed")
    <3>1. ASSUME NEW s \in Sensors, cb[s].frame # 0 PROVE sens'[cb[s].dev][s] # "closed"
      <4>1. s # Turn /\ cb[s].dev \in 1..MaxMade /\ sens[cb[s].dev][s] # "closed"
        BY <1>b, <2>3, <3>1
      <4>2. sens'[cb[s].dev][s] = sens[cb[s].dev][s]
        BY <1>a, <2>1, <2>3, <4>1, SetUsed DEF States
      <4> QED BY <4>1, <4>2
    <3> QED BY <1>c, <2>1, <3>1
  <2> QED BY <1>5, <2>2, <2>3, StopSensors
<1>6. CASE Reset
  <2>1. cb' = cb /\ CanRelease(active.dev) /\ sens' = Released(active.dev) /\ active.dev \in 1..MaxMade
    BY <1>6, DevicesExist DEF Reset, Ending, IInv, CallInv
  <2> QED BY <1>a, <1>b, <1>c, <2>1, ReleasedUsed DEF Used
<1>7. CASE Threads
  <2>1. PICK s \in Sensors : Arrive(s) \/ Handle(s)
    BY <1>7 DEF Threads
  <2>2. sens' = sens /\ \A t \in Sensors : cb'[t] = IF t = s THEN cb'[s] ELSE cb[t]
    BY <1>a, <2>1 DEF Arrive, Handle, TypeOK
  <2>3. cb'[s].frame # 0 => cb'[s].dev \in 1..MaxMade /\ sens[cb'[s].dev][s] # "closed"
    <3>1. CASE Arrive(s)
      <4>1. PICK d \in 1..MaxMade : sens[d][s] = "streaming" /\ cb' = [cb EXCEPT ![s] = [frame |-> n[s] + 1, dev |-> d, id |-> agg.id]]
        BY <3>1 DEF Arrive
      <4>2. cb'[s].dev = d
        BY <1>a, <4>1 DEF TypeOK
      <4> QED BY <4>1, <4>2
    <3>2. CASE Handle(s)
      <4>1. cb'[s] = Out
        BY <1>a, <3>2 DEF Handle, TypeOK
      <4> QED BY <4>1 DEF Out
    <3> QED BY <2>1, <3>1, <3>2
  <2> QED BY <1>b, <2>2, <2>3 DEF InsideInv, Used
<1>8. CASE EndOfFile
  <2>1. cb' = cb
    BY <1>8 DEF EndOfFile
  <2>2. \A d \in 1..MaxMade, s \in Sensors : Used(d, s) => Used(d, s)'
    BY <1>8, <1>a DEF EndOfFile, Used, SensType
  <2> QED BY <1>d, <2>1, <2>2
<1>9. CASE Reopen \/ Rebegin
  <2>1. cb' = cb /\ active.dev \in 1..MaxMade
    BY <1>9, RestartSensors
  <2>2. UNCHANGED sens \/ \E s \in Sensors : Set(active.dev, s, "open") \/ Set(active.dev, s, "streaming")
    BY <1>9, RestartSensors
  <2>3. \A d \in 1..MaxMade, s \in Sensors : Used(d, s) => Used(d, s)'
    BY <1>a, <2>1, <2>2, SetUsed DEF Used, States
  <2> QED BY <1>d, <2>1, <2>3
<1> QED BY <1>1, <1>2, <1>3, <1>4, <1>5, <1>6, <1>7, <1>8, <1>9, StepsBySensors

\* A profile that a call has no more use for has no open sensor.
LEMMA CleanStep ==
  ASSUME IInv, CleanInv, [Next]_vars
  PROVE  CleanInv'
<1> USE DEF devs, disp, hist, bounds
<1>a. sens \in SensType /\ TypeOK /\ pc \in CallType /\ rs \in [op : {"none", "open", "begin"}, todo : SUBSET Sensors]
  BY DEF IInv, TypeOK, SensType, CallType
<1>b. /\ Starting \/ pc.op = "reconnect" => None(active)
      /\ Starting => ~None(cur)
      /\ pc.op = "reset" => rs.op = "none"
  BY DEF IInv, CallInv, RestartInv
<1>c. ASSUME ~left, NEW d \in 1..MaxMade, NEW s \in Sensors, Used(d, s)
      PROVE  Rightly(d, s)
  BY <1>c DEF CleanInv
<1>d. ASSUME NEW d \in 1..MaxMade, NEW s \in Sensors
      PROVE  Used(d, s)' <=> sens'[d][s] # "closed"
  BY DEF Used
<1>1. CASE Start \/ Reconnect \/ NoDevice \/ OnStart
  <2>1. None(active) /\ pc.op \notin {"open", "begin"} /\ left' = left /\ sens' = sens
    BY <1>1, <1>b DEF Start, Call, Reconnect, NoDevice, OnStart, Starting
  <2>2. \A d \in 1..MaxMade, s \in Sensors : ~left => ~Used(d, s)
    BY <1>c, <2>1 DEF Rightly
  <2> QED BY <2>1, <2>2 DEF CleanInv, Used
<1>2. CASE Opened
  <2>1. /\ pc.op = "open" /\ pc.todo = {} /\ UNCHANGED <<sens, cur, left>> /\ Goto("begin", cur.on)
    BY <1>2 DEF Opened
  <2>2. pc'.op = "begin"
    BY <1>a, <2>1 DEF Goto, CallType
  <2>3. ASSUME ~left', NEW d \in 1..MaxMade, NEW s \in Sensors, Used(d, s)' PROVE Rightly(d, s)'
    <3>1. Rightly(d, s)
      BY <1>c, <2>1, <2>3 DEF Used
    <3> QED BY <1>b, <2>1, <2>2, <3>1 DEF Rightly, Starting
  <2> QED BY <2>3 DEF CleanInv
<1>3. CASE Activate
  <2>1. pc.op = "begin" /\ active' = cur /\ UNCHANGED <<sens, left>> /\ pc'.op = "copy"
    BY <1>3, <1>a DEF Activate, Goto, CallType
  <2>2. ASSUME ~left', NEW d \in 1..MaxMade, NEW s \in Sensors, Used(d, s)' PROVE Rightly(d, s)'
    <3>1. Rightly(d, s)
      BY <1>c, <2>1, <2>2 DEF Used
    <3>2. d = cur.dev /\ s \in cur.on /\ ~None(active')
      <4>1. d = cur.dev /\ s \in cur.on
        BY <1>b, <2>1, <3>1 DEF Rightly, Starting
      <4>2. ~None(cur) /\ active' = cur
        BY <1>b, <2>1 DEF Starting
      <4> QED BY <4>1, <4>2 DEF None
    <3>3. d = active'.dev /\ s \in active'.on /\ pc'.op # "close" /\ pc'.op # "reset"
      BY <2>1, <3>2
    <3> QED BY <3>2, <3>3 DEF Rightly, None
  <2> QED BY <2>2 DEF CleanInv
<1>4. CASE Stop \/ WaitCall \/ Poll \/ Frames \/ Timeout \/ Disconnected
  <2>1. UNCHANGED <<sens, left, active>> /\ pc.op \in {"idle", "wait", "wait again"} /\ pc'.op \in {"idle", "wait", "stop"}
    <3>1. CASE Stop \/ Disconnected
      <4>1. \E again \in BOOLEAN : StopFlow(again)
        BY <3>1 DEF Stop, Disconnected
      <4>2. UNCHANGED <<sens, left, active>> /\ pc'.op = "stop"
        BY <4>1 DEF StopFlow
      <4> QED BY <3>1, <4>2 DEF Stop, Disconnected, Call
    <3>2. CASE WaitCall
      BY <1>a, <3>2 DEF WaitCall, Call, Goto, CallType
    <3>3. CASE Poll \/ Frames
      BY <3>3, IdleType DEF Poll, Frames, Call, Take
    <3>4. CASE Timeout
      BY <3>4, IdleType DEF Timeout
    <3> QED BY <1>4, <3>1, <3>2, <3>3, <3>4
  <2>2. ASSUME ~left', NEW d \in 1..MaxMade, NEW s \in Sensors, Used(d, s)' PROVE Rightly(d, s)'
    <3>1. Rightly(d, s)
      BY <1>c, <2>1, <2>2 DEF Used
    <3> QED BY <2>1, <3>1 DEF Rightly, None
  <2> QED BY <2>2 DEF CleanInv
<1>5. CASE SensorsStopped
  <2>1. UNCHANGED <<sens, left, active>> /\ pc.op = "stop" /\ pc'.op = "close" /\ pc'.todo = active.on
    BY <1>5, <1>a DEF SensorsStopped, Goto, CallType
  <2>2. ASSUME ~left', NEW d \in 1..MaxMade, NEW s \in Sensors, Used(d, s)' PROVE Rightly(d, s)'
    <3>1. Rightly(d, s)
      BY <1>c, <2>1, <2>2 DEF Used
    <3> QED BY <2>1, <3>1 DEF Rightly, None
  <2> QED BY <2>2 DEF CleanInv
<1>6. CASE StopThrows
  <2>1. /\ UNCHANGED <<sens, active, conf>> /\ pc.op \in {"stop", "close"} /\ pc'.op = "reset"
        /\ left' = (left \/ ~Abandoned(active.dev))
    BY <1>6, <1>a DEF StopThrows, Goto, CallType
  <2>2. ASSUME ~left', NEW d \in 1..MaxMade, NEW s \in Sensors, Used(d, s)' PROVE Rightly(d, s)'
    <3>1. ~left /\ Abandoned(active.dev)
      BY <2>1, <2>2
    <3>2. Rightly(d, s)
      BY <1>c, <2>1, <2>2, <3>1 DEF Used
    <3> QED BY <2>1, <3>1, <3>2 DEF Rightly, None, Abandoned
  <2> QED BY <2>2 DEF CleanInv
<1>7. CASE StopDispatcher
  <2>1. UNCHANGED <<sens, left>> /\ pc.op = "close" /\ pc.todo = {} /\ rs.op = "none"
    BY <1>7 DEF StopDispatcher
  <2>2. \A d \in 1..MaxMade, s \in Sensors : ~left => ~Used(d, s)
    BY <1>c, <2>1 DEF Rightly
  <2> QED BY <2>1, <2>2 DEF CleanInv, Used
<1>8. CASE Raise \/ Unplug \/ Threads \/ UNCHANGED vars
  <2>1. UNCHANGED <<sens, left, active, conf, pc, cur, rs>>
    BY <1>8 DEF Raise, Unplug, Threads, Arrive, Handle, vars
  <2> QED BY <2>1 DEF CleanInv, Used, Rightly, None, Abandoned
<1>9. CASE Restart
  <2>1. UNCHANGED <<sens, left, active, conf, pc, cur>> /\ rs.op = "none"
    BY <1>9 DEF Restart
  <2>2. ASSUME ~left', NEW d \in 1..MaxMade, NEW s \in Sensors, Used(d, s)' PROVE Rightly(d, s)'
    <3>1. Rightly(d, s)
      BY <1>c, <2>1, <2>2 DEF Used
    <3> QED BY <2>1, <3>1 DEF Rightly, None, Abandoned
  <2> QED BY <2>2 DEF CleanInv
<1>10. CASE Configure
  BY <1>10 DEF Configure, CleanInv, Used
<1>11. CASE Open \/ Begin
  <2>1. /\ cur.dev \in 1..MaxMade /\ Turn \in Sensors /\ Turn \in cur.on /\ UNCHANGED <<cur, left>>
        /\ pc'.op = pc.op /\ pc'.todo = pc.todo \ {Turn} /\ pc.op \in {"open", "begin"}
    BY <1>11, StartSensors DEF Open, Begin
  <2>2. \A d \in 1..MaxMade, s \in Sensors : Used(d, s)' => Used(d, s) \/ (d = cur.dev /\ s = Turn)
    <3>1. UNCHANGED sens \/ Set(cur.dev, Turn, "open") \/ Set(cur.dev, Turn, "streaming")
      BY <1>11, StartSensors
    <3> QED BY <1>a, <2>1, <3>1, SetUsed DEF Used, States
  <2>3. ASSUME ~left', NEW d \in 1..MaxMade, NEW s \in Sensors, Used(d, s)' PROVE Rightly(d, s)'
    <3>1. CASE Used(d, s)
      <4>1. Rightly(d, s)
        BY <1>c, <2>1, <2>3, <3>1
      <4>2. d = cur.dev /\ s \in cur.on /\ (pc.op = "open" => s \notin pc.todo)
        BY <1>b, <2>1, <4>1 DEF Rightly, Starting
      <4> QED BY <2>1, <4>2 DEF Rightly
    <3>2. CASE d = cur.dev /\ s = Turn
      BY <2>1, <3>2 DEF Rightly
    <3> QED BY <2>2, <2>3, <3>1, <3>2
  <2> QED BY <2>3 DEF CleanInv
<1>12. CASE StartThrows
  BY <1>12 DEF StartThrows, CleanInv
<1>13. CASE StopSensor
  <2>1. /\ ~None(active) /\ active.dev \in 1..MaxMade /\ Turn \in Sensors /\ Turn \in active.on
        /\ UNCHANGED <<active, left>> /\ pc'.op = "stop" /\ pc.op = "stop"
    BY <1>13, StopSensors DEF StopSensor
  <2>2. \A d \in 1..MaxMade, s \in Sensors : Used(d, s)' => Used(d, s) \/ (d = active.dev /\ s = Turn)
    <3>1. UNCHANGED sens \/ Set(active.dev, Turn, "open")
      BY <1>13, <2>1, StopSensors
    <3> QED BY <1>a, <2>1, <3>1, SetUsed DEF Used, States
  <2>3. ASSUME ~left', NEW d \in 1..MaxMade, NEW s \in Sensors, Used(d, s)' PROVE Rightly(d, s)'
    <3>1. CASE Used(d, s)
      <4>1. Rightly(d, s)
        BY <1>c, <2>1, <2>3, <3>1
      <4> QED BY <2>1, <4>1 DEF Rightly, None
    <3>2. CASE d = active.dev /\ s = Turn
      BY <2>1, <3>2 DEF Rightly, None
    <3> QED BY <2>2, <2>3, <3>1, <3>2
  <2> QED BY <2>3 DEF CleanInv
<1>14. CASE CloseSensor
  <2>1. /\ ~None(active) /\ active.dev \in 1..MaxMade /\ Turn \in Sensors
        /\ UNCHANGED <<active, left, rs>> /\ pc'.op = "close" /\ pc.op = "close"
        /\ pc'.todo = pc.todo \ {Turn} /\ Set(active.dev, Turn, "closed")
    BY <1>14, StopSensors DEF CloseSensor
  <2>2. ASSUME ~left', NEW d \in 1..MaxMade, NEW s \in Sensors, Used(d, s)' PROVE Rightly(d, s)'
    <3>1. Used(d, s) /\ ~(d = active.dev /\ s = Turn)
      BY <1>a, <1>d, <2>1, <2>2, SetUsed DEF Used, States
    <3>2. Rightly(d, s)
      BY <1>c, <2>1, <2>2, <3>1
    <3> QED BY <2>1, <3>1, <3>2 DEF Rightly, None
  <2> QED BY <2>2 DEF CleanInv
<1>15. CASE Reset
  <2>1. left' = left /\ pc.op = "reset" /\ CanRelease(active.dev) /\ sens' = Released(active.dev) /\ active.dev \in 1..MaxMade
    BY <1>15, DevicesExist DEF Reset, Ending, IInv, CallInv
  <2>2. ASSUME ~left', NEW d \in 1..MaxMade, NEW s \in Sensors, Used(d, s)' PROVE FALSE
    <3>1. Used(d, s) /\ (d = active.dev => ~Abandoned(d))
      BY <1>a, <2>1, <2>2, ReleasedUsed
    <3>2. Rightly(d, s)
      BY <1>c, <2>1, <2>2, <3>1
    <3> QED BY <2>1, <3>1, <3>2 DEF Rightly
  <2> QED BY <2>2 DEF CleanInv
<1>16. CASE EndOfFile
  <2>1. UNCHANGED <<left, active, conf, pc, cur, rs>>
    BY <1>16 DEF EndOfFile
  <2>2. \A d \in 1..MaxMade, s \in Sensors : Used(d, s)' => Used(d, s)
    BY <1>16, <1>a DEF EndOfFile, Used, SensType
  <2> QED BY <2>1, <2>2 DEF CleanInv, Rightly, None, Abandoned
<1>17. CASE Reopen \/ Rebegin
  <2>1. /\ ~None(active) /\ active.dev \in 1..MaxMade /\ pc.op # "reset" /\ ~Starting
        /\ UNCHANGED <<active, pc, cur>> /\ (~left' => ~left)
    BY <1>17, RestartSensors
  <2>2. \A d \in 1..MaxMade, s \in Sensors : Used(d, s)' => Used(d, s) \/ (d = active.dev /\ s \in active.on)
    <3>1. UNCHANGED sens \/ \E s \in active.on \cap Sensors : Set(active.dev, s, "open") \/ Set(active.dev, s, "streaming")
      BY <1>17, RestartSensors
    <3> QED BY <1>a, <2>1, <3>1, SetUsed DEF Used, States
  <2>3. ASSUME ~left', NEW d \in 1..MaxMade, NEW s \in Sensors, Used(d, s)' PROVE Rightly(d, s)'
    <3>1. d = active.dev /\ s \in active.on
      BY <1>c, <2>1, <2>2, <2>3 DEF Rightly, Starting
    <3>2. pc.op = "close" /\ s \notin pc.todo => rs'.op = "open" \/ (rs'.op = "begin" /\ rs'.todo # {})
      <4>1. CASE rs.op = "open"
        BY <1>17, <2>3, <3>1, <4>1, RestartSensors
      <4>2. CASE rs.op = "begin" /\ rs.todo # {}
        BY <1>17, <2>3, <4>2, RestartSensors
      <4>3. CASE rs.op = "begin" /\ rs.todo = {}
        <5>1. Used(d, s)
          BY <1>17, <2>3, <4>3 DEF Reopen, Rebegin, Used
        <5> QED BY <1>c, <2>1, <2>3, <4>3, <5>1 DEF Rightly, Starting
      <4> QED BY <1>17, <4>1, <4>2, <4>3 DEF Reopen, Rebegin
    <3> QED BY <2>1, <3>1, <3>2 DEF Rightly, None
  <2> QED BY <2>3 DEF CleanInv
<1>18. CASE CopyConfig \/ RestartCrashes
  <2>1. UNCHANGED <<sens, left, active>> /\ pc.op = "copy" /\ pc'.op \in {"idle", "wait again", "crashed"}
    BY <1>18, <1>a, CopySteps
  <2>2. ASSUME ~left', NEW d \in 1..MaxMade, NEW s \in Sensors, Used(d, s)' PROVE Rightly(d, s)'
    <3>1. Rightly(d, s)
      BY <1>c, <2>1, <2>2 DEF Used
    <3> QED BY <2>1, <3>1 DEF Rightly, None
  <2> QED BY <2>2 DEF CleanInv
<1> QED BY <1>1, <1>2, <1>3, <1>4, <1>5, <1>6, <1>7, <1>8, <1>9, <1>10, <1>11, <1>12, <1>13, <1>14, <1>15, <1>16, <1>17,
           <1>18, StepsBySensors DEF SensorsAlone

\* What streams goes on.
LEMMA StreamStep ==
  ASSUME IInv, StreamInv, [Next]_vars
  PROVE  StreamInv'
<1> USE DEF devs, disp, hist, bounds, flow
<1>a. sens \in SensType /\ TypeOK /\ pc \in CallType /\ valid \subseteq 1..made /\ made \in Nat
  BY DEF IInv, TypeOK, SensType, CallType
<1>b. Starting \/ pc.op = "reconnect" => None(active)
  BY DEF IInv, CallInv
<1>c. ASSUME pc'.op \notin {"begin", "copy", "idle", "wait", "wait again"}
      PROVE  StreamInv'
  BY <1>c DEF StreamInv, Waiting
<1>d. ASSUME pc'.op # "begin", active'.dev \notin valid'
      PROVE  StreamInv'
  BY <1>d DEF StreamInv
<1>e. None(active) => active.dev \notin valid
  BY <1>a, DevicesExist
<1>f. ASSUME pc'.op \in {"idle", "wait", "wait again"}, pc.op \in {"idle", "copy", "wait", "wait again"},
             UNCHANGED <<sens, active, valid, file>>
      PROVE  StreamInv'
  BY <1>f DEF StreamInv, Waiting
<1>1. CASE Configure \/ NoDevice \/ StartThrows
  <2>1. None(active) /\ UNCHANGED <<active, valid>> /\ pc'.op = "idle"
    BY <1>1, <1>b, IdleType DEF Configure, Call, NoDevice, StartThrows, Throws, Starting
  <2> QED BY <1>d, <1>e, <2>1
<1>2. CASE Start \/ Reconnect \/ OnStart \/ Stop \/ Disconnected \/ SensorsStopped \/ StopThrows \/ StopDispatcher
  <2>1. CASE Start
    <3>1. pc'.op = "start"
      BY <2>1 DEF Start, Idle
    <3> QED BY <1>c, <3>1
  <2>2. CASE Stop \/ Disconnected
    <3>1. \E again \in BOOLEAN : StopFlow(again)
      BY <2>2 DEF Stop, Disconnected
    <3>2. pc'.op = "stop"
      BY <3>1 DEF StopFlow
    <3> QED BY <1>c, <3>2
  <2>3. CASE Reconnect \/ OnStart \/ SensorsStopped \/ StopThrows \/ StopDispatcher
    <3>1. pc'.op \in {"start", "open", "close", "reset"}
      BY <2>3, <1>a DEF Reconnect, OnStart, SensorsStopped, StopThrows, StopDispatcher, Goto, CallType
    <3> QED BY <1>c, <3>1
  <2> QED BY <1>2, <2>1, <2>2, <2>3
<1>3. CASE Opened
  <2>1. pc'.op = "begin" /\ pc'.todo = cur.on /\ cur' = cur
    BY <1>3, <1>a DEF Opened, Goto, CallType
  <2> QED BY <2>1 DEF StreamInv, Waiting
<1>4. CASE Activate
  <2>1. pc.op = "begin" /\ pc.todo = {} /\ active' = cur /\ UNCHANGED <<sens, valid, file>> /\ pc'.op = "copy"
    BY <1>4, <1>a DEF Activate, Goto, CallType
  <2> QED BY <2>1 DEF StreamInv
<1>5. CASE WaitCall \/ Poll \/ Frames \/ Timeout
  <2>1. pc.op \in {"idle", "wait", "wait again"} /\ UNCHANGED <<sens, active, valid, file>>
    BY <1>5 DEF WaitCall, Call, Poll, Frames, Timeout, Take
  <2>2. pc'.op \in {"idle", "wait"}
    BY <1>5, <1>a, IdleType DEF WaitCall, Poll, Frames, Timeout, Take, Goto, CallType
  <2> QED BY <1>f, <2>1, <2>2
<1>6. CASE Raise \/ Restart \/ Threads \/ UNCHANGED vars
  <2>1. UNCHANGED <<sens, active, cur, pc, valid, file>>
    BY <1>6 DEF Raise, Restart, Threads, Arrive, Handle, vars
  <2> QED BY <2>1 DEF StreamInv, Waiting
<1>7. CASE Unplug
  BY <1>7 DEF Unplug, StreamInv
<1>8. CASE EndOfFile
  BY <1>8 DEF EndOfFile, StreamInv
<1>9. CASE Reopen \/ Rebegin
  <2>1. file.play /\ file' = file
    BY <1>9, RestartSensors
  <2> QED BY <2>1 DEF StreamInv
<1>10. CASE Open
  <2>1. pc'.op = "open"
    BY <1>10, StartSensors DEF Open
  <2> QED BY <1>c, <2>1
<1>11. CASE StopSensor \/ CloseSensor
  <2>1. pc'.op \in {"stop", "close"}
    BY <1>11, StopSensors DEF StopSensor, CloseSensor
  <2> QED BY <1>c, <2>1
<1>12. CASE Begin
  <2>1. /\ cur.dev \in 1..MaxMade /\ Turn \in Sensors /\ Set(cur.dev, Turn, "streaming") /\ pc.op = "begin"
        /\ pc'.op = "begin" /\ pc'.todo = pc.todo \ {Turn} /\ UNCHANGED <<cur, valid, file>>
    BY <1>12, StartSensors DEF Begin
  <2>2. /\ sens'[cur.dev][Turn] = "streaming"
        /\ \A t \in Sensors : t # Turn => sens'[cur.dev][t] = sens[cur.dev][t]
    BY <1>a, <2>1, SetUsed DEF States
  <2>3. cur.on \subseteq Sensors
    BY DEF IInv, TypeOK, Profiles
  <2> QED BY <2>1, <2>2, <2>3 DEF StreamInv, Waiting
<1>13. CASE Reset
  <2>1. CASE pc.again
    <3>1. pc' = [pc EXCEPT !.op = "reconnect"]
      BY <1>13, <2>1 DEF Reset
    <3>2. pc'.op = "reconnect"
      BY <1>a, <3>1 DEF CallType
    <3> QED BY <1>c, <3>2
  <2>2. CASE ~pc.again
    <3>1. pc'.op = "idle" /\ active' = NoProfile /\ valid' = valid
      BY <1>13, <2>2, IdleType DEF Reset
    <3>2. active'.dev = 0
      BY <3>1 DEF NoProfile
    <3> QED BY <1>a, <1>d, <3>1, <3>2
  <2> QED BY <2>1, <2>2
<1>14. CASE CopyConfig \/ RestartCrashes
  <2>1. /\ UNCHANGED <<sens, active, valid, file>> /\ pc.op = "copy"
        /\ pc'.op \in {"idle", "wait again", "crashed"}
    BY <1>14, <1>a, CopySteps
  <2> QED BY <1>c, <1>f, <2>1
<1> QED BY <1>1, <1>2, <1>3, <1>4, <1>5, <1>6, <1>7, <1>8, <1>9, <1>10, <1>11, <1>12, <1>13, <1>14,
           StepsBySensors DEF SensorsAlone

SensorsInv == InsideInv /\ CleanInv /\ StreamInv

\* It holds from the beginning.
LEMMA SensorsInvariant == Spec => [](IInv /\ SensorsInv)
<1>1. Init => SensorsInv
  <2> SUFFICES ASSUME Init PROVE SensorsInv
    OBVIOUS
  <2>1. (\A d \in 1..MaxMade, s \in Sensors : ~Used(d, s)) /\ \A s \in Sensors : cb[s].frame = 0
    BY DEF Init, Used, Out
  <2>2. pc.op = "idle" /\ active.dev \notin valid
    BY IdleType DEF Init, NoProfile
  <2> QED BY <2>1, <2>2 DEF SensorsInv, InsideInv, CleanInv, StreamInv
<1>2. IInv /\ SensorsInv /\ [Next]_vars => SensorsInv'
  BY InsideStep, CleanStep, StreamStep DEF SensorsInv
<1> QED BY <1>1, <1>2, IInvariant, PTL DEF Spec

\* When the calls have returned, an active profile of a device that is there has
\* all of its sensors streaming, a reconnection included; without one no sensor
\* of a live device is open, unless a call or a restart had failed to see to it;
\* and a restart always finds the profile it began with: for any sensors and
\* any number of calls, devices and faults.
THEOREM ProfileIsTrue == Spec => []ProfileTellsTheTruth
<1>1. IInv /\ SensorsInv => ProfileTellsTheTruth
  <2> SUFFICES ASSUME IInv, SensorsInv PROVE ProfileTellsTheTruth
    OBVIOUS
  <2>1. ActiveMeansStreaming
    BY DEF ActiveMeansStreaming, SensorsInv, StreamInv
  <2>2. StopCloses
    BY DEF StopCloses, SensorsInv, CleanInv, Rightly, Used
  <2>3. RestartHasProfile
    BY DEF RestartHasProfile, IInv, RestartInv
  <2> QED BY <2>1, <2>2, <2>3 DEF ProfileTellsTheTruth
<1> QED BY <1>1, SensorsInvariant, PTL

-------------------------------------------------------------------------------
(***************************************************************************)
(* The frames                                                              *)
(***************************************************************************)

\* The aggregator is emptied, by stop() or by the application.
Emptied ==
  /\ UNCHANGED <<flow, base, left>> /\ agg'.queue = <<>>
  /\ agg'.id = agg.id /\ agg'.on = agg.on /\ agg'.lastSet = agg.lastSet
  /\ got' = got \/ (agg.queue # <<>> /\ Take)

\* The steps, by what they do to the frames and to the aggregator.
LEMMA StepsByFlow ==
  ASSUME IInv, [Next]_vars
  PROVE  /\ UNCHANGED <<agg, flow, base, got>> \/ Emptied \/ OnStart \/ Threads
         /\ ~left' => ~left
<1> USE DEF devs, flow, disp, hist, bounds
<1>1. CASE Configure \/ Start \/ WaitCall \/ Reconnect \/ NoDevice \/ Open \/ Opened \/ Begin
  BY <1>1 DEF Configure, Start, WaitCall, Reconnect, NoDevice, Open, Opened, Begin
<1>2. CASE Activate \/ CopyConfig \/ StopSensor \/ SensorsStopped \/ CloseSensor \/ StopDispatcher \/ Reset
  <2>1. UNCHANGED <<agg, flow, base, got, left>>
    BY <1>2 DEF Activate, CopyConfig, StopSensor, SensorsStopped, CloseSensor, StopDispatcher, Reset
  <2> QED BY <2>1
<1>3. CASE StartThrows \/ StopThrows \/ Rebegin
  <2>1. UNCHANGED <<agg, flow, base, got>>
    BY <1>3 DEF StartThrows, StopThrows, Rebegin
  <2>2. left' = TRUE \/ left' = left \/ left' = (left \/ ~Abandoned(active.dev)) \/ left' = (left \/ pc.op \in {"stop", "close"})
    BY <1>3 DEF StartThrows, StopThrows, Rebegin
  <2>3. ~left' => ~left
    BY <2>2
  <2> QED BY <2>1, <2>3
<1>7. CASE Timeout \/ EndOfFile \/ Raise \/ Restart \/ RestartCrashes \/ Reopen \/ Unplug \/ UNCHANGED vars
  <2>1. UNCHANGED <<agg, flow, base, got, left>>
    BY <1>7 DEF Timeout, EndOfFile, Raise, Restart, RestartCrashes, Reopen, Unplug, vars
  <2> QED BY <2>1
<1>4. CASE Stop \/ Disconnected
  <2>1. agg' = [agg EXCEPT !.accepting = FALSE, !.queue = <<>>] /\ UNCHANGED <<flow, hist>>
    BY <1>4 DEF Stop, Disconnected, StopFlow
  <2> QED BY <2>1, EmptiedType DEF IInv, Emptied
<1>5. CASE Poll \/ Frames
  <2>1. Take /\ agg.queue # <<>>
    BY <1>5 DEF Poll, Frames
  <2>2. agg.accepting \in BOOLEAN /\ agg' = [agg EXCEPT !.accepting = agg.accepting, !.queue = <<>>]
        /\ UNCHANGED <<flow, base, left>>
    BY <2>1 DEF Take, IInv, TypeOK
  <2> QED BY <2>1, <2>2, EmptiedType DEF IInv, Emptied
<1>6. CASE OnStart \/ Threads
  <2>1. left' = left
    BY <1>6 DEF OnStart, Threads, Arrive, Handle
  <2> QED BY <1>6, <2>1
<1> QED BY <1>1, <1>2, <1>3, <1>4, <1>5, <1>6, <1>7 DEF Next, Application, CallSteps, Dispatcher, Done

\* All that waits, and all who are on the way, are of the last start(), unless a
\* call or a restart has left a sensor open.
FreshInv ==
  ~left =>
    /\ \A s \in Sensors : agg.lastSet[s] = 0 \/ base[s] < agg.lastSet[s]
    /\ \A s \in Sensors : cb[s].frame # 0 => cb[s].id = agg.id /\ base[s] < cb[s].frame
    /\ \A f \in held : base[f[1]] < f[2]
    /\ \A i \in DOMAIN agg.queue : \A s \in agg.on : base[s] < agg.queue[i][s]

BaseInv == \A s \in Sensors : base[s] <= n[s]

\* A frame that arrives is the newest.
LEMMA ArriveFlow ==
  ASSUME TypeOK, NEW s \in Sensors, Arrive(s)
  PROVE  /\ cb[s].frame = 0 /\ cb'[s].frame = n[s] + 1 /\ cb'[s].id = agg.id
         /\ n'[s] = n[s] + 1 /\ \A t \in Sensors : t # s => cb'[t] = cb[t] /\ n'[t] = n[t]
         /\ UNCHANGED <<agg, held, base, got, left, sens, pc>>
<1>1. PICK d \in 1..MaxMade : cb' = [cb EXCEPT ![s] = [frame |-> n[s] + 1, dev |-> d, id |-> agg.id]]
  BY DEF Arrive
<1>2. n' = [n EXCEPT ![s] = n[s] + 1] /\ cb[s].frame = 0 /\ UNCHANGED <<agg, held, base, got, left, sens, pc>>
  BY DEF Arrive, hist
<1>3. n \in FrameSets /\ cb \in [Sensors -> [frame : 0..MaxFrames, dev : 0..MaxMade, id : 0..agg.id]]
  BY DEF TypeOK
<1>4. cb'[s].frame = n[s] + 1 /\ cb'[s].id = agg.id
  BY <1>1, <1>3
<1>5. n'[s] = n[s] + 1 /\ \A t \in Sensors : t # s => cb'[t] = cb[t] /\ n'[t] = n[t]
  BY <1>1, <1>2, <1>3 DEF FrameSets
<1> QED BY <1>2, <1>4, <1>5

\* A frame that is handled leaves the callback.
LEMMA HandleFlow ==
  ASSUME TypeOK, NEW s \in Sensors, Handle(s)
  PROVE  /\ cb[s].frame # 0 /\ cb[s].frame \in 1..MaxFrames /\ cb'[s].frame = 0
         /\ \A t \in Sensors : t # s => cb'[t] = cb[t]
         /\ UNCHANGED <<n, base, got, left, sens, pc>> /\ agg'.id = agg.id /\ agg'.on = agg.on
         /\ LastSet(Waits(s)) \in FrameSets /\ [agg.lastSet EXCEPT ![s] = cb[s].frame] \in FrameSets
         /\ ComesOut(s) => agg'.lastSet = LastSet(Waits(s))
         /\ IsAlone(s) => agg'.lastSet = [agg.lastSet EXCEPT ![s] = cb[s].frame]
         /\ agg'.queue = agg.queue \/ (agg'.queue = <<agg'.lastSet>> /\ Complete(agg'.lastSet))
<1>1. /\ cb[s].frame \in 1..MaxFrames /\ Waits(s) \in SUBSET (Sensors \X (1..MaxFrames))
      /\ cb' = [cb EXCEPT ![s] = Out] /\ UNCHANGED <<n, base, got, left, sens, pc>>
      /\ ComesOut(s) \/ IsHeld(s) \/ IsAlone(s) \/ IsDropped(s)
  BY HandleCases DEF hist
<1>2. cb'[s].frame = 0 /\ \A t \in Sensors : t # s => cb'[t] = cb[t]
  BY <1>1 DEF TypeOK, Out
<1>3. LastSet(Waits(s)) \in FrameSets
  BY <1>1, LastSetType
<1>4. [agg.lastSet EXCEPT ![s] = cb[s].frame] \in FrameSets
  <2>1. agg.lastSet \in FrameSets /\ cb[s].frame \in 0..MaxFrames
    BY DEF TypeOK
  <2> QED BY <2>1 DEF FrameSets
<1>5. CASE ComesOut(s)
  <2>1. /\ agg'.id = agg.id /\ agg'.on = agg.on /\ agg'.lastSet = LastSet(Waits(s))
        /\ agg'.queue = agg.queue \/ (agg'.queue = <<LastSet(Waits(s))>> /\ Complete(LastSet(Waits(s))))
    BY <1>3, <1>5, AggregatedType DEF ComesOut
  <2>2. ~IsAlone(s)
    BY <1>5 DEF ComesOut, IsAlone
  <2> QED BY <1>1, <1>2, <1>3, <1>4, <2>1, <2>2
<1>6. CASE IsAlone(s)
  <2> DEFINE set == [agg.lastSet EXCEPT ![s] = cb[s].frame]
  <2>0. set \in FrameSets
    BY <1>4
  <2>a. agg' = Aggregated(set, agg.on \cap Synced = {}) /\ (agg.on \cap Synced = {}) \in BOOLEAN
    BY <1>6 DEF IsAlone
  <2> HIDE DEF set
  <2>1. /\ agg'.id = agg.id /\ agg'.on = agg.on /\ agg'.lastSet = set
        /\ agg'.queue = agg.queue \/ (agg'.queue = <<set>> /\ Complete(set))
    BY <2>0, <2>a, AggregatedType
  <2>2. ~ComesOut(s)
    BY <1>6 DEF ComesOut, IsAlone
  <2> QED BY <1>1, <1>2, <1>3, <1>4, <2>1, <2>2 DEF set
<1>7. CASE IsHeld(s) \/ IsDropped(s)
  <2>1. agg' = agg
    BY <1>7 DEF IsHeld, IsDropped
  <2>2. ~ComesOut(s) \/ agg'.lastSet = LastSet(Waits(s))
    <3>1. ASSUME ComesOut(s) PROVE agg'.lastSet = LastSet(Waits(s))
      BY <1>3, <3>1, AggregatedType DEF ComesOut
    <3> QED BY <3>1
  <2>3. ~IsAlone(s)
    BY <1>7 DEF IsHeld, IsAlone, IsDropped
  <2> QED BY <1>1, <1>2, <1>3, <1>4, <2>1, <2>2, <2>3
<1> QED BY <1>1, <1>5, <1>6, <1>7

\* What the numbers of frames are.
LEMMA FlowTypes ==
  ASSUME TypeOK
  PROVE  /\ \A s \in Sensors : /\ n[s] \in 0..MaxFrames /\ base[s] \in 0..MaxFrames /\ got.set[s] \in 0..MaxFrames
                               /\ agg.lastSet[s] \in 0..MaxFrames /\ cb[s].frame \in 0..MaxFrames
         /\ \A f \in held : f[1] \in Sensors /\ f[2] \in 1..MaxFrames
         /\ agg.on \subseteq Sensors /\ agg.queue \in Seq(FrameSets)
         /\ \A i \in DOMAIN agg.queue, s \in Sensors : agg.queue[i][s] \in 0..MaxFrames
<1>1. agg.queue \in Seq(FrameSets) /\ agg.lastSet \in FrameSets /\ agg.on \subseteq Sensors
  BY DEF TypeOK
<1>2. \A i \in DOMAIN agg.queue : agg.queue[i] \in FrameSets
  BY <1>1
<1> QED BY <1>1, <1>2 DEF TypeOK, FrameSets

\* Frames are counted on.
LEMMA BaseStep ==
  ASSUME IInv, BaseInv, [Next]_vars
  PROVE  BaseInv'
<1>a. \A s \in Sensors : n[s] \in Nat /\ base[s] \in Nat /\ base[s] <= n[s]
  BY Bounds, FlowTypes DEF IInv, BaseInv
<1>1. CASE UNCHANGED <<agg, flow, base, got>> \/ Emptied
  BY <1>1 DEF BaseInv, flow, Emptied
<1>2. CASE OnStart
  BY <1>a, <1>2 DEF OnStart, BaseInv
<1>3. CASE Threads
  <2>1. PICK s \in Sensors : Arrive(s) \/ Handle(s)
    BY <1>3 DEF Threads
  <2>2. CASE Arrive(s)
    BY <1>a, <2>2, ArriveFlow DEF BaseInv, IInv
  <2>3. CASE Handle(s)
    BY <2>3, HandleFlow DEF BaseInv, IInv
  <2> QED BY <2>1, <2>2, <2>3
<1> QED BY <1>1, <1>2, <1>3, StepsByFlow

\* Nothing of an earlier start() reaches the aggregator of the last.
LEMMA FreshStep ==
  ASSUME IInv, InsideInv, CleanInv, BaseInv, FreshInv, [Next]_vars
  PROVE  FreshInv'
<1> SUFFICES ASSUME ~left'
             PROVE  (/\ \A s \in Sensors : agg.lastSet[s] = 0 \/ base[s] < agg.lastSet[s]
                     /\ \A s \in Sensors : cb[s].frame # 0 => cb[s].id = agg.id /\ base[s] < cb[s].frame
                     /\ \A f \in held : base[f[1]] < f[2]
                     /\ \A i \in DOMAIN agg.queue : \A s \in agg.on : base[s] < agg.queue[i][s])'
  BY DEF FreshInv
<1>a. ~left
  BY StepsByFlow
<1>b. /\ \A s \in Sensors : agg.lastSet[s] = 0 \/ base[s] < agg.lastSet[s]
      /\ \A s \in Sensors : cb[s].frame # 0 => cb[s].id = agg.id /\ base[s] < cb[s].frame
      /\ \A f \in held : base[f[1]] < f[2]
      /\ \A i \in DOMAIN agg.queue : \A s \in agg.on : base[s] < agg.queue[i][s]
  BY <1>a DEF FreshInv
<1>c. \A s \in Sensors : n[s] \in Nat /\ base[s] \in Nat /\ base[s] <= n[s]
  BY Bounds, FlowTypes DEF IInv, BaseInv
<1>d. \A s \in agg.on : s \in Sensors
  BY FlowTypes DEF IInv
<1>1. CASE UNCHANGED <<agg, flow, base, got>>
  BY <1>1, <1>b DEF flow
<1>2. CASE Emptied
  BY <1>2, <1>b DEF flow, Emptied
<1>3. CASE OnStart
  <2>1. /\ pc.op = "start" /\ held' = {} /\ base' = n /\ cb' = cb
        /\ agg' = [id |-> agg.id + 1, on |-> cur.on, accepting |-> TRUE, lastSet |-> Zero, queue |-> <<>>]
    BY <1>3 DEF OnStart
  <2>2. agg'.lastSet = Zero /\ agg'.queue = <<>>
    BY <2>1
  <2>3. None(active)
    BY <2>1 DEF Starting, IInv, CallInv
  <2>4. \A d \in 1..MaxMade, s \in Sensors : ~Used(d, s)
    BY <1>a, <2>1, <2>3 DEF CleanInv, Rightly
  <2>5. \A s \in Sensors : cb'[s].frame = 0
    BY <2>1, <2>4 DEF InsideInv
  <2> QED BY <2>1, <2>2, <2>5 DEF Zero
<1>4. CASE Threads
  <2>1. PICK s \in Sensors : Arrive(s) \/ Handle(s)
    BY <1>4 DEF Threads
  <2>2. CASE Arrive(s)
    <3>1. /\ cb'[s].frame = n[s] + 1 /\ cb'[s].id = agg.id
          /\ \A t \in Sensors : t # s => cb'[t] = cb[t]
          /\ UNCHANGED <<agg, held, base>>
      BY <2>2, ArriveFlow DEF IInv
    <3>2. base[s] < n[s] + 1
      BY <1>c
    <3> QED BY <1>b, <3>1, <3>2
  <2>3. CASE Handle(s)
    <3>1. /\ cb[s].frame # 0 /\ cb'[s].frame = 0 /\ base' = base /\ agg'.id = agg.id /\ agg'.on = agg.on
          /\ \A t \in Sensors : t # s => cb'[t] = cb[t]
          /\ agg'.queue = agg.queue \/ (agg'.queue = <<agg'.lastSet>> /\ Complete(agg'.lastSet))
          /\ Waits(s) \in SUBSET (Sensors \X (1..MaxFrames))
      BY <2>3, HandleFlow, HandleCases DEF IInv
    <3>2. \A f \in Waits(s) : base[f[1]] < f[2]
      BY <1>b, <3>1 DEF Waits
    <3>3. held' \in {{}, held, Waits(s)}
      BY <2>3, HandleCases DEF IInv, ComesOut, IsHeld, IsAlone, IsDropped
    <3>4. \A t \in Sensors : agg'.lastSet[t] = 0 \/ base[t] < agg'.lastSet[t]
      <4>1. CASE ComesOut(s)
        <5>1. agg'.lastSet = LastSet(Waits(s))
          BY <2>3, <4>1, HandleFlow DEF IInv
        <5> QED BY <1>b, <3>1, <3>2, <5>1, LastSetType DEF IInv
      <4>2. CASE IsAlone(s)
        <5>1. agg'.lastSet = [agg.lastSet EXCEPT ![s] = cb[s].frame]
          BY <2>3, <4>2, HandleFlow DEF IInv
        <5>2. agg.lastSet \in FrameSets
          BY DEF IInv, TypeOK
        <5>3. \A t \in Sensors : agg'.lastSet[t] = IF t = s THEN cb[s].frame ELSE agg.lastSet[t]
          BY <5>1, <5>2 DEF FrameSets
        <5> QED BY <1>b, <3>1, <5>3
      <4>3. CASE IsHeld(s) \/ IsDropped(s)
        BY <1>b, <4>3 DEF IsHeld, IsDropped
      <4> QED BY <2>3, <4>1, <4>2, <4>3, HandleCases DEF IInv
    <3>5. ASSUME NEW i \in DOMAIN agg'.queue, NEW t \in agg.on PROVE base[t] < agg'.queue[i][t]
      <4>1. CASE agg'.queue = agg.queue
        BY <1>b, <3>5, <4>1
      <4>2. CASE agg'.queue = <<agg'.lastSet>> /\ Complete(agg'.lastSet)
        <5>1. agg'.queue[i] = agg'.lastSet
          BY <3>5, <4>2
        <5>2. agg'.lastSet[t] # 0
          BY <4>2 DEF Complete
        <5> QED BY <1>d, <3>4, <5>1, <5>2
      <4> QED BY <3>1, <4>1, <4>2
    <3> QED BY <1>b, <3>1, <3>2, <3>3, <3>4, <3>5
  <2> QED BY <2>1, <2>2, <2>3
<1> QED BY <1>1, <1>2, <1>3, <1>4, StepsByFlow

\* It holds from the beginning.
LEMMA FreshInvariant == Spec => [](IInv /\ SensorsInv /\ BaseInv /\ FreshInv)
<1>1. Init => BaseInv /\ FreshInv
  <2> SUFFICES ASSUME Init PROVE BaseInv /\ FreshInv
    OBVIOUS
  <2>1. agg.lastSet = Zero /\ agg.queue = <<>> /\ held = {} /\ \A s \in Sensors : cb[s].frame = 0
    BY DEF Init, Out
  <2>2. base = Zero /\ n = Zero
    BY DEF Init
  <2> QED BY <2>1, <2>2 DEF BaseInv, FreshInv, Zero
<1>2. IInv /\ SensorsInv /\ BaseInv /\ FreshInv /\ [Next]_vars => BaseInv' /\ FreshInv'
  BY BaseStep, FreshStep DEF SensorsInv
<1> QED BY <1>1, <1>2, SensorsInvariant, PTL DEF Spec

\* Whatever was stopped, lost and started before, the frame set that waits has a
\* frame of each stream of the profile, all from after the last start(); and
\* unless a start() or a stop() threw half way or a restart overtook a stop(), no
\* thread is inside the callback of an aggregator that start() has replaced.
THEOREM NothingOldIsGiven == Spec => []AggregatorIsFresh
<1>1. IInv /\ SensorsInv /\ BaseInv /\ FreshInv => AggregatorIsFresh
  <2> SUFFICES ASSUME IInv, FreshInv PROVE AggregatorIsFresh
    OBVIOUS
  <2>1. FramesetsWhole
    BY FlowTypes DEF FramesetsWhole, FreshInv, IInv
  <2>2. NobodyLeftInside
    BY DEF NobodyLeftInside, FreshInv
  <2> QED BY <2>1, <2>2 DEF AggregatorIsFresh
<1> QED BY <1>1, FreshInvariant, PTL

-------------------------------------------------------------------------------
(***************************************************************************)
(* What the application gets                                               *)
(***************************************************************************)

\* The aggregator expects the streams of the profile in use; a profile that is
\* kept in the application's config is that one, or of another device; and no
\* other sensor is open, whatever failed.
Owned(d, s) ==
  \/ d = conf.cached.dev /\ s \in conf.cached.on
  \/ pc.op \in {"open", "begin"} /\ d = cur.dev /\ s \in cur.on
  \/ ~None(active) /\ d = active.dev /\ s \in active.on
OwnerInv ==
  /\ pc.op \in {"open", "begin"} => agg.on = cur.on
  /\ ~None(active) => agg.on = active.on
  /\ Starting => conf.cached.on \subseteq cur.on /\ (cur.dev = conf.cached.dev => cur = conf.cached)
  /\ ~None(active) => conf.cached.on \subseteq active.on /\ (active.dev = conf.cached.dev => active = conf.cached)
  /\ \A d \in 1..MaxMade, s \in Sensors : Used(d, s) => s \in agg.on /\ Owned(d, s)

\* The profiles change hands, the sensors keep their owners.
LEMMA OwnerStep ==
  ASSUME IInv, OwnerInv, [Next]_vars
  PROVE  OwnerInv'
<1> USE DEF devs, disp, hist, bounds, flow
<1>a. /\ sens \in SensType /\ TypeOK /\ pc \in CallType /\ made \in Nat
      /\ (Starting <=> ~None(cur)) /\ (Starting \/ pc.op = "reconnect" => None(active)) /\ prevOff = {}
      /\ (Starting <=> pc.op \in {"start", "open", "begin"})
      /\ Made(conf.cached) /\ conf.cached.on \subseteq Sensors
      /\ (pc.op \in {"stop", "close", "reset"} => ~None(active))
  <2>1. sens \in SensType /\ TypeOK /\ pc \in CallType /\ made \in Nat
    BY DEF IInv, TypeOK, SensType, CallType
  <2>5. conf.cached.on \subseteq Sensors
    <3>1. conf \in ConfType
      BY DEF IInv, TypeOK, ConfType
    <3>2. conf.cached \in Profiles
      BY <3>1 DEF ConfType
    <3> QED BY <3>2 DEF Profiles
  <2>2. (Starting <=> ~None(cur)) /\ (Starting \/ pc.op = "reconnect" => None(active)) /\ prevOff = {} /\ Made(conf.cached)
    BY DEF IInv, CallInv
  <2>3. pc.op \in {"stop", "close", "reset"} => ~None(active)
    BY DEF IInv, CallInv, Ending
  <2>4. Starting <=> pc.op \in {"start", "open", "begin"}
    BY DEF Starting
  <2> QED BY <2>1, <2>2, <2>3, <2>4, <2>5
<1>b. ASSUME NEW d \in 1..MaxMade, NEW s \in Sensors, Used(d, s)
      PROVE  s \in agg.on /\ Owned(d, s)
  BY <1>b DEF OwnerInv
<1>c. 0 \notin 1..MaxMade
  BY Bounds
<1>1. CASE Configure
  <2>1. /\ pc.op = "idle" /\ None(active) /\ UNCHANGED <<pc, active, cur, agg>>
        /\ sens' = [d \in 1..MaxMade |-> [s \in Sensors |-> "closed"]]
    BY <1>1 DEF Configure, Call
  <2>2. \A d \in 1..MaxMade, s \in Sensors : sens'[d][s] = "closed"
    BY <2>1
  <2>3. pc'.op = "idle" /\ active' = NoProfile
    BY <2>1 DEF None
  <2> QED BY <2>2, <2>3 DEF OwnerInv, Starting, Used, None
<1>2. CASE Start
  <2>1. pc.op = "idle" /\ None(active) /\ pc'.op = "start" /\ UNCHANGED <<sens, active, agg>>
    BY <1>2 DEF Start, Call, Idle
  <2>2. CASE None(conf.cached)
    <3>1. Resolve(conf.off) /\ conf' = [conf EXCEPT !.cached = Profile(conf.off)] /\ conf.off \in SUBSET Sensors
      BY <1>2, <2>2 DEF Start, IInv, TypeOK
    <3>2. cur' = Profile(conf.off) /\ conf'.cached = Profile(conf.off)
      BY <3>1 DEF Resolve, IInv, TypeOK
    <3>3. \A d \in 1..MaxMade, s \in Sensors : ~Used(d, s)
      BY <1>a, <1>b, <1>c, <2>1, <2>2 DEF Owned, None, NoProfile
    <3> QED BY <2>1, <3>2, <3>3 DEF OwnerInv, Starting, Used, None
  <2>3. CASE ~None(conf.cached)
    <3>1. cur' = conf.cached /\ UNCHANGED conf
      BY <1>2, <2>3 DEF Start
    <3>2. ASSUME NEW d \in 1..MaxMade, NEW s \in Sensors, Used(d, s)
          PROVE  s \in agg.on /\ d = conf.cached.dev /\ s \in conf.cached.on
      BY <1>b, <2>1, <3>2 DEF Owned
    <3> QED BY <2>1, <3>1, <3>2 DEF OwnerInv, Starting, Used, Owned, None
  <2> QED BY <2>2, <2>3
<1>3. CASE Reconnect
  <2>1. pc.op = "reconnect" /\ Resolve(prevOff) /\ pc'.op = "start" /\ UNCHANGED <<sens, conf, active, agg>> /\ None(active)
    BY <1>3, <1>a DEF Reconnect, Goto, CallType
  <2>2. cur' = [dev |-> made + 1, on |-> Sensors]
    BY <1>a, <2>1 DEF Resolve, Profile
  <2>3. conf.cached.dev # made + 1
    BY <1>a DEF Made, None, NoProfile
  <2>4. cur'.on = Sensors /\ cur'.dev # conf.cached.dev
    BY <2>2, <2>3
  <2>5. ASSUME NEW d \in 1..MaxMade, NEW s \in Sensors, Used(d, s)
        PROVE  s \in agg.on /\ d = conf.cached.dev /\ s \in conf.cached.on
    BY <1>b, <2>1, <2>5 DEF Owned
  <2> QED BY <1>a, <2>1, <2>4, <2>5 DEF OwnerInv, Starting, Used, Owned, None
<1>4. CASE NoDevice
  <2>1. pc.op = "reconnect" /\ pc'.op = "idle" /\ UNCHANGED <<sens, conf, active, cur, agg>> /\ None(active)
    BY <1>4, <1>a, IdleType DEF NoDevice
  <2> QED BY <2>1 DEF OwnerInv, Starting, Used, Owned, None
<1>5. CASE OnStart
  <2>1. pc.op = "start" /\ pc'.op = "open" /\ UNCHANGED <<sens, conf, active, cur>> /\ None(active)
    BY <1>5, <1>a DEF OnStart, Goto, CallType
  <2>2. agg'.on = cur.on
    BY <1>5 DEF OnStart
  <2>3. conf.cached.on \subseteq cur.on /\ (cur.dev = conf.cached.dev => cur = conf.cached)
    BY <1>a, <2>1 DEF OwnerInv
  <2>4. ASSUME NEW d \in 1..MaxMade, NEW s \in Sensors, Used(d, s)
        PROVE  s \in cur.on /\ d = conf.cached.dev /\ s \in conf.cached.on
    BY <1>b, <2>1, <2>3, <2>4 DEF Owned
  <2> QED BY <2>1, <2>2, <2>3, <2>4 DEF OwnerInv, Starting, Used, Owned, None
<1>6. CASE Opened
  <2>1. pc.op = "open" /\ pc'.op = "begin" /\ UNCHANGED <<sens, conf, active, cur, agg>>
    BY <1>6, <1>a DEF Opened, Goto, CallType
  <2> QED BY <2>1 DEF OwnerInv, Starting, Used, Owned, None
<1>7. CASE Activate
  <2>1. pc.op = "begin" /\ active' = cur /\ cur' = NoProfile /\ UNCHANGED <<sens, conf, agg>> /\ pc'.op = "copy"
    BY <1>7, <1>a DEF Activate, Goto, CallType
  <2>2. /\ agg.on = cur.on /\ conf.cached.on \subseteq cur.on /\ (cur.dev = conf.cached.dev => cur = conf.cached)
        /\ cur # NoProfile /\ None(active)
    BY <1>a, <2>1 DEF OwnerInv, None
  <2>3. ASSUME NEW d \in 1..MaxMade, NEW s \in Sensors, Used(d, s)
        PROVE  s \in agg.on /\ (\/ d = conf.cached.dev /\ s \in conf.cached.on
                                \/ d = cur.dev /\ s \in cur.on)
    BY <1>b, <2>2, <2>3 DEF Owned
  <2> QED BY <2>1, <2>2, <2>3 DEF OwnerInv, Starting, Used, Owned, None
<1>8. CASE Stop \/ Disconnected \/ WaitCall \/ Poll \/ Frames \/ Timeout \/ SensorsStopped \/ StopThrows \/ StopDispatcher
  <2>1. /\ pc.op \in {"idle", "wait", "wait again", "stop", "close"} /\ pc'.op \in {"idle", "wait", "stop", "close", "reset"}
        /\ UNCHANGED <<sens, conf, active, cur>> /\ agg'.on = agg.on
    <3>1. CASE Stop \/ Disconnected
      <4>1. \E again \in BOOLEAN : StopFlow(again)
        BY <3>1 DEF Stop, Disconnected
      <4>2. pc'.op = "stop" /\ UNCHANGED <<sens, conf, active, cur>> /\ agg' = [agg EXCEPT !.accepting = FALSE, !.queue = <<>>]
        BY <4>1 DEF StopFlow
      <4>3. agg'.on = agg.on
        BY <4>2, EmptiedType, <1>a
      <4> QED BY <3>1, <4>2, <4>3 DEF Stop, Disconnected, Call
    <3>2. CASE Poll \/ Frames
      <4>1. Take /\ pc.op \in {"idle", "wait", "wait again"}
        BY <3>2 DEF Poll, Frames, Call
      <4>2. pc'.op = "idle" /\ UNCHANGED <<sens, conf, active, cur>> /\ agg' = [agg EXCEPT !.queue = <<>>]
        BY <4>1, IdleType DEF Take
      <4>3. agg'.on = agg.on
        BY <1>a, <4>2 DEF TypeOK
      <4> QED BY <4>1, <4>2, <4>3
    <3>3. CASE WaitCall \/ SensorsStopped \/ StopThrows \/ StopDispatcher
      BY <3>3, <1>a DEF WaitCall, Call, SensorsStopped, StopThrows, StopDispatcher, Goto, CallType
    <3>4. CASE Timeout
      BY <3>4, IdleType DEF Timeout
    <3> QED BY <1>8, <3>1, <3>2, <3>3, <3>4
  <2> QED BY <2>1 DEF OwnerInv, Starting, Used, Owned, None
<1>9. CASE Raise \/ Restart \/ Unplug \/ Threads \/ UNCHANGED vars
  <2>1. UNCHANGED <<sens, conf, active, cur, pc>> /\ agg'.on = agg.on
    <3>1. CASE Threads
      <4>1. PICK s \in Sensors : Arrive(s) \/ Handle(s)
        BY <3>1 DEF Threads
      <4>2. UNCHANGED <<sens, conf, active, cur, pc>>
        BY <4>1 DEF Arrive, Handle
      <4> QED BY <1>a, <4>1, <4>2, ArriveFlow, HandleFlow
    <3>2. CASE Raise \/ Restart \/ Unplug \/ UNCHANGED vars
      BY <3>2 DEF Raise, Restart, Unplug, vars
    <3> QED BY <1>9, <3>1, <3>2
  <2> QED BY <2>1 DEF OwnerInv, Starting, Used, Owned, None
<1>10. CASE Open \/ Begin
  <2>1. /\ cur.dev \in 1..MaxMade /\ Turn \in Sensors /\ Turn \in cur.on /\ UNCHANGED <<conf, active, cur, agg>>
        /\ pc'.op = pc.op /\ pc.op \in {"open", "begin"}
    BY <1>10, StartSensors DEF Open, Begin
  <2>2. \A d \in 1..MaxMade, s \in Sensors : Used(d, s)' => Used(d, s) \/ (d = cur.dev /\ s = Turn)
    <3>1. UNCHANGED sens \/ Set(cur.dev, Turn, "open") \/ Set(cur.dev, Turn, "streaming")
      BY <1>10, StartSensors
    <3> QED BY <1>a, <2>1, <3>1, SetUsed DEF Used, States
  <2>3. ASSUME NEW d \in 1..MaxMade, NEW s \in Sensors, Used(d, s)' PROVE (s \in agg.on /\ Owned(d, s))'
    <3>1. CASE Used(d, s)
      BY <1>b, <2>1, <3>1 DEF Owned, None
    <3>2. CASE d = cur.dev /\ s = Turn
      BY <2>1, <3>2 DEF Owned, OwnerInv
    <3> QED BY <2>2, <2>3, <3>1, <3>2
  <2> QED BY <2>1, <2>3 DEF OwnerInv, Starting, None
<1>11. CASE StartThrows
  <2>1. /\ pc.op \in {"open", "begin"} /\ pc'.op = "idle" /\ UNCHANGED <<conf, active, agg>>
        /\ CanRelease(cur.dev) /\ sens' = Released(cur.dev) /\ None(active) /\ cur.dev \in 1..MaxMade
    BY <1>11, <1>a, IdleType, DevicesExist DEF StartThrows, Throws, Starting
  <2>2. cur.dev = conf.cached.dev => cur = conf.cached
    BY <1>a, <2>1 DEF OwnerInv
  <2>3. ASSUME NEW d \in 1..MaxMade, NEW s \in Sensors, Used(d, s)'
        PROVE  s \in agg.on /\ d = conf.cached.dev /\ s \in conf.cached.on
    <3>1. Used(d, s) /\ (d = cur.dev => ~Abandoned(d))
      BY <1>a, <2>1, <2>3, ReleasedUsed
    <3>2. d = cur.dev => cur = conf.cached
      BY <1>c, <2>2, <3>1 DEF Abandoned
    <3> QED BY <1>b, <2>1, <3>1, <3>2 DEF Owned
  <2> QED BY <2>1, <2>3 DEF OwnerInv, Starting, Owned, None
<1>12. CASE StopSensor \/ CloseSensor
  <2>1. /\ ~None(active) /\ active.dev \in 1..MaxMade /\ Turn \in Sensors
        /\ UNCHANGED <<active, conf, cur, agg>> /\ pc'.op = pc.op /\ pc.op \in {"stop", "close"}
    BY <1>12, StopSensors DEF StopSensor, CloseSensor
  <2>2. \A d \in 1..MaxMade, s \in Sensors : Used(d, s)' => Used(d, s)
    <3>1. UNCHANGED sens \/ (Used(active.dev, Turn) /\ Set(active.dev, Turn, "open")) \/ Set(active.dev, Turn, "closed")
      BY <1>12, StopSensors
    <3> QED BY <1>a, <2>1, <3>1, SetUsed DEF Used, States
  <2> QED BY <2>1, <2>2 DEF OwnerInv, Starting, Owned, None
<1>13. CASE Reset
  <2>1. /\ pc.op = "reset" /\ CanRelease(active.dev) /\ sens' = Released(active.dev) /\ active' = NoProfile
        /\ UNCHANGED <<conf, cur, agg>> /\ ~None(active) /\ active.dev \in 1..MaxMade
    BY <1>13, <1>a, DevicesExist DEF Reset
  <2>2. pc'.op \in {"idle", "reconnect"}
    <3>1. CASE pc.again
      <4>1. pc' = [pc EXCEPT !.op = "reconnect"]
        BY <1>13, <3>1 DEF Reset
      <4> QED BY <1>a, <4>1 DEF CallType
    <3>2. CASE ~pc.again
      BY <1>13, <3>2, IdleType DEF Reset
    <3> QED BY <3>1, <3>2
  <2>3. active.dev = conf.cached.dev => active = conf.cached
    BY <2>1 DEF OwnerInv
  <2>4. ASSUME NEW d \in 1..MaxMade, NEW s \in Sensors, Used(d, s)'
        PROVE  s \in agg.on /\ d = conf.cached.dev /\ s \in conf.cached.on
    <3>1. Used(d, s) /\ (d = active.dev => ~Abandoned(d))
      BY <1>a, <2>1, <2>4, ReleasedUsed
    <3>2. d = active.dev => active = conf.cached
      BY <1>c, <2>3, <3>1 DEF Abandoned
    <3> QED BY <1>b, <2>1, <3>1, <3>2 DEF Owned
  <2> QED BY <2>1, <2>2, <2>4 DEF OwnerInv, Starting, Owned, None
<1>14. CASE EndOfFile
  <2>1. UNCHANGED <<active, conf, pc, cur, agg>>
    BY <1>14 DEF EndOfFile
  <2>2. \A d \in 1..MaxMade, s \in Sensors : Used(d, s)' => Used(d, s)
    BY <1>14, <1>a DEF EndOfFile, Used, SensType
  <2> QED BY <2>1, <2>2 DEF OwnerInv, Starting, Owned, None
<1>15. CASE Reopen \/ Rebegin
  <2>1. /\ ~None(active) /\ active.dev \in 1..MaxMade /\ UNCHANGED <<active, conf, pc, cur, agg>>
    BY <1>15, RestartSensors
  <2>2. \A d \in 1..MaxMade, s \in Sensors : Used(d, s)' => Used(d, s) \/ (d = active.dev /\ s \in active.on)
    <3>1. UNCHANGED sens \/ \E s \in active.on \cap Sensors : Set(active.dev, s, "open") \/ Set(active.dev, s, "streaming")
      BY <1>15, RestartSensors
    <3> QED BY <1>a, <2>1, <3>1, SetUsed DEF Used, States
  <2>3. ASSUME NEW d \in 1..MaxMade, NEW s \in Sensors, Used(d, s)' PROVE (s \in agg.on /\ Owned(d, s))'
    <3>1. CASE Used(d, s)
      BY <1>b, <2>1, <3>1 DEF Owned, None
    <3>2. CASE d = active.dev /\ s \in active.on
      BY <2>1, <3>2 DEF Owned, OwnerInv, None
    <3> QED BY <2>2, <2>3, <3>1, <3>2
  <2> QED BY <2>1, <2>3 DEF OwnerInv, Starting, None
<1>16. CASE CopyConfig \/ RestartCrashes
  <2>1. /\ UNCHANGED <<sens, conf, active, cur, agg>> /\ pc.op = "copy"
        /\ pc'.op \in {"idle", "wait again", "crashed"}
    BY <1>16, <1>a, CopySteps
  <2> QED BY <2>1 DEF OwnerInv, Starting, Used, Owned, None
<1> QED BY <1>1, <1>2, <1>3, <1>4, <1>5, <1>6, <1>7, <1>8, <1>9, <1>10, <1>11, <1>12, <1>13, <1>14, <1>15, <1>16,
           StepsBySensors DEF SensorsAlone

\* A frame's number is below that of the frame the sensor's thread brings.
Below(s, k) == IF cb[s].frame = 0 THEN k <= n[s] ELSE k < n[s]

\* Frames get ahead in their order: what the application has is no newer than
\* what the aggregator has, that is older than what waits in the syncer, and
\* that than what is on the way.
NumberInv ==
  \A s \in Sensors :
    /\ agg.lastSet[s] = 0 \/ got.set[s] <= agg.lastSet[s]
    /\ Below(s, agg.lastSet[s]) /\ Below(s, got.set[s])
    /\ cb[s].frame # 0 => cb[s].frame = n[s]
HeldInv ==
  \A f \in held :
    f[1] \in Synced /\ agg.lastSet[f[1]] < f[2] /\ got.set[f[1]] < f[2] /\ Below(f[1], f[2])
QueueInv ==
  \A i \in DOMAIN agg.queue :
    /\ \A s \in Sensors : agg.queue[i][s] <= agg.lastSet[s]
    /\ \A s \in agg.on : got.set[s] <= agg.queue[i][s]
    /\ \E s \in agg.on : got.set[s] < agg.queue[i][s]
FlowInv == NumberInv /\ HeldInv /\ QueueInv

\* What the application takes.
LEMMA TakeFlow ==
  ASSUME IInv, FlowInv, agg.queue # <<>>, Take
  PROVE  /\ got'.set \in [Sensors -> Nat] /\ got'.times # got.times
         /\ \A s \in Sensors : got.set[s] <= got'.set[s] /\ (got'.set[s] <= agg.lastSet[s] \/ got'.set[s] = got.set[s])
         /\ \E s \in agg.on : got.set[s] < got'.set[s]
<1> DEFINE set == [s \in Sensors |-> IF s \in agg.on THEN Head(agg.queue)[s] ELSE got.set[s]]
<1>1. got' = [times |-> got.times + 1, set |-> set]
  BY DEF Take
<1>2. 1 \in DOMAIN agg.queue /\ Head(agg.queue) = agg.queue[1]
  BY FlowTypes DEF IInv
<1>3. \A s \in Sensors : got.set[s] \in Nat /\ agg.queue[1][s] \in Nat /\ agg.lastSet[s] \in Nat
  BY <1>2, FlowTypes, Bounds DEF IInv
<1>4. /\ \A s \in Sensors : agg.queue[1][s] <= agg.lastSet[s]
      /\ \A s \in agg.on : s \in Sensors /\ got.set[s] <= agg.queue[1][s]
      /\ \E s \in agg.on : got.set[s] < agg.queue[1][s]
  BY <1>2, FlowTypes DEF FlowInv, QueueInv, IInv
<1>5. \A s \in Sensors : set[s] = IF s \in agg.on THEN agg.queue[1][s] ELSE got.set[s]
  BY <1>2
<1>6. set \in [Sensors -> Nat]
  BY <1>2, <1>3
<1> HIDE DEF set
<1>7. got'.set = set /\ got'.times = got.times + 1 /\ got.times \in Nat
  BY <1>1 DEF IInv, TypeOK
<1> QED BY <1>3, <1>4, <1>5, <1>6, <1>7

\* The numbers keep their order.
LEMMA FlowStep ==
  ASSUME IInv, InsideInv, OwnerInv, FlowInv, [Next]_vars
  PROVE  FlowInv'
<1>a. /\ \A s \in Sensors : /\ n[s] \in Nat /\ got.set[s] \in Nat /\ agg.lastSet[s] \in Nat /\ cb[s].frame \in Nat
      /\ \A f \in held : f[1] \in Sensors /\ f[2] \in Nat
      /\ \A s \in agg.on : s \in Sensors
      /\ \A i \in DOMAIN agg.queue, s \in Sensors : agg.queue[i][s] \in Nat
  BY FlowTypes, Bounds DEF IInv
<1>b. \A s \in Sensors :
        /\ agg.lastSet[s] = 0 \/ got.set[s] <= agg.lastSet[s]
        /\ agg.lastSet[s] <= n[s] /\ got.set[s] <= n[s]
        /\ cb[s].frame # 0 => cb[s].frame = n[s] /\ agg.lastSet[s] < n[s] /\ got.set[s] < n[s]
  BY <1>a DEF FlowInv, NumberInv, Below
<1>c. \A f \in held :
        /\ f[1] \in Synced /\ agg.lastSet[f[1]] < f[2] /\ got.set[f[1]] < f[2]
        /\ f[2] <= n[f[1]] /\ (cb[f[1]].frame # 0 => f[2] < n[f[1]])
  BY <1>a DEF FlowInv, HeldInv, Below
<1>1. CASE UNCHANGED <<agg, flow, base, got>>
  BY <1>1 DEF flow, FlowInv, NumberInv, HeldInv, QueueInv, Below
<1>2. CASE Emptied
  <2>1. UNCHANGED <<held, cb, n>> /\ agg'.queue = <<>> /\ agg'.lastSet = agg.lastSet
    BY <1>2 DEF Emptied, flow
  <2>2. \A s \in Sensors : got'.set[s] \in Nat /\ (got'.set[s] <= agg.lastSet[s] \/ got'.set[s] = got.set[s])
    BY <1>2, <1>a, TakeFlow DEF Emptied
  <2>3. NumberInv'
    BY <1>a, <1>b, <2>1, <2>2 DEF NumberInv, Below
  <2>4. HeldInv'
    BY <1>a, <1>c, <2>1, <2>2 DEF HeldInv, Below
  <2>5. QueueInv'
    BY <2>1 DEF QueueInv
  <2> QED BY <2>3, <2>4, <2>5 DEF FlowInv
<1>3. CASE OnStart
  <2>1. /\ held' = {} /\ UNCHANGED <<n, cb, got>>
        /\ agg' = [id |-> agg.id + 1, on |-> cur.on, accepting |-> TRUE, lastSet |-> Zero, queue |-> <<>>]
    BY <1>3 DEF OnStart
  <2>2. agg'.queue = <<>> /\ \A s \in Sensors : agg'.lastSet[s] = 0
    BY <2>1 DEF Zero
  <2>3. NumberInv'
    BY <1>a, <1>b, <2>1, <2>2 DEF NumberInv, Below
  <2> QED BY <2>1, <2>2, <2>3 DEF FlowInv, HeldInv, QueueInv
<1>4. ASSUME NEW s \in Sensors, Arrive(s) PROVE FlowInv'
  <2>1. /\ cb[s].frame = 0 /\ cb'[s].frame = n[s] + 1 /\ n'[s] = n[s] + 1
        /\ \A t \in Sensors : t # s => cb'[t] = cb[t] /\ n'[t] = n[t]
        /\ UNCHANGED <<agg, held, got>>
    BY <1>4, ArriveFlow DEF IInv
  <2>2. NumberInv'
    BY <1>a, <1>b, <2>1 DEF NumberInv, Below
  <2>3. HeldInv'
    BY <1>a, <1>c, <2>1 DEF HeldInv, Below
  <2>4. QueueInv'
    BY <2>1 DEF FlowInv, QueueInv
  <2> QED BY <2>2, <2>3, <2>4 DEF FlowInv
<1>5. ASSUME NEW s \in Sensors, Handle(s) PROVE FlowInv'
  <2>1. /\ cb[s].frame # 0 /\ cb'[s].frame = 0 /\ UNCHANGED <<n, got>> /\ agg'.on = agg.on
        /\ \A t \in Sensors : t # s => cb'[t] = cb[t]
        /\ agg'.queue = agg.queue \/ (agg'.queue = <<agg'.lastSet>> /\ Complete(agg'.lastSet))
        /\ Waits(s) \in SUBSET (Sensors \X (1..MaxFrames))
        /\ ComesOut(s) \/ IsHeld(s) \/ IsAlone(s) \/ IsDropped(s)
    BY <1>5, HandleFlow, HandleCases DEF IInv
  <2>2. cb[s].frame = n[s] /\ agg.lastSet[s] < n[s] /\ got.set[s] < n[s] /\ s \in agg.on
    BY <1>b, <2>1 DEF InsideInv, OwnerInv
  <2>3. \A f \in Waits(s) :
          /\ f[1] \in Sensors /\ f[2] \in Nat /\ agg.lastSet[f[1]] < f[2] /\ got.set[f[1]] < f[2]
          /\ f[2] <= n[f[1]] /\ (f[1] # s /\ cb[f[1]].frame # 0 => f[2] < n[f[1]])
          /\ (f[1] = s => f[2] = n[s])
    BY <1>a, <1>c, <2>1, <2>2 DEF Waits
  \* What the aggregator's last frames become.
  <2>4. ASSUME NEW t \in Sensors
        PROVE  /\ agg'.lastSet[t] \in Nat /\ agg.lastSet[t] <= agg'.lastSet[t]
               /\ agg'.lastSet[t] # agg.lastSet[t] => got.set[t] < agg'.lastSet[t]
               /\ agg'.lastSet[t] <= n[t] /\ (t # s /\ cb[t].frame # 0 => agg'.lastSet[t] < n[t])
               /\ ComesOut(s) \/ IsAlone(s) => agg'.lastSet[s] = n[s]
               /\ IsAlone(s) /\ t # s => agg'.lastSet[t] = agg.lastSet[t]
    <3>1. CASE ComesOut(s)
      <4>1. agg'.lastSet = LastSet(Waits(s)) /\ ~IsAlone(s)
        BY <1>5, <3>1, HandleFlow DEF IInv, ComesOut, IsAlone
      <4>2. \/ \E f \in Waits(s) : f[1] = t /\ agg'.lastSet[t] = f[2]
            \/ agg'.lastSet[t] = agg.lastSet[t]
        BY <2>1, <4>1, LastSetType DEF IInv
      <4>3. agg'.lastSet[s] = n[s]
        <5>1. <<s, cb[s].frame>> \in Waits(s)
          BY DEF Waits
        <5>2. \E f \in Waits(s) : f[1] = s
          BY <5>1
        <5>3. \E f \in Waits(s) : f[1] = s /\ agg'.lastSet[s] = f[2]
          BY <2>1, <4>1, <5>2, LastSetType DEF IInv
        <5> QED BY <2>3, <5>3
      <4> QED BY <1>a, <1>b, <2>3, <4>1, <4>2, <4>3
    <3>2. CASE IsAlone(s)
      <4>1. agg'.lastSet = [agg.lastSet EXCEPT ![s] = cb[s].frame] /\ agg.lastSet \in FrameSets /\ ~ComesOut(s)
        BY <1>5, <3>2, HandleFlow DEF IInv, TypeOK, ComesOut, IsAlone
      <4>2. agg'.lastSet[t] = IF t = s THEN cb[s].frame ELSE agg.lastSet[t]
        BY <4>1 DEF FrameSets
      <4>3. agg'.lastSet[s] = cb[s].frame
        BY <4>1 DEF FrameSets
      <4> QED BY <1>a, <1>b, <2>2, <4>2, <4>3
    <3>3. CASE IsHeld(s) \/ IsDropped(s)
      <4>1. agg' = agg /\ ~IsAlone(s) /\ (ComesOut(s) => held' = {} /\ held' = Waits(s))
        BY <3>3 DEF IsHeld, IsDropped, IsAlone, ComesOut
      <4>2. ~ComesOut(s)
        BY <4>1 DEF Waits
      <4> QED BY <1>a, <1>b, <4>1, <4>2
    <3> QED BY <2>1, <3>1, <3>2, <3>3
  <2>5. NumberInv'
    BY <1>a, <1>b, <2>1, <2>2, <2>4 DEF NumberInv, Below
  <2>6. HeldInv'
    <3>1. CASE ComesOut(s)
      BY <3>1 DEF ComesOut, HeldInv
    <3>2. CASE IsHeld(s)
      <4>1. held' = Waits(s) /\ agg' = agg /\ s \in Synced
        BY <3>2 DEF IsHeld
      <4>2. \A f \in Waits(s) : f[1] \in Synced
        BY <1>c, <4>1 DEF Waits
      <4> QED BY <2>1, <2>3, <4>1, <4>2 DEF HeldInv, Below
    <3>3. CASE IsAlone(s)
      <4>1. held' = held /\ s \notin Synced
        BY <3>3 DEF IsAlone
      <4>2. \A f \in held : f[1] # s /\ f[1] \in Sensors
        BY <1>a, <1>c, <4>1
      <4>3. \A f \in held : agg'.lastSet[f[1]] = agg.lastSet[f[1]]
        BY <2>4, <3>3, <4>2
      <4> QED BY <1>c, <2>1, <4>1, <4>2, <4>3 DEF HeldInv, Below
    <3>4. CASE IsDropped(s)
      <4>1. UNCHANGED <<agg, held>>
        BY <3>4 DEF IsDropped
      <4>2. \A f \in held : f[1] # s => cb'[f[1]] = cb[f[1]]
        BY <1>a, <2>1
      <4> QED BY <1>a, <1>c, <2>1, <4>1, <4>2 DEF HeldInv, Below
    <3> QED BY <2>1, <3>1, <3>2, <3>3, <3>4
  <2>7. QueueInv'
    <3>1. CASE agg'.queue = agg.queue
      BY <1>a, <2>1, <2>4, <3>1 DEF FlowInv, QueueInv
    <3>2. CASE agg'.queue # agg.queue
      <4>1. agg'.queue = <<agg'.lastSet>> /\ Complete(agg'.lastSet)
        BY <2>1, <3>2
      <4>2. ComesOut(s) \/ IsAlone(s)
        BY <2>1, <3>2 DEF IsHeld, IsDropped
      <4>3. \A t \in agg.on : agg'.lastSet[t] # 0 /\ t \in Sensors
        BY <1>a, <4>1 DEF Complete
      <4>4. \A t \in agg.on : got.set[t] <= agg'.lastSet[t]
        BY <1>a, <1>b, <2>4, <4>3
      <4>5. got.set[s] < agg'.lastSet[s]
        BY <2>2, <2>4, <4>2
      <4>6. \A i \in DOMAIN agg'.queue : agg'.queue[i] = agg'.lastSet
        BY <4>1
      <4>7. \A t \in Sensors : agg'.lastSet[t] <= agg'.lastSet[t]
        BY <2>4
      <4> QED BY <2>1, <2>2, <4>4, <4>5, <4>6, <4>7 DEF QueueInv
    <3> QED BY <3>1, <3>2
  <2> QED BY <2>5, <2>6, <2>7 DEF FlowInv
<1> QED BY <1>1, <1>2, <1>3, <1>4, <1>5, StepsByFlow DEF Threads

\* It holds from the beginning.
LEMMA FlowInvariant == Spec => [](IInv /\ SensorsInv /\ OwnerInv /\ FlowInv)
<1>1. Init => OwnerInv /\ FlowInv
  <2> SUFFICES ASSUME Init PROVE OwnerInv /\ FlowInv
    OBVIOUS
  <2>1. /\ agg.lastSet = Zero /\ agg.queue = <<>> /\ held = {} /\ \A s \in Sensors : cb[s].frame = 0
        /\ got.set = Zero /\ n = Zero
    BY DEF Init, Out
  <2>2. pc.op = "idle" /\ None(active) /\ \A d \in 1..MaxMade, s \in Sensors : ~Used(d, s)
    BY IdleType DEF Init, None, Used
  <2>3. OwnerInv
    BY <2>2 DEF OwnerInv, Starting
  <2>4. NumberInv
    BY <2>1 DEF NumberInv, Below, Zero
  <2> QED BY <2>1, <2>3, <2>4 DEF FlowInv, HeldInv, QueueInv
<1>2. IInv /\ SensorsInv /\ OwnerInv /\ FlowInv /\ [Next]_vars => OwnerInv' /\ FlowInv'
  BY OwnerStep, FlowStep DEF SensorsInv
<1> QED BY <1>1, <1>2, SensorsInvariant, PTL DEF Spec

\* The application never gets a frame set twice, nor a stream that goes back,
\* whatever calls, losses of the device and restarts come in between, also when
\* a call has thrown: for any sensors, synced streams and numbers of frames.
THEOREM FramesetsGoOn == Spec => FramesetsAdvance
<1>1. IInv /\ FlowInv /\ [Next]_vars =>
        [got'.times # got.times => got'.set # got.set /\ \A s \in Sensors : got'.set[s] >= got.set[s]]_vars
  <2> SUFFICES ASSUME IInv, FlowInv, [Next]_vars, got'.times # got.times
               PROVE  got'.set # got.set /\ \A s \in Sensors : got'.set[s] >= got.set[s]
    OBVIOUS
  <2>1. agg.queue # <<>> /\ Take
    <3>1. ~OnStart /\ ~Threads
      BY DEF OnStart, Threads, Arrive, Handle, hist
    <3> QED BY <3>1, StepsByFlow DEF Emptied
  <2>2. /\ got'.set \in [Sensors -> Nat]
        /\ \A s \in Sensors : got.set[s] <= got'.set[s]
        /\ \E s \in agg.on : got.set[s] < got'.set[s]
    BY <2>1, TakeFlow
  <2>3. \A s \in Sensors : got.set[s] \in Nat
    BY FlowTypes, Bounds DEF IInv
  <2>4. PICK s \in Sensors : got.set[s] < got'.set[s]
    BY <2>2, FlowTypes DEF IInv
  <2>5. got'.set # got.set
    BY <2>3, <2>4
  <2>6. \A t \in Sensors : got'.set[t] >= got.set[t]
    BY <2>2, <2>3
  <2> QED BY <2>5, <2>6
<1> QED BY <1>1, FlowInvariant, PTL DEF FramesetsAdvance, Spec

===============================================================================
