--------------------------- MODULE UvcSensorProofs ----------------------------
(***************************************************************************)
(* Proofs about uvc_sensor on its device, for any number of pins, helpers  *)
(* and failing calls.                                                      *)
(*                                                                         *)
(* That a device somebody uses is powered follows from the user count only *)
(* together with two facts about where the program is: the call that holds *)
(* _configure_lock has a power object from acquire to release and at no    *)
(* other time (PhaseInv), and every user there is has been counted         *)
(* (UsersAreCounted).  BackingInv says at each step of close() what the    *)
(* capture thread it is about to join still has; KeptInv where in a call   *)
(* the profiles are that it has yet to close, CompleteInv those it has     *)
(* committed.                                                              *)
(***************************************************************************)
EXTENDS UvcSensor, FiniteSetTheorems, TLAPS

\* The call under way has its power object; between calls an open sensor has.
PhaseInv ==
  /\ apc = "acquire" => ~opened /\ ~appPower
  /\ apc = "idle" => (appPower <=> opened)
  /\ apc \in {"commit", "rollback", "onopen"} => ~opened /\ appPower
  /\ apc \in {"stream", "undo", "close", "terminated"} => opened /\ appPower
  /\ apc = "release" => appPower

\* The device is on while anybody is counted.
CountedIsPowered == count > 0 => \A p \in Pins : state[p] = "D0"

\* Buffers are those of a mapped node; a pin that captures has them, and a
\* thread; a thread that runs captures, or is being joined by a close() that has
\* not yet taken the buffers away.
BackingInv ==
  /\ \A p \in callback : state[p] = "D0"
  /\ capturing \subseteq callback
  /\ \A p \in Pins : Running(p) => p \in capturing \/ joining = p
  /\ \A p \in capturing : Running(p)
  /\ joining # None => Closing /\ joining \in (callback \cap todo) \ capturing

\* A device nobody uses is off, but for the pins that a failed call has left.
OffInv == count = 0 => \A p \in Pins \ leftover : state[p] = "D3"

\* Whatever is committed was left by a failed call, or belongs to the call or to
\* the configuration it has made.
KeptInv ==
  /\ (apc \in {"idle", "acquire"} /\ ~opened) \/ apc = "release" => callback \subseteq leftover
  /\ apc = "commit" => todo \subseteq config /\ callback \subseteq (config \ todo) \cup leftover
  /\ apc \in {"onopen", "stream", "terminated"} \/ (apc = "idle" /\ opened)
       => callback \subseteq config \cup leftover
  /\ Closing => callback \subseteq todo \cup leftover

\* What open() has passed by has its buffers and, in stream_on(), its thread.
CompleteInv ==
  /\ apc = "commit" => config \ todo \subseteq callback \cap configured
  /\ apc = "onopen" => todo = {} /\ config \subseteq callback \cap configured
  /\ apc = "stream" => config \subseteq callback /\ \A p \in config \ todo : thread[p] # "none"
  /\ apc = "idle" /\ opened => config \subseteq callback /\ \A p \in config : thread[p] # "none"

IInv ==
  /\ TypeOK /\ UsersAreCounted /\ PhaseInv /\ CountedIsPowered
  /\ BackingInv /\ OffInv /\ KeptInv /\ CompleteInv

-------------------------------------------------------------------------------
(***************************************************************************)
(* Power                                                                   *)
(***************************************************************************)

\* The number of helpers is a number.
LEMMA HelpersAreFinite ==
  ASSUME TypeOK
  PROVE  IsFiniteSet(powered) /\ Cardinality(powered) \in Nat
<1>1. IsFiniteSet(powered)
  BY SensorAssumption, FS_Subset DEF TypeOK
<1> QED
  BY <1>1, FS_CardinalityType

\* What acquire_power() does whether it returns or throws: it maps pins, and
\* touches no buffer and no thread.
LEMMA PowerUpKeeps ==
  ASSUME TypeOK, NEW on \in SUBSET Pins, PowerUp(on)
  PROVE  /\ state' \in [Pins -> {"D0", "D3"}] /\ pipe' \subseteq Pins
         /\ \A p \in Pins : state[p] = "D0" => state'[p] = "D0"
         /\ \A p \in on : state'[p] = "D0"
  BY DEF PowerUp, TypeOK

\* acquire_power() that returns leaves the device on.
LEMMA AcquirePowers ==
  ASSUME TypeOK, CountedIsPowered, Acquire
  PROVE  /\ count' = count + 1 /\ count' \in Nat
         /\ state' \in [Pins -> {"D0", "D3"}] /\ pipe' \subseteq Pins
         /\ \A p \in Pins : state'[p] = "D0"
         /\ UNCHANGED <<leftover, faults>>
<1>1. CASE count = 0
  <2>1. PowerUp(Pins)
    BY <1>1 DEF Acquire
  <2> QED
    BY <2>1, PowerUpKeeps DEF Acquire, TypeOK
<1>2. CASE count # 0
  BY <1>2 DEF Acquire, TypeOK, CountedIsPowered
<1> QED
  BY <1>1, <1>2

\* acquire_power() that throws takes its count back.
LEMMA AcquireThrowsKeeps ==
  ASSUME TypeOK, AcquireThrows
  PROVE  /\ count = 0 /\ count' = 0
         /\ state' \in [Pins -> {"D0", "D3"}] /\ pipe' \subseteq Pins
         /\ leftover' \subseteq Pins /\ faults' \in 0..MaxFaults
         /\ leftover \subseteq leftover'
         /\ \A p \in Pins : state[p] = "D0" => state'[p] = "D0"
         /\ \A p \in Pins \ leftover' : state'[p] = state[p]
<1>1. PICK on \in SUBSET Pins : PowerUp(on) /\ leftover' = leftover \cup on
  BY DEF AcquireThrows
<1>2. faults' \in 0..MaxFaults
  BY SensorAssumption DEF AcquireThrows, Fault, TypeOK
<1>3. \A p \in Pins \ leftover' : state'[p] = state[p]
  BY <1>1 DEF PowerUp, TypeOK
<1> QED
  BY <1>1, <1>2, <1>3, PowerUpKeeps DEF AcquireThrows, TypeOK

\* set_power_state( D3 ), complete or not: a pin that is unmapped has no buffers
\* and no thread any more, nor has one that stopped at the unmapping.
LEMMA PowerDownKeeps ==
  ASSUME TypeOK, BackingInv, joining = None, NEW off \in SUBSET Pins, PowerDown(off)
  PROVE  /\ state' \in [Pins -> {"D0", "D3"}]
         /\ callback' \subseteq Pins /\ capturing' \subseteq Pins /\ started' \subseteq Pins
         /\ pipe' \subseteq Pins /\ leftover' \subseteq Pins /\ faults' \in 0..MaxFaults
         /\ thread' \in [Pins -> {"none", "polling", "callback", "ended"}]
         /\ \A p \in callback' : state'[p] = "D0"
         /\ capturing' \subseteq callback'
         /\ \A p \in Pins : Running(p)' <=> p \in capturing'
         /\ \A p \in Pins \ leftover' : state'[p] = "D3"
         /\ callback' \subseteq leftover'
<1> DEFINE on == {p \in Pins : state[p] = "D0"}
<1>1. PICK bad \in SUBSET (on \ off) :
        /\ off \subseteq on
        /\ IF off = on THEN bad = {} /\ UNCHANGED faults ELSE Cardinality(bad) = 1 /\ Fault
        /\ \A p \in off \cup (bad \cap capturing) : thread[p] # "callback"
        /\ state' = [p \in Pins |-> IF p \in off THEN "D3" ELSE state[p]]
        /\ callback' \in CallbacksAfter(off, bad)
        /\ capturing' = capturing \ (off \cup bad)
        /\ started' = started \ ((off \cup bad) \cap capturing)
        /\ pipe' = (pipe \cup (bad \cap capturing)) \ off
        /\ thread' = [p \in Pins |-> IF p \in (off \cup bad) \cap capturing THEN "none" ELSE thread[p]]
        /\ leftover' = on \ off
  BY DEF PowerDown
<1>2. callback' = callback \ off \/ callback' = callback \ (off \cup bad)
  BY <1>1 DEF CallbacksAfter
<1>3. faults' \in 0..MaxFaults
  BY <1>1, SensorAssumption DEF Fault, TypeOK
<1>4. /\ state' \in [Pins -> {"D0", "D3"}]
      /\ capturing' \subseteq Pins /\ started' \subseteq Pins
      /\ pipe' \subseteq Pins /\ leftover' \subseteq Pins
      /\ thread' \in [Pins -> {"none", "polling", "callback", "ended"}]
  BY <1>1 DEF TypeOK
<1>5. callback' \subseteq Pins /\ capturing' \subseteq callback'
  BY <1>1, <1>2 DEF TypeOK, BackingInv
<1>6. \A p \in callback' : state'[p] = "D0"
  BY <1>1, <1>2 DEF TypeOK, BackingInv
<1>7. \A p \in Pins \ leftover' : state'[p] = "D3"
  BY <1>1 DEF TypeOK
<1>8. callback' \subseteq leftover'
  BY <1>1, <1>2 DEF TypeOK, BackingInv
<1>9. \A p \in capturing' : Running(p)'
  BY <1>1 DEF TypeOK, BackingInv, Running
<1>10. \A p \in Pins : Running(p)' => p \in capturing'
  <2> SUFFICES ASSUME NEW p \in Pins, Running(p)' PROVE p \in capturing'
    OBVIOUS
  <2>1. p \notin (off \cup bad) \cap capturing /\ Running(p)
    BY <1>1 DEF Running, TypeOK
  <2>2. p \in capturing
    BY <2>1, SensorAssumption DEF BackingInv
  <2> QED
    BY <1>1, <2>1, <2>2
<1> QED
  BY <1>3, <1>4, <1>5, <1>6, <1>7, <1>8, <1>9, <1>10

\* release_power() by the last user, when no thread is being joined.
LEMMA LastRelease ==
  ASSUME TypeOK, BackingInv, joining = None, count = 1, Release
  PROVE  /\ count' = 0
         /\ state' \in [Pins -> {"D0", "D3"}]
         /\ callback' \subseteq Pins /\ capturing' \subseteq Pins /\ started' \subseteq Pins
         /\ pipe' \subseteq Pins /\ leftover' \subseteq Pins /\ faults' \in 0..MaxFaults
         /\ thread' \in [Pins -> {"none", "polling", "callback", "ended"}]
         /\ \A p \in callback' : state'[p] = "D0"
         /\ capturing' \subseteq callback'
         /\ \A p \in Pins : Running(p)' <=> p \in capturing'
         /\ \A p \in Pins \ leftover' : state'[p] = "D3"
         /\ callback' \subseteq leftover'
<1>1. PICK off \in SUBSET Pins : PowerDown(off)
  BY DEF Release
<1>2. count' = 0
  BY DEF Release
<1> QED
  BY <1>1, <1>2, PowerDownKeeps

-------------------------------------------------------------------------------
(***************************************************************************)
(* The steps                                                               *)
(***************************************************************************)

\* A helper takes its power object, or its constructor throws.
LEMMA HelperAcquiresStep ==
  ASSUME IInv, NEW h \in Helpers, HelperAcquires(h)
  PROVE  IInv'
<1>1. IsFiniteSet(powered) /\ Cardinality(powered) \in Nat
  BY HelpersAreFinite DEF IInv
<1>2. /\ h \notin powered
      /\ UNCHANGED <<appPower, opened, streaming, config, apc, todo, joining, configured>>
      /\ UNCHANGED <<callback, capturing, started, thread>>
  BY DEF HelperAcquires, lvars
<1>3. PhaseInv' /\ CompleteInv'
  BY <1>2 DEF IInv, PhaseInv, CompleteInv
<1>4. CASE Acquire /\ powered' = powered \cup {h}
  <2>1. Cardinality(powered') = Cardinality(powered) + 1
    BY <1>1, <1>2, <1>4, FS_AddElement
  <2>2. count' = count + 1 /\ count' > 0 /\ UNCHANGED leftover
    BY <1>4 DEF Acquire, IInv, TypeOK
  <2>3. UsersAreCounted'
    BY <1>1, <1>2, <2>1, <2>2 DEF IInv, UsersAreCounted
  <2>4. TypeOK' /\ CountedIsPowered' /\ BackingInv'
    BY <1>2, <1>4, AcquirePowers DEF IInv, TypeOK, CountedIsPowered, BackingInv, Running, Closing
  <2>5. OffInv' /\ KeptInv'
    BY <1>2, <2>2 DEF IInv, OffInv, KeptInv, Closing
  <2> QED
    BY <1>3, <2>3, <2>4, <2>5 DEF IInv
<1>5. CASE AcquireThrows /\ UNCHANGED powered
  <2>1. UsersAreCounted'
    BY <1>2, <1>5, AcquireThrowsKeeps DEF IInv, UsersAreCounted
  <2>2. TypeOK' /\ CountedIsPowered' /\ BackingInv'
    BY <1>2, <1>5, AcquireThrowsKeeps DEF IInv, TypeOK, CountedIsPowered, BackingInv, Running, Closing
  <2>3. leftover \subseteq leftover' /\ OffInv'
    BY <1>5, AcquireThrowsKeeps DEF IInv, OffInv
  <2>4. KeptInv'
    BY <1>2, <2>3 DEF IInv, KeptInv, Closing
  <2> QED
    BY <1>3, <2>1, <2>2, <2>3, <2>4 DEF IInv
<1> QED
  BY <1>4, <1>5 DEF HelperAcquires

\* A helper's power object goes.  While a call has one of its own the device is
\* left alone, in particular the thread that a close() joins.
LEMMA HelperReleasesStep ==
  ASSUME IInv, NEW h \in Helpers, HelperReleases(h)
  PROVE  IInv'
<1>1. IsFiniteSet(powered) /\ Cardinality(powered) \in Nat
  BY HelpersAreFinite DEF IInv
<1>2. /\ h \in powered /\ powered' = powered \ {h} /\ Release
      /\ UNCHANGED <<appPower, opened, streaming, config, apc, todo, joining, configured>>
  BY DEF HelperReleases, lvars
<1>3. PhaseInv'
  BY <1>2 DEF IInv, PhaseInv
<1>4. Cardinality(powered') = Cardinality(powered) - 1 /\ Cardinality(powered') \in Nat
  <2>1. Cardinality(powered') = Cardinality(powered) - 1 /\ IsFiniteSet(powered')
    BY <1>1, <1>2, FS_RemoveElement
  <2> QED
    BY <2>1, FS_CardinalityType
<1>5. count > 0 /\ count' = count - 1 /\ UsersAreCounted'
  BY <1>1, <1>2, <1>4 DEF IInv, UsersAreCounted, Release
<1>6. CASE count = 1
  <2>1. ~appPower
    BY <1>1, <1>4, <1>6 DEF IInv, UsersAreCounted
  <2>2. apc \in {"idle", "acquire"} /\ ~opened
    BY <2>1 DEF IInv, TypeOK, PhaseInv
  <2>3. joining = None
    BY <2>2 DEF IInv, BackingInv, Closing
  <2>4. TypeOK' /\ CountedIsPowered' /\ OffInv'
    BY <1>2, <1>6, <2>3, LastRelease DEF IInv, TypeOK, CountedIsPowered, OffInv
  <2>5. BackingInv'
    BY <1>2, <1>6, <2>3, LastRelease DEF IInv, TypeOK, BackingInv
  <2>6. KeptInv' /\ CompleteInv'
    BY <1>2, <1>6, <2>2, <2>3, LastRelease DEF IInv, KeptInv, CompleteInv, Closing
  <2> QED
    BY <1>3, <1>5, <2>4, <2>5, <2>6 DEF IInv
<1>7. CASE count # 1
  <2>1. UNCHANGED <<state, callback, capturing, started, pipe, thread, leftover, faults>>
    BY <1>2, <1>7 DEF Release, dvars
  <2>2. count' \in Nat /\ count' > 0
    BY <1>5, <1>7 DEF IInv, TypeOK
  <2>3. TypeOK' /\ CountedIsPowered' /\ OffInv'
    BY <1>2, <1>5, <2>1, <2>2 DEF IInv, TypeOK, CountedIsPowered, OffInv
  <2>4. BackingInv' /\ KeptInv' /\ CompleteInv'
    BY <1>2, <2>1 DEF IInv, BackingInv, KeptInv, CompleteInv, Running, Closing
  <2> QED
    BY <1>3, <1>5, <2>3, <2>4 DEF IInv
<1> QED
  BY <1>6, <1>7

\* open() takes its power object.
LEMMA OpenAcquiresStep == IInv /\ OpenAcquires => IInv'
<1> SUFFICES ASSUME IInv, OpenAcquires PROVE IInv'
  OBVIOUS
<1>1. IsFiniteSet(powered) /\ Cardinality(powered) \in Nat
  BY HelpersAreFinite DEF IInv
<1>2. /\ apc = "acquire" /\ ~opened /\ ~appPower
      /\ UNCHANGED <<powered, opened, streaming, config, joining, configured>>
      /\ UNCHANGED <<callback, capturing, started, thread>>
  BY DEF OpenAcquires, IInv, PhaseInv
<1>3. joining = None
  BY <1>2 DEF IInv, BackingInv, Closing
<1>4. CASE Acquire /\ appPower' = TRUE /\ apc' = "commit" /\ todo' = config
  <2>1. UsersAreCounted' /\ count' > 0
    BY <1>1, <1>2, <1>4 DEF IInv, UsersAreCounted, Acquire
  <2>2. TypeOK' /\ PhaseInv' /\ CountedIsPowered'
    BY <1>2, <1>4, AcquirePowers DEF IInv, TypeOK, PhaseInv, CountedIsPowered
  <2>3. BackingInv'
    BY <1>2, <1>3, <1>4, AcquirePowers DEF IInv, TypeOK, BackingInv, Running
  <2>4. OffInv' /\ KeptInv' /\ CompleteInv'
    BY <1>2, <1>4, <2>1, AcquirePowers DEF IInv, OffInv, KeptInv, CompleteInv, Closing
  <2> QED
    BY <2>1, <2>2, <2>3, <2>4 DEF IInv
<1>5. CASE AcquireThrows /\ apc' = "idle" /\ UNCHANGED <<appPower, todo>>
  <2>1. UsersAreCounted'
    BY <1>2, <1>5, AcquireThrowsKeeps DEF IInv, UsersAreCounted
  <2>2. TypeOK' /\ PhaseInv' /\ CountedIsPowered'
    BY <1>2, <1>5, AcquireThrowsKeeps DEF IInv, TypeOK, PhaseInv, CountedIsPowered
  <2>3. BackingInv'
    BY <1>2, <1>3, <1>5, AcquireThrowsKeeps DEF IInv, TypeOK, BackingInv, Running
  <2>4. OffInv' /\ KeptInv' /\ CompleteInv'
    BY <1>2, <1>5, AcquireThrowsKeeps DEF IInv, OffInv, KeptInv, CompleteInv, Closing
  <2> QED
    BY <2>1, <2>2, <2>3, <2>4 DEF IInv
<1> QED
  BY <1>4, <1>5 DEF OpenAcquires

\* The power object of a failed open(), or of the sensor, goes.
LEMMA AppReleasesStep == IInv /\ AppReleases => IInv'
<1> SUFFICES ASSUME IInv, AppReleases PROVE IInv'
  OBVIOUS
<1>1. IsFiniteSet(powered) /\ Cardinality(powered) \in Nat
  BY HelpersAreFinite DEF IInv
<1>2. /\ apc = "release" /\ appPower /\ Release
      /\ appPower' = FALSE /\ opened' = FALSE /\ apc' = "idle"
      /\ UNCHANGED <<powered, streaming, config, todo, joining, configured>>
  BY DEF AppReleases, IInv, PhaseInv, lvars
<1>3. joining = None /\ callback \subseteq leftover
  BY <1>2 DEF IInv, BackingInv, KeptInv, Closing
<1>4. count > 0 /\ count' = count - 1 /\ UsersAreCounted'
  BY <1>1, <1>2 DEF IInv, UsersAreCounted, Release
<1>5. PhaseInv' /\ CompleteInv'
  BY <1>2 DEF PhaseInv, CompleteInv
<1>6. appPower' \in BOOLEAN /\ opened' \in BOOLEAN
  BY <1>2, Zenon
<1>7. CASE count = 1
  <2>1. TypeOK' /\ CountedIsPowered' /\ OffInv'
    <3>1. TypeOK'
      BY <1>2, <1>3, <1>7, <1>6, LastRelease DEF IInv, TypeOK
    <3>2. CountedIsPowered' /\ OffInv'
      BY <1>2, <1>3, <1>7, LastRelease DEF IInv, CountedIsPowered, OffInv
    <3> QED
      BY <3>1, <3>2
  <2>2. BackingInv'
    BY <1>2, <1>3, <1>7, LastRelease DEF IInv, TypeOK, BackingInv
  <2>3. KeptInv'
    BY <1>2, <1>3, <1>7, LastRelease DEF IInv, KeptInv, Closing
  <2> QED
    BY <1>4, <1>5, <2>1, <2>2, <2>3 DEF IInv
<1>8. CASE count # 1
  <2>1. UNCHANGED <<state, callback, capturing, started, pipe, thread, leftover, faults>>
    BY <1>2, <1>8 DEF Release, dvars
  <2>2. count' \in Nat /\ count' > 0
    BY <1>4, <1>8 DEF IInv, TypeOK
  <2>3. TypeOK' /\ CountedIsPowered' /\ OffInv'
    <3>1. TypeOK'
      BY <1>2, <1>6, <2>1, <2>2 DEF IInv, TypeOK
    <3>2. CountedIsPowered' /\ OffInv'
      BY <1>4, <2>1, <2>2 DEF IInv, TypeOK, CountedIsPowered, OffInv
    <3> QED
      BY <3>1, <3>2
  <2>4. BackingInv' /\ KeptInv'
    BY <1>2, <1>3, <2>1 DEF IInv, BackingInv, KeptInv, Running, Closing
  <2> QED
    BY <1>4, <1>5, <2>3, <2>4 DEF IInv
<1> QED
  BY <1>7, <1>8

\* The other steps of a call leave the power as it is.
LEMMA CallStep ==
  ASSUME IInv, Call
  PROVE  IInv'
<1> USE DEF IInv, TypeOK, UsersAreCounted, CountedIsPowered, PhaseInv, BackingInv,
            OffInv, KeptInv, CompleteInv, pvars, avars, lvars, dvars
<1>0. CASE OpenAcquires \/ AppReleases
  BY <1>0, OpenAcquiresStep, AppReleasesStep
<1>1. CASE Committed \/ OnOpen \/ OpenReturns \/ Closed
  <2>1. CASE Committed
    BY <2>1 DEF Committed, Running, Closing
  <2>2. CASE OnOpen
    BY <2>2 DEF OnOpen, Running, Closing
  <2>3. CASE OpenReturns
    BY <2>3 DEF OpenReturns, Running, Closing
  <2>4. CASE Closed
    BY <2>4 DEF Closed, Running, Closing
  <2> QED
    BY <1>1, <2>1, <2>2, <2>3, <2>4
<1>2. ASSUME NEW p \in Pins, Commit(p) \/ CommitThrows(p) PROVE IInv'
  <2>1. CASE Commit(p)
    <3>1. state[p] = "D0"
      <4>1. count > 0
        BY <2>1, HelpersAreFinite DEF Commit
      <4> QED
        BY <4>1
    <3>2. TypeOK' /\ UsersAreCounted' /\ PhaseInv' /\ CountedIsPowered' /\ OffInv'
      BY <2>1 DEF Commit
    <3>3. BackingInv'
      BY <2>1, <3>1 DEF Commit, Running, Closing
    <3>4. KeptInv' /\ CompleteInv'
      BY <2>1 DEF Commit, Closing
    <3> QED
      BY <3>2, <3>3, <3>4
  <2>2. CASE CommitThrows(p)
    BY <2>2, SensorAssumption DEF CommitThrows, Fault, Running, Closing
  <2> QED
    BY <1>2, <2>1, <2>2
<1>3. ASSUME NEW p \in Pins, StreamOn(p) \/ StreamOnTerminates(p) \/ StreamOnThrows(p) PROVE IInv'
  <2>1. CASE StreamOn(p)
    BY <2>1 DEF StreamOn, Running, Closing
  <2>2. CASE StreamOnTerminates(p)
    BY <2>2 DEF StreamOnTerminates, Running, Closing
  <2>3. CASE StreamOnThrows(p)
    BY <2>3, SensorAssumption DEF StreamOnThrows, Fault, Running, Closing
  <2> QED
    BY <1>3, <2>1, <2>2, <2>3
<1>4. ASSUME NEW p \in Pins, SignalStop(p) PROVE IInv'
  BY <1>4, SensorAssumption DEF SignalStop, Running, Closing
<1>5. ASSUME NEW p \in Pins, FinishClose(p) PROVE IInv'
  <2>1. /\ UNCHANGED <<count, state, powered, appPower, opened, streaming, config, apc, capturing, started, pipe, faults>>
        /\ p \notin capturing /\ joining' = None
        /\ callback' = callback \ {p} /\ todo' = todo \ {p}
        /\ configured' = configured \ {p} /\ leftover' = leftover \ {p}
    BY <1>5, SensorAssumption DEF FinishClose, CanFinish
  <2>2. thread' \in [Pins -> {"none", "polling", "callback", "ended"}]
    BY <1>5 DEF FinishClose, Joined
  <2>3. ASSUME NEW q \in capturing PROVE Running(q)'
    BY <1>5, <2>1, <2>3 DEF FinishClose, CanFinish, Joined, Running
  <2>4. Closing /\ count > 0
    BY <1>5, HelpersAreFinite DEF FinishClose, CanFinish, Closing
  <2>5. ASSUME NEW q \in Pins, Running(q)' PROVE q \in capturing'
    <3>1. Running(q) /\ joining # q
      BY <1>5, <2>5, SensorAssumption DEF FinishClose, CanFinish, Joined, Running
    <3> QED
      BY <2>1, <3>1
  <2> QED
    <3>1. TypeOK' /\ UsersAreCounted' /\ PhaseInv' /\ CountedIsPowered'
      BY <2>1, <2>2
    <3>2. BackingInv'
      BY <1>5, <2>1, <2>5, <2>3 DEF Running, Closing
    <3>3. OffInv' /\ KeptInv' /\ CompleteInv'
      BY <1>5, <2>1, <2>4 DEF CanFinish, FinishClose, Closing
    <3> QED
      BY <3>1, <3>2, <3>3
<1>6. ASSUME NEW p \in Pins, CloseThrows(p) PROVE IInv'
  BY <1>6, SensorAssumption DEF CloseThrows, Joined, Fault, Running, Closing
<1> QED
  BY <1>0, <1>1, <1>2, <1>3, <1>4, <1>5, <1>6 DEF Call

\* What the user calls.
LEMMA UserStep ==
  ASSUME IInv, User
  PROVE  IInv'
<1> USE DEF IInv, TypeOK, UsersAreCounted, CountedIsPowered, PhaseInv, BackingInv,
            OffInv, KeptInv, CompleteInv, pvars, lvars, dvars, Running, Closing
<1>1. CASE Open
  BY <1>1 DEF Open
<1>2. CASE Start
  BY <1>2 DEF Start
<1>3. CASE Stop
  BY <1>3 DEF Stop
<1>4. CASE Close
  BY <1>4 DEF Close
<1> QED
  BY <1>1, <1>2, <1>3, <1>4 DEF User

\* The capture thread of a pin.
LEMMA CaptureStep ==
  ASSUME IInv, NEW p \in Pins, Deliver(p) \/ CaptureThread(p) \/ SelectFails(p)
  PROVE  IInv'
<1> USE DEF IInv, TypeOK, UsersAreCounted, CountedIsPowered, PhaseInv, BackingInv,
            OffInv, KeptInv, CompleteInv, pvars, avars, lvars, Running, Closing
<1>1. CASE Deliver(p)
  BY <1>1 DEF Deliver
<1>2. CASE CallbackEnds(p)
  BY <1>2 DEF CallbackEnds
<1>3. CASE ThreadEnds(p)
  BY <1>3 DEF ThreadEnds
<1>4. CASE SelectFails(p)
  BY <1>4, SensorAssumption DEF SelectFails, Fault
<1> QED
  BY <1>1, <1>2, <1>3, <1>4 DEF CaptureThread

\* The invariant is inductive.
LEMMA SensorInvariant == Spec => []IInv
<1>1. Init => IInv
  <2> SUFFICES ASSUME Init PROVE IInv
    OBVIOUS
  <2>1. UsersAreCounted
    BY FS_EmptySet DEF Init, UsersAreCounted
  <2>2. TypeOK
    <3>1. faults \in 0..MaxFaults /\ count \in Nat
      BY SensorAssumption DEF Init
    <3>2. appPower \in BOOLEAN /\ opened \in BOOLEAN /\ streaming \in BOOLEAN
      BY Zenon DEF Init
    <3> QED
      BY <3>1, <3>2 DEF Init, TypeOK
  <2>3. PhaseInv /\ CountedIsPowered /\ BackingInv
    BY DEF Init, PhaseInv, CountedIsPowered, BackingInv, Running
  <2>4. OffInv /\ KeptInv /\ CompleteInv
    BY DEF Init, OffInv, KeptInv, CompleteInv, Closing
  <2> QED
    BY <2>1, <2>2, <2>3, <2>4 DEF IInv
<1>2. IInv /\ [Next]_vars => IInv'
  <2> SUFFICES ASSUME IInv, [Next]_vars PROVE IInv'
    OBVIOUS
  <2>1. CASE Call
    BY <2>1, CallStep
  <2>2. CASE User
    BY <2>2, UserStep
  <2>3. CASE Helper
    BY <2>3, HelperAcquiresStep, HelperReleasesStep DEF Helper
  <2>4. CASE Capture
    BY <2>4, CaptureStep DEF Capture
  <2>5. CASE UNCHANGED vars
    BY <2>5 DEF vars, pvars, avars, lvars, dvars, IInv, TypeOK, UsersAreCounted,
                CountedIsPowered, PhaseInv, BackingInv, OffInv, KeptInv,
                CompleteInv, Running, Closing
  <2> QED
    BY <2>1, <2>2, <2>3, <2>4, <2>5 DEF Next, Terminated
<1> QED
  BY <1>1, <1>2, PTL DEF Spec

-------------------------------------------------------------------------------
(***************************************************************************)
(* The theorems                                                            *)
(***************************************************************************)

\* Every variable stays in its type.
THEOREM SensorTypeCorrect == Spec => []TypeOK
<1>1. IInv => TypeOK
  BY DEF IInv
<1> QED
  BY <1>1, SensorInvariant, PTL

\* acquire_power() and release_power() keep an exact count of the power
\* objects, whichever calls of open(), close() and the helpers throw.
THEOREM CountIsOfUsers == Spec => []UsersAreCounted
<1>1. IInv => UsersAreCounted
  BY DEF IInv
<1> QED
  BY <1>1, SensorInvariant, PTL

\* Nobody who holds a power object finds a pin of the device off.
THEOREM HoldersHavePower == Spec => []PoweredWhileHeld
<1>1. IInv => PoweredWhileHeld
  <2> SUFFICES ASSUME IInv, powered # {} \/ appPower
               PROVE  \A p \in Pins : state[p] = "D0"
    BY DEF PoweredWhileHeld
  <2>1. IsFiniteSet(powered) /\ Cardinality(powered) \in Nat
    BY HelpersAreFinite DEF IInv
  <2>2. powered # {} => Cardinality(powered) # 0
    BY <2>1, FS_EmptySet
  <2>3. count > 0
    BY <2>1, <2>2 DEF IInv, UsersAreCounted
  <2> QED
    BY <2>3 DEF IInv, CountedIsPowered
<1> QED
  BY <1>1, SensorInvariant, PTL

\* stop_data_capture() joins the thread before close() takes the buffers and
\* set_power_state() the mapping: a capture thread that runs has both.
THEOREM CaptureThreadsAreBacked == Spec => []CaptureIsBacked
<1>1. IInv => CaptureIsBacked
  BY SensorAssumption DEF IInv, BackingInv, CaptureIsBacked, TypeOK
<1> QED
  BY <1>1, SensorInvariant, PTL
\* An open() that returned has all it was asked for, and nothing else captures.
THEOREM OpenSensorIsComplete == Spec => []OpenIsComplete
<1>1. IInv => OpenIsComplete
  BY DEF IInv, BackingInv, KeptInv, CompleteInv, OpenIsComplete
<1> QED
  BY <1>1, SensorInvariant, PTL

\* close(), and an open() that failed, leave no thread running but that of a pin
\* whose own call failed.
THEOREM ClosedSensorIsQuiet == Spec => []QuietWhenClosed
<1>1. IInv => QuietWhenClosed
  <2> SUFFICES ASSUME IInv, ~opened, apc \in {"idle", "acquire"},
                      NEW p \in Pins \ leftover, Running(p)
               PROVE  FALSE
    BY DEF QuietWhenClosed
  <2>1. joining = None
    BY DEF IInv, BackingInv, Closing
  <2>2. p \in callback
    BY <2>1, SensorAssumption DEF IInv, BackingInv
  <2> QED
    BY <2>2 DEF IInv, KeptInv
<1> QED
  BY <1>1, SensorInvariant, PTL

\* A device that nobody uses is off and keeps no profile committed.
THEOREM UnusedDeviceIsOff == Spec => []OffIsClean
<1>1. IInv => OffIsClean
  <2> SUFFICES ASSUME IInv, count = 0, NEW p \in Pins \ leftover
               PROVE  state[p] = "D3" /\ p \notin callback
    BY DEF OffIsClean
  <2>1. state[p] = "D3"
    BY DEF IInv, OffInv
  <2> QED
    BY <2>1 DEF IInv, BackingInv
<1> QED
  BY <1>1, SensorInvariant, PTL

\* The power count is of its users, who have power, and without them the device
\* is off, for any number of pins, users and failed calls.
THEOREM PowerIsOfUsers == Spec => []PowerFollowsUsers
  BY CountIsOfUsers, HoldersHavePower, UnusedDeviceIsOff, PTL DEF PowerFollowsUsers

\* An open sensor has all it was asked for and a closed one nothing, whatever
\* failed on the way.
THEOREM OpenIsTrue == Spec => []OpenTellsTheTruth
  BY OpenSensorIsComplete, ClosedSensorIsQuiet, PTL DEF OpenTellsTheTruth
==============================================================================
