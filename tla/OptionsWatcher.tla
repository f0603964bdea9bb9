---------------------------- MODULE OptionsWatcher -----------------------------
(***************************************************************************)
(* options_watcher (core/options-watcher.cpp) as a synthetic_sensor uses   *)
(* it (synthetic-options-watcher.cpp): while somebody subscribes and an    *)
(* option is registered, a thread queries the options at an interval and   *)
(* reports those that changed.                                             *)
(*                                                                         *)
(* Only _options is under _mutex: should_stop(), start(), stop() and the   *)
(* handle of the thread are not, and the callers may be several threads.   *)
(***************************************************************************)
EXTENDS Naturals, FiniteSets

CONSTANTS
  Options,   \* ids that may be registered
  Slots,     \* subscriptions there may be at a time
  Callers,   \* threads that use the watcher
  Unknown,   \* no p_last_known_value
  Null,      \* a null json value
  MaxValue,  \* bound: changes of an option
  MaxSkips   \* bound: updates for which the device gets no power

ASSUME WatcherAssumption ==
  IsFiniteSet(Options) /\ IsFiniteSet(Callers) /\ MaxValue \in Nat /\ MaxSkips \in Nat

VARIABLES
  options,      \* ids in _options
  known,        \* p_last_known_value
  subs,         \* subscribers of _on_values_changed
  destructing,  \* _destructing
  joinable,     \* _updater.joinable()
  pc,           \* the thread: "none", "first" (its first update), "check", "asleep", "woken",
                \*   "query" (inside update_options(), holding _mutex), "updated", "raising", "ended"
  first,        \* whether that update is the first one
  todo,         \* options it has yet to query
  updated,      \* updated_options: the values in it, Unknown for an option that is not
  callPc,       \* each caller: "idle", "changed", "start", "create", "erased", "stop", "stopping",
                \*   "join"; "destroyed" once the destructor is through; "terminated" ends the program
  value,        \* the option's value on the device
  failing,      \* options whose query() throws for now
  told,         \* history: the value last reported, or taken as the point of departure
  missed,       \* history: options whose last recorded change was raised when nobody subscribed
  skips

tvars == <<pc, first, todo, updated>>
evars == <<value, failing>>
hvars == <<told, missed>>
wvars == <<options, known, subs, destructing, joinable, tvars, callPc, evars, hvars, skips>>

WatcherInit ==
  /\ options = {} /\ known = [o \in Options |-> Unknown]
  /\ subs = {} /\ destructing = FALSE /\ joinable = FALSE
  /\ pc = "none" /\ first = FALSE /\ todo = {} /\ updated = [o \in Options |-> Unknown]
  /\ callPc = [c \in Callers |-> "idle"]
  /\ value = [o \in Options |-> 0] /\ failing = {}
  /\ told = [o \in Options |-> Unknown] /\ missed = {} /\ skips = 0

Alive == \A c \in Callers : callPc[c] # "terminated"
Usable == Alive /\ \A c \in Callers : callPc[c] # "destroyed"
Running == pc \notin {"none", "ended"}
MutexFree == pc # "query"

\* Mutant: the destructor is no reason to stop.
should_stop_Subscribed == subs = {} \/ options = {}

should_stop == subs = {} \/ options = {} \/ destructing

Goto(c, l) == callPc' = [callPc EXCEPT ![c] = l]

-------------------------------------------------------------------------------
(***************************************************************************)
(* The callers                                                             *)
(***************************************************************************)

\* register_option() replaces what there was, with no known value.
Register(c, o) ==
  /\ Usable /\ callPc[c] = "idle" /\ ~destructing /\ MutexFree
  /\ options' = options \cup {o}
  /\ known' = [known EXCEPT ![o] = Unknown]
  /\ told' = [told EXCEPT ![o] = Unknown] /\ missed' = missed \ {o}
  /\ Goto(c, "changed")
  /\ UNCHANGED <<subs, destructing, joinable, tvars, evars, skips>>

Subscribe(c, s) ==
  /\ Usable /\ callPc[c] = "idle" /\ ~destructing
  /\ s \notin subs /\ subs' = subs \cup {s}
  /\ Goto(c, "changed")
  /\ UNCHANGED <<options, known, destructing, joinable, tvars, evars, hvars, skips>>

\* subscription::cancel(): the watcher is not told.
Cancel(c, s) ==
  /\ Usable /\ callPc[c] = "idle"
  /\ s \in subs /\ subs' = subs \ {s}
  /\ UNCHANGED <<options, known, destructing, joinable, tvars, callPc, evars, hvars, skips>>

ShouldStart(c) ==
  /\ Alive /\ callPc[c] = "changed"
  /\ Goto(c, IF should_stop THEN "idle" ELSE "start")
  /\ UNCHANGED <<options, known, subs, destructing, joinable, tvars, evars, hvars, skips>>

StartChecks(c) ==
  /\ Alive /\ callPc[c] = "start"
  /\ Goto(c, IF joinable THEN "idle" ELSE "create")
  /\ UNCHANGED <<options, known, subs, destructing, joinable, tvars, evars, hvars, skips>>

\* The thread is created; if another caller has done so meanwhile, the
\* assignment to a joinable std::thread ends the program.
Create(c) ==
  /\ Alive /\ callPc[c] = "create"
  /\ IF joinable
       THEN Goto(c, "terminated") /\ UNCHANGED <<joinable, pc>>
       ELSE Goto(c, "idle") /\ joinable' = TRUE /\ pc' = "first"
  /\ UNCHANGED <<options, known, subs, destructing, first, todo, updated, evars, hvars, skips>>

Unregister(c, o) ==
  /\ Usable /\ callPc[c] = "idle" /\ ~destructing /\ MutexFree
  /\ options' = options \ {o}
  /\ Goto(c, "erased")
  /\ UNCHANGED <<known, subs, destructing, joinable, tvars, evars, hvars, skips>>

ShouldStop(c) ==
  /\ Alive /\ callPc[c] = "erased"
  /\ Goto(c, IF should_stop THEN "stop" ELSE "idle")
  /\ UNCHANGED <<options, known, subs, destructing, joinable, tvars, evars, hvars, skips>>

\* ~options_watcher(), when nobody is inside a call any more.
Destroy(c) ==
  /\ Usable /\ ~destructing /\ \A d \in Callers : callPc[d] = "idle"
  /\ destructing' = TRUE
  /\ Goto(c, "stop")
  /\ UNCHANGED <<options, known, subs, joinable, tvars, evars, hvars, skips>>

\* stop(): the notification is lost on a thread that is not waiting.
StopNotifies(c) ==
  /\ Alive /\ callPc[c] = "stop"
  /\ pc' = IF pc = "asleep" THEN "woken" ELSE pc
  /\ Goto(c, "stopping")
  /\ UNCHANGED <<options, known, subs, destructing, joinable, first, todo, updated, evars, hvars, skips>>

Done(c) == Goto(c, IF destructing THEN "destroyed" ELSE "idle")

\* Of two callers that join the same thread one is given an error, which stop()
\* ignores.
StopChecks(c) ==
  /\ Alive /\ callPc[c] = "stopping"
  /\ IF joinable /\ \A d \in Callers : callPc[d] # "join" THEN Goto(c, "join") ELSE Done(c)
  /\ UNCHANGED <<options, known, subs, destructing, joinable, tvars, evars, hvars, skips>>

\* Mutant: the thread is let go.
Join_Detaches(c) ==
  /\ Alive /\ callPc[c] = "join"
  /\ joinable' = FALSE
  /\ Done(c)
  /\ UNCHANGED <<options, known, subs, destructing, tvars, evars, hvars, skips>>

Join(c) ==
  /\ Alive /\ callPc[c] = "join" /\ pc = "ended"
  /\ joinable' = FALSE /\ pc' = "none"
  /\ Done(c)
  /\ UNCHANGED <<options, known, subs, destructing, first, todo, updated, evars, hvars, skips>>

-------------------------------------------------------------------------------
(***************************************************************************)
(* The thread                                                              *)
(***************************************************************************)

Check ==
  /\ Alive /\ pc = "check"
  /\ pc' = IF should_stop THEN "ended" ELSE "asleep"
  /\ UNCHANGED <<options, known, subs, destructing, joinable, first, todo, updated, callPc, evars, hvars, skips>>

\* The interval is over.
Timeout ==
  /\ Alive /\ pc = "asleep"
  /\ pc' = "woken"
  /\ UNCHANGED <<options, known, subs, destructing, joinable, first, todo, updated, callPc, evars, hvars, skips>>

\* The end of update_options().  What is known after the first one is where the
\* reports depart from.
EndUpdate(isFirst, k) ==
  /\ pc' = IF isFirst THEN "check" ELSE "updated"
  /\ told' = IF isFirst THEN k ELSE told
  /\ missed' = IF isFirst THEN {} ELSE missed

\* update_options(): the sensor is powered, the options are listed.  Without
\* the sensor or its power there is nothing to report.
Begin(isFirst) ==
  /\ first' = isFirst /\ updated' = [o \in Options |-> Unknown]
  /\ \/ /\ ~should_stop
        /\ pc' = "query" /\ todo' = options
        /\ UNCHANGED <<skips, hvars>>
     \/ /\ IF should_stop THEN UNCHANGED skips ELSE skips < MaxSkips /\ skips' = skips + 1
        /\ EndUpdate(isFirst, known)
        /\ UNCHANGED todo

BeginUpdate ==
  /\ Alive
  /\ \/ pc = "first" /\ Begin(TRUE)
     \/ pc = "woken" /\ ~should_stop /\ Begin(FALSE)
  /\ UNCHANGED <<options, known, subs, destructing, joinable, callPc, evars>>

EndAfterSleep ==
  /\ Alive /\ pc = "woken" /\ should_stop
  /\ pc' = "ended"
  /\ UNCHANGED <<options, known, subs, destructing, joinable, first, todo, updated, callPc, evars, hvars, skips>>

\* What query() makes of the known value: an error clears a value there was.
Queried(o) ==
  CASE o \notin failing -> value[o]
    [] o \in failing /\ known[o] = Unknown -> Unknown
    [] OTHER -> Null

\* Mutant: an option that cannot be queried keeps the value it had.
Query_Keeps(o) ==
  /\ Alive /\ pc = "query" /\ o \in todo
  /\ LET k == IF o \in failing THEN known ELSE [known EXCEPT ![o] = Queried(o)] IN
       /\ known' = k
       /\ updated' = IF k = known THEN updated ELSE [updated EXCEPT ![o] = k[o]]
       /\ IF todo = {o} \/ should_stop
            THEN todo' = {} /\ EndUpdate(first, k)
            ELSE todo' = todo \ {o} /\ UNCHANGED <<pc, hvars>>
  /\ UNCHANGED <<options, subs, destructing, joinable, first, callPc, evars, skips>>

\* One option is queried; the loop breaks off when it should stop.
Query(o) ==
  /\ Alive /\ pc = "query" /\ o \in todo
  /\ LET k == [known EXCEPT ![o] = Queried(o)] IN
       /\ known' = k
       /\ updated' = IF k = known THEN updated ELSE [updated EXCEPT ![o] = k[o]]
       /\ IF todo = {o} \/ should_stop
            THEN todo' = {} /\ EndUpdate(first, k)
            ELSE todo' = todo \ {o} /\ UNCHANGED <<pc, hvars>>
  /\ UNCHANGED <<options, subs, destructing, joinable, first, callPc, evars, skips>>

\* Mutant: instead of ending the thread goes round again.
Notify_Continue ==
  /\ Alive /\ pc = "updated"
  /\ pc' = IF should_stop THEN "check" ELSE "raising"
  /\ UNCHANGED <<options, known, subs, destructing, joinable, first, todo, updated, callPc, evars, hvars, skips>>

\* The last check before notify().
Notify ==
  /\ Alive /\ pc = "updated"
  /\ pc' = IF should_stop THEN "ended" ELSE "raising"
  /\ UNCHANGED <<options, known, subs, destructing, joinable, first, todo, updated, callPc, evars, hvars, skips>>

Reported == {o \in Options : updated[o] # Unknown}

\* notify(): raise() takes a copy of the subscribers, all of whom it then calls.
\* The last of them may have gone since should_stop() counted them: then the
\* changes, which update_options() has put down as known, are told to nobody.
Raise ==
  /\ Alive /\ pc = "raising"
  /\ IF subs = {}
       THEN missed' = missed \cup Reported /\ UNCHANGED told
       ELSE /\ missed' = missed \ Reported
            /\ told' = [o \in Options |-> IF o \in Reported THEN updated[o] ELSE told[o]]
  /\ pc' = "check" /\ updated' = [o \in Options |-> Unknown]
  /\ UNCHANGED <<options, known, subs, destructing, joinable, first, todo, callPc, evars, skips>>

Thread == Check \/ Timeout \/ BeginUpdate \/ EndAfterSleep \/ (\E o \in Options : Query(o)) \/ Notify \/ Raise

-------------------------------------------------------------------------------
\* The option changes on the device, and may fail to be read for a while.
Change(o) ==
  /\ Alive
  /\ \/ value[o] < MaxValue /\ value' = [value EXCEPT ![o] = @ + 1] /\ failing' \in {failing, failing \cup {o}}
     \/ o \in failing /\ failing' = failing \ {o} /\ UNCHANGED value
  /\ UNCHANGED <<options, known, subs, destructing, joinable, tvars, callPc, hvars, skips>>

Caller(c) == ShouldStart(c) \/ StartChecks(c) \/ Create(c) \/ ShouldStop(c) \/ StopNotifies(c) \/ StopChecks(c) \/ Join(c)

Call(c) ==
  \/ \E o \in Options : Register(c, o) \/ Unregister(c, o)
  \/ \E s \in Slots : Subscribe(c, s) \/ Cancel(c, s)
  \/ Destroy(c)

Over == (~Usable) /\ UNCHANGED wvars

WatcherNext ==
  \/ \E c \in Callers : Caller(c) \/ Call(c)
  \/ Thread
  \/ \E o \in Options : Change(o)
  \/ Over

WatcherSpec == WatcherInit /\ [][WatcherNext]_wvars
FairWatcherSpec == WatcherSpec /\ WF_wvars(Thread) /\ \A c \in Callers : WF_wvars(Caller(c))

-------------------------------------------------------------------------------
(***************************************************************************)
(* Properties                                                              *)
(***************************************************************************)

Values == (0..MaxValue) \cup {Unknown, Null}

\* In particular no option is erased that the thread has yet to visit.
WatcherTypeOK ==
  /\ options \subseteq Options /\ known \in [Options -> Values]
  /\ subs \subseteq Slots /\ destructing \in BOOLEAN /\ joinable \in BOOLEAN
  /\ pc \in {"none", "first", "check", "asleep", "woken", "query", "updated", "raising", "ended"}
  /\ first \in BOOLEAN /\ todo \subseteq options /\ updated \in [Options -> Values]
  /\ callPc \in [Callers -> {"idle", "changed", "start", "create", "erased", "stop", "stopping", "join",
                             "destroyed", "terminated"}]
  /\ value \in [Options -> 0..MaxValue] /\ failing \subseteq Options
  /\ told \in [Options -> Values] /\ missed \subseteq Options /\ skips \in 0..MaxSkips

\* A thread that goes on has told its subscribers all it knows: a change that
\* update_options() has recorded, and will not find again, is dropped only by a
\* raise() that finds nobody, never because the last subscription is cancelled
\* and made again before that or because the thread should have stopped.
SleepsInformed ==
  pc \in {"check", "asleep", "woken"} => \A o \in options \ missed : known[o] \in {Unknown, told[o]}

\* The thread does not outlive the watcher it points into, and while it runs
\* the watcher has its handle.
ThreadIsHeld ==
  /\ (\E c \in Callers : callPc[c] = "destroyed") => ~Running
  /\ Running => joinable

\* The destructor returns, at the latest when the thread's interval is over.
DestructorReturns == destructing ~> \E c \in Callers : callPc[c] \in {"destroyed", "terminated"}

\* What an option is, as far as it can be queried.
Shows(o) == IF o \in failing THEN told[o] \in {Unknown, Null} ELSE told[o] = value[o]

\* While the thread runs and somebody subscribes, each change of a registered
\* option is reported, whoever comes and goes meanwhile, unless the option is
\* registered anew or the last subscriber went under the very report.
ChangeIsReported ==
  \A o \in Options :
    Running /\ known[o] # Unknown ~>
      Shows(o) \/ known[o] = Unknown \/ o \in missed \/ ~Running \/ o \notin options \/ subs = {} \/ destructing
        \/ ~Alive

===============================================================================
