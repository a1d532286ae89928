---------------------------- MODULE HdaSideCodec ----------------------------
(***************************************************************************)
(* The amplifiers as side codecs of the HDA driver:                        *)
(* side-codecs/aw88399_hda.c, with the component aggregate of the Realtek  *)
(* codec that calls it.  Three threads meet in an amp: the PCM layer, which*)
(* calls the hook of one amp after the other under the component mutex;    *)
(* runtime and system power management; and the removal of one amp.  None  *)
(* of them takes the lock of the core, so a start and a stop are two steps *)
(* each and may overlap.  `on' is what the core believes (status), `live'  *)
(* what the chip does.                                                     *)
(***************************************************************************)
EXTENDS Naturals

CONSTANTS
    Amps,         \* the components of the aggregate
    None,         \* no amp
    MaxRemovals   \* bound: removals of an amp in one behaviour

ASSUME SideAssumption ==
    /\ Amps # {} /\ None \notin Amps
    /\ MaxRemovals \in Nat

VARIABLES
    on, live,                 \* aw_dev->status and the chip
    playing, suspended,       \* struct aw88399_hda
    usage, rpm, need,         \* runtime PM: counter, status, needs_force_resume
    present, bound,           \* the driver on each device, the aggregate
    stream, hook,             \* the PCM stream and the hook under way
    sys, removals,
    quiet                     \* amps came and went only while no stream was open

core == <<on, live>>
side == <<playing, suspended>>
pm   == <<usage, rpm, need>>
bus  == <<present, bound, removals>>
vars == <<core, side, pm, bus, stream, hook, sys, quiet>>

NoHook == [act |-> "none", todo |-> {}, busy |-> None]

TypeOK ==
    /\ on \in [Amps -> BOOLEAN] /\ live \in [Amps -> BOOLEAN]
    /\ playing \in [Amps -> BOOLEAN] /\ suspended \in [Amps -> BOOLEAN]
    /\ usage \in [Amps -> 0..MaxRemovals + 1]
    /\ rpm \in [Amps -> {"active", "suspended"}] /\ need \in SUBSET Amps
    /\ present \in [Amps -> {"absent", "probed", "removing", "stopping", "stopped"}]
    /\ bound \in BOOLEAN /\ removals \in 0..MaxRemovals
    /\ stream \in {"closed", "open", "prepared"}
    /\ hook \in [act : {"none", "open", "prepare", "cleanup", "close"},
                 todo : SUBSET Amps, busy : Amps \cup {None}]
    /\ sys \in {"running", "suspended"} /\ quiet \in BOOLEAN

Init ==
    /\ on = [a \in Amps |-> FALSE] /\ live = [a \in Amps |-> FALSE]
    /\ playing = [a \in Amps |-> FALSE] /\ suspended = [a \in Amps |-> FALSE]
    /\ usage = [a \in Amps |-> 0] /\ rpm = [a \in Amps |-> "suspended"] /\ need = {}
    /\ present = [a \in Amps |-> "absent"] /\ bound = FALSE /\ removals = 0
    /\ stream = "closed" /\ hook = NoHook /\ sys = "running"
    /\ quiet = TRUE

Idle == hook.act = "none"

-----------------------------------------------------------------------------
(* The PCM layer and the playback hook.                                    *)

\* The hook runs for every component of a bound aggregate, under its mutex.
Call(act) ==
    /\ sys = "running" /\ Idle
    /\ hook' = [act |-> act, todo |-> IF bound THEN Amps ELSE {}, busy |-> None]
    /\ UNCHANGED <<core, side, pm, bus, stream, sys>>

Attached == bound /\ \A a \in Amps : present[a] = "probed"

Open    == stream = "closed" /\ Call("open") /\ quiet' = (quiet /\ Attached)
Prepare == stream # "closed" /\ Call("prepare") /\ UNCHANGED quiet
Cleanup == stream # "closed" /\ Call("cleanup") /\ UNCHANGED quiet
Close   == stream # "closed" /\ Call("close") /\ UNCHANGED quiet

HookReturn ==
    /\ ~Idle /\ hook.todo = {} /\ hook' = NoHook
    /\ stream' = CASE hook.act \in {"open", "cleanup"} -> "open"
                   [] hook.act = "prepare"             -> "prepared"
                   [] hook.act = "close"               -> "closed"
    /\ UNCHANGED <<core, side, pm, bus, sys, quiet>>

Next1(a) == [hook EXCEPT !.todo = hook.todo \ {a}, !.busy = None]
Turn(act, a) == hook.act = act /\ a \in hook.todo /\ hook.busy = None

\* Mutant: OPEN does not note that the amp is playing.
HookOpenForgets(a) ==
    /\ Turn("open", a) /\ usage' = [usage EXCEPT ![a] = @ + 1]
    /\ LET resumes == present[a] = "probed" /\ rpm[a] = "suspended" IN
       /\ rpm' = [rpm EXCEPT ![a] = IF resumes THEN "active" ELSE @]
       /\ suspended' = [suspended EXCEPT ![a] = @ /\ ~resumes]
    /\ hook' = Next1(a) /\ UNCHANGED <<core, playing, need, bus, stream, sys, quiet>>

\* OPEN: pm_runtime_get_sync resumes a suspended device, unless its removal has
\* disabled runtime PM.  A device that is suspended is not playing (see
\* IdleWhenSuspended), so its runtime_resume starts no amp here.
HookOpen(a) ==
    /\ Turn("open", a) /\ usage' = [usage EXCEPT ![a] = @ + 1]
    /\ LET resumes == present[a] = "probed" /\ rpm[a] = "suspended" IN
       /\ rpm' = [rpm EXCEPT ![a] = IF resumes THEN "active" ELSE @]
       /\ suspended' = [suspended EXCEPT ![a] = @ /\ ~resumes]
    /\ playing' = [playing EXCEPT ![a] = TRUE]
    /\ hook' = Next1(a) /\ UNCHANGED <<core, need, bus, stream, sys, quiet>>

\* PREPARE: aw88399_start returns at once when the core believes the amp on.
HookPrepare(a) ==
    /\ Turn("prepare", a)
    /\ hook' = IF on[a] THEN Next1(a) ELSE [hook EXCEPT !.busy = a]
    /\ UNCHANGED <<core, side, pm, bus, stream, sys, quiet>>

StartEnd ==
    /\ hook.act = "prepare" /\ hook.busy # None
    /\ \E ok \in BOOLEAN : /\ on' = [on EXCEPT ![hook.busy] = ok]
                           /\ live' = [live EXCEPT ![hook.busy] = ok]
    /\ hook' = Next1(hook.busy)
    /\ UNCHANGED <<side, pm, bus, stream, sys, quiet>>

PutNothing(u) == u

\* pm_runtime_put never takes the counter below zero.
Put(u) == IF u = 0 THEN 0 ELSE u - 1

\* CLOSE ends with playing = false and pm_runtime_put_autosuspend.
Release(a) ==
    IF hook.act = "close" THEN /\ playing' = [playing EXCEPT ![a] = FALSE]
                               /\ usage' = [usage EXCEPT ![a] = Put(@)]
    ELSE UNCHANGED <<playing, usage>>

\* Mutant: CLOSE leaves stopping to CLEANUP.
HookStopNotInClose(a) ==
    /\ Turn("cleanup", a) \/ Turn("close", a)
    /\ IF on[a] /\ hook.act = "cleanup"
       THEN on' = [on EXCEPT ![a] = FALSE] /\ hook' = [hook EXCEPT !.busy = a]
            /\ UNCHANGED <<playing, usage>>
       ELSE hook' = Next1(a) /\ Release(a) /\ UNCHANGED on
    /\ UNCHANGED <<live, suspended, rpm, need, bus, stream, sys, quiet>>

\* CLEANUP and CLOSE: aw88399_stop clears the status first.
HookStop(a) ==
    /\ Turn("cleanup", a) \/ Turn("close", a)
    /\ IF on[a] THEN on' = [on EXCEPT ![a] = FALSE] /\ hook' = [hook EXCEPT !.busy = a]
                     /\ UNCHANGED <<playing, usage>>
       ELSE hook' = Next1(a) /\ Release(a) /\ UNCHANGED on
    /\ UNCHANGED <<live, suspended, rpm, need, bus, stream, sys, quiet>>

StopEnd ==
    /\ hook.act \in {"cleanup", "close"} /\ hook.busy # None
    /\ live' = [live EXCEPT ![hook.busy] = FALSE]
    /\ Release(hook.busy) /\ hook' = Next1(hook.busy)
    /\ UNCHANGED <<on, suspended, rpm, need, bus, stream, sys, quiet>>

HookStep == \/ HookReturn \/ StartEnd \/ StopEnd
            \/ \E a \in Amps : HookOpen(a) \/ HookPrepare(a) \/ HookStop(a)

-----------------------------------------------------------------------------
(* Power management.                                                       *)

\* Mutant: a suspend leaves the amp to its own devices.
StoppedBySuspendNever(a) == FALSE

\* Both suspends stop a playing amp.
StoppedBySuspend(a) == playing[a]

\* The autosuspend delay of an unused device has passed.
RuntimeSuspend(a) ==
    /\ sys = "running" /\ present[a] = "probed" /\ rpm[a] = "active" /\ usage[a] = 0
    /\ rpm' = [rpm EXCEPT ![a] = "suspended"]
    /\ suspended' = [suspended EXCEPT ![a] = TRUE]
    /\ on' = [on EXCEPT ![a] = @ /\ ~StoppedBySuspend(a)]
    /\ live' = [live EXCEPT ![a] = @ /\ ~(StoppedBySuspend(a) /\ on[a])]
    /\ UNCHANGED <<playing, usage, need, bus, stream, hook, sys, quiet>>

Probed == {a \in Amps : present[a] = "probed"}

\* With the tasks frozen, no hook and no removal is under way.  A playing amp
\* is stopped; pm_runtime_force_suspend suspends the active devices and
\* remembers those in use.  The stream will have to be prepared again.
SystemSuspend ==
    /\ sys = "running" /\ Idle /\ \A a \in Amps : present[a] \in {"absent", "probed"}
    /\ sys' = "suspended" /\ stream' = IF stream = "closed" THEN "closed" ELSE "open"
    /\ LET stopped == {a \in Probed : StoppedBySuspend(a) /\ on[a]} IN
       /\ on' = [a \in Amps |-> on[a] /\ a \notin stopped]
       /\ live' = [a \in Amps |-> live[a] /\ a \notin stopped]
    /\ need' = {a \in Probed : rpm[a] = "active" /\ usage[a] > 0}
    /\ rpm' = [a \in Amps |-> IF a \in Probed THEN "suspended" ELSE rpm[a]]
    /\ suspended' = [a \in Amps |-> suspended[a] \/ a \in Probed]
    /\ UNCHANGED <<playing, usage, bus, hook, quiet>>

\* Each probed chip is reset (a board with the reset GPIO).  A device that was
\* in use is resumed; if playing, its runtime_resume starts the amp, which may
\* fail for want of a clock.
SystemResume ==
    /\ sys = "suspended" /\ sys' = "running" /\ need' = {}
    /\ rpm' = [a \in Amps |-> IF a \in need THEN "active" ELSE rpm[a]]
    /\ suspended' = [a \in Amps |-> suspended[a] /\ a \notin need]
    /\ \E started \in SUBSET {a \in need : playing[a] /\ ~on[a]} :
          /\ on' = [a \in Amps |-> on[a] \/ a \in started]
          /\ live' = [a \in Amps |-> a \in started \/ (live[a] /\ a \notin Probed)]
    /\ UNCHANGED <<playing, usage, bus, stream, hook, quiet>>

-----------------------------------------------------------------------------
(* Probe, bind, removal.                                                   *)

\* component_add binds the aggregate, under its mutex, once all amps are there.
\* A failing probe leaves no trace.
Probe(a) ==
    /\ sys = "running" /\ present[a] = "absent" /\ Idle
    /\ quiet' = (quiet /\ stream = "closed")
    /\ present' = [present EXCEPT ![a] = "probed"]
    /\ bound' = \A b \in Amps \ {a} : present[b] # "absent"
    /\ on' = [on EXCEPT ![a] = FALSE] /\ live' = [live EXCEPT ![a] = FALSE]
    /\ playing' = [playing EXCEPT ![a] = FALSE]
    /\ suspended' = [suspended EXCEPT ![a] = FALSE]
    /\ rpm' = [rpm EXCEPT ![a] = "active"]
    /\ UNCHANGED <<usage, need, removals, stream, hook, sys>>

Removes(a, from, to) == present[a] = from /\ present' = [present EXCEPT ![a] = to]

\* The driver core resumes the device, then calls remove, which disables
\* runtime PM.
RemoveBegin(a) ==
    /\ sys = "running" /\ removals < MaxRemovals /\ removals' = removals + 1
    /\ quiet' = (quiet /\ stream = "closed" /\ Idle)
    /\ Removes(a, "probed", "removing")
    /\ rpm' = [rpm EXCEPT ![a] = "active"]
    /\ suspended' = [suspended EXCEPT ![a] = FALSE]
    /\ UNCHANGED <<core, playing, usage, need, bound, stream, hook, sys>>

RemoveStop(a) ==
    /\ Removes(a, "removing", IF on[a] THEN "stopping" ELSE "stopped")
    /\ on' = [on EXCEPT ![a] = FALSE]
    /\ UNCHANGED <<live, side, pm, bound, removals, stream, hook, sys, quiet>>

RemoveStopped(a) ==
    /\ Removes(a, "stopping", "stopped") /\ live' = [live EXCEPT ![a] = FALSE]
    /\ UNCHANGED <<on, side, pm, bound, removals, stream, hook, sys, quiet>>

\* Mutant: the components are taken away without the mutex.
RemoveDelUnlocked(a) ==
    /\ Removes(a, "stopped", "absent") /\ bound' = FALSE
    /\ UNCHANGED <<core, side, pm, removals, stream, hook, sys, quiet>>

\* component_del unbinds the whole aggregate, under its mutex.
RemoveDel(a) ==
    /\ Idle /\ Removes(a, "stopped", "absent") /\ bound' = FALSE
    /\ UNCHANGED <<core, side, pm, removals, stream, hook, sys, quiet>>

RemoveStep(a) == RemoveStop(a) \/ RemoveStopped(a) \/ RemoveDel(a)

Next ==
    \/ Open \/ Prepare \/ Cleanup \/ Close \/ HookStep
    \/ SystemSuspend \/ SystemResume
    \/ \E a \in Amps : RuntimeSuspend(a) \/ Probe(a) \/ RemoveBegin(a) \/ RemoveStep(a)

\* Hooks and removals under way go on, and the autosuspend timer fires.
Fairness == WF_vars(HookStep)
            /\ \A a \in Amps : WF_vars(RemoveStep(a)) /\ WF_vars(RuntimeSuspend(a))
Spec == Init /\ [][Next]_vars /\ Fairness

-----------------------------------------------------------------------------
(* Properties.                                                             *)

\* As long as amps come and go only while no stream is open (quiet), use and
\* playing flag of every bound amp agree with the stream: OPEN and CLOSE are
\* balanced through suspends, resumes and removals.
Balanced ==
    quiet /\ bound /\ Idle =>
        \A a \in Amps : /\ usage[a] = IF stream = "closed" THEN 0 ELSE 1
                        /\ playing[a] <=> stream # "closed"

\* While a device is suspended, at runtime or with the system, its amp is off.
IdleWhenSuspended ==
    quiet => \A a \in Amps : present[a] = "probed" /\ rpm[a] = "suspended" =>
                 ~on[a] /\ ~live[a] /\ (sys = "running" => ~playing[a])

\* When PREPARE is done with amp a that the core believes on, its chip is
\* initialised.
Initialised(a) ==
    hook.act = "prepare" /\ a \in hook.todo \ hook'.todo /\ on'[a] => live'[a]

\* "Chip will be fully reinitialized on next playback": by every PREPARE, as
\* long as no amp came or went under a stream ...
PrepareInitialises == [][quiet' => \A a \in Amps : Initialised(a)]_vars
\* ... and in every case, as the comment has it.
ResumeReinitialises == [][\A a \in Amps : Initialised(a)]_vars

\* "PCM cleanup -> aw88399_stop": no amp plays once the stream is closed.
SilentAfterClose ==
    quiet /\ stream = "closed" /\ Idle => \A a \in Amps : ~on[a] /\ ~live[a]

\* Unused amps end up suspended: no lost put keeps one awake for ever.
AutoSuspends ==
    \A a \in Amps : (quiet /\ stream = "closed" /\ Idle /\ present[a] = "probed")
                    ~> (rpm[a] = "suspended" \/ ~quiet \/ ~Idle \/ present[a] # "probed")

\* No hook reaches an amp whose driver data is gone, whatever is removed when.
HooksReachProbed == \A a \in (hook.todo \cup {hook.busy}) \ {None} : present[a] # "absent"

\* The driver's flag mirrors the runtime PM status of every probed device.
MirrorsPm == \A a \in Probed : suspended[a] <=> rpm[a] = "suspended"

\* What holds of hooks and PM whoever removes amps when: no hook reaches a
\* removed amp, flag and runtime PM agree; and the counters keep their range as
\* long as amps come and go between streams.
SideInv == (quiet => TypeOK) /\ HooksReachProbed /\ MirrorsPm

=============================================================================
