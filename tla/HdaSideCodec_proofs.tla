------------------------ MODULE HdaSideCodec_proofs -------------------------
(***************************************************************************)
(* Proofs about HdaSideCodec, for any number of amps and removals.  Two    *)
(* inductive invariants: GInv holds whatever is removed when, QInv as long *)
(* as amps come and go only while no stream is open; it carries the        *)
(* balance of the hooks.                                                   *)
(***************************************************************************)
EXTENDS HdaSideCodec, TLAPS

-----------------------------------------------------------------------------
(* Whatever is removed when.                                               *)

HookType ==
    /\ hook \in [act : {"none", "open", "prepare", "cleanup", "close"},
                 todo : SUBSET Amps, busy : Amps \cup {None}]
    /\ stream \in {"closed", "open", "prepared"} /\ sys \in {"running", "suspended"}
    /\ present \in [Amps -> {"absent", "probed", "removing", "stopping", "stopped"}]
PmType ==
    /\ rpm \in [Amps -> {"active", "suspended"}] /\ need \in SUBSET Amps
    /\ suspended \in [Amps -> BOOLEAN]
BusType == bound \in BOOLEAN /\ removals \in 0..MaxRemovals

\* A hook visits the amps of the aggregate that was bound when it began; the
\* aggregate is taken apart under the same mutex.
HookOnBound ==
    /\ bound => \A a \in Amps : present[a] # "absent"
    /\ Idle => hook.todo = {} /\ hook.busy = None
    /\ hook.todo # {} => bound
    /\ hook.busy # None => hook.busy \in hook.todo

GInv == HookType /\ PmType /\ BusType /\ HookOnBound /\ MirrorsPm

-----------------------------------------------------------------------------
(* With a quiet environment.                                               *)

CoreType ==
    /\ on \in [Amps -> BOOLEAN] /\ live \in [Amps -> BOOLEAN]
    /\ playing \in [Amps -> BOOLEAN] /\ usage \in [Amps -> Nat]

\* A stream, or a hook under way, keeps every amp in its place.
StreamOnAttached == stream # "closed" \/ ~Idle => Attached

\* Which hooks run on which stream, and that a suspended system runs none.
HookFitsStream ==
    /\ hook.act = "open" => stream = "closed" /\ hook.busy = None
    /\ hook.act \in {"prepare", "cleanup", "close"} => stream # "closed"
    /\ sys = "suspended" => Idle

\* OPEN takes an amp when it gets to it, CLOSE lets it go.
Held(a) ==
    CASE hook.act = "open"  -> a \notin hook.todo
      [] hook.act = "close" -> a \in hook.todo
      [] OTHER              -> stream # "closed"
HeldOnce ==
    \A a \in Amps : usage[a] = (IF Held(a) THEN 1 ELSE 0) /\ (playing[a] <=> Held(a))

\* An amp is on only while it is held, and the chip follows the core's belief
\* but for the amp that the hook is stopping.
LiveWhileHeld ==
    \A a \in Amps :
        /\ on[a] => live[a] /\ hook.busy # a
        /\ live[a] => on[a] \/ (hook.act \in {"cleanup", "close"} /\ hook.busy = a)
        /\ live[a] => Held(a)

\* A held device is active; a system suspend turns it off and remembers it.
HeldIsActive ==
    \A a \in Amps :
        /\ sys = "running" /\ Held(a) => rpm[a] = "active"
        /\ sys = "suspended" => ~live[a] /\ (Held(a) => a \in need)

QInv == /\ CoreType /\ StreamOnAttached /\ HookFitsStream /\ HeldOnce
        /\ LiveWhileHeld /\ HeldIsActive
IInv == GInv /\ quiet \in BOOLEAN /\ (quiet => QInv)

-----------------------------------------------------------------------------
(* The steps.                                                              *)

\* Only removals count, and only component_add and component_del bind.
LEMMA BusStep ==
    ASSUME BusType, [Next]_vars
    PROVE  BusType'
<1>1. bound' = bound \/ bound' \in BOOLEAN
  BY DEF Next, HookStep, RemoveStep, Open, Prepare, Cleanup, Close, Call, HookReturn,
         StartEnd, StopEnd, HookOpen, HookPrepare, HookStop, SystemSuspend, SystemResume,
         RuntimeSuspend, Probe, RemoveBegin, RemoveStop, RemoveStopped, RemoveDel, bus, vars
<1>2. removals' = removals \/ (removals < MaxRemovals /\ removals' = removals + 1)
  BY DEF Next, HookStep, RemoveStep, Open, Prepare, Cleanup, Close, Call, HookReturn,
         StartEnd, StopEnd, HookOpen, HookPrepare, HookStop, SystemSuspend, SystemResume,
         RuntimeSuspend, Probe, RemoveBegin, RemoveStop, RemoveStopped, RemoveDel, bus, vars
<1> QED
  BY <1>1, <1>2, SideAssumption DEF BusType

\* One step, whatever is removed when.
LEMMA GStep ==
    ASSUME GInv, [Next]_vars
    PROVE  GInv'
<1> USE SideAssumption DEF core, side, pm, bus, vars, Idle, NoHook, GInv
<1>0. BusType'
  BY BusStep
<1>1. CASE Open
  <2>1. HookType'
    BY <1>1 DEF Open, Call, HookType
  <2>2. PmType'
    BY <1>1 DEF Open, Call, PmType, HookType
  <2>3. HookOnBound'
    BY <1>1 DEF Open, Call, HookOnBound, HookType
  <2>4. MirrorsPm'
    BY <1>1 DEF Open, Call, MirrorsPm, Probed, HookType, PmType
  <2> QED
    BY <1>0, <2>1, <2>2, <2>3, <2>4
<1>2. CASE Prepare
  <2>1. HookType'
    BY <1>2 DEF Prepare, Call, HookType
  <2>2. PmType'
    BY <1>2 DEF Prepare, Call, PmType, HookType
  <2>3. HookOnBound'
    BY <1>2 DEF Prepare, Call, HookOnBound, HookType
  <2>4. MirrorsPm'
    BY <1>2 DEF Prepare, Call, MirrorsPm, Probed, HookType, PmType
  <2> QED
    BY <1>0, <2>1, <2>2, <2>3, <2>4
<1>3. CASE Cleanup
  <2>1. HookType'
    BY <1>3 DEF Cleanup, Call, HookType
  <2>2. PmType'
    BY <1>3 DEF Cleanup, Call, PmType, HookType
  <2>3. HookOnBound'
    BY <1>3 DEF Cleanup, Call, HookOnBound, HookType
  <2>4. MirrorsPm'
    BY <1>3 DEF Cleanup, Call, MirrorsPm, Probed, HookType, PmType
  <2> QED
    BY <1>0, <2>1, <2>2, <2>3, <2>4
<1>4. CASE Close
  <2>1. HookType'
    BY <1>4 DEF Close, Call, HookType
  <2>2. PmType'
    BY <1>4 DEF Close, Call, PmType, HookType
  <2>3. HookOnBound'
    BY <1>4 DEF Close, Call, HookOnBound, HookType
  <2>4. MirrorsPm'
    BY <1>4 DEF Close, Call, MirrorsPm, Probed, HookType, PmType
  <2> QED
    BY <1>0, <2>1, <2>2, <2>3, <2>4
<1>5. CASE HookReturn
  <2>1. HookType'
    BY <1>5 DEF HookReturn, HookType
  <2>2. PmType'
    BY <1>5 DEF HookReturn, PmType, HookType
  <2>3. HookOnBound'
    BY <1>5 DEF HookReturn, HookOnBound, HookType
  <2>4. MirrorsPm'
    BY <1>5 DEF HookReturn, MirrorsPm, Probed, HookType, PmType
  <2> QED
    BY <1>0, <2>1, <2>2, <2>3, <2>4
<1>6. CASE StartEnd
  <2>1. HookType'
    BY <1>6 DEF StartEnd, Next1, HookType
  <2>2. PmType'
    BY <1>6 DEF StartEnd, Next1, PmType, HookType
  <2>3. HookOnBound'
    BY <1>6 DEF StartEnd, Next1, HookOnBound, HookType
  <2>4. MirrorsPm'
    BY <1>6 DEF StartEnd, Next1, MirrorsPm, Probed, HookType, PmType
  <2> QED
    BY <1>0, <2>1, <2>2, <2>3, <2>4
<1>7. CASE StopEnd
  <2>1. HookType'
    BY <1>7 DEF StopEnd, Next1, Release, Put, HookType
  <2>2. PmType'
    BY <1>7 DEF StopEnd, Next1, Release, Put, PmType, HookType
  <2>3. HookOnBound'
    BY <1>7 DEF StopEnd, Next1, Release, Put, HookOnBound, HookType
  <2>4. MirrorsPm'
    BY <1>7 DEF StopEnd, Next1, Release, Put, MirrorsPm, Probed, HookType, PmType
  <2> QED
    BY <1>0, <2>1, <2>2, <2>3, <2>4
<1>8. CASE SystemSuspend
  <2>1. HookType'
    BY <1>8 DEF SystemSuspend, Probed, StoppedBySuspend, HookType
  <2>2. PmType'
    BY <1>8 DEF SystemSuspend, Probed, StoppedBySuspend, PmType, HookType
  <2>3. HookOnBound'
    BY <1>8 DEF SystemSuspend, Probed, StoppedBySuspend, HookOnBound, HookType
  <2>4. MirrorsPm'
    BY <1>8 DEF SystemSuspend, Probed, StoppedBySuspend, MirrorsPm, Probed, HookType, PmType
  <2> QED
    BY <1>0, <2>1, <2>2, <2>3, <2>4
<1>9. CASE SystemResume
  <2>1. HookType'
    BY <1>9 DEF SystemResume, Probed, HookType
  <2>2. PmType'
    BY <1>9 DEF SystemResume, Probed, PmType, HookType
  <2>3. HookOnBound'
    BY <1>9 DEF SystemResume, Probed, HookOnBound, HookType
  <2>4. MirrorsPm'
    BY <1>9 DEF SystemResume, Probed, MirrorsPm, Probed, HookType, PmType
  <2> QED
    BY <1>0, <2>1, <2>2, <2>3, <2>4
<1>10. ASSUME NEW a \in Amps, HookOpen(a)
       PROVE  GInv'
  <2>1. HookType'
    BY <1>10 DEF HookOpen, Turn, Next1, HookType
  <2>2. PmType'
    BY <1>10 DEF HookOpen, Turn, Next1, PmType, HookType
  <2>3. HookOnBound'
    BY <1>10 DEF HookOpen, Turn, Next1, HookOnBound, HookType
  <2>4. MirrorsPm'
    BY <1>10 DEF HookOpen, Turn, Next1, MirrorsPm, Probed, HookType, PmType
  <2> QED
    BY <1>0, <2>1, <2>2, <2>3, <2>4
<1>11. ASSUME NEW a \in Amps, HookPrepare(a)
       PROVE  GInv'
  <2>1. HookType'
    BY <1>11 DEF HookPrepare, Turn, Next1, HookType
  <2>2. PmType'
    BY <1>11 DEF HookPrepare, Turn, Next1, PmType, HookType
  <2>3. HookOnBound'
    BY <1>11 DEF HookPrepare, Turn, Next1, HookOnBound, HookType
  <2>4. MirrorsPm'
    BY <1>11 DEF HookPrepare, Turn, Next1, MirrorsPm, Probed, HookType, PmType
  <2> QED
    BY <1>0, <2>1, <2>2, <2>3, <2>4
<1>12. ASSUME NEW a \in Amps, HookStop(a)
       PROVE  GInv'
  <2>1. HookType'
    <3>1. hook' = Next1(a) \/ hook' = [hook EXCEPT !.busy = a]
      BY <1>12 DEF HookStop
    <3>2. UNCHANGED <<present, stream, sys>>
      BY <1>12 DEF HookStop
    <3> QED
      BY <3>1, <3>2 DEF Next1, HookType
  <2>2. PmType'
    BY <1>12 DEF HookStop, Turn, Next1, Release, Put, PmType, HookType
  <2>3. HookOnBound'
    BY <1>12 DEF HookStop, Turn, Next1, Release, Put, HookOnBound, HookType
  <2>4. MirrorsPm'
    BY <1>12 DEF HookStop, Turn, Next1, Release, Put, MirrorsPm, Probed, HookType, PmType
  <2> QED
    BY <1>0, <2>1, <2>2, <2>3, <2>4
<1>13. ASSUME NEW a \in Amps, RuntimeSuspend(a)
       PROVE  GInv'
  <2>1. HookType'
    BY <1>13 DEF RuntimeSuspend, StoppedBySuspend, HookType
  <2>2. PmType'
    BY <1>13 DEF RuntimeSuspend, StoppedBySuspend, PmType, HookType
  <2>3. HookOnBound'
    BY <1>13 DEF RuntimeSuspend, StoppedBySuspend, HookOnBound, HookType
  <2>4. MirrorsPm'
    BY <1>13 DEF RuntimeSuspend, StoppedBySuspend, MirrorsPm, Probed, HookType, PmType
  <2> QED
    BY <1>0, <2>1, <2>2, <2>3, <2>4
<1>14. ASSUME NEW a \in Amps, Probe(a)
       PROVE  GInv'
  <2>1. HookType'
    BY <1>14 DEF Probe, HookType
  <2>2. PmType'
    BY <1>14 DEF Probe, PmType, HookType
  <2>3. HookOnBound'
    BY <1>14 DEF Probe, HookOnBound, HookType
  <2>4. MirrorsPm'
    BY <1>14 DEF Probe, MirrorsPm, Probed, HookType, PmType
  <2> QED
    BY <1>0, <2>1, <2>2, <2>3, <2>4
<1>15. ASSUME NEW a \in Amps, RemoveBegin(a)
       PROVE  GInv'
  <2>1. HookType'
    BY <1>15 DEF RemoveBegin, Removes, HookType
  <2>2. PmType'
    BY <1>15 DEF RemoveBegin, Removes, PmType, HookType
  <2>3. HookOnBound'
    BY <1>15 DEF RemoveBegin, Removes, HookOnBound, HookType
  <2>4. MirrorsPm'
    BY <1>15 DEF RemoveBegin, Removes, MirrorsPm, Probed, HookType, PmType
  <2> QED
    BY <1>0, <2>1, <2>2, <2>3, <2>4
<1>16. ASSUME NEW a \in Amps, RemoveStop(a)
       PROVE  GInv'
  <2>1. HookType'
    BY <1>16 DEF RemoveStop, Removes, HookType
  <2>2. PmType'
    BY <1>16 DEF RemoveStop, Removes, PmType, HookType
  <2>3. HookOnBound'
    BY <1>16 DEF RemoveStop, Removes, HookOnBound, HookType
  <2>4. MirrorsPm'
    BY <1>16 DEF RemoveStop, Removes, MirrorsPm, Probed, HookType, PmType
  <2> QED
    BY <1>0, <2>1, <2>2, <2>3, <2>4
<1>17. ASSUME NEW a \in Amps, RemoveStopped(a)
       PROVE  GInv'
  <2>1. HookType'
    BY <1>17 DEF RemoveStopped, Removes, HookType
  <2>2. PmType'
    BY <1>17 DEF RemoveStopped, Removes, PmType, HookType
  <2>3. HookOnBound'
    BY <1>17 DEF RemoveStopped, Removes, HookOnBound, HookType
  <2>4. MirrorsPm'
    BY <1>17 DEF RemoveStopped, Removes, MirrorsPm, Probed, HookType, PmType
  <2> QED
    BY <1>0, <2>1, <2>2, <2>3, <2>4
<1>18. ASSUME NEW a \in Amps, RemoveDel(a)
       PROVE  GInv'
  <2>1. HookType'
    BY <1>18 DEF RemoveDel, Removes, HookType
  <2>2. PmType'
    BY <1>18 DEF RemoveDel, Removes, PmType, HookType
  <2>3. HookOnBound'
    BY <1>18 DEF RemoveDel, Removes, HookOnBound, HookType
  <2>4. MirrorsPm'
    BY <1>18 DEF RemoveDel, Removes, MirrorsPm, Probed, HookType, PmType
  <2> QED
    BY <1>0, <2>1, <2>2, <2>3, <2>4
<1>19. CASE UNCHANGED vars
  BY <1>0, <1>19 DEF HookType, PmType, HookOnBound, MirrorsPm, Probed, GInv
<1> QED
  BY <1>1, <1>2, <1>3, <1>4, <1>5, <1>6, <1>7, <1>8, <1>9, <1>10, <1>11, <1>12, <1>13,
     <1>14, <1>15, <1>16, <1>17, <1>18, <1>19
  DEF Next, HookStep, RemoveStep

\* A release touches nothing but the flag and the counter of its amp.
LEMMA ReleaseEffect ==
    ASSUME CoreType, NEW b \in Amps, Release(b)
    PROVE  /\ playing' \in [Amps -> BOOLEAN] /\ usage' \in [Amps -> Nat]
           /\ \A c \in Amps \ {b} : playing'[c] = playing[c] /\ usage'[c] = usage[c]
           /\ hook.act = "close" => ~playing'[b] /\ usage'[b] = Put(usage[b])
           /\ hook.act # "close" => playing' = playing /\ usage' = usage
<1>1. CASE hook.act = "close"
  <2>1. playing' = [playing EXCEPT ![b] = FALSE] /\ usage' = [usage EXCEPT ![b] = Put(@)]
    BY <1>1 DEF Release
  <2>2. Put(usage[b]) \in Nat
    BY DEF CoreType, Put
  <2>3. playing' \in [Amps -> BOOLEAN] /\ \A c \in Amps \ {b} : playing'[c] = playing[c]
    BY <2>1 DEF CoreType
  <2>4. ~playing'[b]
    BY <2>1 DEF CoreType
  <2>5. usage' \in [Amps -> Nat] /\ usage'[b] = Put(usage[b])
        /\ \A c \in Amps \ {b} : usage'[c] = usage[c]
    BY <2>1, <2>2 DEF CoreType
  <2> QED
    BY <1>1, <2>3, <2>4, <2>5
<1>2. CASE hook.act # "close"
  BY <1>2 DEF Release, CoreType
<1> QED
  BY <1>1, <1>2

\* One step in a quiet environment.
LEMMA QStep ==
    ASSUME quiet', GInv, QInv, [Next]_vars
    PROVE  QInv'
<1> USE SideAssumption DEF core, side, pm, bus, vars, Idle, NoHook, GInv, QInv, HookType,
                           PmType, HookOnBound
<1>1. CASE Open
  <2>1. CoreType'
    BY <1>1 DEF Open, Call, CoreType
  <2>2. StreamOnAttached'
    BY <1>1 DEF Open, Call, StreamOnAttached, Attached, CoreType
  <2>3. HookFitsStream'
    BY <1>1 DEF Open, Call, HookFitsStream
  <2>4. HeldOnce'
    BY <1>1 DEF Open, Call, HeldOnce, Held, CoreType, HookFitsStream, StreamOnAttached, Attached
  <2>5. LiveWhileHeld'
    BY <1>1 DEF Open, Call, LiveWhileHeld, HeldOnce, Held, CoreType, HookFitsStream,
                StreamOnAttached, Attached
  <2>6. HeldIsActive'
    BY <1>1 DEF Open, Call, HeldIsActive, LiveWhileHeld, HeldOnce, Held, CoreType,
                HookFitsStream, StreamOnAttached, Attached
  <2> QED
    BY <2>1, <2>2, <2>3, <2>4, <2>5, <2>6
<1>2. CASE Prepare
  <2>1. CoreType'
    BY <1>2 DEF Prepare, Call, CoreType
  <2>2. StreamOnAttached'
    BY <1>2 DEF Prepare, Call, StreamOnAttached, Attached, CoreType
  <2>3. HookFitsStream'
    BY <1>2 DEF Prepare, Call, HookFitsStream
  <2>4. HeldOnce'
    BY <1>2 DEF Prepare, Call, HeldOnce, Held, CoreType, HookFitsStream, StreamOnAttached,
                Attached
  <2>5. LiveWhileHeld'
    BY <1>2 DEF Prepare, Call, LiveWhileHeld, HeldOnce, Held, CoreType, HookFitsStream,
                StreamOnAttached, Attached
  <2>6. HeldIsActive'
    BY <1>2 DEF Prepare, Call, HeldIsActive, LiveWhileHeld, HeldOnce, Held, CoreType,
                HookFitsStream, StreamOnAttached, Attached
  <2> QED
    BY <2>1, <2>2, <2>3, <2>4, <2>5, <2>6
<1>3. CASE Cleanup
  <2>1. CoreType'
    BY <1>3 DEF Cleanup, Call, CoreType
  <2>2. StreamOnAttached'
    BY <1>3 DEF Cleanup, Call, StreamOnAttached, Attached, CoreType
  <2>3. HookFitsStream'
    BY <1>3 DEF Cleanup, Call, HookFitsStream
  <2>4. HeldOnce'
    BY <1>3 DEF Cleanup, Call, HeldOnce, Held, CoreType, HookFitsStream, StreamOnAttached,
                Attached
  <2>5. LiveWhileHeld'
    BY <1>3 DEF Cleanup, Call, LiveWhileHeld, HeldOnce, Held, CoreType, HookFitsStream,
                StreamOnAttached, Attached
  <2>6. HeldIsActive'
    BY <1>3 DEF Cleanup, Call, HeldIsActive, LiveWhileHeld, HeldOnce, Held, CoreType,
                HookFitsStream, StreamOnAttached, Attached
  <2> QED
    BY <2>1, <2>2, <2>3, <2>4, <2>5, <2>6
<1>4. CASE Close
  <2>1. CoreType'
    BY <1>4 DEF Close, Call, CoreType
  <2>2. StreamOnAttached'
    BY <1>4 DEF Close, Call, StreamOnAttached, Attached, CoreType
  <2>3. HookFitsStream'
    BY <1>4 DEF Close, Call, HookFitsStream
  <2>4. HeldOnce'
    BY <1>4 DEF Close, Call, HeldOnce, Held, CoreType, HookFitsStream, StreamOnAttached,
                Attached
  <2>5. LiveWhileHeld'
    BY <1>4 DEF Close, Call, LiveWhileHeld, HeldOnce, Held, CoreType, HookFitsStream,
                StreamOnAttached, Attached
  <2>6. HeldIsActive'
    BY <1>4 DEF Close, Call, HeldIsActive, LiveWhileHeld, HeldOnce, Held, CoreType,
                HookFitsStream, StreamOnAttached, Attached
  <2> QED
    BY <2>1, <2>2, <2>3, <2>4, <2>5, <2>6
<1>5. CASE HookReturn
  <2>1. CoreType'
    BY <1>5 DEF HookReturn, CoreType
  <2>2. StreamOnAttached'
    BY <1>5 DEF HookReturn, StreamOnAttached, Attached, CoreType
  <2>3. HookFitsStream'
    BY <1>5 DEF HookReturn, HookFitsStream
  <2>4. HeldOnce'
    BY <1>5 DEF HookReturn, HeldOnce, Held, CoreType, HookFitsStream, StreamOnAttached, Attached
  <2>5. LiveWhileHeld'
    BY <1>5 DEF HookReturn, LiveWhileHeld, HeldOnce, Held, CoreType, HookFitsStream,
                StreamOnAttached, Attached
  <2>6. HeldIsActive'
    BY <1>5 DEF HookReturn, HeldIsActive, LiveWhileHeld, HeldOnce, Held, CoreType,
                HookFitsStream, StreamOnAttached, Attached
  <2> QED
    BY <2>1, <2>2, <2>3, <2>4, <2>5, <2>6
<1>6. CASE StartEnd
  <2>1. CoreType'
    BY <1>6 DEF StartEnd, Next1, CoreType
  <2>2. StreamOnAttached'
    BY <1>6 DEF StartEnd, Next1, StreamOnAttached, Attached, CoreType
  <2>3. HookFitsStream'
    BY <1>6 DEF StartEnd, Next1, HookFitsStream
  <2>4. HeldOnce'
    BY <1>6 DEF StartEnd, Next1, HeldOnce, Held, CoreType, HookFitsStream, StreamOnAttached,
                Attached
  <2>5. LiveWhileHeld'
    BY <1>6 DEF StartEnd, Next1, LiveWhileHeld, HeldOnce, Held, CoreType, HookFitsStream,
                StreamOnAttached, Attached
  <2>6. HeldIsActive'
    BY <1>6 DEF StartEnd, Next1, HeldIsActive, LiveWhileHeld, HeldOnce, Held, CoreType,
                HookFitsStream, StreamOnAttached, Attached
  <2> QED
    BY <2>1, <2>2, <2>3, <2>4, <2>5, <2>6
<1>7. CASE StopEnd
  <2>0. PICK b \in Amps : b = hook.busy
    BY <1>7 DEF StopEnd
  <2>1. /\ b = hook.busy /\ b \in hook.todo /\ hook.act \in {"cleanup", "close"}
        /\ live' = [live EXCEPT ![b] = FALSE] /\ Release(b)
        /\ hook' = [hook EXCEPT !.todo = hook.todo \ {b}, !.busy = None]
        /\ UNCHANGED <<on, suspended, rpm, need, bus, stream, sys>>
    BY <1>7, <2>0 DEF StopEnd, Next1
  <2>2. /\ playing' \in [Amps -> BOOLEAN] /\ usage' \in [Amps -> Nat]
        /\ \A c \in Amps \ {b} : playing'[c] = playing[c] /\ usage'[c] = usage[c]
        /\ hook.act = "close" => ~playing'[b] /\ usage'[b] = Put(usage[b])
        /\ hook.act # "close" => playing' = playing /\ usage' = usage
    BY <2>1, ReleaseEffect
  <2>3. /\ live' \in [Amps -> BOOLEAN] /\ ~live'[b]
        /\ \A c \in Amps \ {b} : live'[c] = live[c]
    BY <2>1 DEF CoreType
  <2>4. hook'.act = hook.act /\ hook'.todo = hook.todo \ {b} /\ hook'.busy = None
    BY <2>1
  <2>5. CoreType'
    BY <2>1, <2>2, <2>3 DEF CoreType
  <2>6. StreamOnAttached' /\ HookFitsStream'
    BY <2>1, <2>4 DEF StreamOnAttached, Attached, HookFitsStream
  <2>7. \A c \in Amps \ {b} : Held(c)' <=> Held(c)
    BY <2>1, <2>4 DEF Held
  <2>8. Held(b) /\ (Held(b)' <=> hook.act # "close")
    BY <2>1, <2>4 DEF Held, HookFitsStream
  <2>9. HeldOnce'
    <3>1. usage[b] = 1 /\ playing[b]
      BY <2>8 DEF HeldOnce
    <3>2. usage'[b] = (IF Held(b)' THEN 1 ELSE 0) /\ (playing'[b] <=> Held(b)')
      BY <2>2, <2>8, <3>1 DEF Put
    <3>3. ASSUME NEW c \in Amps \ {b}
          PROVE  usage'[c] = (IF Held(c)' THEN 1 ELSE 0) /\ (playing'[c] <=> Held(c)')
      BY <2>2, <2>7 DEF HeldOnce
    <3> QED
      BY <3>2, <3>3 DEF HeldOnce
  <2>10. LiveWhileHeld'
    <3>1. ~on[b]
      BY <2>1 DEF LiveWhileHeld
    <3> QED
      BY <2>1, <2>3, <2>4, <2>7, <3>1 DEF LiveWhileHeld
  <2>11. HeldIsActive'
    BY <2>1, <2>3, <2>7, <2>8 DEF HeldIsActive
  <2> QED
    BY <2>5, <2>6, <2>9, <2>10, <2>11
<1>8. CASE SystemSuspend
  <2>1. CoreType'
    BY <1>8 DEF SystemSuspend, Probed, StoppedBySuspend, CoreType
  <2>2. StreamOnAttached'
    BY <1>8 DEF SystemSuspend, Probed, StoppedBySuspend, StreamOnAttached, Attached, CoreType
  <2>3. HookFitsStream'
    BY <1>8 DEF SystemSuspend, Probed, StoppedBySuspend, HookFitsStream
  <2>4. HeldOnce'
    BY <1>8 DEF SystemSuspend, Probed, StoppedBySuspend, HeldOnce, Held, CoreType,
                HookFitsStream, StreamOnAttached, Attached
  <2>5. LiveWhileHeld'
    BY <1>8 DEF SystemSuspend, Probed, StoppedBySuspend, LiveWhileHeld, HeldOnce, Held,
                CoreType, HookFitsStream, StreamOnAttached, Attached
  <2>6. HeldIsActive'
    <3>1. ASSUME NEW a \in Amps, Held(a)'
          PROVE  a \in need'
      <4>1. Held(a) /\ present[a] = "probed"
        BY <1>8, <3>1 DEF SystemSuspend, Held, StreamOnAttached, Attached, HookFitsStream
      <4>2. rpm[a] = "active" /\ usage[a] = 1
        BY <1>8, <4>1 DEF SystemSuspend, HeldIsActive, HeldOnce
      <4> QED
        BY <1>8, <4>1, <4>2 DEF SystemSuspend, Probed
    <3>2. ASSUME NEW a \in Amps, live[a]
          PROVE  ~live'[a]
      <4>1. Held(a) /\ on[a]
        BY <1>8, <3>2 DEF SystemSuspend, LiveWhileHeld
      <4>2. playing[a] /\ present[a] = "probed"
        BY <1>8, <4>1 DEF SystemSuspend, HeldOnce, Held, StreamOnAttached, Attached
      <4> QED
        BY <1>8, <4>1, <4>2 DEF SystemSuspend, Probed, StoppedBySuspend
    <3>3. \A a \in Amps : live'[a] => live[a]
      BY <1>8 DEF SystemSuspend
    <3>4. sys' = "suspended"
      BY <1>8 DEF SystemSuspend
    <3> QED
      BY <3>1, <3>2, <3>3, <3>4 DEF HeldIsActive
  <2> QED
    BY <2>1, <2>2, <2>3, <2>4, <2>5, <2>6
<1>9. CASE SystemResume
  <2>1. CoreType'
    BY <1>9 DEF SystemResume, Probed, CoreType
  <2>2. StreamOnAttached'
    BY <1>9 DEF SystemResume, Probed, StreamOnAttached, Attached, CoreType
  <2>3. HookFitsStream'
    BY <1>9 DEF SystemResume, Probed, HookFitsStream
  <2>4. HeldOnce'
    BY <1>9 DEF SystemResume, Probed, HeldOnce, Held, CoreType, HookFitsStream,
                StreamOnAttached, Attached
  <2>5. LiveWhileHeld'
    <3>1. PICK started \in SUBSET {a \in need : playing[a] /\ ~on[a]} :
            /\ on' = [a \in Amps |-> on[a] \/ a \in started]
            /\ live' = [a \in Amps |-> a \in started \/ (live[a] /\ a \notin Probed)]
      BY <1>9 DEF SystemResume
    <3>2. \A a \in Amps : ~on[a] /\ ~live[a]
      BY <1>9 DEF SystemResume, HeldIsActive, LiveWhileHeld
    <3>3. \A a \in Amps : (on'[a] <=> a \in started) /\ (live'[a] <=> a \in started)
      BY <3>1, <3>2
    <3>4. hook' = hook /\ stream' = stream /\ hook.busy = None
      BY <1>9 DEF SystemResume, HookFitsStream
    <3>5. \A a \in Amps : a \in started => Held(a)'
      BY <3>1, <3>4 DEF HeldOnce, Held
    <3> QED
      BY <3>3, <3>4, <3>5 DEF LiveWhileHeld
  <2>6. HeldIsActive'
    BY <1>9 DEF SystemResume, Probed, HeldIsActive, LiveWhileHeld, HeldOnce, Held, CoreType,
                HookFitsStream, StreamOnAttached, Attached
  <2> QED
    BY <2>1, <2>2, <2>3, <2>4, <2>5, <2>6
<1>10. ASSUME NEW a \in Amps, HookOpen(a)
       PROVE  QInv'
  <2>1. CoreType'
    BY <1>10 DEF HookOpen, Turn, Next1, CoreType
  <2>2. StreamOnAttached'
    BY <1>10 DEF HookOpen, Turn, Next1, StreamOnAttached, Attached, CoreType
  <2>3. HookFitsStream'
    BY <1>10 DEF HookOpen, Turn, Next1, HookFitsStream
  <2>4. HeldOnce'
    BY <1>10 DEF HookOpen, Turn, Next1, HeldOnce, Held, CoreType, HookFitsStream,
                 StreamOnAttached, Attached
  <2>5. LiveWhileHeld'
    BY <1>10 DEF HookOpen, Turn, Next1, LiveWhileHeld, HeldOnce, Held, CoreType,
                 HookFitsStream, StreamOnAttached, Attached
  <2>6. HeldIsActive'
    BY <1>10 DEF HookOpen, Turn, Next1, HeldIsActive, LiveWhileHeld, HeldOnce, Held,
                 CoreType, HookFitsStream, StreamOnAttached, Attached
  <2> QED
    BY <2>1, <2>2, <2>3, <2>4, <2>5, <2>6
<1>11. ASSUME NEW a \in Amps, HookPrepare(a)
       PROVE  QInv'
  <2>1. CoreType'
    BY <1>11 DEF HookPrepare, Turn, Next1, CoreType
  <2>2. StreamOnAttached'
    BY <1>11 DEF HookPrepare, Turn, Next1, StreamOnAttached, Attached, CoreType
  <2>3. HookFitsStream'
    BY <1>11 DEF HookPrepare, Turn, Next1, HookFitsStream
  <2>4. HeldOnce'
    BY <1>11 DEF HookPrepare, Turn, Next1, HeldOnce, Held, CoreType, HookFitsStream,
                 StreamOnAttached, Attached
  <2>5. LiveWhileHeld'
    BY <1>11 DEF HookPrepare, Turn, Next1, LiveWhileHeld, HeldOnce, Held, CoreType,
                 HookFitsStream, StreamOnAttached, Attached
  <2>6. HeldIsActive'
    BY <1>11 DEF HookPrepare, Turn, Next1, HeldIsActive, LiveWhileHeld, HeldOnce, Held,
                 CoreType, HookFitsStream, StreamOnAttached, Attached
  <2> QED
    BY <2>1, <2>2, <2>3, <2>4, <2>5, <2>6
<1>12. ASSUME NEW a \in Amps, HookStop(a)
       PROVE  QInv'
  <2>1. /\ a \in hook.todo /\ hook.busy = None /\ hook.act \in {"cleanup", "close"}
        /\ UNCHANGED <<live, suspended, rpm, need, bus, stream, sys>>
    BY <1>12 DEF HookStop, Turn
  <2>2. CASE on[a]
    <3>1. /\ on' = [on EXCEPT ![a] = FALSE] /\ hook' = [hook EXCEPT !.busy = a]
          /\ UNCHANGED <<playing, usage>>
      BY <1>12, <2>2 DEF HookStop
    <3>2. /\ on' \in [Amps -> BOOLEAN] /\ ~on'[a]
          /\ \A c \in Amps \ {a} : on'[c] = on[c]
      BY <3>1 DEF CoreType
    <3>3. hook'.act = hook.act /\ hook'.todo = hook.todo /\ hook'.busy = a
      BY <3>1
    <3>4. \A c \in Amps : Held(c)' <=> Held(c)
      BY <2>1, <3>3 DEF Held
    <3>5. CoreType'
      BY <2>1, <3>1, <3>2 DEF CoreType
    <3>6. StreamOnAttached' /\ HookFitsStream'
      BY <2>1, <3>3 DEF StreamOnAttached, Attached, HookFitsStream
    <3>7. HeldOnce' /\ HeldIsActive'
      BY <2>1, <3>1, <3>4 DEF HeldOnce, HeldIsActive
    <3>8. LiveWhileHeld'
      BY <2>1, <3>2, <3>3, <3>4 DEF LiveWhileHeld
    <3> QED
      BY <3>5, <3>6, <3>7, <3>8
  <2>3. CASE ~on[a]
    <3>1. /\ hook' = [hook EXCEPT !.todo = hook.todo \ {a}, !.busy = None]
          /\ Release(a) /\ on' = on
      BY <1>12, <2>3 DEF HookStop, Next1
    <3>2. /\ playing' \in [Amps -> BOOLEAN] /\ usage' \in [Amps -> Nat]
          /\ \A c \in Amps \ {a} : playing'[c] = playing[c] /\ usage'[c] = usage[c]
          /\ hook.act = "close" => ~playing'[a] /\ usage'[a] = Put(usage[a])
          /\ hook.act # "close" => playing' = playing /\ usage' = usage
      BY <3>1, ReleaseEffect
    <3>3. hook'.act = hook.act /\ hook'.todo = hook.todo \ {a} /\ hook'.busy = None
      BY <3>1
    <3>4. \A c \in Amps \ {a} : Held(c)' <=> Held(c)
      BY <2>1, <3>3 DEF Held
    <3>5. Held(a) /\ (Held(a)' <=> hook.act # "close")
      BY <2>1, <3>3 DEF Held, HookFitsStream
    <3>6. ~live[a]
      BY <2>1, <2>3 DEF LiveWhileHeld
    <3>7. CoreType'
      BY <2>1, <3>1, <3>2 DEF CoreType
    <3>8. StreamOnAttached' /\ HookFitsStream'
      BY <2>1, <3>3 DEF StreamOnAttached, Attached, HookFitsStream
    <3>9. HeldOnce'
      BY <2>1, <3>2, <3>4, <3>5 DEF HeldOnce, CoreType, Put
    <3>10. LiveWhileHeld'
      BY <2>1, <3>1, <3>3, <3>4, <3>6 DEF LiveWhileHeld
    <3>11. HeldIsActive'
      BY <2>1, <3>4, <3>5 DEF HeldIsActive
    <3> QED
      BY <3>7, <3>8, <3>9, <3>10, <3>11
  <2> QED
    BY <2>2, <2>3
<1>13. ASSUME NEW a \in Amps, RuntimeSuspend(a)
       PROVE  QInv'
  <2>1. CoreType'
    BY <1>13 DEF RuntimeSuspend, StoppedBySuspend, CoreType
  <2>2. StreamOnAttached'
    BY <1>13 DEF RuntimeSuspend, StoppedBySuspend, StreamOnAttached, Attached, CoreType
  <2>3. HookFitsStream'
    BY <1>13 DEF RuntimeSuspend, StoppedBySuspend, HookFitsStream
  <2>4. HeldOnce'
    BY <1>13 DEF RuntimeSuspend, StoppedBySuspend, HeldOnce, Held, CoreType, HookFitsStream,
                 StreamOnAttached, Attached
  <2>5. LiveWhileHeld'
    BY <1>13 DEF RuntimeSuspend, StoppedBySuspend, LiveWhileHeld, HeldOnce, Held, CoreType,
                 HookFitsStream, StreamOnAttached, Attached
  <2>6. HeldIsActive'
    BY <1>13 DEF RuntimeSuspend, StoppedBySuspend, HeldIsActive, LiveWhileHeld, HeldOnce,
                 Held, CoreType, HookFitsStream, StreamOnAttached, Attached
  <2> QED
    BY <2>1, <2>2, <2>3, <2>4, <2>5, <2>6
<1>14. ASSUME NEW a \in Amps, Probe(a)
       PROVE  QInv'
  <2>1. CoreType'
    BY <1>14 DEF Probe, CoreType
  <2>2. StreamOnAttached'
    BY <1>14 DEF Probe, StreamOnAttached, Attached, CoreType
  <2>3. HookFitsStream'
    BY <1>14 DEF Probe, HookFitsStream
  <2>4. HeldOnce'
    BY <1>14 DEF Probe, HeldOnce, Held, CoreType, HookFitsStream, StreamOnAttached, Attached
  <2>5. LiveWhileHeld'
    BY <1>14 DEF Probe, LiveWhileHeld, HeldOnce, Held, CoreType, HookFitsStream,
                 StreamOnAttached, Attached
  <2>6. HeldIsActive'
    BY <1>14 DEF Probe, HeldIsActive, LiveWhileHeld, HeldOnce, Held, CoreType,
                 HookFitsStream, StreamOnAttached, Attached
  <2> QED
    BY <2>1, <2>2, <2>3, <2>4, <2>5, <2>6
<1>15. ASSUME NEW a \in Amps, RemoveBegin(a)
       PROVE  QInv'
  <2>1. CoreType'
    BY <1>15 DEF RemoveBegin, Removes, CoreType
  <2>2. StreamOnAttached'
    BY <1>15 DEF RemoveBegin, Removes, StreamOnAttached, Attached, CoreType
  <2>3. HookFitsStream'
    BY <1>15 DEF RemoveBegin, Removes, HookFitsStream
  <2>4. HeldOnce'
    BY <1>15 DEF RemoveBegin, Removes, HeldOnce, Held, CoreType, HookFitsStream,
                 StreamOnAttached, Attached
  <2>5. LiveWhileHeld'
    BY <1>15 DEF RemoveBegin, Removes, LiveWhileHeld, HeldOnce, Held, CoreType,
                 HookFitsStream, StreamOnAttached, Attached
  <2>6. HeldIsActive'
    BY <1>15 DEF RemoveBegin, Removes, HeldIsActive, LiveWhileHeld, HeldOnce, Held,
                 CoreType, HookFitsStream, StreamOnAttached, Attached
  <2> QED
    BY <2>1, <2>2, <2>3, <2>4, <2>5, <2>6
<1>16. ASSUME NEW a \in Amps, RemoveStop(a)
       PROVE  QInv'
  <2>1. CoreType'
    BY <1>16 DEF RemoveStop, Removes, CoreType
  <2>2. StreamOnAttached'
    BY <1>16 DEF RemoveStop, Removes, StreamOnAttached, Attached, CoreType
  <2>3. HookFitsStream'
    BY <1>16 DEF RemoveStop, Removes, HookFitsStream
  <2>4. HeldOnce'
    BY <1>16 DEF RemoveStop, Removes, HeldOnce, Held, CoreType, HookFitsStream,
                 StreamOnAttached, Attached
  <2>5. LiveWhileHeld'
    BY <1>16 DEF RemoveStop, Removes, LiveWhileHeld, HeldOnce, Held, CoreType,
                 HookFitsStream, StreamOnAttached, Attached
  <2>6. HeldIsActive'
    BY <1>16 DEF RemoveStop, Removes, HeldIsActive, LiveWhileHeld, HeldOnce, Held, CoreType,
                 HookFitsStream, StreamOnAttached, Attached
  <2> QED
    BY <2>1, <2>2, <2>3, <2>4, <2>5, <2>6
<1>17. ASSUME NEW a \in Amps, RemoveStopped(a)
       PROVE  QInv'
  <2>1. CoreType'
    BY <1>17 DEF RemoveStopped, Removes, CoreType
  <2>2. StreamOnAttached'
    BY <1>17 DEF RemoveStopped, Removes, StreamOnAttached, Attached, CoreType
  <2>3. HookFitsStream'
    BY <1>17 DEF RemoveStopped, Removes, HookFitsStream
  <2>4. HeldOnce'
    BY <1>17 DEF RemoveStopped, Removes, HeldOnce, Held, CoreType, HookFitsStream,
                 StreamOnAttached, Attached
  <2>5. LiveWhileHeld'
    BY <1>17 DEF RemoveStopped, Removes, LiveWhileHeld, HeldOnce, Held, CoreType,
                 HookFitsStream, StreamOnAttached, Attached
  <2>6. HeldIsActive'
    BY <1>17 DEF RemoveStopped, Removes, HeldIsActive, LiveWhileHeld, HeldOnce, Held,
                 CoreType, HookFitsStream, StreamOnAttached, Attached
  <2> QED
    BY <2>1, <2>2, <2>3, <2>4, <2>5, <2>6
<1>18. ASSUME NEW a \in Amps, RemoveDel(a)
       PROVE  QInv'
  <2>1. CoreType'
    BY <1>18 DEF RemoveDel, Removes, CoreType
  <2>2. StreamOnAttached'
    BY <1>18 DEF RemoveDel, Removes, StreamOnAttached, Attached, CoreType
  <2>3. HookFitsStream'
    BY <1>18 DEF RemoveDel, Removes, HookFitsStream
  <2>4. HeldOnce'
    BY <1>18 DEF RemoveDel, Removes, HeldOnce, Held, CoreType, HookFitsStream,
                 StreamOnAttached, Attached
  <2>5. LiveWhileHeld'
    BY <1>18 DEF RemoveDel, Removes, LiveWhileHeld, HeldOnce, Held, CoreType,
                 HookFitsStream, StreamOnAttached, Attached
  <2>6. HeldIsActive'
    BY <1>18 DEF RemoveDel, Removes, HeldIsActive, LiveWhileHeld, HeldOnce, Held, CoreType,
                 HookFitsStream, StreamOnAttached, Attached
  <2> QED
    BY <2>1, <2>2, <2>3, <2>4, <2>5, <2>6
<1>19. CASE UNCHANGED vars
  BY <1>19 DEF CoreType, StreamOnAttached, Attached, HookFitsStream, HeldOnce, Held,
               LiveWhileHeld, HeldIsActive
<1> QED
  BY <1>1, <1>2, <1>3, <1>4, <1>5, <1>6, <1>7, <1>8, <1>9, <1>10, <1>11, <1>12, <1>13,
     <1>14, <1>15, <1>16, <1>17, <1>18, <1>19
  DEF Next, HookStep, RemoveStep

\* The environment never becomes quiet again.
LEMMA QuietStep ==
    ASSUME quiet \in BOOLEAN, [Next]_vars
    PROVE  quiet' \in BOOLEAN /\ (quiet' => quiet)
<1>1. CASE Open
  BY <1>1 DEF Open
<1>2. CASE Prepare \/ Cleanup \/ Close
  BY <1>2 DEF Prepare, Cleanup, Close
<1>3. CASE HookStep
  BY <1>3 DEF HookStep, HookReturn, StartEnd, StopEnd, HookOpen, HookPrepare, HookStop
<1>4. CASE SystemSuspend \/ SystemResume
  BY <1>4 DEF SystemSuspend, SystemResume
<1>5. ASSUME NEW a \in Amps, RuntimeSuspend(a) \/ Probe(a) \/ RemoveBegin(a) \/ RemoveStep(a)
      PROVE  quiet' \in BOOLEAN /\ (quiet' => quiet)
  <2>1. CASE RuntimeSuspend(a)
    BY <2>1 DEF RuntimeSuspend
  <2>2. CASE Probe(a)
    BY <2>2 DEF Probe
  <2>3. CASE RemoveBegin(a)
    BY <2>3 DEF RemoveBegin
  <2>4. CASE RemoveStep(a)
    BY <2>4 DEF RemoveStep, RemoveStop, RemoveStopped, RemoveDel
  <2> QED
    BY <1>5, <2>1, <2>2, <2>3, <2>4
<1>6. CASE UNCHANGED vars
  BY <1>6 DEF vars
<1> QED
  BY <1>1, <1>2, <1>3, <1>4, <1>5, <1>6 DEF Next

\* Nothing is on, held or registered at first.
LEMMA InitIInv == Init => IInv
<1> SUFFICES ASSUME Init PROVE IInv
  OBVIOUS
<1> USE SideAssumption DEF Init, Idle, NoHook
<1>1. GInv
  <2>1. HookType /\ PmType
    BY DEF HookType, PmType
  <2>2. BusType
    <3>1. removals \in 0..MaxRemovals
      OBVIOUS
    <3> QED
      BY <3>1 DEF BusType
  <2>3. HookOnBound /\ MirrorsPm
    BY DEF HookOnBound, MirrorsPm, Probed
  <2> QED
    BY <2>1, <2>2, <2>3 DEF GInv
<1>2. QInv
  BY DEF QInv, CoreType, StreamOnAttached, HookFitsStream, HeldOnce, Held, LiveWhileHeld,
         HeldIsActive
<1> QED
  BY <1>1, <1>2 DEF IInv, Init

\* aw88399_hda.c: both invariants hold in every reachable state.
THEOREM InvariantHolds == Spec => []IInv
<1>1. Init => IInv
  BY InitIInv
<1>2. IInv /\ [Next]_vars => IInv'
  BY GStep, QStep, QuietStep DEF IInv
<1> QED
  BY <1>1, <1>2, PTL DEF Spec

-----------------------------------------------------------------------------
(* What the runs check.                                                    *)

\* aw88399_hda_playback_hook: a hook reaches probed amps only, whatever is
\* removed when.
THEOREM HooksSafe == Spec => []HooksReachProbed
<1>1. IInv => HooksReachProbed
  BY DEF IInv, GInv, HookType, HookOnBound, HooksReachProbed
<1> QED
  BY <1>1, InvariantHolds, PTL

\* aw88399_hda_runtime_suspend, _resume: the driver's flag follows runtime PM,
\* whatever is removed when.
THEOREM FlagMirrorsPm == Spec => []MirrorsPm
<1>1. IInv => MirrorsPm
  BY DEF IInv, GInv
<1> QED
  BY <1>1, InvariantHolds, PTL

\* Every variable keeps its type as long as amps come and go only while no
\* stream is open; above all the usage counters, because the hooks balance.
\* (That losses cannot accumulate otherwise is model-checked only.)
THEOREM TypeCorrect == Spec => [](quiet => TypeOK)
<1>1. ASSUME IInv, quiet PROVE TypeOK
  <2>1. usage \in [Amps -> 0..MaxRemovals + 1]
    <3>1. \A a \in Amps : usage[a] = 0 \/ usage[a] = 1
      BY <1>1 DEF IInv, QInv, HeldOnce
    <3>2. 0 \in 0..MaxRemovals + 1 /\ 1 \in 0..MaxRemovals + 1
      BY SideAssumption
    <3> QED
      BY <1>1, <3>1, <3>2 DEF IInv, QInv, CoreType
  <2> QED
    BY <1>1, <2>1 DEF IInv, GInv, QInv, HookType, PmType, BusType, CoreType, TypeOK
<1> QED
  BY <1>1, InvariantHolds, PTL

\* aw88399_hda_playback_hook: OPEN and CLOSE take and drop each amp exactly
\* once, across suspends and resumes.
THEOREM BalanceCorrect == Spec => []Balanced
<1>1. IInv => Balanced
  BY DEF IInv, GInv, QInv, HookOnBound, HeldOnce, Held, Balanced, Idle
<1> QED
  BY <1>1, InvariantHolds, PTL

\* aw88399_hda_runtime_suspend, aw88399_hda_system_suspend: a suspended amp is
\* off.
THEOREM SuspendedIsOff == Spec => []IdleWhenSuspended
<1>1. IInv => IdleWhenSuspended
  BY DEF IInv, GInv, QInv, HookType, PmType, LiveWhileHeld, HeldIsActive, HeldOnce,
         IdleWhenSuspended
<1> QED
  BY <1>1, InvariantHolds, PTL

\* aw88399_hda_playback_hook, CLOSE: no amp plays once the stream is closed.
THEOREM ClosedIsSilent == Spec => []SilentAfterClose
<1>1. IInv => SilentAfterClose
  BY DEF IInv, QInv, LiveWhileHeld, Held, SilentAfterClose, Idle
<1> QED
  BY <1>1, InvariantHolds, PTL

\* aw88399_hda_playback_hook, PREPARE: an amp that is on after it has been
\* initialised, suspends in between or not.
THEOREM PrepareCorrect == Spec => PrepareInitialises
<1>1. IInv' => (quiet' => \A a \in Amps : on'[a] => live'[a])
  BY DEF IInv, QInv, LiveWhileHeld
<1>2. IInv' /\ [Next]_vars => [quiet' => \A a \in Amps : Initialised(a)]_vars
  BY <1>1 DEF Initialised
<1> QED
  BY <1>2, InvariantHolds, PTL DEF PrepareInitialises, Spec

\* aw88399_hda.c: what the runs check of hooks and PM, whoever removes amps when.
THEOREM SideCorrect == Spec => []SideInv
<1>1. (quiet => TypeOK) /\ HooksReachProbed /\ MirrorsPm => SideInv
  BY DEF SideInv
<1> QED
  BY <1>1, TypeCorrect, HooksSafe, FlagMirrorsPm, PTL

=============================================================================
