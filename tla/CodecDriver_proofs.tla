------------------------- MODULE CodecDriver_proofs -------------------------
(***************************************************************************)
(* Proofs about the Realtek codec driver beside its power transitions,     *)
(* which have a module of their own: its probe (CodecProbe) whatever the   *)
(* tables name, however often the codec is probed and removed and whenever *)
(* the amplifiers come and go, and the hooks that its fixups install       *)
(* (CodecJacks, CodecStreams, CodecLeds) for every machine of their        *)
(* tables.  Each has an inductive invariant of its own: who owns the       *)
(* component master and the headset key, what the threads in a jack hook   *)
(* still have to do, what the queue of register writes will have done, and *)
(* what the driver noted for each LED.                                     *)
(***************************************************************************)
EXTENDS CodecProbe, CodecLeds, CodecStreams, CodecJacks, TLAPS

-----------------------------------------------------------------------------
(* The probe: who owns the component master and the headset key.           *)

\* From the set up of the key to the FREE action.
KeyStates == {"parse", "probe", "ready", "error", "remove", "free"}

\* The spec lives from its allocation to the FREE action; the manager is noted
\* in it only until remove has run.
SpecLife ==
    /\ spec <=> pc \notin {"off", "freed"}
    /\ parent => spec /\ pc # "free"
    /\ master => parent

\* comp_bind has been called exactly for a whole aggregate with its master.
BoundIsWhole == (bound <=> master /\ here = Amps) /\ (notify <=> bound)

\* Nobody but remove takes away the manager the hook relies on.
HookHasMaster ==
    hook = "comps" => master \/ pc \in {"error", "remove", "free", "freed", "off"}

\* One input device, known to spec->kb_dev, and only the fixup that frees it
\* makes it.
KeyLife ==
    /\ inputs = IF kb THEN 1 ELSE 0
    /\ kb => fixup = "hotkey" /\ pc \in KeyStates
    /\ event => kb \/ pc = "freed"

IInv == TypeOK /\ SpecLife /\ BoundIsWhole /\ HookHasMaster /\ KeyLife

-----------------------------------------------------------------------------

\* Making the manager, or failing to, keeps what the manager's parts promise.
LEMMA PreKeeps ==
    ASSUME IInv, comp_generic_fixup_pre, spec, UNCHANGED here
    PROVE  /\ parent' \in BOOLEAN /\ master' \in BOOLEAN /\ bound' \in BOOLEAN
           /\ notify' \in BOOLEAN /\ hook' \in {"none", "comps"}
           /\ master' => parent'
           /\ BoundIsWhole'
           /\ hook' = "comps" => master' \/ (hook = "comps" /\ ~master)
<1>1. PICK made \in BOOLEAN : ManagerInit(made) /\ hook' = IF made THEN "comps" ELSE hook
  BY DEF comp_generic_fixup_pre
<1> USE DEF IInv, TypeOK, SpecLife, BoundIsWhole
<1>2. CASE parent
  BY <1>1, <1>2 DEF ManagerInit
<1>3. CASE ~parent /\ made
  <2>1. parent' = TRUE /\ master' = TRUE /\ hook' = "comps"
    BY <1>1, <1>3 DEF ManagerInit
  <2>2. (bound' <=> here = Amps) /\ (notify' <=> here = Amps)
        /\ bound' \in BOOLEAN /\ notify' \in BOOLEAN
    BY <1>1, <1>3 DEF ManagerInit, CompBind
  <2> QED
    BY <2>1, <2>2
<1>4. CASE ~parent /\ ~made
  <2>1. /\ parent' \in BOOLEAN /\ master' = FALSE /\ hook' = hook
        /\ bound' = FALSE /\ notify' = FALSE
    BY <1>1, <1>4 DEF ManagerInit, CompBind
  <2> QED
    BY <2>1, <1>4
<1> QED
  BY <1>2, <1>3, <1>4

\* Nothing is on, held or registered at first.
LEMMA InitIInv == Init => IInv
<1> SUFFICES ASSUME Init PROVE IInv
  OBVIOUS
<1>1. inputs \in 0..1 /\ probes \in 0..MaxProbes /\ moves \in 0..MaxMoves
  BY ProbeAssumption DEF Init
<1>2. TypeOK
  BY <1>1, ProbeAssumption DEF Init, TypeOK
<1>3. SpecLife /\ BoundIsWhole /\ HookHasMaster
  BY ProbeAssumption DEF Init, SpecLife, BoundIsWhole, HookHasMaster
<1>4. KeyLife
  BY DEF Init, KeyLife
<1> QED
  BY <1>2, <1>3, <1>4 DEF IInv

\* One step of the probe, of the removal or of an amplifier.
LEMMA StepIInv ==
    ASSUME IInv, [Next]_vars
    PROVE  IInv'
<1> USE DEF IInv, comps, keys, At
<1>1. CASE alc_alloc_spec
  <2>1. probes' \in 0..MaxProbes /\ moves' \in 0..MaxMoves
    BY <1>1, ProbeAssumption DEF alc_alloc_spec, TypeOK
  <2>2. CASE UNCHANGED <<pc, spec, fixup, parent, master, bound, notify, hook, kb, event,
                         inputs, machine, here>>
    BY <2>1, <2>2 DEF TypeOK, SpecLife, BoundIsWhole, HookHasMaster, KeyLife, KeyStates
  <2>3. CASE /\ pc = "off" /\ pc' = "pick" /\ spec' = TRUE /\ parent' = FALSE
             /\ hook' = "none" /\ kb' = FALSE
             /\ UNCHANGED <<fixup, master, bound, notify, event, inputs, machine, here>>
    BY <2>1, <2>3 DEF TypeOK, SpecLife, BoundIsWhole, HookHasMaster, KeyLife, KeyStates
  <2> QED
    BY <1>1, <2>2, <2>3 DEF alc_alloc_spec
<1>2. CASE RenameFails
  BY <1>2 DEF RenameFails, TypeOK, SpecLife, BoundIsWhole, HookHasMaster, KeyLife, KeyStates
<1>3. CASE Pick
  <2>1. TypeOK'
    BY <1>3 DEF Pick, TypeOK, Machine
  <2> QED
    BY <1>3, <2>1 DEF Pick, SpecLife, BoundIsWhole, HookHasMaster, KeyLife, KeyStates
<1>4. CASE find_cirrus_companion_amps
  <2>1. CASE comp_generic_fixup_pre
    BY <1>4, <2>1, PreKeeps
    DEF find_cirrus_companion_amps, TypeOK, SpecLife, HookHasMaster, KeyLife, KeyStates
  <2>2. CASE UNCHANGED comps
    BY <1>4, <2>2 DEF find_cirrus_companion_amps, TypeOK, SpecLife, BoundIsWhole,
                      HookHasMaster, KeyLife, KeyStates
  <2> QED
    BY <1>4, <2>1, <2>2 DEF find_cirrus_companion_amps
<1>5. CASE PreProbe
  <2>1. /\ kb' \in BOOLEAN /\ event' \in BOOLEAN /\ inputs' \in 0..1
        /\ KeyLife'
    BY <1>5 DEF PreProbe, hotkey_pre, alc_register_micmute_input_device, TypeOK, KeyLife,
                KeyStates
  <2>2. CASE fixup = "amps"
    BY <1>5, <2>1, <2>2, PreKeeps DEF PreProbe, TypeOK, SpecLife, HookHasMaster
  <2>3. CASE fixup # "amps"
    BY <1>5, <2>1, <2>3 DEF PreProbe, TypeOK, SpecLife, BoundIsWhole, HookHasMaster
  <2> QED
    BY <2>2, <2>3
<1>6. CASE alc269_parse_auto_config
  BY <1>6 DEF alc269_parse_auto_config, TypeOK, SpecLife, BoundIsWhole, HookHasMaster,
              KeyLife, KeyStates
<1>7. CASE Probed
  BY <1>7 DEF Probed, TypeOK, SpecLife, BoundIsWhole, HookHasMaster, KeyLife, KeyStates
<1>8. CASE Disconnect
  BY <1>8 DEF Disconnect, TypeOK, SpecLife, BoundIsWhole, HookHasMaster, KeyLife, KeyStates
<1>9. CASE alc269_remove
  BY <1>9 DEF alc269_remove, ManagerFree, CompBind, TypeOK, SpecLife, BoundIsWhole,
              HookHasMaster, KeyLife, KeyStates
<1>10. CASE Free
  <2>1. kb' = FALSE /\ event' = event /\ inputs' = 0
    <3>1. CASE fixup = "hotkey"
      BY <1>10, <3>1 DEF Free, hotkey_free, KeyLife
    <3>2. CASE fixup # "hotkey"
      BY <1>10, <3>2 DEF Free, KeyLife, TypeOK
    <3> QED
      BY <3>1, <3>2
  <2>2. /\ parent' = FALSE /\ master' = FALSE /\ bound' = FALSE /\ notify' = FALSE
        /\ hook' = hook
    BY <1>10 DEF Free, comp_generic_fixup_free, ManagerFree, CompBind, SpecLife,
                 BoundIsWhole, TypeOK
  <2>3. /\ pc = "free" /\ pc' = "freed" /\ spec' = FALSE /\ fixup' = "none"
        /\ machine' = machine /\ here' = here /\ moves' = moves /\ probes' = probes
    BY <1>10 DEF Free
  <2>4. TypeOK'
    <3>1. inputs' \in 0..1 /\ moves' \in 0..MaxMoves /\ probes' \in 0..MaxProbes
      BY <2>1, <2>3 DEF TypeOK
    <3>2. /\ machine' \in Machine /\ fixup' \in Fixups /\ here' \subseteq Amps
          /\ hook' \in {"none", "comps"} /\ event' \in BOOLEAN
      BY <2>1, <2>2, <2>3, ProbeAssumption DEF TypeOK
    <3> QED
      BY <2>1, <2>2, <2>3, <3>1, <3>2 DEF TypeOK
  <2>5. SpecLife' /\ BoundIsWhole' /\ HookHasMaster'
    BY <2>2, <2>3 DEF SpecLife, BoundIsWhole, HookHasMaster
  <2>6. KeyLife'
    BY <2>1, <2>3 DEF KeyLife
  <2> QED
    BY <2>4, <2>5, <2>6
<1>11. CASE Cleanup
  BY <1>11 DEF Cleanup, TypeOK, SpecLife, BoundIsWhole, HookHasMaster, KeyLife, KeyStates
<1>12. ASSUME NEW a \in Amps, AmpMoves(a)
       PROVE  IInv'
  <2>1. moves' \in 0..MaxMoves /\ probes' \in 0..MaxProbes /\ inputs' \in 0..1
        /\ here' \subseteq Amps
    BY <1>12, ProbeAssumption DEF AmpMoves, TypeOK
  <2>2. (bound' <=> master /\ here' = Amps) /\ (notify' <=> bound')
        /\ bound' \in BOOLEAN /\ notify' \in BOOLEAN
    BY <1>12 DEF AmpMoves, CompBind
  <2>3. UNCHANGED <<machine, pc, spec, fixup, parent, master, hook, keys, probes>>
    BY <1>12 DEF AmpMoves
  <2> QED
    BY <2>1, <2>2, <2>3 DEF TypeOK, SpecLife, BoundIsWhole, HookHasMaster, KeyLife, KeyStates
<1>13. CASE UNCHANGED vars
  BY <1>13 DEF vars, TypeOK, SpecLife, BoundIsWhole, HookHasMaster, KeyLife, KeyStates
<1> QED
  BY <1>1, <1>2, <1>3, <1>4, <1>5, <1>6, <1>7, <1>8, <1>9, <1>10, <1>11, <1>12, <1>13
  DEF Next, Step

\* What the runs check follows.
LEMMA IInvImplies ==
    IInv => TypeOK /\ MasterHasSpec /\ NothingLeft /\ HookBacked /\ KeyHasDevice
            /\ NotifyBound
  BY DEF IInv, TypeOK, SpecLife, BoundIsWhole, HookHasMaster, KeyLife, KeyStates,
         MasterHasSpec, NothingLeft, HookBacked, KeyHasDevice, NotifyBound

-----------------------------------------------------------------------------

\* alc269.c: the life of spec, manager, hook and key hold together in every
\* reachable state.
THEOREM InvariantHolds == Spec => []IInv
<1>1. Init => IInv
  BY InitIInv
<1>2. IInv /\ [Next]_vars => IInv'
  BY StepIInv
<1> QED
  BY <1>1, <1>2, PTL DEF Spec

\* alc269_probe, alc269_remove, comp_generic_fixup, alc280_hp_gpio4_automute_hook
\* and their kin: there is never a second input device, the component callbacks
\* find codec->spec, the playback hook of a working codec its manager, the key's
\* callback its device, notifications bound components, and a codec that is off
\* has left nothing behind.
THEOREM ProbeCorrect == Spec => []ProbeInv
<1>1. IInv => ProbeInv
  BY IInvImplies DEF ProbeInv
<1> QED
  BY <1>1, InvariantHolds, PTL

-----------------------------------------------------------------------------
(* The jack hooks: a line follows the jacks.                               *)

Sleeps == jack_machine \in Sleeping
OneLine == jack_machine \in {"dell_alc288", "hp_9480m"}
Toggles == jack_machine \in {"gx502", "gu502"}

\* No event waits and no thread has yet to sense the jacks.
Sensing == \E t \in Threads : hook_pc[t] = 1
Settled == jack_power = "active" /\ pending = {} /\ ~Sensing
Sensed == hp_jack_present <=> "hp" \in jacks_in
LastIn(t) == ~Idle(t) /\ (first = t => Idle(Other(t)))

\* A suspended codec runs no hook; the thread that came first is in the hook if any is.
Seated == /\ jack_power = "suspended" => \A t \in Threads : Idle(t)
          /\ \A t \in Threads : ~Idle(t) => ~Idle(first)

\* Sleeping hooks: nobody overtakes, and the last one in will write the truth.
SleepsRight ==
    Sleeps =>
      /\ \A t \in Threads : hook_pc[t] <= hook_pc[first]
      /\ jack_power = "active" /\ pending = {} =>
           /\ \A t \in Threads : LastIn(t) /\ hook_pc[t] >= 2 =>
                Sensed /\ (hook_pc[t] >= 3 => (vref[t] <=> "hp" \in jacks_in))
           /\ (\A t \in Threads : Idle(t)) => line = Value("hp" \in jacks_in)
TogglesRight == Toggles /\ Settled => line = Value("hp" \in jacks_in)
OneLineRight ==
    OneLine /\ Settled =>
        Sensed /\ ((\E t \in Threads : hook_pc[t] = 2) \/ line = Value("hp" \in jacks_in))
DockRight ==
    jack_machine = "tx300" /\ Settled =>
      /\ Sensed
      /\ "dock" \in jacks_in =>
           (\E t \in Threads : hook_pc[t] \in {2, 3}) \/ line = Value(TRUE)
      /\ "dock" \notin jacks_in =>
           (\E t \in Threads : hook_pc[t] = 2) \/ line = Value("hp" \in jacks_in)
PulseRight ==
    jack_machine = "quanta" /\ jack_power = "active" =>
        (\E t \in Threads : ~Idle(t)) \/ line = Value(TRUE)

HooksRight ==
    /\ Seated /\ SleepsRight /\ TogglesRight /\ OneLineRight /\ DockRight /\ PulseRight
JackIInv == JackTypeOK /\ HooksRight

LEMMA Laptops ==
    ASSUME jack_machine \in JackMachines
    PROVE  jack_machine \in {"x101", "sense_combo", "dell_alc288", "hp_9480m", "gx502", "gu502",
                             "tx300", "quanta"}
BY JackAssumption DEF Hooks

LEMMA StepsOfHooks ==
    /\ jack_machine = "x101" =>
         /\ LastStep = 4 /\ Steps[1] = "automute" /\ Steps[2] = "vref"
         /\ Steps[3] = "write" /\ Steps[4] = "write"
    /\ jack_machine = "sense_combo" =>
         /\ LastStep = 3 /\ Steps[1] = "automute" /\ Steps[2] = "vref" /\ Steps[3] = "write"
    /\ OneLine => LastStep = 2 /\ Steps[1] = "automute" /\ Steps[2] = "gpio"
    /\ Toggles => LastStep = 1 /\ Steps[1] = "toggle"
    /\ jack_machine = "tx300" =>
         /\ LastStep = 3 /\ Steps[1] = "automute" /\ Steps[2] = "outputs" /\ Steps[3] = "dock"
    /\ jack_machine = "quanta" =>
         /\ LastStep = 3 /\ Steps[1] = "automute" /\ Steps[2] = "pulse" /\ Steps[3] = "write"
<1>1. ASSUME jack_machine = "x101"
      PROVE  LastStep = 4 /\ Steps[1] = "automute" /\ Steps[2] = "vref" /\ Steps[3] = "write" /\ Steps[4] = "write"
  <2>1. Steps = <<"automute", "vref", "write", "write">> BY <1>1 DEF Steps, Hooks, Hook, alc269_x101_hp_automute_hook
  <2> QED BY <2>1 DEF LastStep
<1>2. ASSUME jack_machine = "sense_combo"
      PROVE  LastStep = 3 /\ Steps[1] = "automute" /\ Steps[2] = "vref" /\ Steps[3] = "write"
  <2>1. Steps = <<"automute", "vref", "write">> BY <1>2 DEF Steps, Hooks, Hook, alc283_hp_automute_hook
  <2> QED BY <2>1 DEF LastStep
<1>3. ASSUME jack_machine = "dell_alc288"
      PROVE  LastStep = 2 /\ Steps[1] = "automute" /\ Steps[2] = "gpio"
  <2>1. Steps = <<"automute", "gpio">> BY <1>3 DEF Steps, Hooks, Hook, alc288_update_headset_jack_cb
  <2> QED BY <2>1 DEF LastStep
<1>4. ASSUME jack_machine = "hp_9480m"
      PROVE  LastStep = 2 /\ Steps[1] = "automute" /\ Steps[2] = "gpio"
  <2>1. Steps = <<"automute", "gpio">> BY <1>4 DEF Steps, Hooks, Hook, alc280_hp_gpio4_automute_hook
  <2> QED BY <2>1 DEF LastStep
<1>5. ASSUME jack_machine = "gx502"
      PROVE  LastStep = 1 /\ Steps[1] = "toggle"
  <2>1. Steps = <<"toggle">> BY <1>5 DEF Steps, Hooks, Hook, alc294_gx502_toggle_output
  <2> QED BY <2>1 DEF LastStep
<1>6. ASSUME jack_machine = "gu502"
      PROVE  LastStep = 1 /\ Steps[1] = "toggle"
  <2>1. Steps = <<"toggle">> BY <1>6 DEF Steps, Hooks, Hook, alc294_gu502_toggle_output
  <2> QED BY <2>1 DEF LastStep
<1>7. ASSUME jack_machine = "tx300"
      PROVE  LastStep = 3 /\ Steps[1] = "automute" /\ Steps[2] = "outputs" /\ Steps[3] = "dock"
  <2>1. Steps = <<"automute", "outputs", "dock">> BY <1>7 DEF Steps, Hooks, Hook, asus_tx300_automute
  <2> QED BY <2>1 DEF LastStep
<1>8. ASSUME jack_machine = "quanta"
      PROVE  LastStep = 3 /\ Steps[1] = "automute" /\ Steps[2] = "pulse" /\ Steps[3] = "write"
  <2>1. Steps = <<"automute", "pulse", "write">> BY <1>8 DEF Steps, Hooks, Hook, alc269_quanta_automute
  <2> QED BY <2>1 DEF LastStep
<1> QED BY <1>1, <1>2, <1>3, <1>4, <1>5, <1>6, <1>7, <1>8 DEF OneLine, Toggles

LEMMA PulseLine == jack_machine = "quanta" => Value(TRUE) = Value(FALSE)
BY DEF Value, Hooks, Hook, alc269_quanta_automute

LEMMA Others ==
    /\ Threads = {"work", "init"} /\ Other("work") = "init" /\ Other("init") = "work"
    /\ \A t, u \in Threads : u # t => u = Other(t)
<1>1. Other("work") = "init" BY DEF Other, Threads
<1>2. Other("init") = "work" BY DEF Other, Threads
<1> QED BY <1>1, <1>2 DEF Threads

LEMMA StepsLong ==
    ASSUME jack_machine \in JackMachines
    PROVE  /\ LastStep \in 1..4
           /\ \A k \in 1..LastStep :
                Steps[k] \in {"automute", "vref", "write", "gpio", "toggle", "outputs", "dock", "pulse"}
<1>1. LastStep \in 1..4 BY Laptops, StepsOfHooks DEF OneLine, Toggles
<1>2. ASSUME NEW k \in 1..LastStep
      PROVE  Steps[k] \in {"automute", "vref", "write", "gpio", "toggle", "outputs", "dock", "pulse"}
  <2>1. k \in {1, 2, 3, 4} BY <1>1
  <2> QED BY <2>1, Laptops, StepsOfHooks DEF OneLine, Toggles
<1> QED BY <1>1, <1>2

LEMMA InitJack == JackInit => JackIInv
<1> SUFFICES ASSUME JackInit PROVE JackIInv OBVIOUS
<1>1. LastStep \in 1..4 BY StepsLong DEF JackInit
<1>2. JackTypeOK
  <2> HIDE DEF LastStep
  <2>1. hook_pc \in [Threads -> 0..LastStep] BY <1>1 DEF JackInit
  <2>2. vref \in [Threads -> BOOLEAN] BY DEF JackInit
  <2>3. hp_jack_present \in BOOLEAN BY DEF JackInit
  <2>4. jack_moves \in 0..MaxJackMoves BY JackAssumption DEF JackInit
  <2>5. first \in Threads BY DEF JackInit, Threads
  <2> QED BY <2>1, <2>2, <2>3, <2>4, <2>5 DEF JackInit, JackTypeOK
<1>3. Seated /\ SleepsRight
  BY Others DEF JackInit, Seated, SleepsRight, Idle
<1>4. TogglesRight /\ OneLineRight /\ DockRight /\ PulseRight
  BY DEF JackInit, TogglesRight, OneLineRight, DockRight, PulseRight, Settled
<1> QED BY <1>2, <1>3, <1>4 DEF JackIInv, HooksRight

LEMMA JackTypes == JackTypeOK /\ [JackNext]_jackVars => JackTypeOK'
<1> SUFFICES ASSUME JackTypeOK, [JackNext]_jackVars PROVE JackTypeOK' OBVIOUS
<1> USE JackAssumption DEF JackTypeOK
<1>0. LastStep \in 1..4 /\ (jack_machine' = jack_machine => LastStep' = LastStep /\ Wired' = Wired /\ Lines' = Lines)
  BY StepsLong DEF LastStep, Steps, Wired, Lines, Value
<1>1. ASSUME NEW j \in Jacks, Move(j) PROVE JackTypeOK' BY <1>0, <1>1 DEF Move
<1>2. ASSUME NEW j \in Jacks, Event(j) PROVE JackTypeOK' 
  <2>1. hook_pc' \in [Threads -> 0..LastStep] BY <1>0, <1>2, Others DEF Event, Enter
  <2>2. first' \in Threads BY <1>2, Others DEF Event, Enter
  <2> QED BY <1>0, <1>2, <2>1, <2>2 DEF Event
<1>3. CASE Power
  <2>1. hook_pc' \in [Threads -> 0..LastStep] BY <1>0, <1>3, Others DEF Power, HookWake, Enter
  <2>2. first' \in Threads BY <1>3, Others DEF Power, HookWake, Enter
  <2>3. jack_power' \in {"active", "suspended"} BY <1>3 DEF Power, HookWake
  <2> QED BY <1>0, <1>3, <2>1, <2>2, <2>3 DEF Power
<1>4. ASSUME NEW t \in Threads, HookStep(t) PROVE JackTypeOK'
  <2>1. /\ jack_machine' = jack_machine /\ jacks_in' = jacks_in /\ jack_moves' = jack_moves
        /\ pending' = pending /\ jack_power' = jack_power
    BY <1>4 DEF HookStep
  <2>2. hook_pc' \in [Threads -> 0..LastStep] /\ first' \in Threads
    BY <1>0, <1>4, Others DEF HookStep, Idle
  <2>3. Steps[hook_pc[t]] \in {"automute", "vref", "write", "gpio", "toggle", "outputs", "dock", "pulse"}
    <3>1. hook_pc[t] \in 1..LastStep BY <1>0, <1>4 DEF HookStep, Idle
    <3> QED BY <3>1, StepsLong
  <2>4. Value(TRUE) \in Lines /\ Value(FALSE) \in Lines /\ "other" \in Lines BY DEF Lines
  <2>5. \A b \in BOOLEAN : Value(b) \in Lines BY <2>4
  <2>6. hp_jack_present' \in BOOLEAN /\ vref' \in [Threads -> BOOLEAN] /\ line' \in Lines
    <3>1. Do(t, Steps[hook_pc[t]]) BY <1>4 DEF HookStep
    <3> HIDE DEF JackTypeOK
    <3>2. hp_jack_present \in BOOLEAN /\ vref \in [Threads -> BOOLEAN] /\ line \in Lines /\ vref[t] \in BOOLEAN
      BY DEF JackTypeOK
    <3> DEFINE step == Steps[hook_pc[t]]
    <3>3. Do(t, step) /\ step \in {"automute", "vref", "write", "gpio", "toggle", "outputs", "dock", "pulse"}
      BY <2>3, <3>1
    <3>4. Value(vref[t]) \in Lines /\ Value(hp_jack_present) \in Lines /\ Value("hp" \in jacks_in) \in Lines
      BY <3>2 DEF Value, Lines
    <3> HIDE DEF step
    <3>5. hp_jack_present' \in BOOLEAN
      <4>1. step = "automute" => hp_jack_present' = ("hp" \in jacks_in) BY <3>3 DEF Do
      <4>2. step # "automute" => hp_jack_present' = hp_jack_present BY <3>3 DEF Do
      <4>3. ("hp" \in jacks_in) \in BOOLEAN OBVIOUS
      <4> QED BY <3>2, <4>1, <4>2, <4>3, Zenon
    <3>6. vref' \in [Threads -> BOOLEAN] BY <3>2, <3>3 DEF Do
    <3>7. line' \in Lines BY <2>4, <3>2, <3>3, <3>4 DEF Do
    <3> QED BY <3>5, <3>6, <3>7
  <2> QED BY <1>0, <2>1, <2>2, <2>6
<1>5. CASE UNCHANGED jackVars BY <1>0, <1>5 DEF jackVars
<1> QED BY <1>1, <1>2, <1>3, <1>4, <1>5 DEF JackNext

\* What a step of a hook does: to its thread, to what it senses and to the line.
LEMMA Turns ==
    ASSUME JackTypeOK, NEW t \in Threads, HookStep(t)
    PROVE  /\ UNCHANGED <<jack_machine, jacks_in, pending, jack_power>>
           /\ hook_pc[t] \in 1..LastStep /\ LastStep \in 1..4
           /\ hook_pc'[t] = IF hook_pc[t] = LastStep THEN 0 ELSE hook_pc[t] + 1
           /\ hook_pc'[Other(t)] = hook_pc[Other(t)] /\ hook_pc[Other(t)] \in 0..LastStep
<1>1. UNCHANGED <<jack_machine, jacks_in, pending, jack_power>> BY DEF HookStep
<1>2. hook_pc[t] \in 1..LastStep /\ LastStep \in 1..4 /\ hook_pc[Other(t)] \in 0..LastStep
  BY StepsLong, Others DEF HookStep, Idle, JackTypeOK
<1>3. /\ hook_pc'[t] = IF hook_pc[t] = LastStep THEN 0 ELSE hook_pc[t] + 1
      /\ hook_pc'[Other(t)] = hook_pc[Other(t)]
  BY Others DEF HookStep, JackTypeOK
<1> QED BY <1>1, <1>2, <1>3

LEMMA Doing ==
    ASSUME JackTypeOK, NEW t \in Threads, HookStep(t)
    PROVE  /\ Do(t, Steps[hook_pc[t]]) /\ vref \in [Threads -> BOOLEAN]
           /\ Steps[hook_pc[t]] \in {"automute", "vref", "write", "gpio", "toggle", "outputs",
                                     "dock", "pulse"}
BY Turns, StepsLong DEF HookStep, JackTypeOK

LEMMA Senses ==
    ASSUME JackTypeOK, NEW t \in Threads, HookStep(t)
    PROVE  /\ Steps[hook_pc[t]] = "automute" => (hp_jack_present' <=> "hp" \in jacks_in)
           /\ Steps[hook_pc[t]] # "automute" => (hp_jack_present' <=> hp_jack_present)
           /\ Steps[hook_pc[t]] = "vref" => (vref'[t] <=> hp_jack_present)
           /\ Steps[hook_pc[t]] # "vref" => (vref'[t] <=> vref[t])
           /\ vref'[Other(t)] <=> vref[Other(t)]
<1> DEFINE step == Steps[hook_pc[t]]
<1>1. /\ Do(t, step) /\ vref \in [Threads -> BOOLEAN] /\ Other(t) \in Threads /\ Other(t) # t
      /\ step \in {"automute", "vref", "write", "gpio", "toggle", "outputs", "dock", "pulse"}
  BY Doing, Others
<1> HIDE DEF step
<1>2. step = "automute" => (hp_jack_present' <=> "hp" \in jacks_in) BY <1>1 DEF Do
<1>3. step # "automute" => hp_jack_present' = hp_jack_present BY <1>1 DEF Do
<1>4. step = "vref" => (vref'[t] <=> hp_jack_present) BY <1>1 DEF Do
<1>5. step # "vref" => vref' = vref BY <1>1 DEF Do
<1>6. vref'[Other(t)] = vref[Other(t)] BY <1>1 DEF Do
<1> QED BY <1>2, <1>3, <1>4, <1>5, <1>6 DEF step

LEMMA Drives ==
    ASSUME JackTypeOK, NEW t \in Threads, HookStep(t)
    PROVE  /\ Steps[hook_pc[t]] \in {"automute", "vref"} => line' = line
           /\ Steps[hook_pc[t]] = "write" => line' = Value(vref[t])
           /\ Steps[hook_pc[t]] \in {"gpio", "outputs"} => line' = Value(hp_jack_present)
           /\ Steps[hook_pc[t]] = "toggle" => line' = Value("hp" \in jacks_in)
           /\ Steps[hook_pc[t]] = "dock" =>
                line' = IF "dock" \in jacks_in THEN Value(TRUE) ELSE line
<1> DEFINE step == Steps[hook_pc[t]]
<1>1. Do(t, step) /\ step \in {"automute", "vref", "write", "gpio", "toggle", "outputs", "dock", "pulse"}
  BY Doing
<1> HIDE DEF step
<1>2. step \in {"automute", "vref"} => line' = line BY <1>1 DEF Do
<1>3. step = "write" => line' = Value(vref[t]) BY <1>1 DEF Do
<1>4. step \in {"gpio", "outputs"} => line' = Value(hp_jack_present) BY <1>1 DEF Do
<1>5. step = "toggle" => line' = Value("hp" \in jacks_in) BY <1>1 DEF Do
<1>6. step = "dock" => line' = IF "dock" \in jacks_in THEN Value(TRUE) ELSE line BY <1>1 DEF Do
<1> QED BY <1>2, <1>3, <1>4, <1>5, <1>6 DEF step

LEMMA JackSteps ==
    ASSUME JackIInv, JackTypeOK', NEW t \in Threads, HookStep(t)
    PROVE  JackIInv'
<1> DEFINE o == Other(t)
<1>0. /\ o \in Threads /\ o # t /\ Other(o) = t /\ Other(t) = o
      /\ \A u \in Threads : u \in {t, o}
  BY Others
<1>a. /\ JackTypeOK /\ Seated
      /\ SleepsRight /\ TogglesRight /\ OneLineRight /\ DockRight /\ PulseRight
  BY DEF JackIInv, HooksRight
<1>1. /\ UNCHANGED <<jack_machine, jacks_in, pending, jack_power>>
      /\ hook_pc[t] \in 1..LastStep /\ LastStep \in 1..4
      /\ hook_pc'[t] = IF hook_pc[t] = LastStep THEN 0 ELSE hook_pc[t] + 1
      /\ hook_pc'[o] = hook_pc[o] /\ hook_pc[o] \in 0..LastStep
  BY <1>0, <1>a, Turns
<1>2. /\ first' = IF Idle(o) \/ first # t THEN first ELSE IF hook_pc'[t] = 0 THEN o ELSE t
      /\ first \in {t, o} /\ InTurn(t)
  BY <1>0 DEF HookStep, JackTypeOK
<1> HIDE DEF o
<1>3. Seated' BY <1>0, <1>a, <1>1, <1>2 DEF Seated, Idle
<1>4. SleepsRight'
  <2> SUFFICES ASSUME Sleeps PROVE SleepsRight' BY <1>1 DEF SleepsRight, Sleeps
  <2>1. /\ Steps[1] = "automute" /\ Steps[2] = "vref" /\ Steps[3] = "write" /\ LastStep \in {3, 4}
        /\ LastStep = 4 => Steps[4] = "write"
    BY StepsOfHooks DEF Sleeps, Sleeping
  <2>2. first # t /\ hook_pc[first] # 0 => hook_pc[t] < hook_pc[first]
    BY <1>2 DEF InTurn, Sleeps, Idle
  <2>3. hook_pc[t] <= hook_pc[first] /\ hook_pc[o] <= hook_pc[first]
    BY <1>0, <1>a, <1>2 DEF SleepsRight
  <2>4. \A u \in Threads : hook_pc'[u] <= hook_pc'[first']
    BY <1>0, <1>1, <1>2, <2>1, <2>2, <2>3 DEF Idle
  <2> SUFFICES ASSUME jack_power = "active", pending = {}
               PROVE  /\ \A u \in Threads : LastIn(u)' /\ hook_pc'[u] >= 2 =>
                            Sensed' /\ (hook_pc'[u] >= 3 => (vref'[u] <=> "hp" \in jacks_in))
                      /\ (\A u \in Threads : hook_pc'[u] = 0) => line' = Value("hp" \in jacks_in)
    BY <1>1, <2>4 DEF SleepsRight, Value, Idle
  <2>5. ASSUME NEW u \in Threads, LastIn(u)', hook_pc'[u] >= 2
        PROVE  Sensed' /\ (hook_pc'[u] >= 3 => (vref'[u] <=> "hp" \in jacks_in))
    <3>0. hook_pc'[u] # 0 /\ (first' = u => hook_pc'[Other(u)] = 0) BY <2>5 DEF LastIn, Idle
    <3>1. CASE u = t
      <4>1. hook_pc[t] >= 2 => LastIn(t) BY <1>0, <1>1, <1>2, <2>2, <2>3, <3>0, <3>1 DEF LastIn, Idle
      <4>2. hook_pc[t] = 1 => Sensed' /\ hook_pc'[t] = 2 BY <1>1, <1>a, <2>1, Senses DEF Sensed
      <4>3. hook_pc[t] = 2 => Sensed' /\ (vref'[t] <=> "hp" \in jacks_in)
        BY <1>1, <1>a, <2>1, <4>1, Senses DEF SleepsRight, Sensed
      <4>4. hook_pc[t] = 3 => Sensed' /\ (vref'[t] <=> "hp" \in jacks_in)
        BY <1>1, <1>a, <2>1, <4>1, Senses DEF SleepsRight, Sensed
      <4>5. hook_pc[t] # 4 BY <1>1, <2>1, <3>0, <3>1
      <4>6. hook_pc[t] \in {1, 2, 3} BY <1>1, <4>5
      <4> QED BY <3>1, <4>2, <4>3, <4>4, <4>6
    <3>2. CASE u = o
      <4>1. LastIn(o) BY <1>0, <1>1, <1>2, <2>2, <2>3, <3>0, <3>2 DEF LastIn, Idle
      <4>2. hook_pc[o] >= 2 BY <1>1, <2>5, <3>2
      <4>3. Sensed' BY <1>0, <1>1, <1>a, <4>1, <4>2, Senses DEF SleepsRight, Sensed
      <4>4. vref'[o] <=> vref[o] BY <1>0, <1>a, Senses
      <4> QED BY <1>0, <1>1, <1>a, <3>2, <4>1, <4>2, <4>3, <4>4 DEF SleepsRight
    <3> QED BY <1>0, <3>1, <3>2
  <2>6. ASSUME \A u \in Threads : hook_pc'[u] = 0
        PROVE  line' = Value("hp" \in jacks_in)
    <3>1. hook_pc[t] = LastStep /\ hook_pc[o] = 0 BY <1>0, <1>1, <2>6
    <3>2. LastIn(t) BY <1>0, <1>1, <3>1 DEF LastIn, Idle, o
    <3>3. vref[t] <=> "hp" \in jacks_in BY <1>a, <2>1, <3>1, <3>2 DEF SleepsRight
    <3>4. line' = Value(vref[t]) BY <2>1, <3>1, <1>a, Drives
    <3> QED BY <3>3, <3>4 DEF Value
  <2> QED BY <2>5, <2>6
<1>5. TogglesRight'
  BY <1>0, <1>1, <1>a, Drives, StepsOfHooks DEF TogglesRight, Toggles, Value
<1>6. OneLineRight'
  <2> SUFFICES ASSUME OneLine, Settled' PROVE OneLineRight' BY <1>1 DEF OneLineRight, OneLine
  <2>1. LastStep = 2 /\ Steps[1] = "automute" /\ Steps[2] = "gpio" BY StepsOfHooks
  <2>2. hook_pc[t] = 2 => Settled BY <1>0, <1>1, <2>1 DEF Settled, Sensing
  <2>3. Sensed' BY <1>1, <1>a, <2>1, <2>2, Senses DEF Sensed, OneLineRight
  <2>4. hook_pc[t] = 2 => line' = Value("hp" \in jacks_in)
    BY <1>1, <1>a, <2>1, <2>2, Drives DEF Sensed, OneLineRight, Value
  <2>5. hook_pc[t] = 1 => hook_pc'[t] = 2 BY <1>1, <2>1
  <2> QED BY <1>1, <2>1, <2>3, <2>4, <2>5 DEF OneLineRight, Value
<1>7. DockRight'
  <2> SUFFICES ASSUME jack_machine = "tx300", Settled' PROVE DockRight' BY <1>1 DEF DockRight
  <2>1. LastStep = 3 /\ Steps[1] = "automute" /\ Steps[2] = "outputs" /\ Steps[3] = "dock"
    BY StepsOfHooks
  <2>2. hook_pc[t] # 1 => Settled BY <1>0, <1>1, <2>1 DEF Settled, Sensing
  <2>3. Sensed' BY <1>1, <1>a, <2>1, <2>2, Senses DEF Sensed, DockRight
  <2>4. hook_pc[t] = 2 => line' = Value("hp" \in jacks_in) /\ hook_pc'[t] = 3
    BY <1>1, <1>a, <2>1, <2>2, Drives DEF Sensed, DockRight, Value
  <2>5. hook_pc[t] = 1 => hook_pc'[t] = 2 BY <1>1, <2>1
  <2>6. hook_pc[t] = 3 =>
           /\ line' = IF "dock" \in jacks_in THEN Value(TRUE) ELSE line
           /\ hook_pc'[t] = 0
    BY <1>1, <2>1, <1>a, Drives
  <2>7. "dock" \in jacks_in => (\E u \in Threads : hook_pc'[u] \in {2, 3}) \/ line' = Value(TRUE)
    BY <1>1, <2>1, <2>4, <2>5, <2>6 DEF Value
  <2>8. "dock" \notin jacks_in =>
           (\E u \in Threads : hook_pc'[u] = 2) \/ line' = Value("hp" \in jacks_in)
    BY <1>0, <1>1, <1>a, <2>1, <2>2, <2>4, <2>5, <2>6 DEF DockRight, Value
  <2> QED BY <1>1, <2>3, <2>7, <2>8 DEF DockRight, Value
<1>8. PulseRight'
  <2> SUFFICES ASSUME jack_machine = "quanta" PROVE PulseRight' BY <1>1 DEF PulseRight
  <2>1. LastStep = 3 /\ Steps[3] = "write" BY StepsOfHooks
  <2>2. hook_pc[t] = 3 => line' = Value(TRUE) BY <2>1, <1>a, Drives, PulseLine DEF Value
  <2> QED BY <1>1, <2>1, <2>2 DEF PulseRight, Idle, Value
<1> QED BY <1>3, <1>4, <1>5, <1>6, <1>7, <1>8 DEF JackIInv, HooksRight

LEMMA NextJack == JackIInv /\ [JackNext]_jackVars => JackIInv'
<1> SUFFICES ASSUME JackIInv, [JackNext]_jackVars PROVE JackIInv' OBVIOUS
<1>0. JackTypeOK' BY JackTypes DEF JackIInv
<1>a. /\ JackTypeOK /\ first \in Threads /\ Seated
      /\ SleepsRight /\ TogglesRight /\ OneLineRight /\ DockRight /\ PulseRight
  BY DEF JackIInv, HooksRight, JackTypeOK
<1>1. ASSUME NEW j \in Jacks, Move(j) PROVE HooksRight'
  <2>1. /\ UNCHANGED <<jack_machine, jack_power, hook_pc, first, line>>
        /\ jack_power = "active" => pending' # {}
    BY <1>1 DEF Move
  <2> QED BY <1>a, <2>1 DEF HooksRight, Seated, Idle, SleepsRight, Sleeps, TogglesRight, OneLineRight,
       DockRight, PulseRight, Settled, Value
<1>2. ASSUME NEW u \in Threads, Idle(u), Enter(u), jack_power' = "active",
             UNCHANGED <<jack_machine, jacks_in, hp_jack_present, vref, line>>
      PROVE  HooksRight'
  <2>1. /\ hook_pc'[u] = 1 /\ hook_pc'[Other(u)] = hook_pc[Other(u)] /\ hook_pc[u] = 0
        /\ first' = IF Idle(Other(u)) THEN u ELSE first
        /\ hook_pc[Other(u)] \in Nat /\ Other(u) \in Threads /\ Other(u) # u /\ Other(Other(u)) = u
        /\ \A v \in Threads : v \in {u, Other(u)}
    BY <1>2, Others, StepsLong DEF Enter, Idle, JackIInv, JackTypeOK
  <2>2. Seated' BY <1>a, <1>2, <2>1 DEF Seated, Idle
  <2>3. SleepsRight'
    <3>1. Sleeps => \A v \in Threads : hook_pc'[v] <= hook_pc'[first']
      BY <1>a, <1>2, <2>1 DEF Seated, SleepsRight, Sleeps, Idle
    <3>2. \A v \in Threads : LastIn(v)' => v = u
      BY <1>a, <1>2, <2>1 DEF Seated, LastIn, Idle
    <3> QED BY <1>2, <2>1, <3>1, <3>2 DEF SleepsRight, Sleeps, Idle
  <2>4. ~Settled' BY <2>1 DEF Settled, Sensing
  <2>5. PulseRight' BY <2>1 DEF PulseRight, Idle, Value
  <2>6. TogglesRight' /\ OneLineRight' /\ DockRight'
    BY <2>4 DEF TogglesRight, OneLineRight, DockRight
  <2> QED BY <2>2, <2>3, <2>5, <2>6 DEF HooksRight
<1>3. ASSUME NEW j \in Jacks, Event(j) PROVE HooksRight'
  <2>1. "work" \in Threads /\ Idle("work") BY <1>3 DEF Event, Enter, Threads
  <2> QED BY <1>2, <1>3, <2>1 DEF Event
<1>4. CASE Power
  <2>1. CASE HookWake
    <3>1. "init" \in Threads /\ Idle("init") BY <2>1 DEF HookWake, Enter, Threads
    <3> QED BY <1>0, <1>2, <1>4, <2>1, <3>1 DEF Power, HookWake, JackIInv
  <2>2. CASE jack_power' = "suspended" /\ (\A t \in Threads : Idle(t)) /\ UNCHANGED <<hook_pc, first>>
    <3>1. Seated' BY <1>a, <2>2 DEF Seated, Idle
    <3>2. SleepsRight' BY <1>a, <1>4, <2>2 DEF Power, SleepsRight, Sleeps
    <3>3. TogglesRight' /\ OneLineRight' /\ DockRight' /\ PulseRight'
      BY <2>2 DEF TogglesRight, OneLineRight, DockRight, PulseRight, Settled
    <3> QED BY <1>0, <3>1, <3>2, <3>3 DEF HooksRight, JackIInv
  <2> QED BY <1>4, <2>1, <2>2 DEF Power
<1>5. CASE UNCHANGED jackVars
  <2>1. Seated' BY <1>a, <1>5 DEF jackVars, Seated, Idle
  <2>2. SleepsRight' BY <1>a, <1>5 DEF jackVars, SleepsRight, Sleeps, LastIn, Idle, Sensed, Value
  <2>3. TogglesRight' /\ OneLineRight'
    BY <1>a, <1>5 DEF jackVars, TogglesRight, Toggles, OneLineRight, OneLine, Settled, Sensing, Sensed, Value
  <2>4. DockRight' /\ PulseRight'
    BY <1>a, <1>5 DEF jackVars, DockRight, PulseRight, Settled, Sensing, Sensed, Idle, Value
  <2> QED BY <1>0, <2>1, <2>2, <2>3, <2>4 DEF HooksRight, JackIInv
<1>6. ASSUME NEW t \in Threads, HookStep(t) PROVE JackIInv' BY <1>0, <1>6, JackSteps
<1> QED BY <1>0, <1>1, <1>3, <1>4, <1>5, <1>6 DEF JackNext, JackIInv

LEMMA JackHolds == JackIInv => JackInv
<1> SUFFICES ASSUME JackIInv, AtRest PROVE Follows BY DEF JackInv, InStep, JackIInv
<1>1. jack_machine # "tx300" => (jacks_in # {} <=> "hp" \in jacks_in)
  BY DEF JackIInv, JackTypeOK, Wired
<1>2. jack_machine = "tx300" => jacks_in \subseteq {"hp", "dock"}
  BY DEF JackIInv, JackTypeOK, Wired, Jacks
<1>3. Settled /\ \A t \in Threads : hook_pc[t] = 0 BY DEF AtRest, Settled, Sensing, Idle
<1>4. jack_machine \in JackMachines BY DEF JackIInv, JackTypeOK
<1>5. CASE Sleeps BY <1>1, <1>3, <1>5 DEF JackIInv, HooksRight, SleepsRight, Follows, Value, Settled, Idle, Sleeps, Sleeping
<1>6. CASE Toggles BY <1>1, <1>3, <1>6 DEF JackIInv, HooksRight, TogglesRight, Follows, Value, Toggles
<1>7. CASE OneLine BY <1>1, <1>3, <1>7 DEF JackIInv, HooksRight, OneLineRight, Follows, Value, OneLine
<1>8. CASE jack_machine = "tx300" BY <1>2, <1>3, <1>8 DEF JackIInv, HooksRight, DockRight, Follows, Value
<1>9. CASE jack_machine = "quanta"
  BY <1>3, <1>9, PulseLine DEF JackIInv, HooksRight, PulseRight, Follows, Value, Settled, Idle
<1> QED BY <1>4, <1>5, <1>6, <1>7, <1>8, <1>9, Laptops DEF Sleeps, Sleeping, Toggles, OneLine

\* JackInv for every set of laptops and every number of jack moves: whenever the
\* codec is up with no event pending and no hook under way, the line of every
\* jack hook is what the jacks call for, whatever moved in a hook's sleep.
THEOREM LinesFollow == JackSpec => []JackInv
<1>1. JackInit => JackIInv BY InitJack
<1>2. JackIInv /\ [JackNext]_jackVars => JackIInv' BY NextJack
<1>3. JackIInv => JackInv BY JackHolds
<1> QED BY <1>1, <1>2, <1>3, PTL DEF JackSpec

-----------------------------------------------------------------------------
(* The stream hooks: speaker amplifiers, write by write.                   *)

Supply == "0x203a"
Enable == "0x23ff"
Switch == IF Samsung THEN Enable ELSE "gpio"

\* A write to register r of amplifier a stands before the i-th in the queue.
Before(i, a, r) == \E j \in 1..(i - 1) : writes[j].amp = a /\ writes[j].reg = r

\* Every write in the queue drives its register where the stream wants it, and
\* stands behind the writes its amplifier needs first.
WriteRight(i) ==
    /\ writes[i].reg = "gpio" <=> ~Samsung
    /\ writes[i].reg # "init" => (writes[i].on <=> Loud)
    /\ writes[i].reg = Enable /\ Loud =>
         reg[writes[i].amp][Supply] \/ Before(i, writes[i].amp, Supply)
    /\ writes[i].reg = Supply /\ ~Loud =>
         ~On(writes[i].amp) \/ Before(i, writes[i].amp, Enable)
    /\ writes[i].reg = "init" =>
         ~Loud /\ (~On(writes[i].amp) \/ Before(i, writes[i].amp, Enable))
QueueRight == \A i \in 1..Len(writes) : WriteRight(i)

\* An amplifier that is not as the stream wants it has its write in the queue.
WritesComing ==
    probed /\ ~dozed =>
        \A a \in AmpsOf(stream_machine) :
            \/ reg[a][Switch] <=> Loud
            \/ \E i \in 1..Len(writes) : writes[i].amp = a /\ writes[i].reg = Switch

BeforeProbe ==
    /\ ~probed => stream = "closed" /\ writes = <<>>
    /\ ~probed /\ ~Samsung => \A a \in AmpsOf(stream_machine) : ~reg[a]["gpio"]
    /\ probed /\ Samsung => num_speaker_amps = SpeakerAmps[stream_machine]
    /\ dozed => stream_machine = "alc1318"

StreamIInv == /\ StreamTypeOK /\ BeforeProbe /\ QueueRight /\ WritesComing
              /\ InitWhileOff /\ SupplyFirst
LEMMA Speakers ==
    ASSUME stream_machine \in StreamMachines
    PROVE  /\ stream_machine \in {"alc1318", "envy", "samsung_v2_2", "samsung_v2_4"}
           /\ Samsung <=> stream_machine \in {"samsung_v2_2", "samsung_v2_4"}
           /\ SpeakerAmps[stream_machine] \in {1, 2, 4}
           /\ ~Samsung => SpeakerAmps[stream_machine] = 1
<1>1. stream_machine \in {"alc1318", "envy", "samsung_v2_2", "samsung_v2_4"}
  BY StreamAssumption DEF SpeakerAmps
<1>2. Samsung <=> stream_machine \in {"samsung_v2_2", "samsung_v2_4"}
  BY DEF Samsung, alc298_samsung_v2_amp_desc_tbl
<1>3. SpeakerAmps["alc1318"] = 1 /\ SpeakerAmps["envy"] = 1 BY DEF SpeakerAmps
<1>4. SpeakerAmps["samsung_v2_2"] = 2 /\ SpeakerAmps["samsung_v2_4"] = 4 BY DEF SpeakerAmps
<1> QED BY <1>1, <1>2, <1>3, <1>4

AmpWrites(n) == [amp : 1..n, reg : Regs, on : BOOLEAN]

\* e writes register f and then register s of every amplifier, in turn.
InTurns(e, n, f, s, on) ==
    /\ e \in Seq(AmpWrites(n)) /\ Len(e) = 2 * n
    /\ \A k \in 1..(2 * n) :
         /\ e[k].on = on /\ e[k].amp \in 1..n /\ e[k].reg \in {f, s}
         /\ e[k].reg = s =>
              k - 1 \in 1..(2 * n) /\ e[k - 1].amp = e[k].amp /\ e[k - 1].reg = f
    /\ \A a \in 1..n :
         /\ 2 * a - 1 \in 1..(2 * n) /\ 2 * a \in 1..(2 * n)
         /\ e[2 * a - 1].amp = a /\ e[2 * a - 1].reg = f
         /\ e[2 * a].amp = a /\ e[2 * a].reg = s

LEMMA EachAmpWrites ==
    ASSUME NEW n \in Nat, NEW f \in Regs, NEW s \in Regs, f # s, NEW on \in BOOLEAN
    PROVE  InTurns(EachAmp(n, f, s, on), n, f, s, on)
<1> DEFINE e == EachAmp(n, f, s, on)
<1>1. \A k \in 1..(2 * n) :
         /\ e[k].amp = (k + 1) \div 2 /\ e[k].on = on
         /\ k % 2 = 1 => e[k].reg = f
         /\ k % 2 # 1 => e[k].reg = s
  BY DEF EachAmp, WriteTo
<1>2. \A k \in 1..(2 * n) : (k + 1) \div 2 \in 1..n OBVIOUS
<1>3. e \in Seq(AmpWrites(n)) /\ Len(e) = 2 * n
  <2>1. \A k \in 1..(2 * n) : e[k] \in AmpWrites(n) BY <1>2 DEF AmpWrites, EachAmp, WriteTo
  <2>2. e = [k \in 1..(2 * n) |-> e[k]] BY DEF EachAmp
  <2> HIDE DEF e
  <2> QED BY <2>1, <2>2
<1> HIDE DEF e
<1>4. ASSUME NEW k \in 1..(2 * n)
      PROVE  /\ e[k].on = on /\ e[k].amp \in 1..n /\ e[k].reg \in {f, s}
             /\ e[k].reg = s =>
                  /\ k - 1 \in 1..(2 * n)
                  /\ e[k - 1].amp = e[k].amp /\ e[k - 1].reg = f
  <2>1. /\ e[k].on = on /\ e[k].amp = (k + 1) \div 2
        /\ k % 2 = 1 => e[k].reg = f
        /\ k % 2 # 1 => e[k].reg = s
    BY <1>1
  <2>2. CASE k % 2 = 1 BY <1>2, <2>1, <2>2
  <2>3. CASE k % 2 # 1
    <3>1. k - 1 \in 1..(2 * n) /\ (k - 1) % 2 = 1 /\ ((k - 1) + 1) \div 2 = (k + 1) \div 2 BY <2>3
    <3>2. e[k - 1].amp = ((k - 1) + 1) \div 2 /\ e[k - 1].reg = f BY <1>1, <3>1
    <3> QED BY <1>2, <2>1, <3>1, <3>2
  <2> QED BY <2>2, <2>3
<1>5. ASSUME NEW a \in 1..n
      PROVE  /\ 2 * a - 1 \in 1..(2 * n) /\ 2 * a \in 1..(2 * n)
             /\ e[2 * a - 1].amp = a /\ e[2 * a - 1].reg = f
             /\ e[2 * a].amp = a /\ e[2 * a].reg = s
  <2> DEFINE h == 2 * a - 1  g == 2 * a
  <2>1. h \in 1..(2 * n) /\ h % 2 = 1 /\ (h + 1) \div 2 = a
    OBVIOUS
  <2>2. g \in 1..(2 * n) /\ g % 2 = 0 /\ (g + 1) \div 2 = a
    OBVIOUS
  <2> HIDE DEF h, g
  <2>3. e[h].amp = a /\ e[h].reg = f /\ e[g].amp = a /\ e[g].reg = s BY <1>1, <2>1, <2>2
  <2> QED BY <2>1, <2>2, <2>3 DEF h, g
<1>6. InTurns(e, n, f, s, on) BY <1>3, <1>4, <1>5 DEF InTurns
<1> QED BY <1>6 DEF e

WriteSet == [amp : AmpsOf(stream_machine), reg : Regs, on : BOOLEAN]

LEMMA InitStreams == StreamInit => StreamIInv
<1> SUFFICES ASSUME StreamInit PROVE StreamIInv OBVIOUS
<1>1. PICK on \in SUBSET AmpsOf(stream_machine) :
         reg = [a \in AmpsOf(stream_machine) |->
                  [r \in Regs |-> Samsung /\ a \in on /\ r \in {"0x203a", "0x23ff"}]]
  BY DEF StreamInit
<1>2. \A a \in AmpsOf(stream_machine), r \in Regs :
         reg[a][r] <=> Samsung /\ a \in on /\ r \in {"0x203a", "0x23ff"}
  BY <1>1
<1>3. reg \in [AmpsOf(stream_machine) -> [Regs -> BOOLEAN]] BY <1>1
<1>4. /\ stream_machine \in StreamMachines /\ num_speaker_amps = 0 /\ writes = <<>>
      /\ harmed = FALSE /\ probed = FALSE /\ stream = "closed" /\ dozed = FALSE
  BY DEF StreamInit
<1>5. StreamTypeOK
  <2>1. writes \in Seq([amp : AmpsOf(stream_machine), reg : Regs, on : BOOLEAN]) BY <1>4
  <2>2. harmed \in BOOLEAN /\ probed \in BOOLEAN /\ dozed \in BOOLEAN BY <1>4
  <2>3. num_speaker_amps \in {0, SpeakerAmps[stream_machine]} BY <1>4
  <2> QED BY <1>3, <1>4, <2>1, <2>2, <2>3 DEF StreamTypeOK
<1>6. BeforeProbe /\ WritesComing /\ InitWhileOff
  BY <1>2, <1>4 DEF BeforeProbe, WritesComing, InitWhileOff, Regs
<1>7. QueueRight BY <1>4 DEF QueueRight
<1>8. SupplyFirst BY <1>2 DEF SupplyFirst, On, Regs
<1> QED BY <1>5, <1>6, <1>7, <1>8 DEF StreamIInv

LEMMA WriteQueue ==
    ASSUME StreamTypeOK, StreamWrite
    PROVE  /\ UNCHANGED <<stream_machine, num_speaker_amps, probed, stream, dozed>>
           /\ writes' \in Seq(WriteSet) /\ Len(writes) \in Nat \ {0} /\ Len(writes') = Len(writes) - 1
           /\ \A i \in 1..Len(writes') : writes'[i] = writes[i + 1] /\ i + 1 \in 1..Len(writes)
           /\ writes[1] \in WriteSet /\ 1 \in 1..Len(writes)
           /\ reg' = [reg EXCEPT ![writes[1].amp][writes[1].reg] = writes[1].on]
           /\ harmed' = (harmed \/ (writes[1].reg = "init" /\ On(writes[1].amp)))
<1>1. writes \in Seq(WriteSet) /\ writes # <<>> /\ writes' = Tail(writes)
  BY DEF StreamTypeOK, WriteSet, StreamWrite
<1>2. /\ Head(writes) = writes[1] /\ writes[1] \in WriteSet /\ Tail(writes) \in Seq(WriteSet)
      /\ Len(writes) \in Nat \ {0} /\ Len(Tail(writes)) = Len(writes) - 1
      /\ \A i \in 1..Len(Tail(writes)) : Tail(writes)[i] = writes[i + 1]
  BY <1>1
<1>3. UNCHANGED <<stream_machine, num_speaker_amps, probed, stream, dozed>> BY DEF StreamWrite
<1>4. reg' = [reg EXCEPT ![Head(writes).amp][Head(writes).reg] = Head(writes).on] BY DEF StreamWrite
<1>5. harmed' = (harmed \/ (Head(writes).reg = "init" /\ On(Head(writes).amp)))
  BY DEF StreamWrite
<1>6. reg' = [reg EXCEPT ![writes[1].amp][writes[1].reg] = writes[1].on] BY <1>2, <1>4
<1>7. harmed' = (harmed \/ (writes[1].reg = "init" /\ On(writes[1].amp)))
  BY <1>2, <1>5, Zenon
<1>8. /\ writes' \in Seq(WriteSet) /\ Len(writes) \in Nat \ {0} /\ Len(writes') = Len(writes) - 1
      /\ \A i \in 1..Len(writes') : writes'[i] = writes[i + 1] /\ i + 1 \in 1..Len(writes)
      /\ writes[1] \in WriteSet /\ 1 \in 1..Len(writes)
  BY <1>1, <1>2
<1> QED BY <1>3, <1>6, <1>7, <1>8

LEMMA OneWrite ==
    ASSUME StreamTypeOK, StreamWrite
    PROVE  /\ reg' \in [AmpsOf(stream_machine) -> [Regs -> BOOLEAN]]
           /\ \A a \in AmpsOf(stream_machine), r \in Regs :
                reg'[a][r] = IF a = writes[1].amp /\ r = writes[1].reg THEN writes[1].on
                             ELSE reg[a][r]
<1>1. writes[1].amp \in AmpsOf(stream_machine) /\ writes[1].reg \in Regs /\ writes[1].on \in BOOLEAN
  BY WriteQueue DEF WriteSet
<1>2. reg' = [reg EXCEPT ![writes[1].amp][writes[1].reg] = writes[1].on] BY WriteQueue
<1>3. reg \in [AmpsOf(stream_machine) -> [Regs -> BOOLEAN]] BY DEF StreamTypeOK
<1> QED BY <1>1, <1>2, <1>3

LEMMA WriteSteps == ASSUME StreamIInv, StreamWrite PROVE StreamIInv'
<1>0. /\ StreamTypeOK /\ BeforeProbe /\ QueueRight /\ WritesComing /\ InitWhileOff /\ SupplyFirst
  BY DEF StreamIInv
<1> DEFINE w == writes[1]
<1>1. /\ UNCHANGED <<stream_machine, num_speaker_amps, probed, stream, dozed>>
      /\ writes' \in Seq(WriteSet) /\ Len(writes) \in Nat \ {0} /\ Len(writes') = Len(writes) - 1
      /\ \A i \in 1..Len(writes') : writes'[i] = writes[i + 1] /\ i + 1 \in 1..Len(writes)
      /\ w.amp \in AmpsOf(stream_machine) /\ w.reg \in Regs /\ w.on \in BOOLEAN
      /\ 1 \in 1..Len(writes)
  BY <1>0, WriteQueue DEF WriteSet
<1>2. \A i \in 1..Len(writes) : writes[i].amp \in AmpsOf(stream_machine) /\ writes[i].reg \in Regs
  <2>1. writes \in Seq(WriteSet) BY <1>0 DEF StreamTypeOK, WriteSet
  <2>2. \A i \in 1..Len(writes) : writes[i] \in WriteSet BY <2>1
  <2> QED BY <2>2 DEF WriteSet
<1>3. /\ reg' \in [AmpsOf(stream_machine) -> [Regs -> BOOLEAN]]
      /\ \A a \in AmpsOf(stream_machine), r \in Regs :
           reg'[a][r] = IF a = w.amp /\ r = w.reg THEN w.on ELSE reg[a][r]
  BY <1>0, OneWrite
<1>4. (Loud' <=> Loud) /\ (Samsung' <=> Samsung) BY <1>1 DEF Loud, Samsung
<1> HIDE DEF w
<1>5. StreamTypeOK'
  <2>1. harmed' \in BOOLEAN BY <1>0, WriteQueue
  <2> QED BY <1>0, <1>1, <1>3, <2>1 DEF StreamTypeOK, WriteSet
<1>6. BeforeProbe'
  <2>1. probed BY <1>0, <1>1 DEF BeforeProbe
  <2> QED BY <1>0, <1>1, <1>4, <2>1 DEF BeforeProbe
<1>7. /\ w.reg = "gpio" <=> ~Samsung
      /\ w.reg # "init" => (w.on <=> Loud)
      /\ w.reg = Enable /\ Loud => reg[w.amp][Supply]
      /\ w.reg = Supply /\ ~Loud => ~On(w.amp)
      /\ w.reg = "init" => ~Loud /\ ~On(w.amp)
  BY <1>0, <1>1 DEF QueueRight, WriteRight, Before, w
<1>8. InitWhileOff'
  <2>1. harmed' = (harmed \/ (w.reg = "init" /\ On(w.amp))) BY <1>0, WriteQueue DEF w
  <2> QED BY <1>0, <1>7, <2>1 DEF InitWhileOff
<1>9. SupplyFirst'
  BY <1>0, <1>1, <1>3, <1>4, <1>7 DEF SupplyFirst, On, Supply, Enable, Regs
<1>10. ASSUME NEW i \in 1..Len(writes'), NEW r \in Regs, Before(i + 1, writes[i + 1].amp, r),
              writes[1].amp # writes[i + 1].amp \/ writes[1].reg # r
       PROVE  \E j \in 1..(i - 1) : writes'[j].amp = writes[i + 1].amp /\ writes'[j].reg = r
  <2>1. PICK j \in 1..i : writes[j].amp = writes[i + 1].amp /\ writes[j].reg = r
    BY <1>1, <1>10 DEF Before
  <2>2. j # 1 BY <1>10, <2>1
  <2>3. j - 1 \in 1..(i - 1) /\ j - 1 \in 1..Len(writes') BY <1>1, <2>1, <2>2
  <2>4. writes'[j - 1] = writes[j] BY <1>1, <2>1, <2>2, <2>3
  <2> QED BY <2>1, <2>3, <2>4
<1>11. QueueRight'
  <2> SUFFICES ASSUME NEW i \in 1..Len(writes'), NEW v, v = writes[i + 1]
               PROVE  WriteRight(i)'
    BY DEF QueueRight
  <2>1. writes'[i] = v /\ i + 1 \in 1..Len(writes) /\ v.amp \in AmpsOf(stream_machine)
    BY <1>1, <1>2
  <2>2. /\ v.reg = "gpio" <=> ~Samsung
        /\ v.reg # "init" => (v.on <=> Loud)
        /\ v.reg = Enable /\ Loud => reg[v.amp][Supply] \/ Before(i + 1, v.amp, Supply)
        /\ v.reg = Supply /\ ~Loud => ~reg[v.amp][Enable] \/ Before(i + 1, v.amp, Enable)
        /\ v.reg = "init" =>
             ~Loud /\ (~reg[v.amp][Enable] \/ Before(i + 1, v.amp, Enable))
    BY <1>0, <2>1 DEF QueueRight, WriteRight, On, Enable
  <2>3. Supply \in Regs /\ Enable \in Regs /\ Supply # "init" /\ Enable # "init"
    BY DEF Regs, Supply, Enable
  <2>4. \A r \in {Supply, Enable} :
           reg'[v.amp][r] = IF w.amp = v.amp /\ w.reg = r THEN w.on ELSE reg[v.amp][r]
    BY <1>3, <2>1, <2>3
  <2>5. \A r \in {Supply, Enable} :
           Before(i + 1, v.amp, r) =>
               Before(i, v.amp, r)' \/ (w.amp = v.amp /\ w.reg = r)
    BY <1>10, <2>3 DEF Before, w
  <2>6. v.reg = Enable /\ Loud => reg'[v.amp][Supply] \/ Before(i, v.amp, Supply)'
    BY <1>7, <2>2, <2>3, <2>4, <2>5
  <2>7. v.reg = Supply /\ ~Loud => ~reg'[v.amp][Enable] \/ Before(i, v.amp, Enable)'
    BY <1>7, <2>2, <2>3, <2>4, <2>5
  <2>8. v.reg = "init" => ~Loud /\ (~reg'[v.amp][Enable] \/ Before(i, v.amp, Enable)')
    BY <1>7, <2>2, <2>3, <2>4, <2>5
  <2> QED BY <1>4, <2>1, <2>2, <2>6, <2>7, <2>8 DEF WriteRight, On, Enable
<1>12. WritesComing'
  <2> SUFFICES ASSUME probed, ~dozed, NEW a \in AmpsOf(stream_machine)
               PROVE  \/ reg'[a][Switch] <=> Loud
                      \/ \E i \in 1..Len(writes') : writes'[i].amp = a /\ writes'[i].reg = Switch
    BY <1>1, <1>4 DEF WritesComing, Switch, AmpsOf
  <2>1. Switch \in Regs /\ Switch # "init" BY DEF Switch, Regs, Enable
  <2>2. CASE w.amp = a /\ w.reg = Switch BY <1>3, <1>7, <2>1, <2>2
  <2>3. CASE ~(w.amp = a /\ w.reg = Switch)
    <3>1. reg'[a][Switch] = reg[a][Switch] BY <1>3, <2>1, <2>3
    <3>2. CASE reg[a][Switch] <=> Loud BY <3>1, <3>2
    <3>3. CASE \E i \in 1..Len(writes) : writes[i].amp = a /\ writes[i].reg = Switch
      <4>1. PICK i \in 1..Len(writes) : writes[i].amp = a /\ writes[i].reg = Switch BY <3>3
      <4>2. i # 1 BY <2>3, <4>1 DEF w
      <4>3. i - 1 \in 1..Len(writes') /\ writes'[i - 1] = writes[i] BY <1>1, <4>2
      <4> QED BY <4>1, <4>3
    <3> QED BY <1>0, <3>2, <3>3 DEF WritesComing
  <2> QED BY <2>2, <2>3
<1> QED BY <1>5, <1>6, <1>8, <1>9, <1>11, <1>12 DEF StreamIInv

\* The queue of an enable or disable sequence, whatever the amplifiers were.
LEMMA AmpQueue ==
    ASSUME StreamTypeOK, Samsung, UNCHANGED <<stream_machine, reg>>, NEW on \in BOOLEAN,
           Loud' <=> on,
           writes' = EachAmp(SpeakerAmps[stream_machine], IF on THEN Supply ELSE Enable,
                             IF on THEN Enable ELSE Supply, on)
    PROVE  /\ writes' \in Seq(WriteSet) /\ QueueRight'
           /\ \A a \in AmpsOf(stream_machine) :
                \E i \in 1..Len(writes') : writes'[i].amp = a /\ writes'[i].reg = Enable
<1> DEFINE n == SpeakerAmps[stream_machine]
<1>1. n \in Nat /\ AmpsOf(stream_machine) = 1..n
  BY Speakers DEF StreamTypeOK, AmpsOf
<1>2. PICK f \in Regs, s \in Regs :
         f # s /\ f = (IF on THEN Supply ELSE Enable) /\ s = (IF on THEN Enable ELSE Supply)
  BY DEF Regs, Supply, Enable
<1>3. writes' = EachAmp(n, f, s, on) BY <1>2
<1> HIDE DEF n
<1>4. InTurns(writes', n, f, s, on) BY <1>1, <1>2, <1>3, EachAmpWrites, Zenon
<1>5. writes' \in Seq(WriteSet) BY <1>1, <1>4 DEF InTurns, AmpWrites, WriteSet
<1>6. ASSUME NEW i \in 1..Len(writes') PROVE WriteRight(i)'
  <2>1. /\ writes'[i].on = on /\ writes'[i].reg \in {f, s} /\ i \in 1..(2 * n) BY <1>4 DEF InTurns
  <2>2. writes'[i].reg = s =>
           \E j \in 1..(i - 1) : writes'[j].amp = writes'[i].amp /\ writes'[j].reg = f
    <3> SUFFICES ASSUME writes'[i].reg = s
                 PROVE  \E j \in 1..(i - 1) : writes'[j].amp = writes'[i].amp /\ writes'[j].reg = f
      OBVIOUS
    <3>0. i - 1 \in 1..(2 * n) BY <1>4, <2>1 DEF InTurns
    <3>1. i - 1 \in 1..(i - 1) BY <1>1, <2>1, <3>0
    <3> QED BY <1>4, <2>1, <3>1 DEF InTurns
  <2>3. f # "gpio" /\ s # "gpio" /\ f # "init" /\ s # "init" BY <1>2 DEF Supply, Enable
  <2>4. Samsung' BY DEF Samsung
  <2>5. (on => f = Supply /\ s = Enable) /\ (~on => f = Enable /\ s = Supply) BY <1>2
  <2>6. Supply # Enable BY DEF Supply, Enable
  <2>7. writes'[i].reg = Enable /\ Loud' => Before(i, writes[i].amp, Supply)'
    BY <2>1, <2>2, <2>5, <2>6 DEF Before
  <2>8. writes'[i].reg = Supply /\ ~Loud' => Before(i, writes[i].amp, Enable)'
    BY <2>1, <2>2, <2>5, <2>6 DEF Before
  <2> QED BY <2>1, <2>3, <2>4, <2>7, <2>8 DEF WriteRight
<1>7. QueueRight' BY <1>6 DEF QueueRight
<1>8. ASSUME NEW a \in AmpsOf(stream_machine)
      PROVE  \E i \in 1..Len(writes') : writes'[i].amp = a /\ writes'[i].reg = Enable
  <2>1. a \in 1..n BY <1>1, <1>8
  <2>2. CASE on
    <3>1. 2 * a \in 1..Len(writes') /\ writes'[2 * a].amp = a /\ writes'[2 * a].reg = s
      BY <1>4, <2>1 DEF InTurns
    <3> QED BY <1>2, <2>2, <3>1
  <2>3. CASE ~on
    <3>1. /\ 2 * a - 1 \in 1..Len(writes')
          /\ writes'[2 * a - 1].amp = a /\ writes'[2 * a - 1].reg = f
      BY <1>4, <2>1 DEF InTurns
    <3> QED BY <1>2, <2>3, <3>1
  <2> QED BY <2>2, <2>3
<1> QED BY <1>5, <1>7, <1>8

\* The queue of a GPIO write and the empty queue.
LEMMA GpioQueue ==
    ASSUME StreamTypeOK, ~Samsung, UNCHANGED <<stream_machine, reg>>, NEW on \in BOOLEAN,
           Loud' <=> on, writes' = set_gpio(on)
    PROVE  /\ writes' \in Seq(WriteSet) /\ QueueRight'
           /\ \A a \in AmpsOf(stream_machine) :
                \E i \in 1..Len(writes') : writes'[i].amp = a /\ writes'[i].reg = "gpio"
<1>1. SpeakerAmps[stream_machine] = 1 /\ AmpsOf(stream_machine) = {1}
  BY Speakers DEF StreamTypeOK, AmpsOf
<1>2. WriteTo(1, "gpio", on) \in WriteSet BY <1>1 DEF WriteTo, WriteSet, Regs
<1>3. /\ Len(writes') = 1 /\ writes'[1].amp = 1 /\ writes'[1].reg = "gpio" /\ writes'[1].on = on
      /\ writes' \in Seq(WriteSet)
  BY <1>2 DEF set_gpio, WriteTo
<1>4. ~Samsung' BY DEF Samsung
<1>5. ASSUME NEW i \in 1..Len(writes') PROVE WriteRight(i)'
  <2>1. i = 1 BY <1>3
  <2> QED BY <1>3, <1>4, <2>1 DEF WriteRight, Enable, Supply
<1>6. QueueRight' BY <1>5 DEF QueueRight
<1>7. \A a \in AmpsOf(stream_machine) :
         \E i \in 1..Len(writes') : writes'[i].amp = a /\ writes'[i].reg = "gpio"
  BY <1>1, <1>3
<1> QED BY <1>3, <1>6, <1>7

LEMMA EmptyQueue ==
    ASSUME writes' = <<>> PROVE writes' \in Seq(WriteSet) /\ QueueRight'
<1>1. Len(writes') = 0 /\ writes' \in Seq(WriteSet) OBVIOUS
<1> QED BY <1>1 DEF QueueRight

\* What the hook queues when the stream goes from one state to another.
LEMMA HookQueue ==
    ASSUME StreamIInv, probed, writes = <<>>, UNCHANGED <<stream_machine, reg>>,
           NEW action,
           \/ action = "OPEN" /\ stream = "closed" /\ stream' = "open"
           \/ action = "PREPARE" /\ stream \in {"open", "prepared"} /\ stream' = "prepared"
           \/ action = "CLEANUP" /\ stream = "prepared" /\ stream' = "open"
           \/ action = "CLOSE" /\ stream = "open" /\ stream' = "closed",
           writes' = pcm_playback_hook(action)
    PROVE  /\ writes' \in Seq(WriteSet) /\ QueueRight'
           /\ \A a \in AmpsOf(stream_machine) :
                \/ reg[a][Switch] <=> Loud'
                \/ \E i \in 1..Len(writes') : writes'[i].amp = a /\ writes'[i].reg = Switch
                \/ dozed /\ action # "OPEN"
<1>0. StreamTypeOK /\ BeforeProbe /\ WritesComing BY DEF StreamIInv
<1>1. /\ stream_machine \in {"alc1318", "envy", "samsung_v2_2", "samsung_v2_4"}
      /\ Samsung <=> stream_machine \in {"samsung_v2_2", "samsung_v2_4"}
  BY <1>0, Speakers DEF StreamTypeOK
<1>2. ASSUME ~dozed, NEW a \in AmpsOf(stream_machine) PROVE reg[a][Switch] <=> Loud
  <2>1. Len(writes) = 0 OBVIOUS
  <2> QED BY <1>0, <1>2, <2>1 DEF WritesComing
<1>3. ASSUME Loud' <=> Loud, writes' = <<>>, action # "OPEN"
      PROVE  /\ writes' \in Seq(WriteSet) /\ QueueRight'
             /\ \A a \in AmpsOf(stream_machine) : (reg[a][Switch] <=> Loud') \/ dozed
  BY <1>2, <1>3, EmptyQueue
<1>4. CASE Samsung
  <2>1. Loud' <=> stream' # "closed" BY <1>1, <1>4 DEF Loud
  <2>2. Loud <=> stream # "closed" BY <1>1, <1>4 DEF Loud
  <2>3. writes' = alc298_samsung_v2_playback_hook(action)
    BY <1>1, <1>4 DEF pcm_playback_hook
  <2>4. num_speaker_amps = SpeakerAmps[stream_machine] BY <1>0, <1>4 DEF BeforeProbe
  <2>5. Switch = Enable BY <1>4 DEF Switch
  <2>6. CASE action = "OPEN"
    <3>1. writes' = EachAmp(SpeakerAmps[stream_machine], Supply, Enable, TRUE)
      BY <2>3, <2>4, <2>6
         DEF alc298_samsung_v2_playback_hook, alc298_samsung_v2_enable_amps, Supply, Enable
    <3>2. Loud' <=> TRUE BY <2>1, <2>6
    <3>3. writes' = EachAmp(SpeakerAmps[stream_machine], IF TRUE THEN Supply ELSE Enable,
                            IF TRUE THEN Enable ELSE Supply, TRUE)
      BY <3>1
    <3> QED BY <1>0, <1>4, <2>5, <3>2, <3>3, AmpQueue
  <2>7. CASE action = "CLOSE"
    <3>1. writes' = EachAmp(SpeakerAmps[stream_machine], Enable, Supply, FALSE)
      BY <2>3, <2>4, <2>7
         DEF alc298_samsung_v2_playback_hook, alc298_samsung_v2_disable_amps, Supply, Enable
    <3>2. Loud' <=> FALSE BY <2>1, <2>7
    <3>3. writes' = EachAmp(SpeakerAmps[stream_machine], IF FALSE THEN Supply ELSE Enable,
                            IF FALSE THEN Enable ELSE Supply, FALSE)
      BY <3>1
    <3> QED BY <1>0, <1>4, <2>5, <3>2, <3>3, AmpQueue
  <2>8. CASE action \in {"PREPARE", "CLEANUP"}
    <3>1. writes' = <<>> BY <2>3, <2>8 DEF alc298_samsung_v2_playback_hook
    <3> QED BY <1>3, <2>1, <2>2, <2>8, <3>1
  <2> QED BY <2>6, <2>7, <2>8
<1>5. CASE stream_machine = "alc1318"
  <2>1. Loud' <=> stream' # "closed" BY <1>5 DEF Loud
  <2>2. Loud <=> stream # "closed" BY <1>5 DEF Loud
  <2>3. writes' = alc287_alc1318_playback_pcm_hook(action) BY <1>1, <1>5 DEF pcm_playback_hook
  <2>4. ~Samsung /\ Switch = "gpio" BY <1>1, <1>5 DEF Switch
  <2>5. CASE action = "OPEN"
    <3>1. writes' = set_gpio(TRUE) /\ (Loud' <=> TRUE)
      BY <2>1, <2>3, <2>5 DEF alc287_alc1318_playback_pcm_hook
    <3> QED BY <1>0, <2>4, <3>1, GpioQueue
  <2>6. CASE action = "CLOSE"
    <3>1. writes' = set_gpio(FALSE) /\ (Loud' <=> FALSE)
      BY <2>1, <2>3, <2>6 DEF alc287_alc1318_playback_pcm_hook
    <3> QED BY <1>0, <2>4, <3>1, GpioQueue
  <2>7. CASE action \in {"PREPARE", "CLEANUP"}
    <3>1. writes' = <<>> BY <2>3, <2>7 DEF alc287_alc1318_playback_pcm_hook
    <3> QED BY <1>3, <2>1, <2>2, <2>7, <3>1
  <2> QED BY <2>5, <2>6, <2>7
<1>6. CASE stream_machine = "envy"
  <2>1. Loud' <=> stream' = "prepared" BY <1>6 DEF Loud
  <2>2. Loud <=> stream = "prepared" BY <1>6 DEF Loud
  <2>3. writes' = alc274_hp_envy_pcm_hook(action) BY <1>1, <1>6 DEF pcm_playback_hook
  <2>4. ~Samsung /\ Switch = "gpio" /\ ~dozed BY <1>0, <1>1, <1>6 DEF Switch, BeforeProbe
  <2>5. CASE action = "PREPARE"
    <3>1. writes' = set_gpio(TRUE) /\ (Loud' <=> TRUE)
      BY <2>1, <2>3, <2>5 DEF alc274_hp_envy_pcm_hook
    <3> QED BY <1>0, <2>4, <3>1, GpioQueue
  <2>6. CASE action = "CLEANUP"
    <3>1. writes' = set_gpio(FALSE) /\ (Loud' <=> FALSE)
      BY <2>1, <2>3, <2>6 DEF alc274_hp_envy_pcm_hook
    <3> QED BY <1>0, <2>4, <3>1, GpioQueue
  <2>7. CASE action \in {"OPEN", "CLOSE"}
    <3>1. writes' = <<>> BY <2>3, <2>7 DEF alc274_hp_envy_pcm_hook
    <3>2. Loud' <=> Loud BY <2>1, <2>2, <2>7
    <3>3. writes' \in Seq(WriteSet) /\ QueueRight' BY <3>1, EmptyQueue
    <3>4. \A a \in AmpsOf(stream_machine) : reg[a][Switch] <=> Loud' BY <1>2, <2>4, <3>2
    <3> QED BY <3>3, <3>4
  <2> QED BY <2>5, <2>6, <2>7
<1> QED BY <1>1, <1>4, <1>5, <1>6

\* Probe: both registers of every amplifier off, then every amplifier's init.
LEMMA ProbeQueue ==
    ASSUME StreamIInv, Samsung, Probe
    PROVE  /\ writes' \in Seq(WriteSet) /\ QueueRight'
           /\ num_speaker_amps' = SpeakerAmps[stream_machine]
           /\ \A a \in AmpsOf(stream_machine) :
                \E i \in 1..Len(writes') : writes'[i].amp = a /\ writes'[i].reg = Enable
<1> DEFINE n == SpeakerAmps[stream_machine]
           off == EachAmp(n, Enable, Supply, FALSE)
           ini == alc298_samsung_v2_init_seq(n)
<1>0. StreamTypeOK /\ BeforeProbe BY DEF StreamIInv
<1>1. n \in Nat /\ AmpsOf(stream_machine) = 1..n
  BY <1>0, Speakers DEF StreamTypeOK, AmpsOf
<1>2. /\ num_speaker_amps' = n /\ writes' = off \o ini
      /\ UNCHANGED <<stream_machine, reg, stream>> /\ stream = "closed"
  BY <1>0 DEF Probe, BeforeProbe, alc298_samsung_v2_init_amps, alc298_samsung_v2_disable_amps,
     Enable, Supply
<1>3. ~Loud' /\ Samsung'
  BY <1>0, <1>2, Speakers DEF Loud, Samsung, StreamTypeOK
<1>4. InTurns(off, n, Enable, Supply, FALSE)
  <2>1. Enable \in Regs /\ Supply \in Regs /\ Enable # Supply BY DEF Enable, Supply, Regs
  <2> QED BY <1>1, <2>1, EachAmpWrites
<1>5. /\ ini \in Seq(AmpWrites(n)) /\ Len(ini) = n
      /\ \A k \in 1..n : ini[k].amp = k /\ ini[k].reg = "init"
  <2>1. \A k \in 1..n : WriteTo(k, "init", TRUE) \in AmpWrites(n)
    BY DEF WriteTo, AmpWrites, Regs
  <2>2. \A k \in 1..n : ini[k] = WriteTo(k, "init", TRUE)
    BY DEF alc298_samsung_v2_init_seq
  <2>3. ini = [k \in 1..n |-> ini[k]] BY DEF alc298_samsung_v2_init_seq
  <2>4. \A k \in 1..n : ini[k].amp = k /\ ini[k].reg = "init"
    BY DEF alc298_samsung_v2_init_seq, WriteTo
  <2>5. \A k \in 1..n : ini[k] \in AmpWrites(n) BY <2>1, <2>2
  <2> HIDE DEF n, ini
  <2>6. ini \in Seq(AmpWrites(n)) /\ Len(ini) = n BY <1>1, <2>3, <2>5
  <2> QED BY <2>4, <2>6
<1> HIDE DEF n, off, ini
<1>6. /\ writes' \in Seq(AmpWrites(n)) /\ Len(writes') = 3 * n
      /\ \A k \in 1..(2 * n) : writes'[k] = off[k]
      /\ \A k \in 2 * n + 1..3 * n : writes'[k] = ini[k - 2 * n]
  <2>1. off \in Seq(AmpWrites(n)) /\ Len(off) = 2 * n BY <1>4 DEF InTurns
  <2>2. off \o ini \in Seq(AmpWrites(n)) /\ Len(off \o ini) = Len(off) + Len(ini)
    BY <1>5, <2>1
  <2>3. \A k \in 1..Len(off) : (off \o ini)[k] = off[k] BY <1>5, <2>1
  <2>4. \A k \in Len(off) + 1..Len(off) + Len(ini) : (off \o ini)[k] = ini[k - Len(off)]
    BY <1>5, <2>1
  <2>5. writes' = off \o ini /\ Len(ini) = n BY <1>2, <1>5
  <2>6. Len(off) + Len(ini) = 3 * n /\ Len(off) + 1 = 2 * n + 1 BY <1>1, <2>1, <2>5
  <2>7. writes' \in Seq(AmpWrites(n)) /\ Len(writes') = 3 * n BY <2>2, <2>5, <2>6
  <2>8. \A k \in 1..(2 * n) : writes'[k] = off[k] BY <2>1, <2>3, <2>5
  <2>9. \A k \in 2 * n + 1..3 * n : writes'[k] = ini[k - 2 * n] BY <2>1, <2>4, <2>5, <2>6
  <2> QED BY <2>7, <2>8, <2>9
<1>7. writes' \in Seq(WriteSet) BY <1>1, <1>6 DEF AmpWrites, WriteSet
<1>8. \A a \in 1..n : /\ 2 * a - 1 \in 1..(2 * n) /\ 2 * a - 1 \in 1..Len(writes')
                       /\ writes'[2 * a - 1].amp = a /\ writes'[2 * a - 1].reg = Enable
  <2> SUFFICES ASSUME NEW a \in 1..n, NEW h, h = 2 * a - 1
               PROVE  /\ h \in 1..(2 * n) /\ h \in 1..Len(writes')
                      /\ writes'[h].amp = a /\ writes'[h].reg = Enable
    OBVIOUS
  <2>1. h \in 1..(2 * n) /\ h \in 1..(3 * n) BY <1>1
  <2>2. off[h].amp = a /\ off[h].reg = Enable BY <1>4 DEF InTurns
  <2> QED BY <1>6, <2>1, <2>2
<1>9. ASSUME NEW i \in 1..Len(writes') PROVE WriteRight(i)'
  <2>1. CASE i \in 1..(2 * n)
    <3>1. /\ writes'[i].on = FALSE /\ writes'[i].reg \in {Enable, Supply}
          /\ writes'[i].reg = Supply =>
               /\ i - 1 \in 1..(2 * n)
               /\ writes'[i - 1].amp = writes'[i].amp /\ writes'[i - 1].reg = Enable
      BY <1>4, <1>6, <2>1 DEF InTurns
    <3>2. writes'[i].reg = Supply => i - 1 \in 1..(i - 1) BY <1>1, <2>1, <3>1
    <3>3. writes'[i].reg = Supply => Before(i, writes[i].amp, Enable)'
      BY <3>1, <3>2 DEF Before
    <3>4. Enable # Supply /\ {Enable, Supply} \cap {"gpio", "init"} = {} BY DEF Enable, Supply
    <3> QED BY <1>3, <3>1, <3>3, <3>4 DEF WriteRight
  <2>2. CASE i \notin 1..(2 * n)
    <3> DEFINE a == i - 2 * n
    <3>1. a \in 1..n /\ i \in 2 * n + 1..3 * n BY <1>1, <1>6, <2>2
    <3>2. writes'[i] = ini[a] BY <1>6, <3>1
    <3> HIDE DEF a
    <3>3. writes'[i].amp = a /\ writes'[i].reg = "init" BY <1>5, <3>1, <3>2
    <3>4. 2 * a - 1 \in 1..(i - 1) BY <1>1, <3>1 DEF a
    <3>5. Before(i, writes[i].amp, Enable)' BY <1>8, <3>1, <3>3, <3>4 DEF Before
    <3>6. Enable # "init" /\ Supply # "init" BY DEF Enable, Supply
    <3> QED BY <1>3, <3>3, <3>5, <3>6 DEF WriteRight
  <2> QED BY <2>1, <2>2
<1>10. QueueRight' BY <1>9 DEF QueueRight
<1> QED BY <1>1, <1>2, <1>7, <1>8, <1>10 DEF n

LEMMA ProbeSteps == ASSUME StreamIInv, Probe PROVE StreamIInv'
<1>0. /\ StreamTypeOK /\ BeforeProbe /\ WritesComing /\ InitWhileOff /\ SupplyFirst
  BY DEF StreamIInv
<1>1. /\ UNCHANGED <<stream_machine, reg, harmed, stream, dozed>> /\ ~probed /\ probed' = TRUE
      /\ stream = "closed" /\ writes = <<>>
  BY <1>0 DEF Probe, BeforeProbe
<1>2. (Samsung' <=> Samsung) /\ ~Loud' BY <1>1 DEF Samsung, Loud
<1>3. SupplyFirst' /\ InitWhileOff' BY <1>0, <1>1 DEF SupplyFirst, On, Samsung, InitWhileOff
<1>4. CASE Samsung
  <2>1. /\ writes' \in Seq(WriteSet) /\ QueueRight'
        /\ num_speaker_amps' = SpeakerAmps[stream_machine]
        /\ \A a \in AmpsOf(stream_machine) :
             \E i \in 1..Len(writes') : writes'[i].amp = a /\ writes'[i].reg = Enable
    BY <1>4, ProbeQueue
  <2>2. StreamTypeOK' BY <1>0, <1>1, <2>1 DEF StreamTypeOK, WriteSet
  <2>3. BeforeProbe' BY <1>0, <1>1, <1>2, <2>1 DEF BeforeProbe
  <2>4. WritesComing' BY <1>1, <1>2, <1>4, <2>1 DEF WritesComing, Switch
  <2> QED BY <1>3, <2>1, <2>2, <2>3, <2>4 DEF StreamIInv
<1>5. CASE ~Samsung
  <2>1. UNCHANGED <<num_speaker_amps, writes>> BY <1>5 DEF Probe
  <2>2. StreamTypeOK' BY <1>0, <1>1, <2>1 DEF StreamTypeOK
  <2>3. BeforeProbe' BY <1>0, <1>1, <1>2, <1>5, <2>1 DEF BeforeProbe
  <2>4. \A a \in AmpsOf(stream_machine) : ~reg[a]["gpio"] BY <1>0, <1>1, <1>5 DEF BeforeProbe
  <2>5. WritesComing' BY <1>1, <1>2, <1>5, <2>4 DEF WritesComing, Switch
  <2>6. QueueRight' BY <1>1, <2>1, EmptyQueue
  <2> QED BY <1>3, <2>2, <2>3, <2>5, <2>6 DEF StreamIInv
<1> QED BY <1>4, <1>5

LEMMA PcmSteps == ASSUME StreamIInv, Stream PROVE StreamIInv'
<1>0. /\ StreamTypeOK /\ BeforeProbe /\ WritesComing /\ InitWhileOff /\ SupplyFirst
  BY DEF StreamIInv
<1>1. PICK from, action, to :
        /\ Pcm(from, action, to)
        /\ \/ action = "OPEN" /\ stream = "closed" /\ stream' = "open"
           \/ action = "PREPARE" /\ stream \in {"open", "prepared"} /\ stream' = "prepared"
           \/ action = "CLEANUP" /\ stream = "prepared" /\ stream' = "open"
           \/ action = "CLOSE" /\ stream = "open" /\ stream' = "closed"
  BY DEF Stream, Pcm
<1>2. /\ probed /\ writes = <<>> /\ writes' = pcm_playback_hook(action)
      /\ dozed' = IF action = "OPEN" THEN FALSE ELSE dozed
      /\ UNCHANGED <<stream_machine, num_speaker_amps, reg, harmed, probed>>
      /\ stream' \in {"closed", "open", "prepared"}
  BY <1>1 DEF Pcm
<1>3. /\ writes' \in Seq(WriteSet) /\ QueueRight'
      /\ \A a \in AmpsOf(stream_machine) :
           \/ reg[a][Switch] <=> Loud'
           \/ \E i \in 1..Len(writes') : writes'[i].amp = a /\ writes'[i].reg = Switch
           \/ dozed /\ action # "OPEN"
  BY <1>1, <1>2, HookQueue
<1>4. StreamTypeOK' BY <1>0, <1>2, <1>3 DEF StreamTypeOK, WriteSet
<1>5. BeforeProbe' BY <1>0, <1>2 DEF BeforeProbe, Samsung
<1>6. WritesComing'
  <2>1. Switch' = Switch BY <1>2 DEF Switch, Samsung
  <2>2. ~dozed' => ~(dozed /\ action # "OPEN") BY <1>2
  <2> QED BY <1>2, <1>3, <2>1, <2>2 DEF WritesComing
<1>7. SupplyFirst' /\ InitWhileOff' BY <1>0, <1>2 DEF SupplyFirst, On, Samsung, InitWhileOff
<1> QED BY <1>3, <1>4, <1>5, <1>6, <1>7 DEF StreamIInv

LEMMA DozeSteps ==
    ASSUME StreamIInv, NEW s4 \in BOOLEAN, alc287_s4_power_gpio3_default(s4) PROVE StreamIInv'
<1>0. /\ StreamTypeOK /\ BeforeProbe /\ WritesComing /\ InitWhileOff /\ SupplyFirst
  BY DEF StreamIInv
<1>1. /\ stream_machine = "alc1318" /\ probed /\ writes = <<>>
      /\ reg' = IF s4 THEN [reg EXCEPT ![1].gpio = FALSE] ELSE reg
      /\ UNCHANGED <<stream_machine, num_speaker_amps, writes, harmed, probed, stream>>
  BY DEF alc287_s4_power_gpio3_default
<1>2. dozed' <=> (dozed \/ (s4 /\ stream # "closed")) BY DEF alc287_s4_power_gpio3_default
<1>3. dozed' \in BOOLEAN BY DEF alc287_s4_power_gpio3_default
<1>4. ~Samsung /\ SpeakerAmps[stream_machine] = 1 /\ AmpsOf(stream_machine) = {1}
  BY <1>0, <1>1, Speakers DEF StreamTypeOK, AmpsOf
<1>5. /\ reg' \in [AmpsOf(stream_machine) -> [Regs -> BOOLEAN]]
      /\ reg'[1]["gpio"] <=> (~s4 /\ reg[1]["gpio"])
  <2>1. reg \in [AmpsOf(stream_machine) -> [Regs -> BOOLEAN]] BY <1>0 DEF StreamTypeOK
  <2>2. CASE s4
    <3>1. reg' = [reg EXCEPT ![1]["gpio"] = FALSE] BY <1>1, <2>2
    <3> QED BY <1>4, <2>1, <2>2, <3>1 DEF Regs
  <2>3. CASE ~s4 BY <1>1, <2>1, <2>3
  <2> QED BY <2>2, <2>3
<1>6. StreamTypeOK' BY <1>0, <1>1, <1>3, <1>5 DEF StreamTypeOK
<1>7. BeforeProbe' /\ SupplyFirst' /\ InitWhileOff'
  <2>1. ~Samsung' BY <1>1, <1>4 DEF Samsung
  <2> QED BY <1>0, <1>1, <2>1 DEF BeforeProbe, SupplyFirst, InitWhileOff
<1>8. QueueRight' BY <1>1, EmptyQueue
<1>9. WritesComing'
  <2> SUFFICES ASSUME ~dozed' PROVE reg'[1]["gpio"] <=> Loud'
    <3>1. Switch' = "gpio" /\ AmpsOf(stream_machine)' = {1} BY <1>1, <1>4 DEF Switch, Samsung
    <3> QED BY <3>1 DEF WritesComing
  <2>1. ~dozed /\ (s4 => stream = "closed") BY <1>2
  <2>2. reg[1]["gpio"] <=> Loud
    <3>1. Switch = "gpio" /\ Len(writes) = 0 BY <1>1, <1>4 DEF Switch
    <3> QED BY <1>0, <1>1, <1>4, <2>1, <3>1 DEF WritesComing
  <2>3. (Loud' <=> Loud) /\ (Loud <=> stream # "closed") BY <1>1 DEF Loud
  <2> QED BY <1>5, <2>1, <2>2, <2>3
<1> QED BY <1>6, <1>7, <1>8, <1>9 DEF StreamIInv

LEMMA NextStreams == StreamIInv /\ [StreamNext]_streamVars => StreamIInv'
<1> SUFFICES ASSUME StreamIInv, [StreamNext]_streamVars PROVE StreamIInv' OBVIOUS
<1>1. CASE Probe BY <1>1, ProbeSteps
<1>2. CASE StreamWrite BY <1>2, WriteSteps
<1>3. CASE Stream BY <1>3, PcmSteps
<1>4. ASSUME NEW s4 \in BOOLEAN, alc287_s4_power_gpio3_default(s4) PROVE StreamIInv'
  BY <1>4, DozeSteps
<1>5. CASE UNCHANGED streamVars
  <2>1. StreamTypeOK' /\ BeforeProbe'
    BY <1>5 DEF streamVars, StreamIInv, StreamTypeOK, BeforeProbe, Samsung
  <2>2. QueueRight'
    BY <1>5 DEF streamVars, StreamIInv, QueueRight, WriteRight, Before, On, Samsung, Loud
  <2>3. WritesComing' BY <1>5 DEF streamVars, StreamIInv, WritesComing, Switch, Samsung, Loud
  <2>4. InitWhileOff' /\ SupplyFirst'
    BY <1>5 DEF streamVars, StreamIInv, InitWhileOff, SupplyFirst, On, Samsung
  <2> QED BY <2>1, <2>2, <2>3, <2>4 DEF StreamIInv
<1> QED BY <1>1, <1>2, <1>3, <1>4, <1>5 DEF StreamNext

LEMMA StreamsHold == StreamIInv => SpeakersSafe
<1> SUFFICES ASSUME StreamIInv, probed, writes = <<>>, ~dozed, NEW a \in AmpsOf(stream_machine)
             PROVE  (IF Samsung THEN On(a) ELSE reg[a].gpio) = Loud
  BY DEF StreamIInv, SpeakersSafe, OnlyWhenNeeded
<1>1. reg[a][Switch] <=> Loud
  <2>1. Len(writes) = 0 OBVIOUS
  <2> QED BY <2>1 DEF StreamIInv, WritesComing
<1>2. reg[a] \in [Regs -> BOOLEAN] BY DEF StreamIInv, StreamTypeOK
<1> QED BY <1>1, <1>2 DEF Switch, On, Enable, Regs, Loud

\* SpeakersSafe for every set of machines: no amplifier is initialised while
\* enabled or enabled without supply at any single write of the playback hooks,
\* and each is on only while the stream needs it.
THEOREM AmpsSwitchSafely == StreamSpec => []SpeakersSafe
<1>1. StreamInit => StreamIInv BY InitStreams
<1>2. StreamIInv /\ [StreamNext]_streamVars => StreamIInv' BY NextStreams
<1>3. StreamIInv => SpeakersSafe BY StreamsHold
<1> QED BY <1>1, <1>2, <1>3, PTL DEF StreamSpec

-----------------------------------------------------------------------------
(* The LEDs.                                                               *)

LedShape(led) ==
    /\ led.kind \in {"vref", "gpio", "coef", "none"}
    /\ led.kind \in {"vref", "none"} => led.mask = {} /\ led.on = {}
    /\ led.kind = "vref" => led.at \in VrefPins
    /\ led.kind = "gpio" =>
         led.at = "gpio" /\ led.mask # {} /\ led.mask \subseteq 0..7 /\ led.on = led.mask
    /\ led.kind = "coef" =>
         /\ led.at \in Coefs /\ led.mask \subseteq 0..15
         /\ led.on \subseteq led.mask /\ led.off \subseteq led.mask /\ led.on # led.off
    /\ led.kind = "none" => led.at = ""

LEMMA Shapes ==
    /\ \A pin \in VrefPins : LedShape(VrefPin(pin))
    /\ \A bit \in 0..7 : LedShape(Gpio(bit))
    /\ \A i \in Coefs : \A mask, on, off \in SUBSET (0..15) :
         on \subseteq mask /\ off \subseteq mask /\ on # off => LedShape(Coef(i, mask, on, off))
    /\ LedShape(None)
<1>1. \A pin \in VrefPins : LedShape(VrefPin(pin)) BY DEF LedShape, VrefPin
<1>2. \A bit \in 0..7 : LedShape(Gpio(bit)) BY DEF LedShape, Gpio
<1>3. \A i \in Coefs : \A mask, on, off \in SUBSET (0..15) :
         on \subseteq mask /\ off \subseteq mask /\ on # off => LedShape(Coef(i, mask, on, off))
  BY DEF LedShape, Coef
<1>4. LedShape(None) BY DEF LedShape, None
<1> QED BY <1>1, <1>2, <1>3, <1>4

LEMMA MutePinShapes == \A f \in DOMAIN MutePin : LedShape(MutePin[f])
<1>1. DOMAIN MutePin =
        {"alc269_fixup_hp_mute_led_mic1",
         "alc269_fixup_hp_mute_led_mic2",
         "alc269_fixup_hp_mute_led_mic3",
         "alc269_fixup_hp_line1_mic1_led",
         "alc236_fixup_hp_gpio_led",
         "alc269_fixup_hp_gpio_led",
         "alc269_fixup_hp_gpio_mic1_led",
         "alc280_fixup_hp_gpio4",
         "alc285_fixup_hp_gpio_led",
         "alc286_fixup_hp_gpio_led",
         "alc287_fixup_hp_gpio_led",
         "none"}
  BY DEF MutePin
<1>2. LedShape(MutePin["alc269_fixup_hp_mute_led_mic1"])
  <2>1. MutePin["alc269_fixup_hp_mute_led_mic1"] = VrefPin("0x18") BY DEF MutePin
  <2> QED BY <2>1, Shapes DEF VrefPins, Coefs
<1>3. LedShape(MutePin["alc269_fixup_hp_mute_led_mic2"])
  <2>1. MutePin["alc269_fixup_hp_mute_led_mic2"] = VrefPin("0x19") BY DEF MutePin
  <2> QED BY <2>1, Shapes DEF VrefPins, Coefs
<1>4. LedShape(MutePin["alc269_fixup_hp_mute_led_mic3"])
  <2>1. MutePin["alc269_fixup_hp_mute_led_mic3"] = VrefPin("0x1b") BY DEF MutePin
  <2> QED BY <2>1, Shapes DEF VrefPins, Coefs
<1>5. LedShape(MutePin["alc269_fixup_hp_line1_mic1_led"])
  <2>1. MutePin["alc269_fixup_hp_line1_mic1_led"] = VrefPin("0x1a") BY DEF MutePin
  <2> QED BY <2>1, Shapes DEF VrefPins, Coefs
<1>6. LedShape(MutePin["alc236_fixup_hp_gpio_led"])
  <2>1. MutePin["alc236_fixup_hp_gpio_led"] = Gpio(1) BY DEF MutePin
  <2> QED BY <2>1, Shapes DEF VrefPins, Coefs
<1>7. LedShape(MutePin["alc269_fixup_hp_gpio_led"])
  <2>1. MutePin["alc269_fixup_hp_gpio_led"] = Gpio(3) BY DEF MutePin
  <2> QED BY <2>1, Shapes DEF VrefPins, Coefs
<1>8. LedShape(MutePin["alc269_fixup_hp_gpio_mic1_led"])
  <2>1. MutePin["alc269_fixup_hp_gpio_mic1_led"] = Gpio(3) BY DEF MutePin
  <2> QED BY <2>1, Shapes DEF VrefPins, Coefs
<1>9. LedShape(MutePin["alc280_fixup_hp_gpio4"])
  <2>1. MutePin["alc280_fixup_hp_gpio4"] = Gpio(3) BY DEF MutePin
  <2> QED BY <2>1, Shapes DEF VrefPins, Coefs
<1>10. LedShape(MutePin["alc285_fixup_hp_gpio_led"])
  <2>1. MutePin["alc285_fixup_hp_gpio_led"] = Gpio(2) BY DEF MutePin
  <2> QED BY <2>1, Shapes DEF VrefPins, Coefs
<1>11. LedShape(MutePin["alc286_fixup_hp_gpio_led"])
  <2>1. MutePin["alc286_fixup_hp_gpio_led"] = Gpio(1) BY DEF MutePin
  <2> QED BY <2>1, Shapes DEF VrefPins, Coefs
<1>12. LedShape(MutePin["alc287_fixup_hp_gpio_led"])
  <2>1. MutePin["alc287_fixup_hp_gpio_led"] = Gpio(4) BY DEF MutePin
  <2> QED BY <2>1, Shapes DEF VrefPins, Coefs
<1>13. LedShape(MutePin["none"])
  <2>1. MutePin["none"] = None BY DEF MutePin
  <2> QED BY <2>1, Shapes DEF VrefPins, Coefs
<1> QED BY <1>1, <1>2, <1>3, <1>4, <1>5, <1>6, <1>7, <1>8, <1>9, <1>10, <1>11, <1>12, <1>13

LEMMA MuteCoefShapes == \A f \in DOMAIN MuteCoef : LedShape(MuteCoef[f])
<1>1. DOMAIN MuteCoef =
        {"alc285_fixup_hp_mute_led_coefbit",
         "alc236_fixup_hp_mute_led_coefbit",
         "alc236_fixup_hp_mute_led_coefbit2",
         "alc245_fixup_hp_mute_led_coefbit",
         "alc245_fixup_hp_mute_led_v1_coefbit",
         "alc295_fixup_hp_mute_led_coefbit11"}
  BY DEF MuteCoef
<1>2. LedShape(MuteCoef["alc285_fixup_hp_mute_led_coefbit"])
  <2>1. MuteCoef["alc285_fixup_hp_mute_led_coefbit"] = Coef("0x0b", {3}, {3}, {}) BY DEF MuteCoef
  <2> QED BY <2>1, Shapes DEF VrefPins, Coefs
<1>3. LedShape(MuteCoef["alc236_fixup_hp_mute_led_coefbit"])
  <2>1. MuteCoef["alc236_fixup_hp_mute_led_coefbit"] = Coef("0x34", {5}, {}, {5}) BY DEF MuteCoef
  <2> QED BY <2>1, Shapes DEF VrefPins, Coefs
<1>4. LedShape(MuteCoef["alc236_fixup_hp_mute_led_coefbit2"])
  <2>1. MuteCoef["alc236_fixup_hp_mute_led_coefbit2"] = Coef("0x07", {0}, {0}, {}) BY DEF MuteCoef
  <2> QED BY <2>1, Shapes DEF VrefPins, Coefs
<1>5. LedShape(MuteCoef["alc245_fixup_hp_mute_led_coefbit"])
  <2>1. MuteCoef["alc245_fixup_hp_mute_led_coefbit"] = Coef("0x0b", {2, 3}, {3}, {2}) BY DEF MuteCoef
  <2> QED BY <2>1, Shapes DEF VrefPins, Coefs
<1>6. LedShape(MuteCoef["alc245_fixup_hp_mute_led_v1_coefbit"])
  <2>1. MuteCoef["alc245_fixup_hp_mute_led_v1_coefbit"] = Coef("0x0b", {2, 3}, {3}, {}) BY DEF MuteCoef
  <2> QED BY <2>1, Shapes DEF VrefPins, Coefs
<1>7. LedShape(MuteCoef["alc295_fixup_hp_mute_led_coefbit11"])
  <2>1. MuteCoef["alc295_fixup_hp_mute_led_coefbit11"] = Coef("0x0b", {3, 4}, {3}, {4}) BY DEF MuteCoef
  <2> QED BY <2>1, Shapes DEF VrefPins, Coefs
<1> QED BY <1>1, <1>2, <1>3, <1>4, <1>5, <1>6, <1>7

LEMMA MicPinShapes == \A f \in DOMAIN MicPin : LedShape(MicPin[f])
<1>1. DOMAIN MicPin =
        {"alc269_fixup_hp_line1_mic1_led",
         "alc269_fixup_hp_gpio_mic1_led",
         "alc280_fixup_hp_gpio4",
         "alc236_fixup_hp_gpio_led",
         "alc269_fixup_hp_gpio_led",
         "alc285_fixup_hp_gpio_led",
         "alc286_fixup_hp_gpio_led",
         "alc245_fixup_hp_gpio_led",
         "none"}
  BY DEF MicPin
<1>2. LedShape(MicPin["alc269_fixup_hp_line1_mic1_led"])
  <2>1. MicPin["alc269_fixup_hp_line1_mic1_led"] = VrefPin("0x18") BY DEF MicPin
  <2> QED BY <2>1, Shapes DEF VrefPins, Coefs
<1>3. LedShape(MicPin["alc269_fixup_hp_gpio_mic1_led"])
  <2>1. MicPin["alc269_fixup_hp_gpio_mic1_led"] = VrefPin("0x18") BY DEF MicPin
  <2> QED BY <2>1, Shapes DEF VrefPins, Coefs
<1>4. LedShape(MicPin["alc280_fixup_hp_gpio4"])
  <2>1. MicPin["alc280_fixup_hp_gpio4"] = VrefPin("0x18") BY DEF MicPin
  <2> QED BY <2>1, Shapes DEF VrefPins, Coefs
<1>5. LedShape(MicPin["alc236_fixup_hp_gpio_led"])
  <2>1. MicPin["alc236_fixup_hp_gpio_led"] = Gpio(0) BY DEF MicPin
  <2> QED BY <2>1, Shapes DEF VrefPins, Coefs
<1>6. LedShape(MicPin["alc269_fixup_hp_gpio_led"])
  <2>1. MicPin["alc269_fixup_hp_gpio_led"] = Gpio(4) BY DEF MicPin
  <2> QED BY <2>1, Shapes DEF VrefPins, Coefs
<1>7. LedShape(MicPin["alc285_fixup_hp_gpio_led"])
  <2>1. MicPin["alc285_fixup_hp_gpio_led"] = Gpio(0) BY DEF MicPin
  <2> QED BY <2>1, Shapes DEF VrefPins, Coefs
<1>8. LedShape(MicPin["alc286_fixup_hp_gpio_led"])
  <2>1. MicPin["alc286_fixup_hp_gpio_led"] = Gpio(5) BY DEF MicPin
  <2> QED BY <2>1, Shapes DEF VrefPins, Coefs
<1>9. LedShape(MicPin["alc245_fixup_hp_gpio_led"])
  <2>1. MicPin["alc245_fixup_hp_gpio_led"] = Gpio(2) BY DEF MicPin
  <2> QED BY <2>1, Shapes DEF VrefPins, Coefs
<1>10. LedShape(MicPin["none"])
  <2>1. MicPin["none"] = None BY DEF MicPin
  <2> QED BY <2>1, Shapes DEF VrefPins, Coefs
<1> QED BY <1>1, <1>2, <1>3, <1>4, <1>5, <1>6, <1>7, <1>8, <1>9, <1>10

LEMMA MicCoefShapes == \A f \in DOMAIN MicCoef : LedShape(MicCoef[f])
<1>1. DOMAIN MicCoef =
        {"alc285_fixup_hp_gpio_micmute_led",
         "alc285_fixup_hp_coef_micmute_led",
         "alc236_fixup_hp_coef_micmute_led",
         "alc236_fixup_hp_micmute_led_vref"}
  BY DEF MicCoef
<1>2. LedShape(MicCoef["alc285_fixup_hp_gpio_micmute_led"])
  <2>1. MicCoef["alc285_fixup_hp_gpio_micmute_led"] = Gpio(2) BY DEF MicCoef
  <2> QED BY <2>1, Shapes DEF VrefPins, Coefs
<1>3. LedShape(MicCoef["alc285_fixup_hp_coef_micmute_led"])
  <2>1. MicCoef["alc285_fixup_hp_coef_micmute_led"] = Coef("0x19", {13}, {13}, {}) BY DEF MicCoef
  <2> QED BY <2>1, Shapes DEF VrefPins, Coefs
<1>4. LedShape(MicCoef["alc236_fixup_hp_coef_micmute_led"])
  <2>1. MicCoef["alc236_fixup_hp_coef_micmute_led"] = Coef("0x35", {2, 3}, {3}, {2}) BY DEF MicCoef
  <2> QED BY <2>1, Shapes DEF VrefPins, Coefs
<1>5. LedShape(MicCoef["alc236_fixup_hp_micmute_led_vref"])
  <2>1. MicCoef["alc236_fixup_hp_micmute_led_vref"] = VrefPin("0x1a") BY DEF MicCoef
  <2> QED BY <2>1, Shapes DEF VrefPins, Coefs
<1> QED BY <1>1, <1>2, <1>3, <1>4, <1>5

LEMMA LedsShaped ==
    ASSUME led_machine \in LedMachines
    PROVE  /\ \A l \in BothLeds : LedShape(Led(l))
           /\ \A k, l \in BothLeds : k # l => Apart(Led(k), Led(l))
           /\ \A l \in BothLeds : Polarity(l) \in BOOLEAN
<1>1. /\ led_machine.mute \in DOMAIN MuteLed /\ led_machine.mic \in DOMAIN MicLed
      /\ led_machine.inverted \in BOOLEAN
      /\ Apart(MuteLed[led_machine.mute], MicLed[led_machine.mic])
  BY LedAssumption DEF LedMachine
<1>2. LedShape(MuteLed[led_machine.mute]) BY <1>1, MutePinShapes, MuteCoefShapes DEF MuteLed
<1>3. LedShape(MicLed[led_machine.mic]) BY <1>1, MicPinShapes, MicCoefShapes DEF MicLed
<1>4. Led("mute") = MuteLed[led_machine.mute] /\ Led("mic") = MicLed[led_machine.mic]
  BY DEF Led
<1>5. \A l \in BothLeds : LedShape(Led(l)) BY <1>2, <1>3, <1>4 DEF BothLeds
<1>6. Apart(Led("mute"), Led("mic")) BY <1>1, <1>4
<1>7. Apart(Led("mic"), Led("mute")) BY <1>6 DEF Apart
<1>8. \A k, l \in BothLeds : k # l => Apart(Led(k), Led(l)) BY <1>6, <1>7 DEF BothLeds
<1>9. ASSUME NEW l \in BothLeds PROVE Polarity(l) \in BOOLEAN
  <2>1. Polarity(l) = IF l = "mute" THEN led_machine.inverted ELSE led_machine.mic \in Inverted
    BY DEF Polarity
  <2>2. (led_machine.mic \in Inverted) \in BOOLEAN OBVIOUS
  <2> QED BY <1>1, <2>1, <2>2, Zenon
<1> QED BY <1>5, <1>8, <1>9

\* What the driver noted for a LED is bright.
Bright(l) ==
    /\ Led(l).kind = "vref" => target[Led(l).at] = "vref80"
    /\ Led(l).kind = "coef" => coef[Led(l).at] \cap Led(l).mask = Led(l).on
    /\ Led(l).kind = "gpio" => Led(l).on \subseteq gpio_data

Calls ==
    /\ led_call # "none" => led_power = "active"
    /\ led_call # "none" /\ led_call \notin led_todo => (arg <=> asked[led_call])
\* The pins carry what the driver noted, but between shutup and the power filter.
Driven ==
    led_power # "shutup" =>
        \A l \in BothLeds : Led(l).kind = "vref" => led_pin[Led(l).at] = target[Led(l).at]
Noted ==
    \A l \in BothLeds : Has(l) /\ l \notin led_todo /\ led_call # l =>
        ((Bright(l) <=> ~Polarity(l)) <=> asked[l])
LedIInv == LedTypeOK /\ Calls /\ Driven /\ Noted

LEMMA LedHolds == LedIInv => LedInv
<1> SUFFICES ASSUME LedIInv, NEW l \in BothLeds, Has(l), l \notin led_todo, led_call # l,
                    led_power # "shutup"
             PROVE  (Lit(l) # Polarity(l)) = asked[l]
  BY DEF LedIInv, LedInv, Shown
<1>1. LedShape(Led(l)) /\ Polarity(l) \in BOOLEAN BY LedsShaped DEF LedIInv, LedTypeOK
<1>2. Lit(l) <=> Bright(l) BY <1>1 DEF LedIInv, Driven, Lit, Bright, Has, LedShape
<1>3. (Bright(l) <=> ~Polarity(l)) <=> asked[l] BY DEF LedIInv, Noted
<1>4. asked[l] \in BOOLEAN BY DEF LedIInv, LedTypeOK
<1>5. Lit(l) \in BOOLEAN BY <1>1 DEF Lit, Has, LedShape
<1> QED BY <1>1, <1>2, <1>3, <1>4, <1>5, Zenon

LEMMA InitLeds == LedInit => LedIInv
<1> SUFFICES ASSUME LedInit PROVE LedIInv OBVIOUS
<1>1. LedTypeOK
  <2>1. coef \in [Coefs -> SUBSET (0..15)] BY DEF LedInit
  <2>2. gpio_data \in SUBSET (0..7) BY DEF LedInit
  <2>3. target \in [VrefPins -> Brightness] /\ led_pin \in [VrefPins -> Brightness \cup {"off"}]
    BY DEF LedInit, Brightness
  <2>4. asked \in [BothLeds -> BOOLEAN] /\ arg \in BOOLEAN BY DEF LedInit
  <2>5. led_todo \subseteq BothLeds BY DEF LedInit
  <2> QED BY <2>1, <2>2, <2>3, <2>4, <2>5 DEF LedInit, LedTypeOK
<1>2. Calls /\ Driven /\ Noted BY DEF LedInit, Calls, Driven, Noted
<1> QED BY <1>1, <1>2 DEF LedIInv

\* What writing a LED does to it, to the other LED and to other bits.
LEMMA LedWrites ==
    ASSUME LedIInv, LedWrite, NEW c, c = led_call
    PROVE  /\ target' \in [VrefPins -> Brightness]
           /\ led_pin' \in [VrefPins -> Brightness \cup {"off"}]
           /\ coef' \in [Coefs -> SUBSET (0..15)] /\ gpio_data' \in SUBSET (0..7)
           /\ Has(c) => (Bright(c)' <=> Lights)
           /\ \A l \in BothLeds \ {c} : Bright(l)' <=> Bright(l)
           /\ Driven' /\ OtherBitsKept
<1> DEFINE led == Led(c)
<1>1. /\ c \in BothLeds /\ led = Led(led_call) /\ LedTypeOK /\ Driven /\ led_power = "active"
      /\ UNCHANGED <<led_machine, led_power>>
  BY DEF LedWrite, LedIInv, LedTypeOK, Calls
<1>2. LedShape(led) /\ \A l \in BothLeds : LedShape(Led(l))
  BY <1>1, LedsShaped DEF LedTypeOK
<1>3. \A l \in BothLeds \ {c} : Apart(led, Led(l))
  BY <1>1, LedsShaped DEF LedTypeOK
<1>4. (\A l \in BothLeds : Led(l)' = Led(l)) /\ (Has(c) <=> led.kind # "none")
  BY <1>1 DEF Led, Has
<1>b. /\ target \in [VrefPins -> Brightness] /\ led_pin \in [VrefPins -> Brightness \cup {"off"}]
      /\ coef \in [Coefs -> SUBSET (0..15)] /\ gpio_data \in SUBSET (0..7)
  BY <1>1 DEF LedTypeOK
<1> DEFINE Types == /\ target' \in [VrefPins -> Brightness]
                    /\ led_pin' \in [VrefPins -> Brightness \cup {"off"}]
                    /\ coef' \in [Coefs -> SUBSET (0..15)] /\ gpio_data' \in SUBSET (0..7)
<1>5. CASE led.kind = "vref"
  <2>1. /\ target' = [target EXCEPT ![led.at] = IF Lights THEN "vref80" ELSE "hiz"]
        /\ led_pin' = [led_pin EXCEPT ![led.at] = target'[led.at]]
        /\ UNCHANGED <<coef, gpio_data>>
    BY <1>1, <1>5 DEF LedWrite, alc_update_vref_led
  <2>2. led.at \in VrefPins BY <1>2, <1>5 DEF LedShape
  <2>3. /\ target'[led.at] = IF Lights THEN "vref80" ELSE "hiz"
        /\ led_pin'[led.at] = target'[led.at]
        /\ \A pin \in VrefPins \ {led.at} : target'[pin] = target[pin] /\ led_pin'[pin] = led_pin[pin]
        /\ target'[led.at] \in Brightness
    BY <1>b, <2>1, <2>2 DEF Brightness
  <2>4. Types BY <1>b, <2>1, <2>2, <2>3
  <2>5. Bright(c)' <=> Lights BY <1>1, <1>4, <1>5, <2>3 DEF Bright
  <2>6. ASSUME NEW l \in BothLeds \ {c} PROVE Bright(l)' <=> Bright(l)
    <3>1. Led(l).kind = "vref" => Led(l).at \in VrefPins \ {led.at}
      BY <1>2, <1>3, <1>5 DEF Apart, LedShape
    <3> QED BY <1>4, <2>1, <2>3, <3>1 DEF Bright
  <2>7. Driven'
    <3> SUFFICES ASSUME NEW l \in BothLeds, Led(l).kind = "vref"
                 PROVE  led_pin'[Led(l).at] = target'[Led(l).at]
      BY <1>4 DEF Driven
    <3>1. Led(l).at \in VrefPins BY <1>2 DEF LedShape
    <3>2. led_pin[Led(l).at] = target[Led(l).at] BY <1>1 DEF Driven
    <3> QED BY <2>3, <3>1, <3>2
  <2>8. OtherBitsKept BY <2>1 DEF OtherBitsKept
  <2> HIDE DEF Types
  <2> QED BY <2>4, <2>5, <2>6, <2>7, <2>8 DEF Types
<1>6. CASE led.kind = "coef"
  <2>1. /\ coef' = [coef EXCEPT ![led.at] = (@ \ led.mask) \cup (IF Lights THEN led.on ELSE led.off)]
        /\ UNCHANGED <<target, led_pin, gpio_data>>
    BY <1>1, <1>6 DEF LedWrite, alc_update_coef_led
  <2>2. /\ led.at \in Coefs /\ led.mask \subseteq 0..15
        /\ led.on \subseteq led.mask /\ led.off \subseteq led.mask /\ led.on # led.off
    BY <1>2, <1>6 DEF LedShape
  <2>3. /\ coef'[led.at] = (coef[led.at] \ led.mask) \cup (IF Lights THEN led.on ELSE led.off)
        /\ \A i \in Coefs \ {led.at} : coef'[i] = coef[i]
        /\ coef'[led.at] \in SUBSET (0..15)
    BY <1>b, <2>1, <2>2
  <2>4. Types BY <1>b, <2>1, <2>2, <2>3
  <2>5. Bright(c)' <=> Lights
    <3>1. coef'[led.at] \cap led.mask = IF Lights THEN led.on ELSE led.off BY <2>2, <2>3
    <3> QED BY <1>1, <1>4, <1>6, <2>2, <3>1 DEF Bright
  <2>6. ASSUME NEW l \in BothLeds \ {c} PROVE Bright(l)' <=> Bright(l)
    <3>1. CASE Led(l).kind # "coef" \/ Led(l).at # led.at
      <4>1. Led(l).kind = "coef" => coef'[Led(l).at] = coef[Led(l).at]
        BY <1>2, <2>3, <3>1 DEF LedShape
      <4> QED BY <1>4, <2>1, <4>1 DEF Bright
    <3>2. CASE Led(l).kind = "coef" /\ Led(l).at = led.at
      <4>1. led.mask \cap Led(l).mask = {} BY <1>3, <1>6, <3>2 DEF Apart
      <4>2. coef'[led.at] \cap Led(l).mask = coef[led.at] \cap Led(l).mask BY <2>2, <2>3, <4>1
      <4> QED BY <1>4, <2>1, <3>2, <4>2 DEF Bright
    <3> QED BY <3>1, <3>2
  <2>7. Driven' BY <1>1, <1>4, <2>1 DEF Driven
  <2>8. OtherBitsKept
    <3> DEFINE own(at) == UNION {Led(l).mask : l \in {k \in BothLeds : Led(k).at = at}}
    <3>1. led.mask \subseteq own(led.at) BY <1>1
    <3> HIDE DEF own
    <3>2. \A i \in Coefs : coef'[i] \ own(i) = coef[i] \ own(i) BY <2>2, <2>3, <3>1
    <3> QED BY <2>1, <3>2 DEF OtherBitsKept, own
  <2> HIDE DEF Types
  <2> QED BY <2>4, <2>5, <2>6, <2>7, <2>8 DEF Types
<1>7. CASE led.kind \in {"gpio", "none"}
  <2>1. /\ gpio_data' = IF Lights THEN gpio_data \cup led.on ELSE gpio_data \ led.mask
        /\ UNCHANGED <<target, led_pin, coef>>
    BY <1>1, <1>7 DEF LedWrite, alc_update_gpio_led
  <2>2. /\ led.kind = "gpio" =>
              /\ led.at = "gpio" /\ led.mask # {} /\ led.on = led.mask
        /\ led.kind = "none" => led.on = {} /\ led.mask = {}
        /\ led.mask \subseteq 0..7 /\ led.on = led.mask
    BY <1>2, <1>7 DEF LedShape
  <2>3. gpio_data' \subseteq gpio_data \cup led.mask /\ gpio_data \ led.mask \subseteq gpio_data'
    BY <2>1, <2>2
  <2>4. Types BY <1>b, <2>1, <2>2, <2>3
  <2>5. led.kind = "gpio" => (Bright(c)' <=> Lights)
    <3> SUFFICES ASSUME led.kind = "gpio" PROVE led.on \subseteq gpio_data' <=> Lights
      BY <1>1, <1>4 DEF Bright
    <3> QED BY <2>1, <2>2
  <2>6. ASSUME NEW l \in BothLeds \ {c} PROVE Bright(l)' <=> Bright(l)
    <3>1. CASE Led(l).kind # "gpio" \/ led.kind = "none"
      <4>1. led.kind = "none" => gpio_data' = gpio_data BY <2>2, <2>3
      <4> QED BY <1>4, <2>1, <3>1, <4>1 DEF Bright
    <3>2. CASE Led(l).kind = "gpio" /\ led.kind = "gpio"
      <4>1. Led(l).at = "gpio" /\ Led(l).on = Led(l).mask BY <1>2, <3>2 DEF LedShape
      <4>2. led.mask \cap Led(l).mask = {} BY <1>3, <2>2, <3>2, <4>1 DEF Apart
      <4>3. Led(l).on \subseteq gpio_data' <=> Led(l).on \subseteq gpio_data
        BY <2>3, <4>1, <4>2
      <4> QED BY <1>4, <2>1, <3>2, <4>3 DEF Bright
    <3> QED BY <1>7, <3>1, <3>2
  <2>7. Driven' BY <1>1, <1>4, <2>1 DEF Driven
  <2>8. OtherBitsKept
    <3> DEFINE own(at) == UNION {Led(l).mask : l \in {k \in BothLeds : Led(k).at = at}}
    <3>1. led.kind = "gpio" => led.mask \subseteq own("gpio") BY <1>1, <2>2
    <3>2. led.kind = "none" => led.mask = {} BY <2>2
    <3> HIDE DEF own
    <3>3. gpio_data' \ own("gpio") = gpio_data \ own("gpio") BY <1>7, <2>3, <3>1, <3>2
    <3> QED BY <2>1, <3>3 DEF OtherBitsKept, own
  <2> HIDE DEF Types
  <2> QED BY <1>4, <2>4, <2>5, <2>6, <2>7, <2>8, <1>7 DEF Types
<1> QED BY <1>2, <1>5, <1>6, <1>7 DEF LedShape, Types

LEMMA LedTypes == LedTypeOK /\ LedIInv /\ [LedNext]_ledVars => LedTypeOK'
<1> SUFFICES ASSUME LedTypeOK, LedIInv, [LedNext]_ledVars PROVE LedTypeOK' OBVIOUS
<1> USE DEF LedTypeOK
<1>1. ASSUME NEW l \in BothLeds, Ask(l) PROVE LedTypeOK'
  <2>1. asked' \in [BothLeds -> BOOLEAN] BY <1>1 DEF Ask
  <2>2. led_todo' \subseteq BothLeds BY <1>1 DEF Ask
  <2> QED BY <1>1, <2>1, <2>2 DEF Ask, regs
<1>2. PowerUp => /\ led_power' \in {"active", "shutup", "suspended"}
                 /\ led_pin' \in [VrefPins -> Brightness \cup {"off"}]
  BY DEF PowerUp
<1>3. ASSUME NEW l \in BothLeds, SetLed(l) PROVE LedTypeOK'
  <2>1. arg' \in BOOLEAN BY <1>3 DEF SetLed
  <2>2. led_todo' \subseteq BothLeds BY <1>3 DEF SetLed
  <2>3. led_call' \in BothLeds BY <1>3 DEF SetLed
  <2> QED BY <1>2, <1>3, <2>1, <2>2, <2>3 DEF SetLed
<1>4. CASE LedWrite
  <2>1. /\ target' \in [VrefPins -> Brightness]
        /\ led_pin' \in [VrefPins -> Brightness \cup {"off"}]
        /\ coef' \in [Coefs -> SUBSET (0..15)] /\ gpio_data' \in SUBSET (0..7)
    BY <1>4, LedWrites
  <2>2. led_call' = "none" /\ UNCHANGED <<led_machine, asked, led_todo, arg, led_power>>
    BY <1>4 DEF LedWrite
  <2> QED BY <2>1, <2>2
<1>5. CASE LedSuspend BY <1>5 DEF LedSuspend
<1>6. CASE PowerDown BY <1>6 DEF PowerDown, led_power_filter
<1>7. CASE LedResume BY <1>2, <1>7 DEF LedResume, regs
<1>8. CASE UNCHANGED ledVars BY <1>8 DEF ledVars, regs
<1> QED BY <1>1, <1>3, <1>4, <1>5, <1>6, <1>7, <1>8 DEF LedNext

\* Nothing but a LED write touches what the driver noted, a coefficient or GPIO.
LEMMA LedQuiet ==
    ASSUME UNCHANGED <<led_machine, target, coef, gpio_data>>
    PROVE  /\ \A l \in BothLeds : (Bright(l)' <=> Bright(l)) /\ Led(l)' = Led(l)
           /\ \A l \in BothLeds : (Has(l)' <=> Has(l)) /\ Polarity(l)' = Polarity(l)
           /\ OtherBitsKept
<1>1. \A l \in BothLeds : Led(l)' = Led(l) BY DEF Led
<1>2. \A l \in BothLeds : Bright(l)' <=> Bright(l) BY <1>1 DEF Bright
<1>3. \A l \in BothLeds : Has(l)' <=> Has(l) BY <1>1 DEF Has
<1>4. \A l \in BothLeds : Polarity(l)' = Polarity(l) BY DEF Polarity
<1>5. OtherBitsKept BY DEF OtherBitsKept
<1> QED BY <1>1, <1>2, <1>3, <1>4, <1>5

LEMMA NextLeds == LedIInv /\ [LedNext]_ledVars => LedIInv' /\ OtherBitsKept
<1> SUFFICES ASSUME LedIInv, [LedNext]_ledVars PROVE LedIInv' /\ OtherBitsKept OBVIOUS
<1>0. LedTypeOK /\ Calls /\ Driven /\ Noted /\ LedTypeOK' BY LedTypes DEF LedIInv
<1>a. \A l \in BothLeds : Led(l).kind = "vref" => Led(l).at \in VrefPins
  BY <1>0, LedsShaped DEF LedTypeOK, LedShape
<1>b. asked \in [BothLeds -> BOOLEAN] /\ led_pin \in [VrefPins -> Brightness \cup {"off"}]
  BY <1>0 DEF LedTypeOK
<1> DEFINE Rest == Calls' /\ Driven' /\ Noted' /\ OtherBitsKept
<1>1. ASSUME NEW l \in BothLeds, Ask(l) PROVE Rest
  <2>1. UNCHANGED <<led_machine, target, coef, gpio_data, led_call, arg, led_power, led_pin>>
    BY <1>1 DEF Ask, regs
  <2>2. asked' = [asked EXCEPT ![l] = ~@] /\ led_todo' = led_todo \cup {l} BY <1>1 DEF Ask
  <2>3. Calls' BY <1>0, <1>b, <2>1, <2>2 DEF Calls, LedTypeOK
  <2>4. Driven' BY <1>0, <2>1, LedQuiet DEF Driven
  <2>5. Noted' BY <1>0, <1>b, <2>1, <2>2, LedQuiet DEF Noted
  <2> QED BY <2>1, <2>3, <2>4, <2>5, LedQuiet
<1>2. ASSUME PowerUp, UNCHANGED <<led_machine, target, coef, gpio_data>> PROVE Driven'
  BY <1>0, <1>2, LedQuiet DEF Driven, PowerUp
<1>3. ASSUME NEW l \in BothLeds, SetLed(l) PROVE Rest
  <2>1. /\ UNCHANGED <<led_machine, asked, target, coef, gpio_data>> /\ led_call = "none"
        /\ led_call' = l /\ arg' = asked[l] /\ led_todo' = led_todo \ {l} /\ led_power' = "active"
    BY <1>3 DEF SetLed, PowerUp
  <2>2. Calls' BY <2>1 DEF Calls
  <2>3. Driven' BY <1>2, <1>3, <2>1 DEF SetLed
  <2>4. Noted' BY <1>0, <2>1, LedQuiet DEF Noted, BothLeds
  <2> QED BY <2>1, <2>2, <2>3, <2>4, LedQuiet
<1>4. CASE LedWrite
  <2> SUFFICES ASSUME NEW c, c = led_call PROVE LedIInv' /\ OtherBitsKept OBVIOUS
  <2>1. /\ Has(c) => (Bright(c)' <=> Lights)
        /\ \A l \in BothLeds \ {c} : Bright(l)' <=> Bright(l)
        /\ Driven' /\ OtherBitsKept
    BY <1>4, LedWrites
  <2>2. /\ c # "none" /\ led_call' = "none" /\ UNCHANGED <<led_machine, asked, led_todo, arg, led_power>>
    BY <1>4 DEF LedWrite
  <2>3. Calls' BY <2>2 DEF Calls
  <2>4. /\ \A l \in BothLeds : (Has(l)' <=> Has(l)) /\ Polarity(l)' = Polarity(l)
        /\ \A l \in BothLeds : Polarity(l) \in BOOLEAN
    BY <1>0, <2>2, LedsShaped DEF Has, Led, Polarity, LedTypeOK
  <2>5. (Lights <=> (arg <=> ~Polarity(c))) /\ (c \notin led_todo => (arg <=> asked[c]))
    <3>1. arg \in BOOLEAN /\ Polarity(c) \in BOOLEAN /\ (Lights <=> arg # Polarity(c))
      BY <1>0, <2>2, <2>4 DEF LedTypeOK, Lights
    <3>2. Lights <=> (arg <=> ~Polarity(c)) BY <3>1, Zenon
    <3> QED BY <1>0, <2>2, <3>2 DEF Calls
  <2>6. Noted' BY <1>0, <2>1, <2>2, <2>4, <2>5 DEF Noted
  <2> QED BY <1>0, <2>1, <2>3, <2>6 DEF LedIInv
<1>5. CASE LedSuspend
  <2>1. /\ UNCHANGED <<led_machine, asked, led_todo, led_call, arg, target, coef, gpio_data>>
        /\ led_call = "none" /\ led_power' = "shutup"
    BY <1>5 DEF LedSuspend
  <2>2. Calls' /\ Driven' BY <2>1 DEF Calls, Driven
  <2>3. Noted' BY <1>0, <2>1, LedQuiet DEF Noted
  <2> QED BY <1>0, <2>1, <2>2, <2>3, LedQuiet DEF LedIInv
<1>6. CASE PowerDown
  <2>1. /\ UNCHANGED <<led_machine, asked, led_todo, led_call, arg, target, coef, gpio_data>>
        /\ led_power = "shutup" /\ led_power' = "suspended"
        /\ led_pin' = [p \in VrefPins |-> IF p \in LedPins THEN target[p] ELSE led_pin[p]]
    BY <1>6 DEF PowerDown, led_power_filter
  <2>2. \A l \in BothLeds : Led(l).kind = "vref" => Led(l).at \in LedPins BY DEF LedPins
  <2>3. Driven' BY <1>a, <2>1, <2>2, LedQuiet DEF Driven
  <2>4. Calls' BY <1>0, <2>1 DEF Calls
  <2>5. Noted' BY <1>0, <2>1, LedQuiet DEF Noted
  <2> QED BY <1>0, <2>1, <2>3, <2>4, <2>5, LedQuiet DEF LedIInv
<1>7. CASE LedResume
  <2>1. /\ UNCHANGED <<led_machine, asked, led_todo, led_call, arg, target, coef, gpio_data>>
        /\ PowerUp /\ led_power' = "active"
    BY <1>7 DEF LedResume, regs, PowerUp
  <2>2. Calls' BY <1>0, <2>1 DEF Calls
  <2>3. Driven' BY <1>2, <2>1
  <2>4. Noted' BY <1>0, <2>1, LedQuiet DEF Noted
  <2> QED BY <1>0, <2>1, <2>2, <2>3, <2>4, LedQuiet DEF LedIInv
<1>8. CASE UNCHANGED ledVars
  <2>1. UNCHANGED <<led_machine, asked, led_todo, led_call, arg, target, coef, gpio_data, led_power, led_pin>>
    BY <1>8 DEF ledVars, regs
  <2>2. Calls' BY <1>0, <2>1 DEF Calls
  <2>3. Driven' /\ Noted' BY <1>0, <2>1, LedQuiet DEF Driven, Noted
  <2> QED BY <1>0, <2>1, <2>2, <2>3, LedQuiet DEF LedIInv
<1> QED BY <1>0, <1>1, <1>3, <1>4, <1>5, <1>6, <1>7, <1>8 DEF LedNext, LedIInv

\* LedsRight for every set of machines whose LEDs are apart: a LED that was set
\* shows what was asked for, in runtime suspend too, and the set functions
\* change no other bit of a coefficient or of GPIO.
THEOREM LedsShowTruth == LedSpec => LedsRight
<1>1. LedInit => LedIInv BY InitLeds
<1>2. LedIInv /\ [LedNext]_ledVars => LedIInv' BY NextLeds
<1>3. LedIInv /\ [LedNext]_ledVars => [OtherBitsKept]_ledVars BY NextLeds
<1>4. LedIInv => LedInv BY LedHolds
<1> QED BY <1>1, <1>2, <1>3, <1>4, PTL DEF LedSpec, LedsRight

=============================================================================
