----------------------------- MODULE CodecProbe -----------------------------
(***************************************************************************)
(* Probe and removal of the Realtek codec (alc269_probe, alc269_remove in  *)
(* realtek/alc269.c) with what its fixups leave behind: the component      *)
(* manager of the side amplifiers, made by a fixup or by the search for    *)
(* Cirrus amplifiers and freed by FREE and by remove, and the input device *)
(* of the microphone key.  The amplifiers come and go on their own, so the *)
(* aggregate may be bound in the middle of the probe.                      *)
(***************************************************************************)
EXTENDS Naturals

CONSTANTS
    Fixups,     \* what the quirk tables may name: none, amps, hotkey, TX300
    Amps,       \* the devices the component manager waits for
    MaxProbes,  \* bound: probes in one behaviour
    MaxMoves    \* bound: arrivals and departures of amplifiers

ASSUME ProbeAssumption ==
    /\ "none" \in Fixups /\ Fixups \subseteq {"none", "amps", "hotkey", "tx300"}
    /\ Amps # {}
    /\ MaxProbes \in Nat /\ MaxMoves \in Nat

VARIABLES
    machine,       \* entries of the tables, the codec, a Cirrus amplifier in ACPI
    pc, spec,      \* how far the probe is; codec->spec exists
    fixup,         \* codec->fixup_id
    parent,        \* spec->comps.codec is set
    master, bound, \* component master registered; comp_bind done
    notify, hook,  \* ACPI notifications; spec->gen.pcm_playback_hook
    kb, event,     \* spec->kb_dev; callback of the key's jack
    inputs,        \* input devices registered with the kernel
    here,          \* amplifiers that have added themselves
    probes, moves

comps == <<parent, master, bound, notify, hook>>
keys == <<kb, event, inputs>>
vars == <<machine, pc, spec, fixup, comps, keys, here, probes, moves>>

Machine == [table : Fixups, pins : Fixups, alc294 : BOOLEAN, cirrus : BOOLEAN]

TypeOK ==
    /\ machine \in Machine /\ spec \in BOOLEAN /\ fixup \in Fixups
    /\ pc \in {"off", "pick", "cirrus", "pre", "parse", "probe", "ready", "error", "remove",
             "free", "freed"}
    /\ parent \in BOOLEAN /\ master \in BOOLEAN /\ bound \in BOOLEAN /\ notify \in BOOLEAN
    /\ hook \in {"none", "comps"} /\ kb \in BOOLEAN /\ event \in BOOLEAN
    /\ inputs \in 0..1 /\ here \subseteq Amps
    /\ probes \in 0..MaxProbes /\ moves \in 0..MaxMoves

Init ==
    /\ machine \in Machine /\ pc = "off" /\ spec = FALSE /\ fixup = "none"
    /\ parent = FALSE /\ master = FALSE /\ bound = FALSE /\ notify = FALSE /\ hook = "none"
    /\ kb = FALSE /\ event = FALSE /\ inputs = 0 /\ here = {} /\ probes = 0 /\ moves = 0

-----------------------------------------------------------------------------
(* The component manager.                                                  *)

\* comp_bind and comp_unbind run when the aggregate is complete or no longer.
\* Mutant: the notification handler stays.
CompBindKeeps(whole) == bound' = whole /\ notify' = (notify \/ whole)
CompBind(whole) == bound' = whole /\ notify' = whole

\* External: a manager that exists is not made again; no memory, or a failing
\* registration, is reported after the codec was noted.
ManagerInit(made) ==
    IF parent THEN ~made /\ UNCHANGED <<parent, master, bound, notify>>
    ELSE /\ parent' \in (IF made THEN {TRUE} ELSE BOOLEAN) /\ master' = made
         /\ CompBind(made /\ here = Amps)
ManagerFree == parent' = FALSE /\ master' = FALSE /\ CompBind(FALSE)

comp_generic_fixup_pre ==
    \E made \in BOOLEAN :
        ManagerInit(made) /\ hook' = IF made THEN "comps" ELSE hook
comp_generic_fixup_free == ManagerFree /\ UNCHANGED hook

-----------------------------------------------------------------------------
(* The microphone key.                                                     *)

alc_register_micmute_input_device(done) ==
    kb' = done /\ inputs' = IF done THEN inputs + 1 ELSE inputs

hotkey_pre ==
    \E done \in BOOLEAN : alc_register_micmute_input_device(done) /\ event' = done
hotkey_free ==
    kb' = FALSE /\ inputs' = (IF kb THEN inputs - 1 ELSE inputs) /\ UNCHANGED event

-----------------------------------------------------------------------------
(* Probe.                                                                  *)

At(here1, next) == pc = here1 /\ pc' = next /\ UNCHANGED <<machine, here, moves>>

alc_alloc_spec ==
    /\ probes < MaxProbes /\ probes' = probes + 1
    /\ \/ At("off", "off") /\ UNCHANGED <<spec, fixup, comps, keys>>
       \/ /\ At("off", "pick") /\ spec' = TRUE /\ parent' = FALSE /\ hook' = "none"
          /\ kb' = FALSE /\ UNCHANGED <<fixup, master, bound, notify, event, inputs>>

\* A codec that cannot be renamed fails before any fixup is known.
RenameFails == At("pick", "error") /\ UNCHANGED <<spec, fixup, comps, keys, probes>>

\* The first table with an entry wins; the TX300 is cleared for an ALC294, and
\* the tables of pin configurations are asked again.
Pick ==
    /\ At("pick", "cirrus") /\ UNCHANGED <<spec, comps, keys, probes>>
    /\ LET wrong == machine.table = "tx300" /\ machine.alc294 IN
       fixup' = IF machine.table = "none" \/ wrong THEN machine.pins ELSE machine.table

find_cirrus_companion_amps ==
    /\ At("cirrus", "pre") /\ UNCHANGED <<spec, fixup, keys, probes>>
    /\ \/ machine.cirrus /\ comp_generic_fixup_pre
       \/ UNCHANGED comps

PreProbe ==
    /\ At("pre", "parse") /\ UNCHANGED <<spec, fixup, probes>>
    /\ IF fixup = "amps" THEN comp_generic_fixup_pre ELSE UNCHANGED comps
    /\ IF fixup = "hotkey" THEN hotkey_pre ELSE UNCHANGED keys

\* The parser and the beep amplifier may fail.
alc269_parse_auto_config ==
    /\ At("parse", "probe") \/ At("parse", "error")
    /\ UNCHANGED <<spec, fixup, comps, keys, probes>>

Probed == At("probe", "ready") /\ UNCHANGED <<spec, fixup, comps, keys, probes>>

-----------------------------------------------------------------------------
(* Removal, and the error path of the probe.                               *)

\* External: the PCM streams and the jacks of a codec that works are
\* disconnected first, those of a failed probe after it has returned.
Disconnect == At("ready", "remove") /\ event' = FALSE
              /\ UNCHANGED <<spec, fixup, comps, kb, inputs, probes>>
Cleanup == At("freed", "off") /\ event' = FALSE
           /\ UNCHANGED <<spec, fixup, comps, kb, inputs, probes>>

alc269_remove ==
    /\ At("remove", "free") \/ At("error", "free")
    /\ ManagerFree /\ UNCHANGED <<spec, fixup, hook, keys, probes>>

\* snd_hda_gen_remove: the FREE action, then codec->spec.
Free ==
    /\ At("free", "freed") /\ spec' = FALSE /\ fixup' = "none" /\ UNCHANGED probes
    /\ IF fixup = "amps" THEN comp_generic_fixup_free ELSE UNCHANGED comps
    /\ IF fixup = "hotkey" THEN hotkey_free ELSE UNCHANGED keys

-----------------------------------------------------------------------------
(* The amplifiers' drivers, on other threads.                              *)

AmpMoves(a) ==
    /\ moves < MaxMoves /\ moves' = moves + 1
    /\ here' = (IF a \in here THEN here \ {a} ELSE here \cup {a})
    /\ CompBind(master /\ here' = Amps)
    /\ UNCHANGED <<machine, pc, spec, fixup, parent, master, hook, keys, probes>>

Step == \/ alc_alloc_spec \/ RenameFails \/ Pick \/ find_cirrus_companion_amps \/ PreProbe
        \/ alc269_parse_auto_config \/ Probed \/ Disconnect \/ alc269_remove \/ Free
        \/ Cleanup
Next == Step \/ \E a \in Amps : AmpMoves(a)
Spec == Init /\ [][Next]_vars

-----------------------------------------------------------------------------
(* Properties.                                                             *)

\* The callbacks of the component manager use codec->spec: while it is
\* registered, whoever registered it and however the probe ended, the spec
\* exists and knows the manager.
MasterHasSpec == master \/ bound => spec /\ parent

\* A codec that is off has left nothing: no aggregate, no notification
\* handler, no input device, no memory.
NothingLeft == pc = "off" => ~spec /\ ~master /\ ~notify /\ inputs = 0 /\ ~event

\* The playback hook walks the components under the manager's mutex, which
\* exists only when the manager was made.
HookBacked == pc = "ready" /\ hook = "comps" => master

\* The key's callback reports through the input device: from the set up of the
\* callback to the FREE action the device is there.
KeyHasDevice == event /\ pc # "freed" => kb /\ inputs = 1

\* ACPI notifications arrive for bound components only.
NotifyBound == notify => bound /\ master

\* Spec, component manager, hook, key and notifications of the codec hold
\* together, whichever step of a probe failed and whatever amps come and go.
ProbeInv == /\ TypeOK /\ MasterHasSpec /\ NothingLeft
            /\ HookBacked /\ KeyHasDevice /\ NotifyBound

=============================================================================
