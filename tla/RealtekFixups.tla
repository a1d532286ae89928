---------------------------- MODULE RealtekFixups ----------------------------
(***************************************************************************)
(* How the Realtek codec driver applies a machine's fixups: at each stage  *)
(* of the codec's life, from PRE_PROBE to FREE, the whole chain of the     *)
(* machine's entry, one entry after the other.  An entry that claims a     *)
(* hook, an LED, a pin or a GPIO simply overwrites what an earlier one put *)
(* there, so a chain is right only if no two of its entries claim the same.*)
(***************************************************************************)
EXTENDS Naturals, Sequences, RealtekFixupTable

CONSTANTS Roots,      \* entries that the quirk tables name
          Excused     \* entries left out of HeadsetReady

ASSUME FixupAssumption == Roots \subseteq DOMAIN alc269_fixups

VARIABLES
    root,       \* the machine's entry
    codec_kind, \* the machine has the ALC298, or another codec
    platform,   \* its ACPI hotkey device
    action,     \* stage last applied, or "none"
    stack,      \* entries still to be applied, with their depth
    owner,      \* the entry that put a claimable thing where it is
    flags       \* spec->parse_flags

fixupVars == <<root, codec_kind, platform, action, stack, owner, flags>>
fixup_machine == <<root, codec_kind, platform>>

Ids == DOMAIN alc269_fixups
Slots == UNION {Claims[f] : f \in DOMAIN Claims} \cup UNION {alc269_fixups[i].pins : i \in Ids}
ParserSlots ==
    UNION {alc269_fixups[i].pins : i \in Ids}
    \cup {"preferred_dacs", "conn 0x14", "conn 0x15", "conn 0x17"}
Flags == {"HEADSET_MIC", "HEADPHONE_MIC", "NO_HP_FIXUP"}
Stages == {"PRE_PROBE", "PROBE", "INIT", "BUILD", "FREE"}

FixupTypeOK ==
    /\ root \in Roots /\ codec_kind \in {"alc298", "other"}
    /\ platform \in {"thinkpad", "ideapad"} /\ action \in Stages \cup {"none"}
    /\ stack \in Seq([id : Ids, depth : Nat, ready : BOOLEAN])
    /\ owner \in [Slots -> Ids \cup {"none"}] /\ flags \subseteq Flags

FixupInit ==
    /\ root \in Roots /\ codec_kind \in {"alc298", "other"}
    /\ platform \in {"thinkpad", "ideapad"} /\ action = "none" /\ stack = <<>>
    /\ owner = [s \in Slots |-> "none"] /\ flags = {}

-----------------------------------------------------------------------------
(* What one entry does at one stage.                                       *)

\* Functions that claim at PROBE; the others do at PRE_PROBE or always.
AtProbe ==
    {"alc269_fixup_quanta_mute", "alc274_fixup_hp_envy_gpio",
     "alc298_fixup_samsung_amp_v2_2_amps", "alc298_fixup_samsung_amp_v2_4_amps",
     "alc_fixup_headset_mode", "alc_fixup_headset_mode_no_hp_mic",
     "alc_fixup_headset_mode_alc255", "alc_fixup_headset_mode_alc255_no_hp_mic",
     "alc_fixup_headset_mode_dell_alc288"}

\* hda_fixup_thinkpad_acpi and hda_fixup_ideapad_acpi look for their own device.
Acpi == [alc_fixup_thinkpad_acpi |-> "thinkpad", alc_fixup_ideapad_acpi |-> "ideapad",
         alc287_fixup_yoga9_14iap7_bass_spk_pin |-> "ideapad"]
Absent(f) == f \in DOMAIN Acpi /\ Acpi[f] # platform

ClaimedBy(id, act) ==
    LET fix == alc269_fixups[id] IN
    CASE fix.kind = "pins" -> IF act = "PRE_PROBE" THEN fix.pins ELSE {}
      [] fix.kind = "func" /\ fix.func \in DOMAIN Claims ->
            IF act = (IF fix.func \in AtProbe THEN "PROBE" ELSE "PRE_PROBE")
            THEN Claims[fix.func] \ (IF Absent(fix.func) THEN Leds ELSE {})
            ELSE {}
      [] OTHER -> {}

\* What a function gives back at FREE.
Released(id) ==
    LET fix == alc269_fixups[id] IN
    IF fix.kind = "func" /\ fix.func \in DOMAIN Claims
    THEN Claims[fix.func] \cap {"comp", "kb_dev"} ELSE {}

\* parse_flags |= ... and parse_flags = ..., in PRE_PROBE.
BothMics == {"alc_fixup_headset_mode", "alc_fixup_headset_mode_alc255",
             "alc_fixup_headset_mode_dell_alc288"}
HeadsetOnly == {"alc_fixup_headset_mode_no_hp_mic", "alc_fixup_headset_mic",
                "alc_fixup_headset_mode_alc255_no_hp_mic",
                "alc269_fixup_x101_headset_mic", "alc2xx_fixup_headset_mic"}
NoHpFixup == {"alc269_fixup_pincfg_no_hp_to_lineout", "alc_fixup_tpt440_dock",
              "alc_fixup_tpt470_dock"}
parse_flags(id) ==
    LET f == alc269_fixups[id].func IN
    CASE f \in BothMics -> flags \cup {"HEADSET_MIC", "HEADPHONE_MIC"}
      [] f \in HeadsetOnly -> flags \cup {"HEADSET_MIC"}
      [] f \in NoHpFixup -> {"NO_HP_FIXUP"}
      [] OTHER -> flags

-----------------------------------------------------------------------------
(* The driver's stages, and __snd_hda_apply_fixup.                         *)

After ==
    [none |-> {"PRE_PROBE"}, PRE_PROBE |-> {"PROBE", "FREE"},
     PROBE |-> {"BUILD", "INIT", "FREE"}, BUILD |-> {"INIT", "FREE"},
     INIT |-> {"BUILD", "INIT", "FREE"}, FREE |-> {"PRE_PROBE"}]
Entry(id, depth, ready) == [id |-> id, depth |-> depth, ready |-> ready]

\* A new probe starts with a new struct alc_spec; what was not given back is lost.
snd_hda_apply_fixup(act) ==
    /\ stack = <<>> /\ act \in After[action] /\ action' = act
    /\ stack' = <<Entry(root, 1, FALSE)>>
    /\ owner' = IF act # "PRE_PROBE" THEN owner
                ELSE [s \in Slots |-> IF s \in {"comp", "kb_dev"} THEN owner[s] ELSE "none"]
    /\ flags' = IF act = "PRE_PROBE" THEN {} ELSE flags
    /\ UNCHANGED fixup_machine

\* The HDA core stops silently when a chain gets too long.
MaxDepth == 10
Push(id, depth) ==
    IF id = End \/ depth > MaxDepth THEN <<>> ELSE <<Entry(id, depth, FALSE)>>
Chained(fix, depth) == IF fix.before THEN <<>> ELSE Push(fix.next, depth + 1)

\* Lenovo C940 and Yoga Duet 7 share one PCI SSID: the codec tells them apart.
alc298_fixup_lenovo_c940_duet7(fix) ==
    IF fix.func # "alc298_fixup_lenovo_c940_duet7" THEN <<>>
    ELSE <<Entry(IF codec_kind = "alc298" THEN "ALC298_FIXUP_LENOVO_SPK_VOLUME"
              ELSE "ALC287_FIXUP_YOGA7_14ITL_SPEAKERS", 1, FALSE)>>

FixupStep ==
    /\ stack # <<>>
    /\ LET top == Head(stack)
           fix == alc269_fixups[top.id] IN
       \/ /\ fix.before /\ ~top.ready
          /\ stack' = Push(fix.next, top.depth + 2)
                        \o <<[top EXCEPT !.ready = TRUE]>> \o Tail(stack)
          /\ UNCHANGED <<owner, flags>>
       \/ /\ fix.before => top.ready
          /\ stack' = alc298_fixup_lenovo_c940_duet7(fix) \o Chained(fix, top.depth)
                        \o Tail(stack)
          /\ owner' = [s \in Slots |->
                CASE s \in ClaimedBy(top.id, action) -> top.id
                  [] action = "FREE" /\ s \in Released(top.id) -> "none"
                  [] OTHER -> owner[s]]
          /\ flags' = IF action = "PRE_PROBE" THEN parse_flags(top.id) ELSE flags
    /\ UNCHANGED <<fixup_machine, action>>

FixupNext == FixupStep \/ \E act \in Stages : snd_hda_apply_fixup(act)
FixupSpec == FixupInit /\ [][FixupNext]_fixupVars

-----------------------------------------------------------------------------
(* Properties.                                                             *)

Applied(act) == stack = <<>> /\ action = act

\* A chain is applied to its end: none reaches the depth at which the HDA core
\* silently stops, so no entry is dropped.
NothingDropped ==
    \A k \in DOMAIN stack :
        alc269_fixups[stack[k].id].next = End \/ stack[k].depth + 2 <= MaxDepth

\* No entry of a chain takes a hook, LED, GPIO, pin or connection list that
\* another one has claimed; only FREE gives anything back.
OneOwner ==
    stack # <<>> => \A s \in Slots :
        \/ owner[s] = "none" \/ owner'[s] = owner[s]
        \/ action = "FREE" /\ owner'[s] = "none"

\* Pins, DACs and connection lists are settled in PRE_PROBE: the generic parser
\* reads them between PRE_PROBE and PROBE.
ParserReady ==
    stack # <<>> /\ action # "PRE_PROBE" => \A s \in ParserSlots : owner'[s] = owner[s]

\* "use as headset mic, without its own jack detect": when a chain declares such
\* a pin, the parser is told to look for a headset or headphone microphone.
HeadsetReady ==
    Applied("PRE_PROBE") /\ root \notin Excused =>
        \A s \in Slots : owner[s] # "none" =>
            LET fix == alc269_fixups[owner[s]] IN
            /\ s \in fix.headset => "HEADSET_MIC" \in flags
            /\ s \in fix.headphone => "HEADPHONE_MIC" \in flags

\* After FREE the component master and the key's input device are gone.
AllReleased ==
    Applied("FREE") => owner["comp"] = "none" /\ owner["kb_dev"] = "none"

\* A machine with side amplifiers binds them, and the playback hook is theirs;
\* the AW88399 quirks among them.
AmpsAttached ==
    action \in Stages \ {"FREE"} /\ stack = <<>> =>
        /\ root = "ALC287_FIXUP_LENOVO_LEGION_AW88399" => owner["comp"] # "none"
        /\ owner["comp"] # "none" => owner["pcm_playback_hook"] = owner["comp"]

\* Every chain of a quirk table is applied in full, by entries that do not undo
\* one another's claims, in time for the parser, and gives back what it took.
FixupInv == FixupTypeOK /\ NothingDropped /\ HeadsetReady /\ AllReleased /\ AmpsAttached
FixupsRight == [][OneOwner /\ ParserReady /\ FixupInv']_fixupVars

=============================================================================
