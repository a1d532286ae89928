------------------------------ MODULE VolumeFade ------------------------------
(***************************************************************************)
(* The volume of one amp in soc-codecs/aw88399.c: the fades of mute and    *)
(* unmute, one write of the volume register per step, the volume control   *)
(* and the controls of the fades.  0 is the loudest volume, Mute the       *)
(* softest.  One thread; AsocCodec has the threads.                        *)
(***************************************************************************)
EXTENDS Integers

CONSTANTS Mute,      \* AW88399_MUTE_VOL
          Offsets    \* values of init_volume in the profiles' register lists

ASSUME VolumeAssumption == Mute \in Nat \ {0} /\ Offsets \subseteq 0..Mute

VARIABLES
    ctl_volume, init_volume,   \* struct aw_volume_desc
    fade_step, timed,          \* the fade controls; timed: a fade time # 0
    reg, hmute,                \* the chip
    pc, i, by                  \* the fade under way, its loop variable and step

desc == <<ctl_volume, init_volume>>
vars == <<desc, fade_step, timed, reg, hmute, pc, i, by>>

TypeOK ==
    /\ ctl_volume \in 0..Mute /\ init_volume \in Offsets
    /\ fade_step \in 0..Mute /\ timed \in BOOLEAN
    /\ reg \in 0..Mute /\ hmute \in BOOLEAN
    /\ pc \in {"idle", "in", "out"} /\ i \in -Mute..2 * Mute /\ by \in 0..Mute

\* After dev_init: muted at the softest volume.
Init ==
    /\ ctl_volume = 0 /\ init_volume \in Offsets
    /\ fade_step = 0 /\ timed = TRUE
    /\ reg = Mute /\ hmute = TRUE
    /\ pc = "idle" /\ i = 0 /\ by = 0

\* set_volume: what is written for a volume.
Real(v) == IF v + init_volume > Mute THEN Mute ELSE v + init_volume

VolumeSet ==
    /\ pc = "idle" /\ \E v \in (0..Mute) \ {ctl_volume} :
          ctl_volume' = v /\ reg' = Real(v)
    /\ UNCHANGED <<init_volume, fade_step, timed, hmute, pc, i, by>>

FadeStepSet ==
    /\ fade_step' \in (0..Mute) \ {fade_step}
    /\ UNCHANGED <<desc, timed, reg, hmute, pc, i, by>>
FadeTimeSet ==
    /\ timed' = ~timed /\ UNCHANGED <<desc, fade_step, reg, hmute, pc, i, by>>

\* update_reg_container with another profile: its offset, the loudest volume.
\* The registers are written muted.
NewProfile ==
    /\ pc = "idle" /\ init_volume' \in Offsets
    /\ ctl_volume' = 0 /\ reg' = init_volume' /\ hmute' = TRUE
    /\ UNCHANGED <<fade_step, timed, pc, i, by>>
\* The same with the profile that is running: the volume is kept.
Reload ==
    /\ pc = "idle" /\ reg' = Real(ctl_volume) /\ hmute' = TRUE
    /\ UNCHANGED <<desc, fade_step, timed, pc, i, by>>

Fades == fade_step # 0 /\ timed

\* dev_mute(false) clears the hard mute and fades in, or sets the volume at once.
Unmute ==
    /\ pc = "idle" /\ hmute' = FALSE
    /\ IF Fades THEN pc' = "in" /\ i' = Mute /\ by' = fade_step /\ UNCHANGED reg
       ELSE reg' = Real(ctl_volume) /\ UNCHANGED <<pc, i, by>>
    /\ UNCHANGED <<desc, fade_step, timed>>

\* Mutant: the loop is left without the last write.
FadeInShort ==
    /\ pc = "in"
    /\ IF i >= ctl_volume THEN reg' = Real(i) /\ i' = i - by /\ UNCHANGED pc
       ELSE pc' = "idle" /\ UNCHANGED <<i, reg>>
    /\ UNCHANGED <<desc, fade_step, timed, hmute, by>>
\* Mutant: the loop is left one step later.
FadeInLong ==
    /\ pc = "in"
    /\ IF i >= ctl_volume - by /\ i >= 0 THEN reg' = Real(i) /\ i' = i - by /\ UNCHANGED pc
       ELSE pc' = "idle" /\ reg' = Real(ctl_volume) /\ UNCHANGED i
    /\ UNCHANGED <<desc, fade_step, timed, hmute, by>>
FadeIn ==
    /\ pc = "in"
    /\ IF i >= ctl_volume THEN reg' = Real(i) /\ i' = i - by /\ UNCHANGED pc
       ELSE pc' = "idle" /\ reg' = Real(ctl_volume) /\ UNCHANGED i
    /\ UNCHANGED <<desc, fade_step, timed, hmute, by>>

\* dev_mute(true) fades out and then sets the hard mute.
MuteAmp ==
    /\ pc = "idle"
    /\ IF Fades THEN pc' = "out" /\ i' = ctl_volume /\ by' = fade_step /\ UNCHANGED <<reg, hmute>>
       ELSE reg' = Mute /\ hmute' = TRUE /\ UNCHANGED <<pc, i, by>>
    /\ UNCHANGED <<desc, fade_step, timed>>

\* Mutant: the loop reads the fade step anew, which a control may have set to 0.
FadeOutLive ==
    /\ pc = "out"
    /\ IF i <= Mute THEN reg' = Real(i) /\ i' = i + fade_step /\ UNCHANGED <<pc, hmute>>
       ELSE reg' = Mute /\ pc' = "idle" /\ hmute' = TRUE /\ UNCHANGED i
    /\ UNCHANGED <<desc, fade_step, timed, by>>
FadeOut ==
    /\ pc = "out"
    /\ IF i <= Mute THEN reg' = Real(i) /\ i' = i + by /\ UNCHANGED <<pc, hmute>>
       ELSE reg' = Mute /\ pc' = "idle" /\ hmute' = TRUE /\ UNCHANGED i
    /\ UNCHANGED <<desc, fade_step, timed, by>>

Next == \/ VolumeSet \/ FadeStepSet \/ FadeTimeSet \/ NewProfile \/ Reload
        \/ Unmute \/ MuteAmp \/ FadeIn \/ FadeOut

\* A fade is a loop with sleeps: it goes on.
Spec == Init /\ [][Next]_vars /\ WF_vars(FadeIn \/ FadeOut)

-----------------------------------------------------------------------------
(* Properties.                                                             *)

\* An audible amp that is not fading plays at the volume of the control, even
\* when the fade step does not divide the distance ("i != fade_in_vol").
Applied == (~hmute /\ pc = "idle") => reg = Real(ctl_volume)

\* A fade in never gets louder than the volume it leads to, a fade out of an
\* audible amp never louder than it was, while controls change step and times.
FadesRight == [][/\ pc = "in" => reg' >= Real(ctl_volume)
                 /\ pc = "out" /\ ~hmute => reg' >= reg]_vars

\* Every fade ends, for every step.
FadesEnd == pc # "idle" ~> pc = "idle"

\* Between fades an audible amp plays at the volume of the control.
FadeInv == TypeOK /\ Applied

=============================================================================
