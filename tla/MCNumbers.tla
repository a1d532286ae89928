------------------------------ MODULE MCNumbers ------------------------------
(***************************************************************************)
(* The three computations of the core driver: the fades, the voltage       *)
(* calibration and the calibration of the speaker impedance.  They share   *)
(* no state in the models, so a behaviour follows one of them while the    *)
(* others rest.                                                            *)
(***************************************************************************)
EXTENDS VolumeFade, Vcalb, Calibration

VARIABLE part
all == <<vars, vcalbVars, caliVars, part>>

\* Trims whose copies agree, and some whose copies differ in a bit.
Bits(w) == {b \in 0..9 : (w \div 2^b) % 2 = 1}
Agreeing(S) == {<<Bits(w), Bits(w)>> : w \in S}
IsnValues == Agreeing((0..7) \cup (253..258) \cup (508..515) \cup (1016..1023))
                 \cup {<<0..1, {0}>>, <<{9}, {}>>, <<0..9, 0..8>>}
VsnValues == Agreeing({0, 1, 255, 256, 511, 512, 513, 1000, 1023})
Tem4Values == Agreeing(0..63) \cup {<<{5}, {}>>, <<{0}, {0, 5}>>}
GarbageValues == {-1000, -500, 0, 17}
Init0Value == 4096

\* Readings at, between and above the bounds, and one that wrapped.
ReadingValues == {-90, 4, 9, 90}
SettingValues == {0, 9, 15}

VcalbRests == sel = "VSENSE" /\ check_val = "OR" /\ isn = <<{}, {}>> /\ vsn = <<{}, {}>>
FadeRests == init_volume = 0

NumbersInit ==
    \/ part = "fade" /\ VcalbRests /\ Init /\ VcalbInit /\ CaliInit
    \/ part = "vcalb" /\ FadeRests /\ Init /\ VcalbInit /\ CaliInit
    \/ part = "cali" /\ FadeRests /\ VcalbRests /\ Init /\ VcalbInit /\ CaliInit

InFade(A) == part = "fade" /\ A /\ UNCHANGED <<vcalbVars, caliVars, part>>
InVcalb(A) == part = "vcalb" /\ A /\ UNCHANGED <<vars, caliVars, part>>
InCali(A) == part = "cali" /\ A /\ UNCHANGED <<vars, vcalbVars, part>>

NumbersNext == InFade(Next) \/ InVcalb(VcalbNext) \/ InCali(CaliNext)

\* The fairness of VolumeFade and Calibration.
NumbersSpec == /\ NumbersInit /\ [][NumbersNext]_all
               /\ WF_all(InFade(FadeIn \/ FadeOut)) /\ WF_all(InCali(Progress))

\* The loops of fades and calibrations end, for every step, reading and failure.
LoopsEnd == FadesEnd /\ CalibrationEnds
=============================================================================
