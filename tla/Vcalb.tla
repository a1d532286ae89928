-------------------------------- MODULE Vcalb --------------------------------
(***************************************************************************)
(* aw_dev_set_vcalb of soc-codecs/aw88399.c: the voltage calibration that  *)
(* dev_start computes from trim values which the efuses hold twice.  The   *)
(* reads may fail.  A 16 bit word is the set of its bits.  The product     *)
(* with Init0 is unsigned, and wrapping at 32 bits leaves the bits 12 to   *)
(* 27, which the register takes, as they are.                              *)
(***************************************************************************)
EXTENDS Integers

CONSTANTS Isn, Vsn, Tem4,   \* pairs <<h, l>> of the two copies in the efuses
          Init0,            \* vcalb_init_val, from the register list
          Garbage           \* what an int16_t on the stack may hold
ASSUME VcalbAssumption ==
    /\ Isn \subseteq (SUBSET (0..9)) \X (SUBSET (0..9))
    /\ Vsn \subseteq (SUBSET (0..9)) \X (SUBSET (0..9))
    /\ Tem4 \subseteq (SUBSET (0..5)) \X (SUBSET (0..5))
    /\ Vsn # {} /\ Tem4 # {}
    /\ Init0 \in Nat /\ Init0 < 65536
    /\ \A g \in Garbage : g \in Int /\ -32768 <= g /\ g < 32768

VARIABLES
    sel, check_val,     \* VDSEL and the check mode of the profile
    isn, vsn, tem4,     \* the copies
    failed,             \* did a read fail?
    dspvcalb,           \* AW88399_DSPVCALB_REG, -1 before the first write
    outcome                  \* "call", "done", or "oops" (division by zero)
vcalbVars == <<sel, check_val, isn, vsn, tem4, failed, dspvcalb, outcome>>

VcalbTypeOK ==
    /\ sel \in {"VSENSE", "DAC"} /\ check_val \in {"AND", "OR"}
    /\ isn \in Isn /\ vsn \in Vsn /\ tem4 \in Tem4
    /\ dspvcalb \in Int /\ -1 <= dspvcalb /\ dspvcalb < 65536
    /\ failed \in BOOLEAN /\ outcome \in {"call", "done", "oops"}

VcalbInit ==
    /\ sel \in {"VSENSE", "DAC"} /\ check_val \in {"AND", "OR"}
    /\ isn \in Isn
    /\ vsn \in (IF sel = "VSENSE" THEN Vsn ELSE {CHOOSE p \in Vsn : TRUE})
    /\ tem4 \in (IF sel = "DAC" THEN Tem4 ELSE {CHOOSE p \in Tem4 : TRUE})
    /\ failed = FALSE /\ dspvcalb = -1 /\ outcome = "call"

\* What the word of the bits v says as a number, and as an int16_t.
Bit(v, k, w) == IF k \in v THEN w ELSE 0
Word(v) == Bit(v, 0, 1) + Bit(v, 1, 2) + Bit(v, 2, 4) + Bit(v, 3, 8) + Bit(v, 4, 16)
           + Bit(v, 5, 32) + Bit(v, 6, 64) + Bit(v, 7, 128) + Bit(v, 8, 256) + Bit(v, 9, 512)
           + Bit(v, 10, 1024) + Bit(v, 11, 2048) + Bit(v, 12, 4096) + Bit(v, 13, 8192)
           + Bit(v, 14, 16384) + Bit(v, 15, 32768)
int16(v) == Word(v) - (IF 15 \in v THEN 65536 ELSE 0)

\* Mutant: the two modes of the check are swapped.
CombineSwapped(p) == IF check_val = "OR" THEN p[1] \cap p[2] ELSE p[1] \cup p[2]
Combine(p) == IF check_val = "AND" THEN p[1] \cap p[2] ELSE p[1] \cup p[2]

Icalk(p) == LET v == Combine(p) IN int16(IF 9 \in v THEN v \cup 9..15 ELSE v)

\* get_vcalk tests the bits of the sign mask, which are all but the sign bit.
Vcalk(p) == LET v == Combine(p) IN int16(IF v \ {9} # {} THEN v \cup 9..15 ELSE v)

InternalVcalk(p) == LET v == Combine(p) IN int16(IF 5 \in v THEN v \cup 6..15 ELSE v)

\* C division truncates towards zero.
Quot(a, b) == IF (a < 0) = (b < 0) THEN a \div b ELSE -((-a) \div b)

VcalK(v) == IF sel = "VSENSE" THEN v + 1000 ELSE v * 2 + 1000

Vcalb(ical, vcal) ==
    LET acc == IF sel = "VSENSE" THEN (4096 * 18875) \div 3125 ELSE (4096 * 12600) \div 3125
    IN  ((Quot(acc * (ical + 1000), VcalK(vcal)) * Init0) \div 4096) % 65536

\* All reads succeed.
SetVcalb ==
    LET vcal == IF sel = "VSENSE" THEN Vcalk(vsn) ELSE InternalVcalk(tem4)
    IN  /\ outcome = "call"
        /\ IF VcalK(vcal) = 0 THEN outcome' = "oops" /\ UNCHANGED dspvcalb
           ELSE outcome' = "done" /\ dspvcalb' = Vcalb(Icalk(isn), vcal)
        /\ UNCHANGED <<sel, check_val, isn, vsn, tem4, failed>>

\* VSNCTRL1 or the I trim cannot be read: nothing is computed.
EarlyFail ==
    /\ outcome = "call" /\ outcome' = "done" /\ failed' = TRUE
    /\ UNCHANGED <<sel, check_val, isn, vsn, tem4, dspvcalb>>

\* The V trim cannot be read: the quotient is computed with what the stack
\* holds before ret is looked at.
LateFail ==
    /\ outcome = "call" /\ failed' = TRUE
    /\ \E g \in Garbage : outcome' = IF VcalK(g) = 0 THEN "oops" ELSE "done"
    /\ UNCHANGED <<sel, check_val, isn, vsn, tem4, dspvcalb>>

VcalbNext == SetVcalb \/ EarlyFail \/ LateFail
VcalbSpec == VcalbInit /\ [][VcalbNext]_vcalbVars

-----------------------------------------------------------------------------
(* Properties.                                                             *)

\* x is the two's complement reading of the bits that were burnt, m / 2 the sign's weight.
Extends(x, raw, m) == -m <= 2 * x /\ 2 * x < m /\ (x - Word(raw)) % m = 0

\* get_icalk reads a ten bit number with its sign.
IcalkExtends == Extends(Icalk(isn), Combine(isn), 1024)
\* get_internal_vcalk reads a six bit number with its sign.
InternalExtends == Extends(InternalVcalk(tem4), Combine(tem4), 64)
\* get_vcalk reads "EF_VSN_GESLP_H bit 9:0" with its sign.
VcalkExtends == Extends(Vcalk(vsn), Combine(vsn), 1024)

\* The copies are there for a fuse that fails: with the OR check a bit
\* missing in one copy, with the AND check a bit too many, changes nothing.
OneBadFuse ==
    \A b \in 0..9 : isn[1] = isn[2] =>
        /\ check_val = "OR" => Icalk(<<isn[1] \ {b}, isn[2]>>) = Icalk(isn)
        /\ check_val = "AND" => Icalk(<<isn[1], isn[2] \cup {b}>>) = Icalk(isn)

\* For the DAC reference every pair of trims gives a calibration that grows
\* with the current trim and falls with the voltage trim: the 16 bits of the
\* register never wrap, up to about two and a half times its usual value of 4096.
DacMonotone ==
    (sel = "DAC" /\ outcome = "done" /\ dspvcalb # -1 /\ Init0 <= 10068) =>
        LET ic == Icalk(isn)  vc == InternalVcalk(tem4)
        IN  /\ ic < 511 => dspvcalb <= Vcalb(ic + 1, vc)
            /\ vc < 31 => dspvcalb >= Vcalb(ic, vc + 1)

\* Only a failed read can lead to a division by zero.
OopsNeedsFailure == outcome = "oops" => failed

\* The current trim and the internal voltage trim are read with their signs, one
\* bad fuse harms nothing, the DAC quotient is monotone and fits its register,
\* and no fuses make it divide by zero.
VcalbInv == /\ VcalbTypeOK /\ IcalkExtends /\ InternalExtends
            /\ OneBadFuse /\ DacMonotone /\ OopsNeedsFailure

=============================================================================
