----------------------------- MODULE Calibration -----------------------------
(***************************************************************************)
(* The speaker impedance in soc-codecs/aw88399.c: the readings of a        *)
(* calibration, their average without the smallest and the largest, the    *)
(* verdict, and the two halves of the value that are written to the chip.  *)
(* Impedances are in ohms; a reading may be negative (show_re - ra).  Of   *)
(* the sorted readings the average uses the sum without both ends, so what *)
(* is kept of them is their number, sum, smallest and largest.             *)
(***************************************************************************)
EXTENDS Integers

CONSTANTS ReMin, ReMax,       \* AW88399_CALI_RE_MIN, AW88399_CALI_RE_MAX
          Count,          \* AW_CALI_READ_CNT_MAX
          Polls,          \* AW_GET_IV_CNT_MAX
          Readings,       \* what get_dev_re may return
          Settings        \* what the "Calib" control is set to
ASSUME CalibrationAssumption ==
    /\ Count \in Nat /\ Count > 2 /\ Polls \in Nat \ {0}
    /\ Readings \subseteq Int /\ Settings \subseteq 0..ReMax /\ ReMin \in Nat /\ ReMax \in Nat

None == "none"
Unset == 0      \* a half the driver has not written

VARIABLES
    cali_re, cali_result,  \* struct aw_cali_desc
    re_temp,               \* the readings so far
    strays,                \* history: how many of them were outside the range
    polls,                 \* polls of the I/V status
    acr,                   \* ACR1 and ACR2: the values their halves came from
    lost,                  \* has a write of a half failed since both succeeded?
    muted,
    phase                     \* "idle", "read", "iv", "judge"
caliVars == <<cali_re, cali_result, re_temp, strays, polls, acr, lost, muted, phase>>

CaliTypeOK ==
    /\ cali_re \in Int /\ cali_result \in {None, "NORMAL", "ERROR"}
    /\ re_temp \in [n : 0..Count, sum : Int, min : Int, max : Int]
    /\ strays \in [low : 0..Count, high : 0..Count] /\ polls \in 0..Polls
    /\ acr \in [h : Int, l : Int] /\ lost \in BOOLEAN /\ muted \in BOOLEAN
    /\ phase \in {"idle", "read", "iv", "judge"}

NoReadings == [n |-> 0, sum |-> 0, min |-> 0, max |-> 0]
NoStrays == [low |-> 0, high |-> 0]

CaliInit ==
    /\ cali_re = 0 /\ cali_result = None /\ polls = 0
    /\ re_temp = NoReadings /\ strays = NoStrays
    /\ acr = [h |-> Unset, l |-> Unset] /\ lost = FALSE /\ muted = TRUE /\ phase = "idle"

\* update_cali_re: the bounds themselves are refused; the high half first.
UpdateCaliRe(re) ==
    IF re >= ReMax \/ re <= ReMin THEN UNCHANGED <<acr, lost>>
    ELSE \/ acr' = [h |-> re, l |-> re] /\ lost' = FALSE
         \/ acr' = [acr EXCEPT !.h = re] /\ lost' = TRUE
         \/ UNCHANGED acr /\ lost' = TRUE

\* The "Calib" control; dev_start writes what is set.
ReSet ==
    /\ cali_re' \in Settings \ {cali_re}
    /\ UNCHANGED <<cali_result, re_temp, strays, polls, acr, lost, muted, phase>>
DevStart ==
    /\ phase = "idle" /\ UpdateCaliRe(cali_re)
    /\ UNCHANGED <<cali_re, cali_result, re_temp, strays, polls, muted, phase>>

Fail ==
    /\ cali_result' = "ERROR" /\ muted' = TRUE /\ phase' = "idle" /\ polls' = 0
    /\ re_temp' = NoReadings /\ strays' = NoStrays

\* dev_cali_re unmutes the amp and reads.
Begin ==
    /\ phase = "idle" /\ phase' = "read" /\ muted' = FALSE
    /\ UNCHANGED <<cali_re, cali_result, re_temp, strays, polls, acr, lost>>
With(r) ==
    [n |-> re_temp.n + 1, sum |-> re_temp.sum + r,
     min |-> IF re_temp.n = 0 \/ r < re_temp.min THEN r ELSE re_temp.min,
     max |-> IF re_temp.n = 0 \/ r > re_temp.max THEN r ELSE re_temp.max]
Astray(r) == [low |-> IF r < ReMin THEN strays.low + 1 ELSE strays.low,
              high |-> IF r > ReMax THEN strays.high + 1 ELSE strays.high]
Read ==
    /\ phase = "read"
    /\ \E r \in Readings : re_temp' = With(r) /\ strays' = Astray(r)
    /\ phase' = (IF re_temp'.n = Count THEN "iv" ELSE "read")
    /\ UNCHANGED <<cali_re, cali_result, polls, acr, lost, muted>>
ReadFails ==
    /\ phase = "read" /\ Fail /\ UNCHANGED <<cali_re, acr, lost>>

IvGood ==
    /\ phase = "iv" /\ phase' = "judge"
    /\ UNCHANGED <<cali_re, cali_result, re_temp, strays, polls, acr, lost, muted>>
IvAbnormal ==
    /\ phase = "iv"
    /\ IF polls + 1 = Polls THEN Fail
       ELSE polls' = polls + 1 /\ UNCHANGED <<cali_result, re_temp, strays, muted, phase>>
    /\ UNCHANGED <<cali_re, acr, lost>>
IvFails ==
    /\ phase = "iv" /\ Fail /\ UNCHANGED <<cali_re, acr, lost>>

\* C division truncates towards zero.
CDiv(a, b) == IF a < 0 THEN -((-a) \div b) ELSE a \div b
\* Mutant: the largest reading stays.
AverageMinOnly(t) == CDiv(t.sum - t.min, t.n - 1)
\* del_max_min_ave_algo on the sorted readings.
Average(t) == CDiv(t.sum - t.min - t.max, t.n - 2)

\* dsp_re is unsigned: a negative average is a huge one.
Judge ==
    LET re == Average(re_temp) IN
    /\ phase = "judge" /\ cali_re' = re /\ phase' = "idle"
    /\ IF re \in ReMin..ReMax THEN cali_result' = "NORMAL" /\ UpdateCaliRe(re) /\ UNCHANGED muted
       ELSE cali_result' = "ERROR" /\ muted' = TRUE /\ UNCHANGED <<acr, lost>>
    /\ re_temp' = NoReadings /\ strays' = NoStrays /\ polls' = 0

CaliNext == ReSet \/ DevStart \/ Begin \/ Read \/ ReadFails
            \/ IvGood \/ IvAbnormal \/ IvFails \/ Judge

\* The loops of reads and polls run on.
Progress == Read \/ ReadFails \/ IvGood \/ IvAbnormal \/ IvFails \/ Judge
CaliSpec == CaliInit /\ [][CaliNext]_caliVars /\ WF_caliVars(Progress)

-----------------------------------------------------------------------------
(* Properties.                                                             *)

\* One wild reading decides nothing: when all others are good the result is
\* normal, when all others are on the same wrong side it is an error.  That
\* is what the sort and the removal of both ends are for.
OneOutlierHarmless ==
    Judge => /\ strays.low + strays.high <= 1 => cali_result' = "NORMAL"
             /\ strays.low >= Count - 1 => cali_result' = "ERROR"
             /\ strays.high >= Count - 1 => cali_result' = "ERROR"

\* Whatever is set, read or lost, each half on the chip belongs to an
\* impedance strictly between the bounds, and the halves to the same one
\* unless a write was lost.
ChipPlausible ==
    /\ \A f \in {"h", "l"} : acr[f] # Unset => (ReMin < acr[f] /\ acr[f] < ReMax)
    /\ acr.h # acr.l => lost

\* A calibration that ends with an error leaves the amp muted.
ErrorIsSilent == (phase = "idle" /\ cali_result = "ERROR") => muted

\* A calibration ends, also when the I/V data stays abnormal.
CalibrationEnds == phase # "idle" ~> phase = "idle"

\* One outlier does not change a verdict, an error leads to a muted amp, and
\* only plausible impedances reach the chip.
CaliInv == CaliTypeOK /\ ChipPlausible /\ ErrorIsSilent
CalibrationRight == [][OneOutlierHarmless /\ CaliInv']_caliVars

=============================================================================
