---------------------------- MODULE Numbers_proofs ----------------------------
(***************************************************************************)
(* Proofs about the three computations of the core driver: the fades, for  *)
(* every volume range, every offset of the profiles and every setting of   *)
(* the controls meanwhile; the calibration of the impedance, for every     *)
(* number of readings and every reading; and the voltage calibration, for  *)
(* every set of trims, good or damaged.                                    *)
(***************************************************************************)
EXTENDS VolumeFade, Calibration, Vcalb, TLAPS

\* A fade in comes down to the volume of the control; a fade out goes up from
\* it.  Between fades the register holds that volume or, muted, the softest.
IdleLevel == pc = "idle" => reg = Real(ctl_volume) \/ (reg = Mute /\ hmute)
InLevel   == pc = "in" => ~hmute /\ reg >= Real(ctl_volume)
OutLevel  == pc = "out" => i >= ctl_volume /\ (~hmute => reg <= Real(i))

NumTypeOK ==
    /\ ctl_volume \in 0..Mute /\ init_volume \in Offsets
    /\ fade_step \in 0..Mute /\ reg \in 0..Mute
    /\ pc \in {"idle", "in", "out"} /\ i \in -Mute..2 * Mute /\ by \in 0..Mute
BoolTypeOK == timed \in BOOLEAN /\ hmute \in BOOLEAN

IInv == NumTypeOK /\ BoolTypeOK /\ IdleLevel /\ InLevel /\ OutLevel

-----------------------------------------------------------------------------
(* aw_dev_set_volume.                                                      *)

\* What set_volume writes is a volume, not louder for a softer argument.
LEMMA RealOrdered ==
    ASSUME init_volume \in 0..Mute, NEW v \in 0..Mute, NEW w \in Nat, v <= w
    PROVE  Real(v) \in 0..Mute /\ Real(w) \in 0..Mute /\ Real(v) <= Real(w)
  BY VolumeAssumption DEF Real

\* The offsets are volumes.
LEMMA OffsetIsVolume ==
    ASSUME NumTypeOK
    PROVE  init_volume \in 0..Mute /\ Mute \in Nat
  BY VolumeAssumption DEF NumTypeOK

\* The same of an offset that is loaded.
LEMMA RealIsVolume ==
    ASSUME NEW v \in 0..Mute, NEW o \in 0..Mute
    PROVE  /\ (IF v + o > Mute THEN Mute ELSE v + o) \in 0..Mute
           /\ v = 0 => (IF v + o > Mute THEN Mute ELSE v + o) = o
  BY VolumeAssumption

-----------------------------------------------------------------------------
(* The invariant.                                                          *)

\* After dev_init the amp is muted at the softest volume.
LEMMA InitIInv == Init => IInv
<1> SUFFICES ASSUME Init PROVE IInv
  OBVIOUS
<1>1. NumTypeOK
  BY VolumeAssumption DEF Init, NumTypeOK
<1>2. BoolTypeOK
  BY DEF Init, BoolTypeOK
<1> QED
  BY <1>1, <1>2 DEF Init, IInv, IdleLevel, InLevel, OutLevel

\* A control of the fades does not touch the volume.
LEMMA ControlInv ==
    ASSUME IInv, FadeStepSet \/ FadeTimeSet \/ UNCHANGED vars
    PROVE  IInv'
<1>1. NumTypeOK'
  BY DEF IInv, NumTypeOK, FadeStepSet, FadeTimeSet, vars, desc
<1>2. BoolTypeOK'
  BY DEF IInv, BoolTypeOK, FadeStepSet, FadeTimeSet, vars, desc
<1>3. UNCHANGED <<desc, reg, hmute, pc, i, by>>
  BY DEF FadeStepSet, FadeTimeSet, vars
<1>4. IdleLevel' /\ InLevel' /\ OutLevel'
  BY <1>3 DEF IInv, IdleLevel, InLevel, OutLevel, Real, desc
<1> QED
  BY <1>1, <1>2, <1>4 DEF IInv

\* The volume control, and a profile's register list, set the level at once.
LEMMA LevelInv ==
    ASSUME IInv, VolumeSet \/ NewProfile \/ Reload
    PROVE  IInv'
<1>0. pc = "idle" /\ pc' = "idle" /\ UNCHANGED <<i, by, fade_step, timed>>
  BY DEF VolumeSet, NewProfile, Reload, desc
<1>1. ctl_volume' \in 0..Mute /\ init_volume' \in Offsets /\ reg' = Real(ctl_volume)'
  <2>1. CASE VolumeSet
    BY <2>1 DEF VolumeSet, Real, IInv, NumTypeOK
  <2>2. CASE NewProfile
    <3>1. /\ ctl_volume' = 0 /\ reg' = init_volume'
          /\ init_volume' \in Offsets /\ init_volume' \in 0..Mute
      BY <2>2, VolumeAssumption DEF NewProfile
    <3>2. ctl_volume' \in 0..Mute
      BY <3>1, VolumeAssumption
    <3>3. Real(ctl_volume)' = init_volume'
      BY <3>1, <3>2, RealIsVolume DEF Real
    <3> QED
      BY <3>1, <3>2, <3>3
  <2>3. CASE Reload
    BY <2>3 DEF Reload, Real, IInv, NumTypeOK, desc
  <2> QED
    BY <2>1, <2>2, <2>3
<1>2. reg' \in 0..Mute
  <2>1. ctl_volume' \in 0..Mute /\ init_volume' \in 0..Mute /\ Mute \in Nat
    BY <1>1, VolumeAssumption
  <2> QED
    BY <1>1, <2>1, RealIsVolume DEF Real
<1>3. NumTypeOK'
  BY <1>0, <1>1, <1>2 DEF IInv, NumTypeOK
<1>4. BoolTypeOK'
  BY DEF IInv, BoolTypeOK, VolumeSet, NewProfile, Reload
<1> QED
  BY <1>0, <1>1, <1>3, <1>4 DEF IInv, IdleLevel, InLevel, OutLevel

\* dev_mute(false): a fade in starts at the softest volume.
LEMMA UnmuteInv ==
    ASSUME IInv, Unmute
    PROVE  IInv'
<1> USE DEF IInv, NumTypeOK
<1>0. /\ pc = "idle" /\ hmute' = FALSE
      /\ UNCHANGED <<ctl_volume, init_volume, fade_step, timed>>
  BY DEF Unmute, desc
<1>1. Real(ctl_volume) \in 0..Mute /\ Mute \in Nat
  BY OffsetIsVolume, RealOrdered
<1>2. CASE Fades
  <2>1. pc' = "in" /\ i' = Mute /\ by' = fade_step /\ reg' = reg
    BY <1>2 DEF Unmute
  <2>2. NumTypeOK'
    BY <1>0, <1>1, <2>1
  <2>3. reg >= Real(ctl_volume)
    BY <1>0, <1>1 DEF IdleLevel
  <2>4. BoolTypeOK'
    BY <1>0 DEF BoolTypeOK
  <2> QED
    BY <1>0, <2>1, <2>2, <2>3, <2>4 DEF IdleLevel, InLevel, OutLevel, Real
<1>3. CASE ~Fades
  <2>1. pc' = "idle" /\ UNCHANGED <<i, by>> /\ reg' = Real(ctl_volume)
    BY <1>0, <1>3 DEF Unmute
  <2>2. NumTypeOK'
    BY <1>0, <1>1, <2>1
  <2>3. BoolTypeOK'
    BY <1>0 DEF BoolTypeOK
  <2> QED
    BY <1>0, <2>1, <2>2, <2>3 DEF IdleLevel, InLevel, OutLevel, Real
<1> QED
  BY <1>2, <1>3

\* fade_in: every write is at least as soft as the last one.
LEMMA FadeInInv ==
    ASSUME IInv, FadeIn
    PROVE  IInv' /\ reg' >= Real(ctl_volume)
<1> USE DEF IInv, NumTypeOK
<1>0. pc = "in" /\ UNCHANGED <<ctl_volume, init_volume, fade_step, timed, hmute, by>>
  BY DEF FadeIn, desc
<1>1. init_volume \in 0..Mute /\ Mute \in Nat
  BY OffsetIsVolume
<1>2. BoolTypeOK'
  BY <1>0 DEF BoolTypeOK
<1>3. CASE i >= ctl_volume
  <2>1. reg' = Real(i) /\ i' = i - by /\ pc' = "in"
    BY <1>0, <1>3 DEF FadeIn
  <2>2. Real(i) \in 0..Mute /\ Real(ctl_volume) <= Real(i) /\ Real(ctl_volume) \in 0..Mute
    <3>1. i \in Nat /\ ctl_volume <= i
      BY <1>1, <1>3
    <3> QED
      BY <1>1, <3>1, RealOrdered
  <2>3. NumTypeOK'
    BY <1>0, <1>1, <1>3, <2>1, <2>2
  <2> QED
    BY <1>0, <1>2, <2>1, <2>2, <2>3 DEF IdleLevel, InLevel, OutLevel, Real
<1>4. CASE ~(i >= ctl_volume)
  <2>1. reg' = Real(ctl_volume) /\ i' = i /\ pc' = "idle"
    BY <1>0, <1>4 DEF FadeIn
  <2>2. Real(ctl_volume) \in 0..Mute
    BY <1>1, RealOrdered
  <2>3. NumTypeOK'
    BY <1>0, <2>1, <2>2
  <2> QED
    BY <1>0, <1>2, <2>1, <2>2, <2>3 DEF IdleLevel, InLevel, OutLevel, Real
<1> QED
  BY <1>3, <1>4

\* dev_mute(true): a fade out starts at the volume of the control.
LEMMA MuteInv ==
    ASSUME IInv, MuteAmp
    PROVE  IInv'
<1> USE DEF IInv, NumTypeOK
<1>0. pc = "idle" /\ UNCHANGED <<ctl_volume, init_volume, fade_step, timed>>
  BY DEF MuteAmp, desc
<1>1. Real(ctl_volume) \in 0..Mute /\ Mute \in Nat
  BY OffsetIsVolume, RealOrdered
<1>2. CASE Fades
  <2>1. pc' = "out" /\ i' = ctl_volume /\ by' = fade_step /\ UNCHANGED <<reg, hmute>>
    BY <1>2 DEF MuteAmp
  <2>2. NumTypeOK'
    BY <1>0, <1>1, <2>1
  <2>3. ~hmute => reg <= Real(ctl_volume)
    BY <1>0, <1>1 DEF IdleLevel
  <2>4. BoolTypeOK'
    BY <1>0, <2>1 DEF BoolTypeOK
  <2> QED
    BY <1>0, <2>1, <2>2, <2>3, <2>4 DEF IdleLevel, InLevel, OutLevel, Real
<1>3. CASE ~Fades
  <2>1. pc' = "idle" /\ UNCHANGED <<i, by>> /\ reg' = Mute /\ hmute' = TRUE
    BY <1>0, <1>3 DEF MuteAmp
  <2>2. NumTypeOK'
    BY <1>0, <1>1, <2>1
  <2>3. BoolTypeOK'
    BY <1>0, <2>1 DEF BoolTypeOK
  <2> QED
    BY <1>0, <2>1, <2>2, <2>3 DEF IdleLevel, InLevel, OutLevel
<1> QED
  BY <1>2, <1>3

\* fade_out: no write is louder than the last one.
LEMMA FadeOutInv ==
    ASSUME IInv, FadeOut
    PROVE  IInv' /\ (~hmute => reg' >= reg)
<1> USE DEF IInv, NumTypeOK
<1>0. pc = "out" /\ UNCHANGED <<ctl_volume, init_volume, fade_step, timed, by>>
  BY DEF FadeOut, desc
<1>1. init_volume \in 0..Mute /\ Mute \in Nat
  BY OffsetIsVolume
<1>2. CASE i <= Mute
  <2>1. reg' = Real(i) /\ i' = i + by /\ pc' = "out" /\ hmute' = hmute
    BY <1>0, <1>2 DEF FadeOut
  <2>2. i \in 0..Mute /\ i' \in Nat /\ i <= i'
    BY <1>0, <1>1, <1>2, <2>1 DEF OutLevel
  <2>3. Real(i) \in 0..Mute /\ Real(i) <= Real(i')
    BY <1>1, <2>2, RealOrdered
  <2>4. NumTypeOK'
    BY <1>0, <1>1, <2>1, <2>2, <2>3
  <2>5. BoolTypeOK'
    BY <1>0, <2>1 DEF BoolTypeOK
  <2>6. OutLevel'
    BY <1>0, <2>1, <2>2, <2>3 DEF OutLevel, Real
  <2>7. ~hmute => reg' >= reg
    BY <1>0, <2>1, <2>3 DEF OutLevel
  <2> QED
    BY <1>0, <2>1, <2>4, <2>5, <2>6, <2>7 DEF IdleLevel, InLevel
<1>3. CASE ~(i <= Mute)
  <2>1. reg' = Mute /\ i' = i /\ pc' = "idle" /\ hmute' = TRUE
    BY <1>0, <1>3 DEF FadeOut
  <2>2. NumTypeOK' /\ reg' >= reg
    BY <1>0, <1>1, <2>1
  <2>3. BoolTypeOK'
    BY <1>0, <2>1 DEF BoolTypeOK
  <2> QED
    BY <2>1, <2>2, <2>3 DEF IdleLevel, InLevel, OutLevel
<1> QED
  BY <1>2, <1>3

\* Every step keeps the invariant.
LEMMA NextIInv == IInv /\ [Next]_vars => IInv'
  BY ControlInv, LevelInv, UnmuteInv, FadeInInv, MuteInv, FadeOutInv DEF Next

-----------------------------------------------------------------------------
(* The theorems.                                                           *)

\* The levels hold in every reachable state.
THEOREM InvariantHolds == Spec => []IInv
  BY InitIInv, NextIInv, PTL DEF Spec

\* The loop variable of a fade overruns its range by one step at most, so an
\* int and the 10 bits of the register hold every value.
THEOREM TypeCorrect == Spec => []TypeOK
<1>1. IInv => TypeOK
  BY DEF IInv, NumTypeOK, BoolTypeOK, TypeOK
<1> QED
  BY <1>1, InvariantHolds, PTL

\* fade_in: an audible amp that is not fading plays at the volume of the
\* control, whether or not the step divides the distance.
THEOREM AppliedCorrect == Spec => []Applied
<1>1. IInv => Applied
  BY DEF IInv, IdleLevel, Applied
<1> QED
  BY <1>1, InvariantHolds, PTL

\* fade_in, fade_out: no write of a fade in is louder than the volume it leads to,
\* none of a fade out of an audible amp louder than the one before.
THEOREM FadeStepsCorrect == Spec => FadesRight
<1>1. ASSUME IInv, [Next]_vars, pc = "in" PROVE reg' >= Real(ctl_volume)
  <2>1. CASE FadeIn
    BY <1>1, <2>1, FadeInInv
  <2>2. CASE UNCHANGED reg
    BY <1>1, <2>2 DEF IInv, InLevel
  <2> QED
    BY <1>1, <2>1, <2>2 DEF Next, VolumeSet, FadeStepSet, FadeTimeSet, NewProfile, Reload,
                            Unmute, MuteAmp, FadeOut, vars
<1>2. ASSUME IInv, [Next]_vars, pc = "out", ~hmute PROVE reg' >= reg
  <2>1. CASE FadeOut
    BY <1>2, <2>1, FadeOutInv
  <2>2. CASE UNCHANGED reg
    BY <1>2, <2>2 DEF IInv, NumTypeOK
  <2> QED
    BY <1>2, <2>1, <2>2 DEF Next, VolumeSet, FadeStepSet, FadeTimeSet, NewProfile, Reload,
                            Unmute, MuteAmp, FadeIn, vars
<1>3. IInv /\ [Next]_vars => [/\ pc = "in" => reg' >= Real(ctl_volume)
                              /\ pc = "out" /\ ~hmute => reg' >= reg]_vars
  BY <1>1, <1>2
<1> QED
  BY <1>3, InvariantHolds, PTL DEF Spec, FadesRight

\* fade_in, fade_out, volume_set: what the runs check between fades.
THEOREM FadeCorrect == Spec => []FadeInv
<1>1. TypeOK /\ Applied => FadeInv
  BY DEF FadeInv
<1> QED
  BY <1>1, TypeCorrect, AppliedCorrect, PTL

-----------------------------------------------------------------------------
(* The calibration of the impedance: what the sum without its ends can be. *)

\* What the driver divides: the sum without the smallest and the largest.
Trimmed(t) == t.sum - t.min - t.max
\* How many readings are not below the range, and how many are not above it.
NotLow == re_temp.n - strays.low
NotHigh == re_temp.n - strays.high

\* What follows of the readings t if few of them are less than a, or more than a.
AtLeast(t, a, few) ==
    /\ t.n >= 1 /\ few = 0 => t.min >= a
    /\ t.n >= 2 /\ few <= 1 => t.max >= a /\ Trimmed(t) >= (t.n - 2) * a
AtMost(t, a, few) ==
    /\ t.n >= 1 /\ few = 0 => t.max <= a
    /\ t.n >= 2 /\ few <= 1 => t.min <= a /\ Trimmed(t) <= (t.n - 2) * a

Ends(t) == /\ t.n = 0 => t.sum = 0
           /\ t.n >= 1 => t.min <= t.max
           /\ t.n = 1 => t.sum = t.min /\ t.max = t.min
TrimInv ==
    /\ Ends(re_temp)
    /\ strays.low <= re_temp.n /\ strays.high <= re_temp.n
    /\ AtLeast(re_temp, ReMin, strays.low) /\ AtMost(re_temp, ReMax, strays.high)
    /\ AtMost(re_temp, ReMin - 1, NotLow) /\ AtLeast(re_temp, ReMax + 1, NotHigh)

PhaseInv ==
    /\ phase = "idle" => re_temp.n = 0
    /\ phase = "read" => re_temp.n < Count
    /\ phase \in {"iv", "judge"} => re_temp.n = Count
    /\ polls < Polls

CaliIInv == CaliInv /\ TrimInv /\ PhaseInv

-----------------------------------------------------------------------------

\* One more term of a sum of equal ones.
LEMMA OneMore ==
    ASSUME NEW n \in Int, NEW a \in Int
    PROVE  (n + 1) * a = n * a + a /\ n * a \in Int
OBVIOUS

\* C's quotient of numbers is between the bounds that hold for the dividend.
LEMMA QuotientBounds ==
    ASSUME NEW t \in Int, NEW k \in Nat, k > 0, NEW a \in Nat
    PROVE  /\ CDiv(t, k) \in Int
           /\ t >= k * a => CDiv(t, k) >= a
           /\ t <= k * a => CDiv(t, k) <= a
           /\ t <= k * (a - 1) => CDiv(t, k) < a
<1>1. CASE t >= 0
  <2>1. PICK q \in Nat : q = t \div k BY <1>1
  <2>2. CDiv(t, k) = q BY <1>1, <2>1 DEF CDiv
  <2>3. k * q <= t /\ t < k * q + k BY <1>1, <2>1
  <2>4. t >= k * a => q >= a
    <3>1. SUFFICES ASSUME t >= k * a, q + 1 <= a PROVE FALSE BY <2>1
    <3>2. k * (q + 1) <= k * a BY <3>1
    <3> QED BY <2>3, <3>1, <3>2
  <2>5. t <= k * a => q <= a
    <3>1. SUFFICES ASSUME t <= k * a, a + 1 <= q PROVE FALSE BY <2>1
    <3>2. k * (a + 1) <= k * q BY <3>1
    <3> QED BY <2>3, <3>1, <3>2
  <2>6. t <= k * (a - 1) => q < a
    <3>1. SUFFICES ASSUME t <= k * (a - 1), a <= q PROVE FALSE BY <2>1
    <3>2. k * a <= k * q BY <3>1
    <3> QED BY <2>3, <3>1, <3>2
  <2> QED BY <2>2, <2>4, <2>5, <2>6
<1>2. CASE t < 0
  <2>1. PICK q \in Nat : q = (-t) \div k BY <1>2
  <2>2. CDiv(t, k) = -q BY <1>2, <2>1 DEF CDiv
  <2>3. k * q <= -t /\ -t < k * q + k BY <1>2, <2>1
  <2>4. ~(t >= k * a) BY <1>2
  <2>5. t <= k * (a - 1) => -q < a
    <3>1. SUFFICES ASSUME t <= k * (a - 1), a = 0, q = 0 PROVE FALSE BY <2>1
    <3> QED BY <2>3, <3>1
  <2> QED BY <2>1, <2>2, <2>4, <2>5
<1> QED BY <1>1, <1>2

\* The average of the readings: within the range with one stray, outside it with one good.
LEMMA AverageRight ==
    ASSUME CaliTypeOK, TrimInv, re_temp.n = Count
    PROVE  /\ Average(re_temp) \in Int
           /\ strays.low + strays.high <= 1 => Average(re_temp) \in ReMin..ReMax
           /\ strays.low >= Count - 1 => Average(re_temp) < ReMin
           /\ strays.high >= Count - 1 => Average(re_temp) > ReMax
<1> DEFINE k == Count - 2
<1>1. /\ Count \in Nat /\ k \in Nat /\ k > 0 /\ Count >= 2 /\ Count >= 1
      /\ ReMin \in Nat /\ ReMax \in Nat /\ ReMax + 1 \in Nat
  BY CalibrationAssumption
<1>2. /\ Trimmed(re_temp) \in Int /\ strays.low \in Nat /\ strays.high \in Nat
      /\ strays.low <= Count /\ strays.high <= Count
  BY DEF CaliTypeOK, Trimmed, TrimInv
<1>3. Average(re_temp) = CDiv(Trimmed(re_temp), k) BY DEF Average, Trimmed
<1>4. CDiv(Trimmed(re_temp), k) \in Int BY <1>1, <1>2, QuotientBounds
<1>5. strays.low + strays.high <= 1 => CDiv(Trimmed(re_temp), k) \in ReMin..ReMax
  <2>1. SUFFICES ASSUME strays.low + strays.high <= 1 PROVE CDiv(Trimmed(re_temp), k) \in ReMin..ReMax
    OBVIOUS
  <2>2. strays.low <= 1 /\ strays.high <= 1 BY <1>2, <2>1
  <2>3. Trimmed(re_temp) >= k * ReMin /\ Trimmed(re_temp) <= k * ReMax
    BY <1>1, <2>2 DEF TrimInv, AtLeast, AtMost
  <2> QED BY <1>1, <1>2, <1>4, <2>3, QuotientBounds
<1>6. strays.low >= Count - 1 => CDiv(Trimmed(re_temp), k) < ReMin
  <2>1. SUFFICES ASSUME strays.low >= Count - 1 PROVE CDiv(Trimmed(re_temp), k) < ReMin
    OBVIOUS
  <2>2. NotLow <= 1 BY <1>1, <1>2, <2>1 DEF NotLow
  <2>3. Trimmed(re_temp) <= k * (ReMin - 1) BY <1>1, <2>2 DEF TrimInv, AtMost
  <2> QED BY <1>1, <1>2, <2>3, QuotientBounds
<1>7. strays.high >= Count - 1 => CDiv(Trimmed(re_temp), k) > ReMax
  <2>1. SUFFICES ASSUME strays.high >= Count - 1 PROVE CDiv(Trimmed(re_temp), k) > ReMax
    OBVIOUS
  <2>2. NotHigh <= 1 BY <1>1, <1>2, <2>1 DEF NotHigh
  <2>3. Trimmed(re_temp) >= k * (ReMax + 1) BY <1>1, <2>2 DEF TrimInv, AtLeast
  <2>4. CDiv(Trimmed(re_temp), k) >= ReMax + 1 BY <1>1, <1>2, <2>3, QuotientBounds
  <2> QED BY <1>1, <1>4, <2>4
<1> HIDE DEF k
<1> QED BY <1>3, <1>4, <1>5, <1>6, <1>7

Reads == [n : 0..Count, sum : Int, min : Int, max : Int]

\* A reading that is not the first joins the trimmed sum, or pushes an end into it.
LEMMA TrimmedNext ==
    ASSUME re_temp \in Reads, re_temp.n >= 1, Ends(re_temp), NEW r \in Int
    PROVE  /\ Trimmed(With(r)) \in Int /\ With(r).min \in Int /\ With(r).max \in Int
           /\ \/ /\ r < re_temp.min /\ Trimmed(With(r)) = Trimmed(re_temp) + re_temp.min
                 /\ With(r).min = r /\ With(r).max = re_temp.max
              \/ /\ re_temp.max < r /\ Trimmed(With(r)) = Trimmed(re_temp) + re_temp.max
                 /\ With(r).min = re_temp.min /\ With(r).max = r
              \/ /\ re_temp.min <= r /\ r <= re_temp.max /\ Trimmed(With(r)) = Trimmed(re_temp) + r
                 /\ With(r).min = re_temp.min /\ With(r).max = re_temp.max
BY DEF Reads, With, Trimmed, Ends

\* The first reading is both ends.
LEMMA FirstReading ==
    ASSUME re_temp \in Reads, re_temp.n = 0, NEW r \in Int
    PROVE  With(r).n = 1 /\ With(r).min = r /\ With(r).max = r
BY DEF Reads, With

\* Two readings leave nothing when both are trimmed.
LEMMA TwoReadings ==
    ASSUME re_temp \in Reads, re_temp.n = 1, Ends(re_temp), NEW r \in Int
    PROVE  Trimmed(With(r)) = 0
BY DEF Reads, With, Trimmed, Ends

\* The ends stay in order.
LEMMA EndsNext ==
    ASSUME re_temp \in Reads, Ends(re_temp), NEW r \in Int
    PROVE  Ends(With(r))
BY DEF Reads, With, Ends

\* One more reading, whether it is less than a or not.
LEMMA AtLeastNext ==
    ASSUME re_temp \in Reads, Ends(re_temp), NEW a \in Int, NEW few \in Int,
           0 <= few, few <= re_temp.n, AtLeast(re_temp, a, few), NEW r \in Int
    PROVE  AtLeast(With(r), a, IF r < a THEN few + 1 ELSE few)
<1> DEFINE less == IF r < a THEN few + 1 ELSE few
           t == With(r)  n == re_temp.n
<1>1. /\ t.n = n + 1 /\ n \in Nat /\ re_temp.min \in Int /\ re_temp.max \in Int
      /\ Trimmed(re_temp) \in Int /\ less \in Int /\ (less <= 1 => few <= 1)
      /\ (less = 0 => few = 0 /\ r >= a)
      /\ (less <= 1 => few = 0 \/ r >= a)
  BY DEF Reads, With, Trimmed
<1> HIDE DEF less, t
<1>2. t.n >= 1 /\ less = 0 => t.min >= a
  <2>1. CASE n = 0 BY <1>1, <2>1, FirstReading DEF t
  <2>2. CASE n >= 1 BY <1>1, <2>2, TrimmedNext DEF t, AtLeast
  <2> QED BY <1>1, <2>1, <2>2
<1>3. t.n >= 2 /\ less <= 1 => t.max >= a /\ Trimmed(t) >= (t.n - 2) * a
  <2>1. SUFFICES ASSUME t.n >= 2, less <= 1 PROVE t.max >= a /\ Trimmed(t) >= (t.n - 2) * a
    OBVIOUS
  <2>2. n >= 1 BY <1>1, <2>1
  <2>3. CASE n = 1
    <3>1. Trimmed(t) = 0 /\ t.n - 2 = 0 BY <1>1, <2>3, TwoReadings DEF t
    <3>2. few = 0 => re_temp.max >= a BY <1>1, <2>2 DEF AtLeast, Ends
    <3>3. t.max >= a BY <1>1, <2>1, <2>2, <3>2, TrimmedNext DEF t, Ends
    <3> QED BY <3>1, <3>3
  <2>4. CASE n >= 2
    <3>1. re_temp.max >= a /\ Trimmed(re_temp) >= (n - 2) * a BY <1>1, <2>1, <2>4 DEF AtLeast
    <3>2. few = 0 => re_temp.min >= a BY <1>1, <2>4 DEF AtLeast
    <3>6. n - 2 \in Int /\ t.n - 2 = (n - 2) + 1 BY <1>1
    <3>7. ((n - 2) + 1) * a = (n - 2) * a + a /\ (n - 2) * a \in Int BY <3>6, OneMore
    <3>3. (t.n - 2) * a = (n - 2) * a + a /\ (n - 2) * a \in Int BY <3>6, <3>7
    <3>4. t.max >= a /\ Trimmed(t) >= Trimmed(re_temp) + a
      BY <1>1, <2>1, <2>2, <3>1, <3>2, TrimmedNext DEF t, Ends
    <3>5. Trimmed(t) \in Int BY <2>2, TrimmedNext DEF t
    <3> QED BY <1>1, <3>1, <3>3, <3>4, <3>5
  <2> QED BY <1>1, <2>2, <2>3, <2>4
<1> QED BY <1>2, <1>3 DEF AtLeast, less, t

\* The same for readings that are more than a.
LEMMA AtMostNext ==
    ASSUME re_temp \in Reads, Ends(re_temp), NEW a \in Int, NEW few \in Int,
           0 <= few, few <= re_temp.n, AtMost(re_temp, a, few), NEW r \in Int
    PROVE  AtMost(With(r), a, IF r > a THEN few + 1 ELSE few)
<1> DEFINE more == IF r > a THEN few + 1 ELSE few
           t == With(r)  n == re_temp.n
<1>1. /\ t.n = n + 1 /\ n \in Nat /\ re_temp.min \in Int /\ re_temp.max \in Int
      /\ Trimmed(re_temp) \in Int /\ more \in Int /\ (more <= 1 => few <= 1)
      /\ (more = 0 => few = 0 /\ r <= a)
      /\ (more <= 1 => few = 0 \/ r <= a)
  BY DEF Reads, With, Trimmed
<1> HIDE DEF more, t
<1>2. t.n >= 1 /\ more = 0 => t.max <= a
  <2>1. CASE n = 0 BY <1>1, <2>1, FirstReading DEF t
  <2>2. CASE n >= 1 BY <1>1, <2>2, TrimmedNext DEF t, AtMost
  <2> QED BY <1>1, <2>1, <2>2
<1>3. t.n >= 2 /\ more <= 1 => t.min <= a /\ Trimmed(t) <= (t.n - 2) * a
  <2>1. SUFFICES ASSUME t.n >= 2, more <= 1 PROVE t.min <= a /\ Trimmed(t) <= (t.n - 2) * a
    OBVIOUS
  <2>2. n >= 1 BY <1>1, <2>1
  <2>3. CASE n = 1
    <3>1. Trimmed(t) = 0 /\ t.n - 2 = 0 BY <1>1, <2>3, TwoReadings DEF t
    <3>2. few = 0 => re_temp.min <= a BY <1>1, <2>2 DEF AtMost, Ends
    <3>3. t.min <= a BY <1>1, <2>1, <2>2, <3>2, TrimmedNext DEF t, Ends
    <3> QED BY <3>1, <3>3
  <2>4. CASE n >= 2
    <3>1. re_temp.min <= a /\ Trimmed(re_temp) <= (n - 2) * a BY <1>1, <2>1, <2>4 DEF AtMost
    <3>2. few = 0 => re_temp.max <= a BY <1>1, <2>4 DEF AtMost
    <3>6. n - 2 \in Int /\ t.n - 2 = (n - 2) + 1 BY <1>1
    <3>7. ((n - 2) + 1) * a = (n - 2) * a + a /\ (n - 2) * a \in Int BY <3>6, OneMore
    <3>3. (t.n - 2) * a = (n - 2) * a + a /\ (n - 2) * a \in Int BY <3>6, <3>7
    <3>4. t.min <= a /\ Trimmed(t) <= Trimmed(re_temp) + a
      BY <1>1, <2>1, <2>2, <3>1, <3>2, TrimmedNext DEF t, Ends
    <3>5. Trimmed(t) \in Int BY <2>2, TrimmedNext DEF t
    <3> QED BY <1>1, <3>1, <3>3, <3>4, <3>5
  <2> QED BY <1>1, <2>2, <2>3, <2>4
<1> QED BY <1>2, <1>3 DEF AtMost, more, t

-----------------------------------------------------------------------------

\* Without readings there is nothing to say of them.
LEMMA NothingTrimmed ==
    ASSUME re_temp' = NoReadings, strays' = NoStrays
    PROVE  TrimInv' /\ re_temp'.n = 0
BY DEF NoReadings, NoStrays, TrimInv, Ends, AtLeast, AtMost, NotLow, NotHigh

\* The invariant holds before the first calibration.
LEMMA CaliInitInv == CaliInit => CaliIInv
<1> SUFFICES ASSUME CaliInit PROVE CaliIInv OBVIOUS
<1>1. CaliTypeOK
  <2>1. Count \in Nat /\ Polls \in Nat BY CalibrationAssumption
  <2>2. /\ NoReadings \in [n : 0..Count, sum : Int, min : Int, max : Int]
        /\ NoStrays \in [low : 0..Count, high : 0..Count] /\ 0 \in 0..Polls
    BY <2>1 DEF NoReadings, NoStrays
  <2>3. [h |-> Unset, l |-> Unset] \in [h : Int, l : Int] BY DEF Unset
  <2>4. lost \in BOOLEAN /\ muted \in BOOLEAN BY DEF CaliInit
  <2>5. /\ cali_re = 0 /\ cali_result = None /\ polls = 0 /\ re_temp = NoReadings
        /\ strays = NoStrays /\ acr = [h |-> Unset, l |-> Unset] /\ phase = "idle"
    BY DEF CaliInit
  <2> QED BY <2>2, <2>3, <2>4, <2>5 DEF CaliTypeOK
<1>2. ChipPlausible /\ ErrorIsSilent
  BY DEF CaliInit, ChipPlausible, ErrorIsSilent, Unset, None
<1>3. TrimInv
  BY DEF CaliInit, NoReadings, NoStrays, TrimInv, Ends, AtLeast, AtMost, NotLow, NotHigh
<1>4. PhaseInv BY CalibrationAssumption DEF CaliInit, PhaseInv, NoReadings
<1> QED BY <1>1, <1>2, <1>3, <1>4 DEF CaliIInv, CaliInv

\* Writing the halves of an impedance, whichever write fails.
LEMMA UpdateKeeps ==
    ASSUME CaliTypeOK, ChipPlausible, NEW re \in Int, UpdateCaliRe(re)
    PROVE  acr' \in [h : Int, l : Int] /\ lost' \in BOOLEAN /\ ChipPlausible'
<1>1. ReMin \in Nat /\ ReMax \in Nat /\ acr \in [h : Int, l : Int] /\ lost \in BOOLEAN
  BY CalibrationAssumption DEF CaliTypeOK
<1>2. CASE re >= ReMax \/ re <= ReMin
  <2>1. acr' = acr /\ lost' = lost BY <1>2 DEF UpdateCaliRe
  <2> QED BY <1>1, <2>1 DEF ChipPlausible
<1>3. CASE ~(re >= ReMax \/ re <= ReMin)
  <2>1. \/ acr' = [h |-> re, l |-> re] /\ lost' = FALSE
        \/ acr' = [acr EXCEPT !.h = re] /\ lost' = TRUE
        \/ acr' = acr /\ lost' = TRUE
    BY <1>3 DEF UpdateCaliRe
  <2>2. ReMin < re /\ re < ReMax BY <1>1, <1>3
  <2>3. /\ acr' \in [h : Int, l : Int] /\ lost' \in BOOLEAN
        /\ acr'.h \in {re, acr.h} /\ acr'.l \in {re, acr.l}
        /\ acr'.h # acr'.l => lost' \/ (acr' = acr /\ lost' = lost)
    <3>1. CASE acr' = [h |-> re, l |-> re] /\ lost' = FALSE BY <3>1
    <3>2. CASE acr' = [acr EXCEPT !.h = re] /\ lost' = TRUE
      <4>1. acr' = [h |-> re, l |-> acr.l] BY <1>1, <3>2
      <4> QED BY <1>1, <3>2, <4>1
    <3>3. CASE acr' = acr /\ lost' = TRUE BY <1>1, <3>3
    <3> QED BY <2>1, <3>1, <3>2, <3>3
  <2>4. /\ acr.h # Unset => ReMin < acr.h /\ acr.h < ReMax
        /\ acr.l # Unset => ReMin < acr.l /\ acr.l < ReMax
        /\ acr.h # acr.l => lost
    BY <1>1 DEF ChipPlausible
  <2>5. /\ acr'.h # Unset => ReMin < acr'.h /\ acr'.h < ReMax
        /\ acr'.l # Unset => ReMin < acr'.l /\ acr'.l < ReMax
    BY <2>2, <2>3, <2>4
  <2> QED BY <2>3, <2>4, <2>5 DEF ChipPlausible
<1> QED BY <1>2, <1>3

\* A calibration that fails drops its readings and mutes the amp.
LEMMA FailKeeps ==
    ASSUME CaliIInv, Fail, UNCHANGED <<cali_re, acr, lost>>
    PROVE  CaliIInv'
<1>1. CaliTypeOK /\ ChipPlausible BY DEF CaliIInv, CaliInv
<1>2. CaliTypeOK'
  BY <1>1, CalibrationAssumption DEF CaliTypeOK, Fail, NoReadings, NoStrays
<1>3. ChipPlausible' BY <1>1 DEF ChipPlausible
<1>4. ErrorIsSilent' BY DEF Fail, ErrorIsSilent
<1>5. TrimInv' /\ re_temp'.n = 0 BY NothingTrimmed DEF Fail
<1>6. PhaseInv' BY <1>5, CalibrationAssumption DEF Fail, PhaseInv
<1> QED BY <1>2, <1>3, <1>4, <1>5, <1>6 DEF CaliIInv, CaliInv

\* A reading, good or astray.
LEMMA ReadKeeps == ASSUME CaliIInv, Read PROVE CaliIInv'
<1>1. PICK r \in Readings : re_temp' = With(r) /\ strays' = Astray(r) BY DEF Read
<1>2. /\ phase = "read" /\ phase' = (IF re_temp'.n = Count THEN "iv" ELSE "read")
      /\ UNCHANGED <<cali_re, cali_result, polls, acr, lost, muted>>
  BY DEF Read
<1>3. CaliTypeOK /\ ChipPlausible /\ ErrorIsSilent /\ TrimInv /\ PhaseInv BY DEF CaliIInv, CaliInv
<1>4. /\ r \in Int /\ ReMin \in Nat /\ ReMax \in Nat /\ Count \in Nat /\ re_temp \in Reads
      /\ re_temp.n < Count /\ re_temp.n \in Nat
      /\ strays.low \in Nat /\ strays.high \in Nat
      /\ strays.low <= re_temp.n /\ strays.high <= re_temp.n
  BY <1>2, <1>3, CalibrationAssumption DEF CaliTypeOK, Reads, TrimInv, PhaseInv
<1>5. /\ re_temp'.n = re_temp.n + 1 /\ re_temp' \in Reads
      /\ strays'.low = (IF r < ReMin THEN strays.low + 1 ELSE strays.low)
      /\ strays'.high = (IF r > ReMax THEN strays.high + 1 ELSE strays.high)
      /\ strays' \in [low : 0..Count, high : 0..Count]
      /\ strays'.low <= re_temp'.n /\ strays'.high <= re_temp'.n
  BY <1>1, <1>4 DEF With, Astray, Reads
<1>6. CaliTypeOK' BY <1>2, <1>3, <1>5 DEF CaliTypeOK, Reads
<1>7. ChipPlausible' /\ ErrorIsSilent' BY <1>2, <1>3 DEF ChipPlausible, ErrorIsSilent
<1>8. TrimInv'
  <2>1. Ends(re_temp') BY <1>1, <1>3, <1>4, EndsNext DEF TrimInv
  <2>2. AtLeast(re_temp', ReMin, strays'.low)
    <3>1. AtLeast(re_temp, ReMin, strays.low) /\ Ends(re_temp) BY <1>3 DEF TrimInv
    <3> QED BY <1>1, <1>4, <1>5, <3>1, AtLeastNext
  <2>3. AtMost(re_temp', ReMax, strays'.high)
    <3>1. AtMost(re_temp, ReMax, strays.high) /\ Ends(re_temp) BY <1>3 DEF TrimInv
    <3> QED BY <1>1, <1>4, <1>5, <3>1, AtMostNext
  <2>4. AtMost(re_temp', ReMin - 1, NotLow')
    <3>1. AtMost(re_temp, ReMin - 1, NotLow) /\ Ends(re_temp) BY <1>3 DEF TrimInv
    <3>2. NotLow \in Int /\ 0 <= NotLow /\ NotLow <= re_temp.n BY <1>4 DEF NotLow
    <3>3. NotLow' = (IF r > ReMin - 1 THEN NotLow + 1 ELSE NotLow) BY <1>4, <1>5 DEF NotLow
    <3> QED BY <1>1, <1>4, <3>1, <3>2, <3>3, AtMostNext
  <2>5. AtLeast(re_temp', ReMax + 1, NotHigh')
    <3>1. AtLeast(re_temp, ReMax + 1, NotHigh) /\ Ends(re_temp) BY <1>3 DEF TrimInv
    <3>2. NotHigh \in Int /\ 0 <= NotHigh /\ NotHigh <= re_temp.n BY <1>4 DEF NotHigh
    <3>3. NotHigh' = (IF r < ReMax + 1 THEN NotHigh + 1 ELSE NotHigh) BY <1>4, <1>5 DEF NotHigh
    <3> QED BY <1>1, <1>4, <3>1, <3>2, <3>3, AtLeastNext
  <2> QED BY <1>5, <2>1, <2>2, <2>3, <2>4, <2>5 DEF TrimInv
<1>9. PhaseInv' BY <1>2, <1>3, <1>4, <1>5 DEF PhaseInv
<1> QED BY <1>6, <1>7, <1>8, <1>9 DEF CaliIInv, CaliInv

\* The verdict: the new average, and what it may be for the strays among the readings.
LEMMA JudgeKeeps == ASSUME CaliIInv, Judge PROVE CaliIInv' /\ OneOutlierHarmless
<1> DEFINE re == Average(re_temp)
<1>1. /\ phase = "judge" /\ cali_re' = re /\ phase' = "idle"
      /\ IF re \in ReMin..ReMax THEN cali_result' = "NORMAL" /\ UpdateCaliRe(re) /\ UNCHANGED muted
         ELSE cali_result' = "ERROR" /\ muted' = TRUE /\ UNCHANGED <<acr, lost>>
      /\ re_temp' = NoReadings /\ strays' = NoStrays /\ polls' = 0
  BY DEF Judge
<1>2. CaliTypeOK /\ ChipPlausible /\ ErrorIsSilent /\ TrimInv /\ PhaseInv BY DEF CaliIInv, CaliInv
<1>3. re_temp.n = Count BY <1>1, <1>2 DEF PhaseInv
<1>4. /\ re \in Int
      /\ strays.low + strays.high <= 1 => re \in ReMin..ReMax
      /\ strays.low >= Count - 1 => re < ReMin
      /\ strays.high >= Count - 1 => re > ReMax
  BY <1>2, <1>3, AverageRight
<1> HIDE DEF re
<1>5. acr' \in [h : Int, l : Int] /\ lost' \in BOOLEAN /\ ChipPlausible'
  <2>1. CASE re \in ReMin..ReMax BY <1>1, <1>2, <1>4, <2>1, UpdateKeeps
  <2>2. CASE re \notin ReMin..ReMax
    <3>1. acr' = acr /\ lost' = lost BY <1>1, <2>2
    <3> QED BY <1>2, <3>1 DEF CaliTypeOK, ChipPlausible
  <2> QED BY <2>1, <2>2
<1>6. CaliTypeOK'
  <2>1. muted' \in BOOLEAN /\ cali_result' \in {None, "NORMAL", "ERROR"} BY <1>1, <1>2 DEF CaliTypeOK
  <2> QED BY <1>1, <1>4, <1>5, <2>1, CalibrationAssumption DEF CaliTypeOK, NoReadings, NoStrays
<1>7. ErrorIsSilent' BY <1>1 DEF ErrorIsSilent
<1>8. TrimInv' /\ re_temp'.n = 0 BY <1>1, NothingTrimmed
<1>9. PhaseInv' BY <1>1, <1>8, CalibrationAssumption DEF PhaseInv
<1>10. OneOutlierHarmless
  <2>1. ReMin \in Nat /\ ReMax \in Nat BY CalibrationAssumption
  <2> QED BY <1>1, <1>4, <2>1 DEF OneOutlierHarmless
<1> QED BY <1>5, <1>6, <1>7, <1>8, <1>9, <1>10 DEF CaliIInv, CaliInv

\* Steps that read nothing and judge nothing.
LEMMA QuietKeeps ==
    ASSUME CaliIInv, ReSet \/ DevStart \/ Begin \/ IvGood \/ UNCHANGED caliVars
    PROVE  CaliIInv'
<1>1. CaliTypeOK /\ ChipPlausible /\ ErrorIsSilent /\ TrimInv /\ PhaseInv BY DEF CaliIInv, CaliInv
<1>2. UNCHANGED <<re_temp, strays, polls, cali_result>>
  BY DEF ReSet, DevStart, Begin, IvGood, caliVars
<1>3. TrimInv' BY <1>1, <1>2 DEF TrimInv, NotLow, NotHigh
<1>4. PhaseInv'
  BY <1>1, <1>2, CalibrationAssumption
  DEF ReSet, DevStart, Begin, IvGood, caliVars, PhaseInv
<1>5. acr' \in [h : Int, l : Int] /\ lost' \in BOOLEAN /\ ChipPlausible'
  <2>1. CASE DevStart
    <3>1. UpdateCaliRe(cali_re) /\ cali_re \in Int BY <1>1, <2>1 DEF DevStart, CaliTypeOK
    <3> QED BY <1>1, <3>1, UpdateKeeps
  <2>2. CASE ~DevStart
    <3>1. acr' = acr /\ lost' = lost BY <2>2 DEF ReSet, Begin, IvGood, caliVars
    <3> QED BY <1>1, <3>1 DEF CaliTypeOK, ChipPlausible
  <2> QED BY <2>1, <2>2
<1>6. cali_re' \in Int
  <2>1. Settings \subseteq Int BY CalibrationAssumption
  <2>2. cali_re' \in Settings \/ cali_re' = cali_re
    BY DEF ReSet, DevStart, Begin, IvGood, caliVars
  <2> QED BY <1>1, <2>1, <2>2 DEF CaliTypeOK
<1>7. muted' \in BOOLEAN /\ phase' \in {"idle", "read", "iv", "judge"}
      /\ (phase' = "idle" => phase = "idle" /\ muted' = muted)
  BY <1>1 DEF ReSet, DevStart, Begin, IvGood, caliVars, CaliTypeOK
<1>8. CaliTypeOK' BY <1>1, <1>2, <1>5, <1>6, <1>7 DEF CaliTypeOK
<1>9. ErrorIsSilent' BY <1>1, <1>2, <1>7 DEF ErrorIsSilent
<1> QED BY <1>3, <1>4, <1>5, <1>8, <1>9 DEF CaliIInv, CaliInv

\* One more poll of an I/V status that is not there, or the last one.
LEMMA AbnormalKeeps == ASSUME CaliIInv, IvAbnormal PROVE CaliIInv'
<1>1. CASE polls + 1 = Polls
  BY <1>1, FailKeeps DEF IvAbnormal
<1>2. CASE polls + 1 # Polls
  <2>1. /\ CaliTypeOK /\ ChipPlausible /\ ErrorIsSilent /\ TrimInv /\ PhaseInv
        /\ polls' = polls + 1 /\ UNCHANGED <<cali_result, re_temp, strays, muted, phase>>
        /\ UNCHANGED <<cali_re, acr, lost>>
    BY <1>2 DEF CaliIInv, CaliInv, IvAbnormal
  <2>2. polls' \in 0..Polls /\ polls' < Polls
    BY <1>2, <2>1, CalibrationAssumption DEF CaliTypeOK, PhaseInv
  <2>3. CaliTypeOK' BY <2>1, <2>2 DEF CaliTypeOK
  <2>4. TrimInv' BY <2>1 DEF TrimInv, NotLow, NotHigh
  <2>5. PhaseInv' BY <2>1, <2>2 DEF PhaseInv
  <2>6. ChipPlausible' /\ ErrorIsSilent' BY <2>1 DEF ChipPlausible, ErrorIsSilent
  <2> QED BY <2>3, <2>4, <2>5, <2>6 DEF CaliIInv, CaliInv
<1> QED BY <1>1, <1>2

\* Every step keeps the invariant, and a verdict heeds no single outlier.
LEMMA CaliStep ==
    ASSUME CaliIInv, [CaliNext]_caliVars
    PROVE  CaliIInv' /\ [OneOutlierHarmless /\ CaliInv']_caliVars
<1>1. CASE Judge BY <1>1, JudgeKeeps DEF CaliIInv
<1>2. CASE ~Judge
  <2>1. CaliIInv'
    <3>1. CASE ReSet \/ DevStart \/ Begin \/ IvGood \/ UNCHANGED caliVars BY <3>1, QuietKeeps
    <3>2. CASE Read BY <3>2, ReadKeeps
    <3>3. CASE ReadFails BY <3>3, FailKeeps DEF ReadFails
    <3>4. CASE IvFails BY <3>4, FailKeeps DEF IvFails
    <3>5. CASE IvAbnormal BY <3>5, AbnormalKeeps
    <3> QED BY <1>2, <3>1, <3>2, <3>3, <3>4, <3>5 DEF CaliNext
  <2> QED BY <1>2, <2>1 DEF CaliIInv, OneOutlierHarmless
<1> QED BY <1>1, <1>2

\* For every number of readings above two, every range and every reading: one
\* wild reading decides no calibration, each half on the chip belongs to an
\* impedance strictly between the bounds and both to the same one unless a write
\* was lost, and a calibration that ends with an error leaves the amp muted.
THEOREM CalibrationCorrect == CaliSpec => CalibrationRight
<1>1. CaliInit => CaliIInv BY CaliInitInv
<1>2. CaliIInv /\ [CaliNext]_caliVars => CaliIInv' BY CaliStep
<1>3. CaliIInv /\ [CaliNext]_caliVars => [OneOutlierHarmless /\ CaliInv']_caliVars BY CaliStep
<1> QED BY <1>1, <1>2, <1>3, PTL DEF CaliSpec, CalibrationRight

-----------------------------------------------------------------------------
(* The voltage calibration: words and their signs.                         *)

\* The sets of the bits 0 to n, and what the two copies of a trim may hold.
Bits(n) == SUBSET (0..n)
Pairs(n) == Bits(n) \X Bits(n)

\* Bits are burnt in neither copy or in some.
LEMMA CombineIs ==
    ASSUME NEW n \in Nat, NEW p \in Pairs(n)
    PROVE  Combine(p) \in Bits(n) /\ p[1] \in Bits(n) /\ p[2] \in Bits(n)
BY DEF Pairs, Bits, Combine

\* The tenth bit of a word of ten bits is its sign.
LEMMA RangeOfTen ==
    ASSUME NEW v \in Bits(9)
    PROVE  Word(v) \in Nat /\ (IF 9 \in v THEN 512 <= Word(v) /\ Word(v) < 1024 ELSE Word(v) < 512)
<1> DEFINE low == Bit(v, 0, 1) + Bit(v, 1, 2) + Bit(v, 2, 4) + Bit(v, 3, 8) + Bit(v, 4, 16)
                  + Bit(v, 5, 32) + Bit(v, 6, 64) + Bit(v, 7, 128) + Bit(v, 8, 256)
<1>1. low \in Nat /\ low < 512 BY DEF Bit
<1>2. Word(v) = low + Bit(v, 9, 512) BY DEF Word, Bit, Bits
<1> HIDE DEF low
<1> QED BY <1>1, <1>2 DEF Bit

\* Burning all bits above the sign makes the word negative, whatever the sign said.
LEMMA WordOfTen ==
    ASSUME NEW v \in Bits(9)
    PROVE  int16(v) = Word(v) /\ int16(v \cup 9..15) = Word(v) - (IF 9 \in v THEN 1024 ELSE 512)
<1> USE DEF Bits
<1> DEFINE low == Bit(v, 0, 1) + Bit(v, 1, 2) + Bit(v, 2, 4) + Bit(v, 3, 8) + Bit(v, 4, 16)
                  + Bit(v, 5, 32) + Bit(v, 6, 64) + Bit(v, 7, 128) + Bit(v, 8, 256)
           u == v \cup 9..15
<1>1. low \in Nat /\ low < 512 BY DEF Bit
<1>2. Word(v) = low + Bit(v, 9, 512) /\ 15 \notin v BY DEF Word, Bit
<1>3. /\ \A k \in 9..15 : k \in u
      /\ \A k \in 0..8 : k \in u <=> k \in v
  OBVIOUS
<1>4. Word(u) = low + 512 + 1024 + 2048 + 4096 + 8192 + 16384 + 32768 BY <1>3 DEF Word, Bit
<1>5. 15 \in u BY <1>3
<1> HIDE DEF low, u
<1>6. int16(v) = Word(v) BY <1>1, <1>2 DEF int16, Bit
<1>7. int16(u) = low - 512 BY <1>1, <1>4, <1>5 DEF int16
<1> QED BY <1>1, <1>2, <1>6, <1>7 DEF Bit, u

\* The same for a word of six bits.
LEMMA WordOfSix ==
    ASSUME NEW v \in Bits(5)
    PROVE  /\ Word(v) \in (IF 5 \in v THEN 32..63 ELSE 0..31)
           /\ int16(v) = Word(v) /\ int16(v \cup 6..15) = Word(v) - 64
<1> USE DEF Bits
<1> DEFINE low == Bit(v, 0, 1) + Bit(v, 1, 2) + Bit(v, 2, 4) + Bit(v, 3, 8) + Bit(v, 4, 16)
           u == v \cup 6..15
<1>1. low \in 0..31 BY DEF Bit
<1>2. Word(v) = low + Bit(v, 5, 32) /\ 15 \notin v BY DEF Word, Bit
<1>3. /\ \A k \in 6..15 : k \in u
      /\ \A k \in 0..5 : k \in u <=> k \in v
  OBVIOUS
<1>4. Word(u) = low + Bit(v, 5, 32) + 64 + 128 + 256 + 512 + 1024 + 2048 + 4096 + 8192 + 16384 + 32768
  BY <1>3 DEF Word, Bit
<1>5. 15 \in u BY <1>3
<1>6. Bit(v, 5, 32) = IF 5 \in v THEN 32 ELSE 0 BY DEF Bit
<1> HIDE DEF low, u
<1>7. int16(v) = Word(v) BY <1>1, <1>2, <1>6 DEF int16
<1>8. int16(u) = low + Bit(v, 5, 32) - 64 BY <1>1, <1>4, <1>5, <1>6 DEF int16
<1> QED BY <1>1, <1>2, <1>6, <1>7, <1>8 DEF u

\* What the three trims are read as.
LEMMA IcalkIs ==
    ASSUME NEW p \in Pairs(9)
    PROVE  Icalk(p) \in Int /\ -512 <= Icalk(p) /\ Icalk(p) < 512 /\ Extends(Icalk(p), Combine(p), 1024)
<1>1. PICK v \in Bits(9) : v = Combine(p) BY CombineIs
<1>2. Word(v) \in Nat /\ (IF 9 \in v THEN 512 <= Word(v) /\ Word(v) < 1024 ELSE Word(v) < 512)
  BY <1>1, RangeOfTen
<1>3. Icalk(p) = IF 9 \in v THEN Word(v) - 1024 ELSE Word(v) BY <1>1, WordOfTen DEF Icalk
<1>4. Icalk(p) \in Int /\ -512 <= Icalk(p) /\ Icalk(p) < 512 BY <1>2, <1>3
<1>5. (Icalk(p) - Word(v)) % 1024 = 0 BY <1>2, <1>3
<1> QED BY <1>1, <1>4, <1>5 DEF Extends

LEMMA InternalIs ==
    ASSUME NEW p \in Pairs(5)
    PROVE  InternalVcalk(p) \in Int /\ -32 <= InternalVcalk(p) /\ InternalVcalk(p) < 32 /\ Extends(InternalVcalk(p), Combine(p), 64)
<1>1. PICK v \in Bits(5) : v = Combine(p) BY CombineIs
<1>2. Word(v) \in (IF 5 \in v THEN 32..63 ELSE 0..31)
  BY <1>1, WordOfSix
<1>3. InternalVcalk(p) = IF 5 \in v THEN Word(v) - 64 ELSE Word(v)
  BY <1>1, WordOfSix DEF InternalVcalk
<1>4. InternalVcalk(p) \in Int /\ -32 <= InternalVcalk(p) /\ InternalVcalk(p) < 32 BY <1>2, <1>3
<1>5. (InternalVcalk(p) - Word(v)) % 64 = 0 BY <1>2, <1>3
<1> QED BY <1>1, <1>4, <1>5 DEF Extends

\* The external trim is read with the wrong sign, but within a range that cannot divide by zero.
LEMMA VcalkIs ==
    ASSUME NEW p \in Pairs(9)
    PROVE  Vcalk(p) \in Int /\ -512 <= Vcalk(p) /\ Vcalk(p) <= 512
<1>1. PICK v \in Bits(9) : v = Combine(p) BY CombineIs
<1>2. Word(v) \in Nat /\ (IF 9 \in v THEN 512 <= Word(v) /\ Word(v) < 1024 ELSE Word(v) < 512) BY <1>1, RangeOfTen
<1>3. CASE v \ {9} = {}
  <2>1. Vcalk(p) = Word(v) BY <1>1, <1>3, WordOfTen DEF Vcalk
  <2>2. \A k \in 0..8 : k \notin v BY <1>3
  <2>3. \A k \in 10..15 : k \notin v BY DEF Bits
  <2>4. Word(v) = Bit(v, 9, 512) BY <2>2, <2>3 DEF Word, Bit
  <2>5. Word(v) \in Nat /\ Word(v) <= 512 BY <2>4 DEF Bit
  <2> QED BY <2>1, <2>5
<1>4. CASE v \ {9} # {}
  <2>1. Vcalk(p) = Word(v) - (IF 9 \in v THEN 1024 ELSE 512)
    BY <1>1, <1>4, WordOfTen DEF Vcalk
  <2> QED BY <1>2, <2>1
<1> QED BY <1>3, <1>4

-----------------------------------------------------------------------------
(* Quotients.                                                              *)

\* A quotient of natural numbers is one, and does not exceed what it divides.
LEMMA DivIs ==
    ASSUME NEW a \in Nat, NEW d \in Nat, d > 0
    PROVE  a \div d \in Nat /\ (a \div d) * d <= a /\ a < (a \div d) * d + d
OBVIOUS

\* It grows with the dividend.
LEMMA DivGrows ==
    ASSUME NEW a \in Nat, NEW b \in Nat, NEW d \in Nat, d > 0, a <= b
    PROVE  a \div d <= b \div d
<1>1. PICK q \in Nat : q = a \div d OBVIOUS
<1>2. PICK r \in Nat : r = b \div d OBVIOUS
<1>3. q * d <= a /\ b < r * d + d BY <1>1, <1>2
<1>4. SUFFICES ASSUME r + 1 <= q PROVE FALSE BY <1>1, <1>2
<1>5. (r + 1) * d <= q * d BY <1>4
<1> QED BY <1>3, <1>5

\* It falls with the divisor.
LEMMA DivFalls ==
    ASSUME NEW a \in Nat, NEW d \in Nat, NEW e \in Nat, d > 0, d <= e
    PROVE  a \div e <= a \div d
<1>1. PICK q \in Nat : q = a \div d OBVIOUS
<1>2. PICK r \in Nat : r = a \div e OBVIOUS
<1>3. a < q * d + d /\ r * e <= a BY <1>1, <1>2
<1>4. SUFFICES ASSUME q + 1 <= r PROVE FALSE BY <1>1, <1>2
<1>5. (q + 1) * d <= r * d BY <1>4
<1>6. r * d <= r * e OBVIOUS
<1> QED BY <1>3, <1>5, <1>6

\* The quotient of the DAC reference for the trims x and v.
DacQuotient(x, v) == (16515 * (x + 1000)) \div (v * 2 + 1000)

\* It is at most 26660, grows with the current trim and falls with the voltage trim.
LEMMA DacQuotientIs ==
    ASSUME NEW x \in Int, -512 <= x, x < 512, NEW v \in Int, -32 <= v, v < 32
    PROVE  DacQuotient(x, v) \in Nat /\ DacQuotient(x, v) <= 26660
<1>1. PICK q \in Nat : q = DacQuotient(x, v)
  BY DivIs DEF DacQuotient
<1>2. q * (v * 2 + 1000) <= 16515 * (x + 1000) BY <1>1 DEF DacQuotient
<1>3. q * 936 <= q * (v * 2 + 1000)
  <2>1. 936 <= v * 2 + 1000 OBVIOUS
  <2> QED BY <2>1
<1>4. 16515 * (x + 1000) <= 24954165 OBVIOUS
<1>5. q * 936 <= 24954165
  <2>1. PICK m \in Int : m = q * (v * 2 + 1000) BY <1>1
  <2> QED BY <1>2, <1>3, <1>4, <2>1
<1>6. q <= 26660 BY <1>5
<1> QED BY <1>1, <1>6

LEMMA DacQuotientMonotone ==
    ASSUME NEW x \in Int, -512 <= x, x < 512, NEW v \in Int, -32 <= v, v < 32
    PROVE  /\ x < 511 => DacQuotient(x, v) <= DacQuotient(x + 1, v)
           /\ v < 31 => DacQuotient(x, v + 1) <= DacQuotient(x, v)
<1> DEFINE a == 16515 * (x + 1000)
           b == 16515 * (x + 1 + 1000)
           d == v * 2 + 1000
           e == (v + 1) * 2 + 1000
<1>1. a \in Nat /\ b \in Nat /\ d \in Nat /\ e \in Nat /\ d > 0 /\ a <= b /\ d <= e OBVIOUS
<1>2. DacQuotient(x, v) = a \div d /\ DacQuotient(x + 1, v) = b \div d
      /\ DacQuotient(x, v + 1) = a \div e
  BY DEF DacQuotient
<1> HIDE DEF a, b, d, e
<1> QED BY <1>1, <1>2, DivGrows, DivFalls

\* As long as the product fits the register, the register is the quotient's multiple.
LEMMA DacVcalbIs ==
    ASSUME sel = "DAC", Init0 \in Nat, Init0 <= 10068, NEW x \in Int, -512 <= x, x < 512, NEW v \in Int, -32 <= v, v < 32
    PROVE  Vcalb(x, v) = (DacQuotient(x, v) * Init0) \div 4096
<1>1. PICK q \in Nat : q = DacQuotient(x, v) /\ q <= 26660
  <2>1. DacQuotient(x, v) \in Nat /\ DacQuotient(x, v) <= 26660 BY DacQuotientIs
  <2> QED BY <2>1
<1>2. VcalK(v) = v * 2 + 1000 BY DEF VcalK
<1>3. (4096 * 12600) \div 3125 = 16515 OBVIOUS
<1>4. Quot(16515 * (x + 1000), v * 2 + 1000) = q BY <1>1 DEF Quot, DacQuotient
<1>5. Vcalb(x, v) = ((q * Init0) \div 4096) % 65536 BY <1>2, <1>3, <1>4 DEF Vcalb
<1>6. q * Init0 \in Nat /\ q * Init0 <= 26660 * 10068
  <2>1. q * Init0 <= 26660 * Init0 BY <1>1
  <2>2. 26660 * Init0 <= 26660 * 10068 OBVIOUS
  <2>3. PICK m \in Int : m = q * Init0 /\ m >= 0 BY <1>1
  <2> QED BY <2>1, <2>2, <2>3
<1>7. PICK p \in Nat : p = q * Init0 /\ p <= 26660 * 10068 BY <1>6
<1>8. (p \div 4096) % 65536 = p \div 4096 BY <1>7
<1> QED BY <1>1, <1>5, <1>7, <1>8

\* For the DAC reference the calibration is monotone in both trims.
LEMMA DacVcalbMonotone ==
    ASSUME sel = "DAC", Init0 \in Nat, Init0 <= 10068, NEW x \in Int, -512 <= x, x < 512, NEW v \in Int, -32 <= v, v < 32
    PROVE  /\ x < 511 => Vcalb(x, v) <= Vcalb(x + 1, v)
           /\ v < 31 => Vcalb(x, v + 1) <= Vcalb(x, v)
<1>1. ASSUME NEW q \in Nat, NEW r \in Nat, q <= r
      PROVE  (q * Init0) \div 4096 <= (r * Init0) \div 4096
  <2>1. q * Init0 \in Nat /\ r * Init0 \in Nat /\ q * Init0 <= r * Init0 BY <1>1
  <2>2. PICK a \in Nat, b \in Nat : a = q * Init0 /\ b = r * Init0 /\ a <= b BY <2>1
  <2> QED BY <2>2, DivGrows
<1>2. ASSUME x < 511 PROVE Vcalb(x, v) <= Vcalb(x + 1, v)
  <2>1. x + 1 \in Int /\ -512 <= x + 1 /\ x + 1 < 512 BY <1>2
  <2>2. /\ DacQuotient(x, v) \in Nat /\ DacQuotient(x + 1, v) \in Nat
        /\ DacQuotient(x, v) <= DacQuotient(x + 1, v)
    BY <1>2, <2>1, DacQuotientIs, DacQuotientMonotone
  <2> QED BY <1>1, <2>1, <2>2, DacVcalbIs
<1>3. ASSUME v < 31 PROVE Vcalb(x, v + 1) <= Vcalb(x, v)
  <2>1. v + 1 \in Int /\ -32 <= v + 1 /\ v + 1 < 32 BY <1>3
  <2>2. /\ DacQuotient(x, v) \in Nat /\ DacQuotient(x, v + 1) \in Nat
        /\ DacQuotient(x, v + 1) <= DacQuotient(x, v)
    BY <1>3, <2>1, DacQuotientIs, DacQuotientMonotone
  <2> QED BY <1>1, <2>1, <2>2, DacVcalbIs
<1> QED BY <1>2, <1>3

-----------------------------------------------------------------------------
(* The invariant.                                                          *)

\* The voltage trim that VDSEL selects.
Selected == IF sel = "VSENSE" THEN Vcalk(vsn) ELSE InternalVcalk(tem4)

\* What the register holds is computed from the trims of this amplifier.
Computed == dspvcalb # -1 => dspvcalb = Vcalb(Icalk(isn), Selected)

VcalbIInv == VcalbTypeOK /\ Computed /\ OopsNeedsFailure

\* The trims are pairs of the sets of bits that the assumption names.
LEMMA TrimsTyped ==
    ASSUME VcalbTypeOK
    PROVE  isn \in Pairs(9) /\ vsn \in Pairs(9) /\ tem4 \in Pairs(5)
BY VcalbAssumption DEF VcalbTypeOK, Pairs, Bits

\* The default of the register has sixteen bits.
LEMMA Init0Typed == Init0 \in Nat /\ Init0 < 65536 /\ Vsn # {} /\ Tem4 # {}
BY VcalbAssumption

\* No trims make the divisor zero.
LEMMA DivisorPositive ==
    ASSUME VcalbTypeOK
    PROVE  Selected \in Int /\ VcalK(Selected) \in Nat /\ VcalK(Selected) > 0
<1>1. CASE sel = "VSENSE"
  <2>1. Selected = Vcalk(vsn) /\ VcalK(Selected) = Selected + 1000 BY <1>1 DEF Selected, VcalK
  <2>2. Selected \in Int /\ -512 <= Selected /\ Selected <= 512 BY <2>1, TrimsTyped, VcalkIs
  <2> QED BY <2>1, <2>2
<1>2. CASE sel # "VSENSE"
  <2>1. Selected = InternalVcalk(tem4) /\ VcalK(Selected) = Selected * 2 + 1000
    BY <1>2 DEF Selected, VcalK
  <2>2. Selected \in Int /\ -32 <= Selected /\ Selected < 32 BY <2>1, TrimsTyped, InternalIs
  <2> QED BY <2>1, <2>2
<1> QED BY <1>1, <1>2

\* The register receives sixteen bits.
LEMMA VcalbTyped ==
    ASSUME VcalbTypeOK
    PROVE  Vcalb(Icalk(isn), Selected) \in Nat /\ Vcalb(Icalk(isn), Selected) < 65536
<1> DEFINE acc == IF sel = "VSENSE" THEN (4096 * 18875) \div 3125 ELSE (4096 * 12600) \div 3125
           n == acc * (Icalk(isn) + 1000)
           q == Quot(n, VcalK(Selected))
<1>1. acc \in Nat OBVIOUS
<1>2. Icalk(isn) \in Int /\ -512 <= Icalk(isn) /\ Icalk(isn) < 512 BY TrimsTyped, IcalkIs
<1> HIDE DEF acc
<1>3. n \in Nat BY <1>1, <1>2
<1>4. Vcalb(Icalk(isn), Selected) = ((q * Init0) \div 4096) % 65536 BY DEF Vcalb, acc
<1> HIDE DEF n
<1>5. q \in Nat
  <2>1. PICK k \in Nat : k = VcalK(Selected) /\ k > 0 BY DivisorPositive
  <2>2. q = n \div k BY <1>3, <2>1 DEF Quot
  <2> QED BY <1>3, <2>1, <2>2, DivIs
<1> HIDE DEF q
<1>6. q * Init0 \in Nat BY <1>5, Init0Typed
<1>7. PICK p \in Nat : p = q * Init0 BY <1>6
<1>8. (p \div 4096) % 65536 \in Nat /\ (p \div 4096) % 65536 < 65536 OBVIOUS
<1> QED BY <1>4, <1>7, <1>8

\* The calibration that Vcalb computes with the reference s.
VcalbOf(s, x, v) ==
    LET acc == IF s = "VSENSE" THEN (4096 * 18875) \div 3125 ELSE (4096 * 12600) \div 3125
        k == IF s = "VSENSE" THEN v + 1000 ELSE v * 2 + 1000
    IN  ((Quot(acc * (x + 1000), k) * Init0) \div 4096) % 65536

\* It stays as long as the trims, the reference and the check mode do.
LEMMA VcalbStays ==
    ASSUME UNCHANGED <<sel, check_val, isn, vsn, tem4>>
    PROVE  Vcalb(Icalk(isn), Selected)' = Vcalb(Icalk(isn), Selected)
<1>1. sel' = sel /\ check_val' = check_val /\ isn' = isn /\ vsn' = vsn /\ tem4' = tem4 OBVIOUS
<1>2. Icalk(isn)' = Icalk(isn) BY <1>1, Zenon DEF Icalk, Combine
<1>3. Selected' = Selected BY <1>1, Zenon DEF Selected, Vcalk, InternalVcalk, Combine
<1>4. Vcalb(Icalk(isn), Selected) = VcalbOf(sel, Icalk(isn), Selected)
  BY DEF Vcalb, VcalbOf, VcalK
<1>5. Vcalb(Icalk(isn), Selected)' = VcalbOf(sel', Icalk(isn)', Selected')
  BY DEF Vcalb, VcalbOf, VcalK
<1> QED BY <1>1, <1>2, <1>3, <1>4, <1>5, Zenon

\* A bad fuse in one copy leaves the combination as it is.
LEMMA OneBadFuseHarmless ==
    ASSUME VcalbTypeOK
    PROVE  OneBadFuse
<1> SUFFICES ASSUME NEW b \in 0..9, isn[1] = isn[2]
             PROVE  /\ check_val = "OR" => Icalk(<<isn[1] \ {b}, isn[2]>>) = Icalk(isn)
                    /\ check_val = "AND" => Icalk(<<isn[1], isn[2] \cup {b}>>) = Icalk(isn)
  BY DEF OneBadFuse
<1>1. check_val = "OR" => Combine(<<isn[1] \ {b}, isn[2]>>) = Combine(isn) BY DEF Combine
<1>2. check_val = "AND" => Combine(<<isn[1], isn[2] \cup {b}>>) = Combine(isn) BY DEF Combine
<1> QED BY <1>1, <1>2 DEF Icalk

\* The strengthened invariant gives every part of the one the run checks.
LEMMA VcalbInvHolds == VcalbIInv => VcalbInv
<1> SUFFICES ASSUME VcalbIInv PROVE VcalbInv OBVIOUS
<1>1. VcalbTypeOK /\ Computed /\ OopsNeedsFailure BY DEF VcalbIInv
<1>2. IcalkExtends BY <1>1, TrimsTyped, IcalkIs DEF IcalkExtends
<1>3. InternalExtends BY <1>1, TrimsTyped, InternalIs DEF InternalExtends
<1>4. OneBadFuse BY <1>1, OneBadFuseHarmless
<1>5. DacMonotone
  <2>1. SUFFICES ASSUME sel = "DAC", dspvcalb # -1, Init0 <= 10068
                 PROVE  /\ Icalk(isn) < 511 => dspvcalb <= Vcalb(Icalk(isn) + 1, InternalVcalk(tem4))
                        /\ InternalVcalk(tem4) < 31 =>
                             dspvcalb >= Vcalb(Icalk(isn), InternalVcalk(tem4) + 1)
    BY DEF DacMonotone
  <2>2. /\ Icalk(isn) \in Int /\ -512 <= Icalk(isn) /\ Icalk(isn) < 512
        /\ InternalVcalk(tem4) \in Int /\ -32 <= InternalVcalk(tem4) /\ InternalVcalk(tem4) < 32
    BY <1>1, TrimsTyped, IcalkIs, InternalIs
  <2>3. dspvcalb = Vcalb(Icalk(isn), InternalVcalk(tem4)) BY <1>1, <2>1 DEF Computed, Selected
  <2>4. PICK x \in Int, v \in Int : /\ x = Icalk(isn) /\ -512 <= x /\ x < 512
                                     /\ v = InternalVcalk(tem4) /\ -32 <= v /\ v < 32
    BY <2>2
  <2>5. Init0 \in Nat BY <2>1, Init0Typed
  <2>6. /\ x < 511 => Vcalb(x, v) <= Vcalb(x + 1, v)
        /\ v < 31 => Vcalb(x, v + 1) <= Vcalb(x, v)
    BY <2>1, <2>4, <2>5, DacVcalbMonotone
  <2>7. dspvcalb = Vcalb(x, v) /\ dspvcalb \in Int
    BY <1>1, <2>1, <2>3, <2>4 DEF VcalbTypeOK
  <2>8. v < 31 => dspvcalb >= Vcalb(x, v + 1)
    <3>1. SUFFICES ASSUME v < 31 PROVE dspvcalb >= Vcalb(x, v + 1) OBVIOUS
    <3> QED BY <2>6, <2>7, <3>1
  <2> QED BY <2>4, <2>6, <2>7, <2>8
<1> QED BY <1>1, <1>2, <1>3, <1>4, <1>5 DEF VcalbInv

\* It holds at the start.
LEMMA VcalbInitInv == VcalbInit => VcalbIInv
<1> SUFFICES ASSUME VcalbInit PROVE VcalbIInv OBVIOUS
<1>1. vsn \in Vsn /\ tem4 \in Tem4 BY Init0Typed DEF VcalbInit
<1>2. dspvcalb \in Int /\ -1 <= dspvcalb /\ dspvcalb < 65536 BY DEF VcalbInit
<1>3. sel \in {"VSENSE", "DAC"} /\ check_val \in {"AND", "OR"} /\ isn \in Isn BY Zenon DEF VcalbInit
<1>4. failed \in BOOLEAN /\ outcome \in {"call", "done", "oops"} BY DEF VcalbInit
<1>5. VcalbTypeOK BY <1>1, <1>2, <1>3, <1>4 DEF VcalbTypeOK
<1> QED BY <1>5 DEF VcalbInit, VcalbIInv, Computed, OopsNeedsFailure

\* It is kept by each of the three ways the call can go.
LEMMA VcalbStep == VcalbIInv /\ [VcalbNext]_vcalbVars => VcalbIInv'
<1> SUFFICES ASSUME VcalbIInv, [VcalbNext]_vcalbVars PROVE VcalbIInv' OBVIOUS
<1>1. VcalbTypeOK /\ Computed /\ OopsNeedsFailure BY DEF VcalbIInv
<1>2. CASE SetVcalb
  <2>1. VcalK(Selected) # 0 BY <1>1, DivisorPositive
  <2>2. outcome' = "done" /\ dspvcalb' = Vcalb(Icalk(isn), Selected)
        /\ UNCHANGED <<sel, check_val, isn, vsn, tem4, failed>>
    BY <1>2, <2>1 DEF SetVcalb, Selected
  <2>3. VcalbTypeOK' BY <1>1, <2>2, VcalbTyped DEF VcalbTypeOK
  <2>4. Vcalb(Icalk(isn), Selected)' = Vcalb(Icalk(isn), Selected)
    BY <2>2, VcalbStays
  <2> QED BY <2>2, <2>3, <2>4 DEF VcalbIInv, Computed, OopsNeedsFailure
<1>3. ASSUME UNCHANGED <<sel, check_val, isn, vsn, tem4, dspvcalb>> PROVE Computed'
  <2>1. Vcalb(Icalk(isn), Selected)' = Vcalb(Icalk(isn), Selected)
    BY <1>3, VcalbStays
  <2> QED BY <1>1, <1>3, <2>1 DEF Computed
<1>4. CASE EarlyFail
  BY <1>1, <1>3, <1>4 DEF EarlyFail, VcalbIInv, VcalbTypeOK, OopsNeedsFailure
<1>5. CASE LateFail
  <2>1. outcome' \in {"oops", "done"} BY <1>5 DEF LateFail
  <2> QED BY <1>1, <1>3, <1>5, <2>1 DEF LateFail, VcalbIInv, VcalbTypeOK, OopsNeedsFailure
<1>6. CASE UNCHANGED vcalbVars
  BY <1>1, <1>3, <1>6 DEF vcalbVars, VcalbIInv, VcalbTypeOK, OopsNeedsFailure
<1> QED BY <1>2, <1>4, <1>5, <1>6 DEF VcalbNext

\* For every set of trims: the current trim and the internal voltage trim are read
\* with their signs, one bad fuse harms nothing, the DAC calibration is monotone
\* and fits its register, and only a failed read can divide by zero.
THEOREM VcalbCorrect == VcalbSpec => []VcalbInv
BY VcalbInitInv, VcalbStep, VcalbInvHolds, PTL DEF VcalbSpec

=============================================================================
