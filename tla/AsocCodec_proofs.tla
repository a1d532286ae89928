----------------------- MODULE AsocCodec_proofs -----------------------
(***************************************************************************)
(* Proofs about the three threads of the ASoC component, for any profiles, *)
(* volumes, settings and retries, and every overlap of the threads.  A     *)
(* thread is what is left of one of six programs; the invariant says for   *)
(* every step of each what the others may be doing and what the amp is     *)
(* like.                                                                   *)
(***************************************************************************)
EXTENDS AsocCodec, SequenceTheorems, TLAPS

\* What is left of a program from its k-th step on.
Suffix(P, k) == SubSeq(P, k, Len(P))
Is(t, P, k) == todo[t] = Suffix(P, k)

Off == status = "PW_OFF"

\* profile_set restarts the amp: it is past its choice and not at its end.
Restarting == lock = "control" /\ Len(todo["control"]) \in 2..26

-----------------------------------------------------------------------------
(* Where the threads may be, whatever overlaps.                            *)

\* PRE_PMU before its k-th step, POST_PMD, and the locked part of profile_set
\* and startup_work.
UpSteps(k) ==
    /\ Is("event", PreUp, k) /\ (lock = "event" <=> k >= 2)
    /\ widget /\ Off /\ ~Restarting
    /\ k <= 9 => ~queued /\ Quiet("work")
DownSteps(k) ==
    /\ Is("event", PostDown, k) /\ (lock = "event" <=> k >= 2)
    /\ k >= 3 => ~queued /\ Quiet("work")
    /\ k <= 8 => widget
    /\ k >= 4 => Off
StartSteps(t, k) ==
    /\ Is(t, SetProfile, k) /\ lock = t
    /\ k = 3 => ~Off
    /\ k \in 4..27 => Off
    /\ k \in 3..27 => widget

\* The steps that a calibration takes for the result of its measurement, and
\* the places of a control without the lock.
Extras == {<<"dsp_bypass", "dsp_on">>, <<"dsp_on">>, FadeOut, <<"hmute">>}
AtExtra(x) == todo["control"] = x \o Suffix(Calibrate, 13)
Gentle == Quiet("control") \/ Is("control", SetProfile, 1)
Loose ==
    \/ \E k \in 1..3 : Is("control", SetVolume, k)
    \/ \E k \in 1..19 : Is("control", Calibrate, k)
    \/ \E x \in Extras : AtExtra(x)

EventInv ==
    \/ Quiet("event") /\ lock # "event"
    \/ \E k \in 1..10 : UpSteps(k)
    \/ \E k \in 1..9 : DownSteps(k)
WorkInv ==
    \/ Quiet("work") /\ lock # "work"
    \/ todo["work"] = StartWork /\ lock # "work"
    \/ \E k \in 14..28 : StartSteps("work", k)
ControlInv ==
    \/ lock # "control" /\ (Gentle \/ Loose)
    \/ \E k \in 2..28 : StartSteps("control", k)

\* The delayed work, from the queue to its lock: the amp is off.
Waits == queued \/ todo["work"] = StartWork
QueueInv ==
    /\ queued => Quiet("work")
    /\ Waits => Off /\ ~Restarting
    /\ queued \/ ~Quiet("work") => widget

\* start_pa ends when its attempts are used up.
CountInv == \A t \in Threads : attempt[t] < Retries \/ todo[t] = <<"end">>

PlacesInv ==
    /\ EventInv /\ WorkInv /\ ControlInv /\ QueueInv
    /\ ~Off => widget
    /\ ~present => ~widget /\ ~queued /\ AllQuiet
StepsInv == TypeOK /\ CountInv /\ PlacesInv

-----------------------------------------------------------------------------
(* What the amp is like, in every overlap.                                 *)

\* calib_set between its start and its end, and a control that leaves the
\* settings and the DSP alone or has not begun with them.
InCali ==
    \/ \E k \in 2..18 : Is("control", Calibrate, k)
    \/ \E x \in Extras : AtExtra(x)
Light ==
    \/ Gentle
    \/ \E k \in 1..3 : Is("control", SetVolume, k)
    \/ Is("control", Calibrate, 19)

\* cali_running covers a whole calibration.
RunInv == InCali /\ lock # "control" => cali_running

Still == hmute /\ dspby

\* The settings of a running amp: those of the profile that is loaded, but for
\* two that may be those of a profile whose registers are written.
Good(f) ==
    /\ \A s \in Settings \cap {"lp", "cfg"} : f[s] = prof_cur
    /\ \A s \in Settings \cap {"ng", "vol"} : f[s] \in {prof_cur, prof_index}
Fixed == \A s \in Settings \cap {"ng", "vol"} : set[s] = prof_index
Fresh == \A s \in Settings : set[s] = prof_cur

\* The settings once a calibration before its k-th step has put back those it
\* overrides; one that failed leaves some.
Before(over) == [s \in Settings |-> IF s \in over THEN saved[s] ELSE set[s]]
Restores(over) == harm = "none" => Good(Before(over))
Overridden(k) == CASE k \in {10, 11, 14} -> {"ng", "lp", "cfg"}
                   [] k \in 7..9 -> {"ng", "lp"}
                   [] k \in 12..13 -> Settings
                   [] k \in 15..16 -> {"cfg"}
                   [] OTHER -> {}

\* The amp that nobody starts or stops: silent when off, else in what the
\* control without the lock leaves of its settings.
Settled ==
    IF Light \/ lock = "control" THEN Restores({})
    ELSE \/ \E k \in 1..18 : Is("control", Calibrate, k) /\ Restores(Overridden(k))
         \/ \E x \in Extras : AtExtra(x) /\ Restores(Settings)
Rest == IF Off THEN Still ELSE Settled

\* The amp before the k-th step of each program.
UpRight(k) ==
    /\ k \in {2, 3, 4, 10} => Rest
    /\ k \in 5..9 => Still
    /\ k \in 5..8 => Fixed
    /\ k = 9 => Fresh
DownRight(k) ==
    /\ k \in {2, 3, 9} => Rest
    /\ k = 6 => hmute
    /\ k \in 7..8 => Still
StartRight(k) ==
    /\ k \in {2, 28} => Rest
    /\ k \in {6, 17, 21} => hmute
    /\ k \in (7..16) \cup (22..27) => Still
    /\ k \in (10..13) \cup (23..26) => Fixed
    /\ k \in 14..27 => Good(set)

\* Who has the lock has the amp.
EventHas ==
    \/ \E k \in 2..10 : UpSteps(k) /\ UpRight(k)
    \/ \E k \in 2..9 : DownSteps(k) /\ DownRight(k)
StartHas(t, first) == \E k \in first..28 : StartSteps(t, k) /\ StartRight(k)

\* What holds unless the amp was stopped under a calibration, which has
\* an amp that is off to itself only then.
AmpInv ==
    harm # "interrupted" =>
        /\ lock = "event" => EventHas
        /\ lock = "work" => StartHas("work", 14)
        /\ lock = "control" => StartHas("control", 2)
        /\ lock = Nobody => Rest
        /\ Off => Light \/ lock = "control"
        /\ Waits => Fresh

\* What a fade_in has taken is ctl_volume until a control overtakes it.
FadeInv == ~overtaken => \A t \in Threads : At(t, "fade_write") => fade[t] = ctl_volume

\* The volume is the chosen one, or somebody is about to write it or to mute.
Fading(t) == \E l \in {"set_vol", "fade_read", "fade_write", "hmute"} : At(t, l)
VolInv ==
    (~hmute /\ ~overtaken /\ (~Off \/ \E t \in Threads : At(t, "started"))) =>
        volume = ctl_volume \/ \E t \in Threads : Fading(t)

-----------------------------------------------------------------------------
(* The programs as sequences of steps.                                     *)

Labels == {"lock", "cancel", "start", "regs", "fade_out", "hmute", "dsp_bypass", "images",
           "queue", "end", "stop", "pwr_off", "down", "choose", "pwr_on", "checks", "dsp_on",
           "unmute", "fade_read", "fade_write", "started", "failed", "next", "set_ctl",
           "set_vol", "cali_begin", "cali_check", "backup", "cali_quiet", "cali_cfg",
           "cali_vol", "measure", "put_vol", "recover", "put_cfg", "cali_end"}

\* PRE_PMU of playback_event, label by label.
LEMMA UpProgram ==
    /\ PreUp \in Seq(Labels) /\ Len(PreUp) = 10
    /\ PreUp[1] = "lock" /\ PreUp[2] = "cancel" /\ PreUp[3] = "start" /\ PreUp[4] = "regs"
    /\ PreUp[5] = "fade_out" /\ PreUp[6] = "hmute" /\ PreUp[7] = "dsp_bypass"
    /\ PreUp[8] = "images" /\ PreUp[9] = "queue" /\ PreUp[10] = "end"
BY DEF PreUp, FwUpdate, FadeOut, Labels

\* POST_PMD of playback_event, label by label.
LEMMA DownProgram ==
    /\ PostDown \in Seq(Labels) /\ Len(PostDown) = 9
    /\ PostDown[1] = "lock" /\ PostDown[2] = "cancel" /\ PostDown[3] = "stop"
    /\ PostDown[4] = "fade_out" /\ PostDown[5] = "hmute" /\ PostDown[6] = "dsp_bypass"
    /\ PostDown[7] = "pwr_off" /\ PostDown[8] = "down" /\ PostDown[9] = "end"
BY DEF PostDown, Stop, FadeOut, Labels

\* profile_set has 28 steps; its four parts follow, label by label.
LEMMA ProfileProgram == SetProfile \in Seq(Labels) /\ Len(SetProfile) = 28
BY DEF SetProfile, Stop, StartPa, Attempt, FwUpdate, FadeOut, FadeIn, Labels

\* profile_set: the lock, the choice and aw88399_stop.
LEMMA ProfileStops ==
    /\ SetProfile[1] = "lock" /\ SetProfile[2] = "choose" /\ SetProfile[3] = "stop"
    /\ SetProfile[4] = "fade_out" /\ SetProfile[5] = "hmute" /\ SetProfile[6] = "dsp_bypass"
    /\ SetProfile[7] = "pwr_off" /\ SetProfile[8] = "start"
BY DEF SetProfile, Stop, StartPa, Attempt, FwUpdate, FadeOut, FadeIn

\* profile_set: the fw_update of aw88399_start.
LEMMA ProfileLoads ==
    /\ SetProfile[9] = "regs" /\ SetProfile[10] = "fade_out" /\ SetProfile[11] = "hmute"
    /\ SetProfile[12] = "dsp_bypass" /\ SetProfile[13] = "images"
BY DEF SetProfile, Stop, StartPa, Attempt, FwUpdate, FadeOut, FadeIn

\* profile_set and startup_work: an attempt of start_pa.
LEMMA ProfileStarts ==
    /\ SetProfile[14] = "pwr_on" /\ SetProfile[15] = "checks"
    /\ SetProfile[16] = "dsp_on" /\ SetProfile[17] = "unmute" /\ SetProfile[18] = "fade_read"
    /\ SetProfile[19] = "fade_write" /\ SetProfile[20] = "started" /\ SetProfile[21] = "failed"
BY DEF SetProfile, Stop, StartPa, Attempt, FwUpdate, FadeOut, FadeIn

\* profile_set and startup_work: the fw_update after a failed attempt.
LEMMA ProfileReloads ==
    /\ SetProfile[22] = "regs" /\ SetProfile[23] = "fade_out" /\ SetProfile[24] = "hmute"
    /\ SetProfile[25] = "dsp_bypass" /\ SetProfile[26] = "images" /\ SetProfile[27] = "next"
    /\ SetProfile[28] = "end"
BY DEF SetProfile, Stop, StartPa, Attempt, FwUpdate, FadeOut, FadeIn

\* volume_set, label by label.
LEMMA VolumeProgram ==
    /\ SetVolume \in Seq(Labels) /\ Len(SetVolume) = 3
    /\ SetVolume[1] = "set_ctl" /\ SetVolume[2] = "set_vol" /\ SetVolume[3] = "end"
BY DEF SetVolume, Labels

\* calib_set has 19 steps; its two halves follow, label by label.
LEMMA CaliProgram == Calibrate \in Seq(Labels) /\ Len(Calibrate) = 19
BY DEF Calibrate, CaliOff, FadeIn, Labels

\* calib_set up to the DSP enabled with the calibration settings.
LEMMA CaliFirst ==
    /\ Calibrate[1] = "cali_begin" /\ Calibrate[2] = "unmute" /\ Calibrate[3] = "fade_read"
    /\ Calibrate[4] = "fade_write" /\ Calibrate[5] = "cali_check" /\ Calibrate[6] = "backup"
    /\ Calibrate[7] = "dsp_bypass" /\ Calibrate[8] = "cali_quiet" /\ Calibrate[9] = "cali_cfg"
    /\ Calibrate[10] = "dsp_on"
BY DEF Calibrate, CaliOff, FadeIn

\* calib_set from the measurement on.
LEMMA CaliLast ==
    /\ Calibrate[11] = "cali_vol" /\ Calibrate[12] = "measure"
    /\ Calibrate[13] = "put_vol" /\ Calibrate[14] = "recover" /\ Calibrate[15] = "dsp_bypass"
    /\ Calibrate[16] = "put_cfg" /\ Calibrate[17] = "dsp_on" /\ Calibrate[18] = "cali_end"
    /\ Calibrate[19] = "end"
BY DEF Calibrate, CaliOff, FadeIn

\* What is left before a step, and after it.
LEMMA StepsLeft ==
    ASSUME NEW P \in Seq(Labels), NEW k \in 1..Len(P)
    PROVE  /\ Suffix(P, k) # <<>> /\ Suffix(P, k) \in Seq(Labels)
           /\ Head(Suffix(P, k)) = P[k] /\ Tail(Suffix(P, k)) = Suffix(P, k + 1)
           /\ Len(Suffix(P, k)) = Len(P) - k + 1
           /\ \A i \in 1..(Len(P) - k + 1) : Suffix(P, k)[i] = P[k + i - 1]
<1> DEFINE s == Suffix(P, k)
           r == Suffix(P, k + 1)
<1>0. s \in Seq(Labels) /\ Len(s) = Len(P) - k + 1 BY DEF Suffix
<1>1. s # <<>> /\ s \in Seq(Labels) /\ Len(s) = Len(P) - k + 1 BY <1>0
<1>2. \A i \in 1..(Len(P) - k + 1) : s[i] = P[k + i - 1] BY DEF Suffix
<1>3. r \in Seq(Labels) /\ Len(r) = Len(P) - k /\ \A i \in 1..(Len(P) - k) : r[i] = P[k + i]
  BY DEF Suffix
<1> HIDE DEF s, r
<1>4. Head(s) = P[k] BY <1>1, <1>2
<1>5. Tail(s) \in Seq(Labels) /\ Len(Tail(s)) = Len(P) - k
  BY <1>1
<1>6. \A i \in 1..(Len(P) - k) : Tail(s)[i] = P[k + i] BY <1>1, <1>2
<1>7. Tail(s) = r BY <1>3, <1>5, <1>6, SeqEqual
<1> QED BY <1>1, <1>2, <1>4, <1>7 DEF s, r

\* A program is its own suffix from the first step on.
LEMMA AllOfIt ==
    ASSUME NEW P \in Seq(Labels)
    PROVE  Suffix(P, 1) = P /\ Suffix(P, Len(P) + 1) = <<>>
<1>1. Suffix(P, Len(P) + 1) = <<>> BY DEF Suffix
<1>2. Suffix(P, 1) = P BY SubSeqFull DEF Suffix
<1> QED BY <1>1, <1>2

\* A jump to the first step that has one of the labels.
LEMMA Jumps ==
    ASSUME NEW P \in Seq(Labels), NEW k \in 1..Len(P), NEW t, Is(t, P, k),
           NEW L, NEW j \in k..Len(P), P[j] \in L, \A i \in k..(j - 1) : P[i] \notin L
    PROVE  From(t, L) = Suffix(P, j)
<1> DEFINE s == todo[t]
           I == {i \in 1..Len(s) : s[i] \in L}
<1>1. /\ s \in Seq(Labels) /\ Len(s) = Len(P) - k + 1
      /\ \A i \in 1..(Len(P) - k + 1) : s[i] = P[k + i - 1]
  BY StepsLeft DEF Is
<1>2. From(t, L) = SubSeq(s, IF I # {} THEN Min(I) ELSE 0, Len(s))
  BY DEF From, SelectInSeq
<1> HIDE DEF s
<1>3. j - k + 1 \in I BY <1>1
<1>4. \A i \in I : j - k + 1 <= i BY <1>1
<1>5. I \subseteq Int BY <1>1
<1> HIDE DEF I
<1>6. Min(I) = j - k + 1
  <2> DEFINE m == Min(I)
  <2>1. m \in I /\ \A i \in I : m <= i BY <1>3, <1>4 DEF Min
  <2> HIDE DEF m
  <2>2. m \in Int /\ m <= j - k + 1 /\ j - k + 1 <= m BY <1>3, <1>4, <1>5, <2>1
  <2>3. m = j - k + 1 BY <2>2
  <2> QED BY <2>3 DEF m
<1>7. From(t, L) = SubSeq(s, j - k + 1, Len(s)) BY <1>2, <1>3, <1>6
<1>8. SubSeq(s, j - k + 1, Len(s)) = SubSeq(P, j, Len(P))
  <2> DEFINE a == SubSeq(s, j - k + 1, Len(s))
             b == SubSeq(P, j, Len(P))
  <2>1. /\ a \in Seq(Labels) /\ Len(a) = Len(P) - j + 1
        /\ \A i \in 1..(Len(P) - j + 1) : a[i] = s[j - k + i]
    BY <1>1
  <2>2. /\ b \in Seq(Labels) /\ Len(b) = Len(P) - j + 1
        /\ \A i \in 1..(Len(P) - j + 1) : b[i] = P[j + i - 1]
    OBVIOUS
  <2>3. \A i \in 1..(Len(P) - j + 1) : a[i] = b[i] BY <1>1, <2>1, <2>2
  <2> QED BY <2>1, <2>2, <2>3, SeqEqual
<1> QED BY <1>7, <1>8 DEF Suffix

\* A step before others.
LEMMA Joined ==
    ASSUME NEW x \in Labels, NEW a \in Seq(Labels)
    PROVE  /\ <<x>> \o a \in Seq(Labels) /\ Len(<<x>> \o a) = Len(a) + 1
           /\ <<x>> \o a # <<>> /\ Head(<<x>> \o a) = x /\ Tail(<<x>> \o a) = a
<1> DEFINE s == <<x>> \o a
<1>1. <<x>> \in Seq(Labels) /\ Len(<<x>>) = 1 /\ <<x>>[1] = x OBVIOUS
<1>2. /\ s \in Seq(Labels) /\ Len(s) = Len(a) + 1 /\ s[1] = x
      /\ \A i \in 1..Len(a) : s[i + 1] = a[i]
  BY <1>1, ConcatProperties
<1> HIDE DEF s
<1>3. s # <<>> BY <1>2
<1>4. Tail(s) \in Seq(Labels) /\ Len(Tail(s)) = Len(a) /\ \A i \in 1..Len(a) : Tail(s)[i] = a[i]
  BY <1>2, <1>3, HeadTailProperties
<1>5. Tail(s) = a BY <1>4, SeqEqual
<1>6. Head(s) = x BY <1>2, <1>3
<1> QED BY <1>2, <1>3, <1>5, <1>6 DEF s

\* The last suffix of a program is its end, behind which nothing is left.
LEMMA LastSteps ==
    ASSUME NEW P \in Seq(Labels), Len(P) >= 1, P[Len(P)] = "end"
    PROVE  Suffix(P, Len(P)) = <<"end">>
<1> DEFINE s == Suffix(P, Len(P))
<1>0. Len(P) \in 1..Len(P) /\ 1 \in 1..(Len(P) - Len(P) + 1) OBVIOUS
<1>a. s \in Seq(Labels) /\ Len(s) = Len(P) - Len(P) + 1 /\ s[1] = P[Len(P) + 1 - 1]
  BY <1>0, StepsLeft
<1> HIDE DEF s
<1>1. s \in Seq(Labels) /\ Len(s) = 1 /\ s[1] = "end" BY <1>a
<1>2. <<"end">> \in Seq(Labels) /\ Len(<<"end">>) = 1 /\ <<"end">>[1] = "end" BY DEF Labels
<1>3. s = <<"end">> BY <1>1, <1>2, SeqEqual
<1> QED BY <1>3 DEF s

\* Where the jumps of the model lead.
LEMMA Ends ==
    /\ Suffix(PreUp, 10) = <<"end">> /\ Suffix(PostDown, 9) = <<"end">>
    /\ Suffix(SetProfile, 28) = <<"end">> /\ Suffix(SetVolume, 3) = <<"end">>
    /\ Suffix(Calibrate, 19) = <<"end">>
<1>1. Suffix(PreUp, 10) = <<"end">>
  <2>1. PreUp \in Seq(Labels) /\ Len(PreUp) >= 1 /\ PreUp[Len(PreUp)] = "end" BY UpProgram
  <2>2. Suffix(PreUp, Len(PreUp)) = <<"end">> BY <2>1, LastSteps
  <2> QED BY <2>2, UpProgram
<1>2. Suffix(PostDown, 9) = <<"end">>
  <2>1. PostDown \in Seq(Labels) /\ Len(PostDown) >= 1 /\ PostDown[Len(PostDown)] = "end"
    BY DownProgram
  <2>2. Suffix(PostDown, Len(PostDown)) = <<"end">> BY <2>1, LastSteps
  <2> QED BY <2>2, DownProgram
<1>3. Suffix(SetProfile, 28) = <<"end">>
  <2>1. SetProfile \in Seq(Labels) /\ Len(SetProfile) >= 1 /\ SetProfile[Len(SetProfile)] = "end"
    BY ProfileProgram, ProfileReloads
  <2>2. Suffix(SetProfile, Len(SetProfile)) = <<"end">> BY <2>1, LastSteps
  <2> QED BY <2>2, ProfileProgram
<1>4. Suffix(SetVolume, 3) = <<"end">>
  <2>1. SetVolume \in Seq(Labels) /\ Len(SetVolume) >= 1 /\ SetVolume[Len(SetVolume)] = "end"
    BY VolumeProgram
  <2>2. Suffix(SetVolume, Len(SetVolume)) = <<"end">> BY <2>1, LastSteps
  <2> QED BY <2>2, VolumeProgram
<1>5. Suffix(Calibrate, 19) = <<"end">>
  <2>1. Calibrate \in Seq(Labels) /\ Len(Calibrate) >= 1 /\ Calibrate[Len(Calibrate)] = "end"
    BY CaliProgram, CaliLast
  <2>2. Suffix(Calibrate, Len(Calibrate)) = <<"end">> BY <2>1, LastSteps
  <2> QED BY <2>2, CaliProgram
<1> QED BY <1>1, <1>2, <1>3, <1>4, <1>5

\* Where every program begins and ends.
LEMMA Wholes ==
    /\ Suffix(PreUp, 1) = PreUp /\ Suffix(PreUp, 11) = <<>>
    /\ Suffix(PostDown, 1) = PostDown /\ Suffix(PostDown, 10) = <<>>
    /\ Suffix(SetProfile, 1) = SetProfile /\ Suffix(SetProfile, 29) = <<>>
    /\ Suffix(SetVolume, 1) = SetVolume /\ Suffix(SetVolume, 4) = <<>>
    /\ Suffix(Calibrate, 1) = Calibrate /\ Suffix(Calibrate, 20) = <<>>
<1>1. /\ PreUp \in Seq(Labels) /\ PostDown \in Seq(Labels) /\ SetProfile \in Seq(Labels)
      /\ SetVolume \in Seq(Labels) /\ Calibrate \in Seq(Labels)
  BY UpProgram, DownProgram, ProfileProgram, VolumeProgram, CaliProgram
<1>2. /\ Len(PreUp) + 1 = 11 /\ Len(PostDown) + 1 = 10 /\ Len(SetProfile) + 1 = 29
      /\ Len(SetVolume) + 1 = 4 /\ Len(Calibrate) + 1 = 20
  BY UpProgram, DownProgram, ProfileProgram, VolumeProgram, CaliProgram
<1>3. \A P \in Seq(Labels) : Suffix(P, 1) = P /\ Suffix(P, Len(P) + 1) = <<>> BY AllOfIt
<1> QED BY <1>1, <1>2, <1>3, Zenon

\* start_pa is the rest of profile_set, and all of the work after its lock.
LEMMA StartProgram ==
    /\ StartPa \o <<"end">> = Suffix(SetProfile, 14)
    /\ StartWork # <<>> /\ StartWork \in Seq(Labels) /\ Len(StartWork) = 16
    /\ Head(StartWork) = "lock" /\ Tail(StartWork) = Suffix(SetProfile, 14)
<1> DEFINE s == Suffix(SetProfile, 14)
           a == StartPa \o <<"end">>
<1>0. s \in Seq(Labels) /\ Len(s) = 15 /\ \A i \in 1..15 : s[i] = SetProfile[i + 13]
  <2>1. SetProfile \in Seq(Labels) /\ Len(SetProfile) = 28 /\ 14 \in 1..Len(SetProfile)
    BY ProfileProgram
  <2>2. /\ s \in Seq(Labels) /\ Len(s) = Len(SetProfile) - 14 + 1
        /\ \A i \in 1..(Len(SetProfile) - 14 + 1) : s[i] = SetProfile[14 + i - 1]
    BY <2>1, StepsLeft
  <2> HIDE DEF s
  <2> QED BY <2>1, <2>2
<1>1. a \in Seq(Labels) /\ Len(a) = 15
  BY DEF StartPa, Attempt, FwUpdate, FadeOut, FadeIn, Labels
<1>2. /\ a[1] = "pwr_on" /\ a[2] = "checks" /\ a[3] = "dsp_on" /\ a[4] = "unmute"
      /\ a[5] = "fade_read" /\ a[6] = "fade_write" /\ a[7] = "started" /\ a[8] = "failed"
      /\ a[9] = "regs" /\ a[10] = "fade_out" /\ a[11] = "hmute" /\ a[12] = "dsp_bypass"
      /\ a[13] = "images" /\ a[14] = "next" /\ a[15] = "end"
  BY DEF StartPa, Attempt, FwUpdate, FadeOut, FadeIn
<1>3. \A i \in 1..15 : a[i] = s[i]
  <2> HIDE DEF s, a
  <2>1. /\ a[1] = SetProfile[14] /\ a[2] = SetProfile[15] /\ a[3] = SetProfile[16]
        /\ a[4] = SetProfile[17] /\ a[5] = SetProfile[18] /\ a[6] = SetProfile[19]
        /\ a[7] = SetProfile[20] /\ a[8] = SetProfile[21] /\ a[9] = SetProfile[22]
        /\ a[10] = SetProfile[23] /\ a[11] = SetProfile[24] /\ a[12] = SetProfile[25]
        /\ a[13] = SetProfile[26] /\ a[14] = SetProfile[27] /\ a[15] = SetProfile[28]
    BY <1>2, ProfileStarts, ProfileReloads
  <2>2. ASSUME NEW i \in 1..15 PROVE a[i] = SetProfile[i + 13]
    <3>1. i \in {1, 2, 3, 4, 5, 6, 7, 8, 9, 10, 11, 12, 13, 14, 15} BY <2>2
    <3> QED BY <2>1, <3>1
  <2> QED BY <1>0, <2>2
<1>4. a = s
  <2> HIDE DEF s, a
  <2> QED BY <1>0, <1>1, <1>3, SeqEqual
<1>5. StartWork = <<"lock">> \o a
  <2>1. StartPa \in Seq(Labels) /\ <<"end">> \in Seq(Labels) /\ <<"lock">> \in Seq(Labels)
    BY DEF StartPa, Attempt, FwUpdate, FadeOut, FadeIn, Labels
  <2> QED BY <2>1, ConcatAssociative DEF StartWork
<1> HIDE DEF s, a
<1>6. /\ StartWork \in Seq(Labels) /\ Len(StartWork) = 16 /\ StartWork # <<>>
      /\ Head(StartWork) = "lock" /\ Tail(StartWork) = a
  <2>1. "lock" \in Labels BY DEF Labels
  <2>2. /\ <<"lock">> \o a \in Seq(Labels) /\ Len(<<"lock">> \o a) = Len(a) + 1
        /\ <<"lock">> \o a # <<>> /\ Head(<<"lock">> \o a) = "lock" /\ Tail(<<"lock">> \o a) = a
    BY <1>1, <2>1, Joined, Zenon
  <2>3. Len(a) + 1 = 16 BY <1>1
  <2> QED BY <1>5, <2>2, <2>3, Zenon
<1> QED BY <1>4, <1>6 DEF s, a

\* The ways out of a calibration are the last steps of a whole one.
LEMMA CaliEnds ==
    /\ CaliOff = Suffix(Calibrate, 15)
    /\ <<"put_cfg", "dsp_on", "cali_end", "end">> = Suffix(Calibrate, 16)
    /\ <<"dsp_on", "cali_end", "end">> = Suffix(Calibrate, 17)
    /\ <<"cali_end", "end">> = Suffix(Calibrate, 18)
<1> DEFINE s(k) == Suffix(Calibrate, k)
<1>1. ASSUME NEW k \in 15..18
      PROVE  /\ s(k) \in Seq(Labels) /\ Len(s(k)) = 20 - k
             /\ \A i \in 1..(20 - k) : s(k)[i] = Calibrate[k + i - 1]
  <2>1. Calibrate \in Seq(Labels) /\ Len(Calibrate) = 19 /\ k \in 1..Len(Calibrate)
    BY CaliProgram
  <2>2. /\ s(k) \in Seq(Labels) /\ Len(s(k)) = Len(Calibrate) - k + 1
        /\ \A i \in 1..(Len(Calibrate) - k + 1) : s(k)[i] = Calibrate[k + i - 1]
    BY <2>1, StepsLeft
  <2>3. Len(Calibrate) - k + 1 = 20 - k BY <2>1
  <2> QED BY <2>2, <2>3
<1> HIDE DEF s
<1>2. ASSUME NEW k \in 15..18, NEW q \in Seq(Labels), Len(q) = 20 - k,
             \A i \in 1..(20 - k) : q[i] = Calibrate[k + i - 1]
      PROVE  q = s(k)
  BY <1>1, <1>2, SeqEqual
<1>3. ASSUME NEW q, q = CaliOff PROVE q = s(15)
  <2>1. /\ q \in Seq(Labels) /\ Len(q) = 5 /\ q[1] = "dsp_bypass" /\ q[2] = "put_cfg"
        /\ q[3] = "dsp_on" /\ q[4] = "cali_end" /\ q[5] = "end"
    BY <1>3 DEF CaliOff, Labels
  <2>2. ASSUME NEW i \in 1..5 PROVE q[i] = Calibrate[15 + i - 1]
    <3>1. /\ q[1] = Calibrate[15] /\ q[2] = Calibrate[16] /\ q[3] = Calibrate[17]
          /\ q[4] = Calibrate[18] /\ q[5] = Calibrate[19]
      BY <2>1, CaliLast
    <3>2. i \in {1, 2, 3, 4, 5} BY <2>2
    <3> QED BY <3>1, <3>2
  <2>3. 15 \in 15..18 /\ Len(q) = 20 - 15 /\ \A i \in 1..(20 - 15) : q[i] = Calibrate[15 + i - 1]
    BY <2>1, <2>2
  <2> QED BY <1>2, <2>1, <2>3
<1>4. ASSUME NEW q, q = <<"put_cfg", "dsp_on", "cali_end", "end">> PROVE q = s(16)
  <2>1. /\ q \in Seq(Labels) /\ Len(q) = 4 /\ q[1] = "put_cfg"
        /\ q[2] = "dsp_on" /\ q[3] = "cali_end" /\ q[4] = "end"
    BY <1>4 DEF Labels
  <2>2. ASSUME NEW i \in 1..4 PROVE q[i] = Calibrate[16 + i - 1]
    <3>1. /\ q[1] = Calibrate[16] /\ q[2] = Calibrate[17]
          /\ q[3] = Calibrate[18] /\ q[4] = Calibrate[19]
      BY <2>1, CaliLast
    <3>2. i \in {1, 2, 3, 4} BY <2>2
    <3> QED BY <3>1, <3>2
  <2>3. 16 \in 15..18 /\ Len(q) = 20 - 16 /\ \A i \in 1..(20 - 16) : q[i] = Calibrate[16 + i - 1]
    BY <2>1, <2>2
  <2> QED BY <1>2, <2>1, <2>3
<1>5. ASSUME NEW q, q = <<"dsp_on", "cali_end", "end">> PROVE q = s(17)
  <2>1. /\ q \in Seq(Labels) /\ Len(q) = 3
        /\ q[1] = "dsp_on" /\ q[2] = "cali_end" /\ q[3] = "end"
    BY <1>5 DEF Labels
  <2>2. ASSUME NEW i \in 1..3 PROVE q[i] = Calibrate[17 + i - 1]
    <3>1. q[1] = Calibrate[17] /\ q[2] = Calibrate[18] /\ q[3] = Calibrate[19]
      BY <2>1, CaliLast
    <3>2. i \in {1, 2, 3} BY <2>2
    <3> QED BY <3>1, <3>2
  <2>3. 17 \in 15..18 /\ Len(q) = 20 - 17 /\ \A i \in 1..(20 - 17) : q[i] = Calibrate[17 + i - 1]
    BY <2>1, <2>2
  <2> QED BY <1>2, <2>1, <2>3
<1>6. ASSUME NEW q, q = <<"cali_end", "end">> PROVE q = s(18)
  <2>1. q \in Seq(Labels) /\ Len(q) = 2 /\ q[1] = "cali_end" /\ q[2] = "end"
    BY <1>6 DEF Labels
  <2>2. ASSUME NEW i \in 1..2 PROVE q[i] = Calibrate[18 + i - 1]
    <3>1. q[1] = Calibrate[18] /\ q[2] = Calibrate[19]
      BY <2>1, CaliLast
    <3>2. i \in {1, 2} BY <2>2
    <3> QED BY <3>1, <3>2
  <2>3. 18 \in 15..18 /\ Len(q) = 20 - 18 /\ \A i \in 1..(20 - 18) : q[i] = Calibrate[18 + i - 1]
    BY <2>1, <2>2
  <2> QED BY <1>2, <2>1, <2>3
<1> QED BY <1>3, <1>4, <1>5, <1>6 DEF s

-----------------------------------------------------------------------------
(* What a thread at a step can do.                                         *)

\* A thread at step k of a program has the label of step k at its head.
LEMMA Here ==
    ASSUME NEW P \in Seq(Labels), NEW k \in 1..Len(P), NEW t, Is(t, P, k)
    PROVE  /\ ~Quiet(t) /\ Head(todo[t]) = P[k] /\ Tail(todo[t]) = Suffix(P, k + 1)
           /\ k < Len(P) => todo[t][2] = P[k + 1]
BY StepsLeft DEF Is, Quiet

\* The labels of the steps after it follow.
LEMMA Ahead ==
    ASSUME NEW P \in Seq(Labels), NEW k \in 1..Len(P), NEW t, Is(t, P, k),
           NEW i \in 1..(Len(P) - k + 1)
    PROVE  todo[t][i] = P[k + i - 1]
BY StepsLeft DEF Is

\* A thread that takes a step has one to take.
LEMMA StepRuns == ASSUME NEW t \in Threads, Step(t) PROVE ~Quiet(t)
BY DEF Step, Pins, CaliStep, At, Lock, End, Cancel, Start, Queue, Down, Write, DoFadeOut,
       FadeRead, FadeWrite, FadeEnds, SetCtl, SetVol, Choose, DoStop, Regs, Images, PowerOn,
       Checks, Started, NextAttempt, CaliBegin, CaliCheck, Backup, CaliQuiet, CaliCfg, CaliVol,
       Measure, PutBack, CaliEnd, Quiet

\* The label of the next step says which action it is.
LEMMA NextStep ==
    ASSUME NEW t \in Threads, Step(t)
    PROVE  /\ Head(todo[t]) = "lock" => Lock(t)
           /\ Head(todo[t]) = "end" => End(t)
           /\ Head(todo[t]) = "cancel" => Cancel(t)
           /\ Head(todo[t]) = "start" => Start(t)
           /\ Head(todo[t]) = "queue" => Queue(t)
           /\ Head(todo[t]) = "down" => Down(t)
           /\ Head(todo[t]) = "hmute" => Write(t, "hmute", TRUE, dspby, pwdn)
           /\ Head(todo[t]) = "unmute" => Write(t, "unmute", FALSE, dspby, pwdn)
           /\ Head(todo[t]) = "dsp_bypass" => Write(t, "dsp_bypass", hmute, TRUE, pwdn)
           /\ Head(todo[t]) = "dsp_on" => Write(t, "dsp_on", hmute, FALSE, pwdn)
           /\ Head(todo[t]) = "pwr_off" => Write(t, "pwr_off", hmute, dspby, TRUE)
           /\ Head(todo[t]) = "failed" => Write(t, "failed", hmute, TRUE, TRUE)
           /\ Head(todo[t]) = "fade_out" => DoFadeOut(t)
           /\ Head(todo[t]) = "fade_read" => FadeRead(t)
           /\ Head(todo[t]) = "fade_write" => FadeWrite(t)
           /\ Head(todo[t]) = "set_ctl" => SetCtl(t)
           /\ Head(todo[t]) = "set_vol" => SetVol(t)
           /\ Head(todo[t]) = "choose" => Choose(t)
           /\ Head(todo[t]) = "stop" => DoStop(t)
           /\ Head(todo[t]) = "regs" => Regs(t)
           /\ Head(todo[t]) = "images" => Images(t)
           /\ Head(todo[t]) = "pwr_on" => PowerOn(t)
           /\ Head(todo[t]) = "checks" => Checks(t)
           /\ Head(todo[t]) = "started" => Started(t)
           /\ Head(todo[t]) = "next" => NextAttempt(t)
           /\ Head(todo[t]) = "cali_begin" => CaliBegin(t)
           /\ Head(todo[t]) = "cali_check" => CaliCheck(t)
           /\ Head(todo[t]) = "backup" => Backup(t)
           /\ Head(todo[t]) = "cali_quiet" => CaliQuiet(t)
           /\ Head(todo[t]) = "cali_cfg" => CaliCfg(t)
           /\ Head(todo[t]) = "cali_vol" => CaliVol(t)
           /\ Head(todo[t]) = "measure" => Measure(t)
           /\ Head(todo[t]) = "put_vol" => PutBack(t, "put_vol", {"vol"})
           /\ Head(todo[t]) = "recover" => PutBack(t, "recover", {"ng", "lp"})
           /\ Head(todo[t]) = "put_cfg" => PutBack(t, "put_cfg", {"cfg"})
           /\ Head(todo[t]) = "cali_end" => CaliEnd(t)
BY DEF Step, Pins, CaliStep, At, Lock, End, Cancel, Start, Queue, Down, Write, DoFadeOut,
       FadeRead, FadeWrite, FadeEnds, SetCtl, SetVol, Choose, DoStop, Regs, Images, PowerOn,
       Checks, Started, NextAttempt, CaliBegin, CaliCheck, Backup, CaliQuiet, CaliCfg, CaliVol,
       Measure, PutBack, CaliEnd


\* A step sets the rest of its own thread and leaves the others' alone.
LEMMA GoMoves ==
    ASSUME DOMAIN todo = Threads, NEW t \in Threads, NEW s, Go(t, s)
    PROVE  /\ DOMAIN todo' = Threads /\ todo'[t] = s
           /\ \A u \in Threads \ {t} : todo'[u] = todo[u]
BY DEF Go

\* The steps of PRE_PMU, with the amp off.
LEMMA UpMoves ==
    ASSUME NEW k \in 1..10, Is("event", PreUp, k), Step("event"), Off
    PROVE  /\ k = 1 => Lock("event") /\ Go("event", Suffix(PreUp, 2))
           /\ k = 2 => Cancel("event") /\ Go("event", Suffix(PreUp, 3))
           /\ k = 3 => Start("event") /\ Go("event", Suffix(PreUp, 4))
           /\ k = 4 => /\ Regs("event") /\ ~Reloads("event", 5)
                       /\ \/ RegsWritten("event") /\ Go("event", Suffix(PreUp, 5))
                          \/ RegsStop("event") /\ Go("event", Suffix(PreUp, 10))
           /\ k = 5 => DoFadeOut("event") /\ Go("event", Suffix(PreUp, 6))
           /\ k = 6 => /\ Write("event", "hmute", TRUE, dspby, pwdn)
                       /\ Go("event", Suffix(PreUp, 7))
           /\ k = 7 => /\ Write("event", "dsp_bypass", hmute, TRUE, pwdn)
                       /\ Go("event", Suffix(PreUp, 8))
           /\ k = 8 => /\ Images("event")
                       /\ \/ /\ Go("event", Suffix(PreUp, 9)) /\ prof_cur' = prof_index
                             /\ set' = Assign({"lp", "cfg"}, prof_index)
                          \/ Go("event", Suffix(PreUp, 10)) /\ UNCHANGED <<prof_cur, set>>
           /\ k = 9 => Queue("event") /\ Go("event", Suffix(PreUp, 10))
           /\ k = 10 => End("event") /\ Go("event", <<>>)
<1>1. PreUp \in Seq(Labels) /\ k \in 1..Len(PreUp) /\ "event" \in Threads
  BY UpProgram DEF Threads
<1>2. /\ Head(todo["event"]) = PreUp[k] /\ Tail(todo["event"]) = Suffix(PreUp, k + 1)
      /\ k < Len(PreUp) => todo["event"][2] = PreUp[k + 1]
  BY <1>1, Here
<1>w. Suffix(PreUp, 11) = <<>> BY Wholes
<1>3. ASSUME k = 1 PROVE Lock("event") /\ Go("event", Suffix(PreUp, 2))
  <2>1. Head(todo["event"]) = "lock" /\ Tail(todo["event"]) = Suffix(PreUp, 2)
    BY <1>2, <1>3, UpProgram
  <2>2. Lock("event") BY <1>1, <2>1, NextStep
  <2> QED BY <2>1, <2>2 DEF Lock, On, Go
<1>4. ASSUME k = 2 PROVE Cancel("event") /\ Go("event", Suffix(PreUp, 3))
  <2>1. Head(todo["event"]) = "cancel" /\ Tail(todo["event"]) = Suffix(PreUp, 3)
    BY <1>2, <1>4, UpProgram
  <2>2. Cancel("event") BY <1>1, <2>1, NextStep
  <2> QED BY <2>1, <2>2 DEF Cancel, On, Go
<1>5. ASSUME k = 3 PROVE Start("event") /\ Go("event", Suffix(PreUp, 4))
  <2>1. Head(todo["event"]) = "start" /\ Tail(todo["event"]) = Suffix(PreUp, 4)
    BY <1>2, <1>5, UpProgram
  <2>2. Start("event") BY <1>1, <2>1, NextStep
  <2> QED BY <2>1, <2>2 DEF Start, Off, Go
<1>6. ASSUME k = 4
      PROVE  /\ Regs("event") /\ ~Reloads("event", 5)
             /\ \/ RegsWritten("event") /\ Go("event", Suffix(PreUp, 5))
                \/ RegsStop("event") /\ Go("event", Suffix(PreUp, 10))
  <2>1. Head(todo["event"]) = "regs" /\ Tail(todo["event"]) = Suffix(PreUp, 5)
    BY <1>2, <1>6, UpProgram
  <2>2. Regs("event") BY <1>1, <2>1, NextStep
  <2>3. todo["event"][6] = "queue"
    <3>1. 6 \in 1..(Len(PreUp) - 4 + 1) /\ 4 \in 1..Len(PreUp) BY UpProgram
    <3>2. todo["event"][6] = PreUp[4 + 6 - 1] BY <1>1, <1>6, <3>1, Ahead
    <3> QED BY <3>2, UpProgram
  <2>4. ~Reloads("event", 5) BY <2>3 DEF Reloads
  <2> QED BY <2>1, <2>2, <2>4, Ends DEF Regs, RegsWritten, RegsStop, UpdateFails, On, Go
<1>7. ASSUME k = 5 PROVE DoFadeOut("event") /\ Go("event", Suffix(PreUp, 6))
  <2>1. Head(todo["event"]) = "fade_out" /\ Tail(todo["event"]) = Suffix(PreUp, 6)
    BY <1>2, <1>7, UpProgram
  <2>2. DoFadeOut("event") BY <1>1, <2>1, NextStep
  <2> QED BY <2>1, <2>2 DEF DoFadeOut, On, Go
<1>8. ASSUME k = 6
      PROVE  /\ Write("event", "hmute", TRUE, dspby, pwdn)
             /\ Go("event", Suffix(PreUp, 7))
  <2>1. Head(todo["event"]) = "hmute" /\ Tail(todo["event"]) = Suffix(PreUp, 7)
    BY <1>2, <1>8, UpProgram
  <2>2. Write("event", "hmute", TRUE, dspby, pwdn) BY <1>1, <2>1, NextStep
  <2> QED BY <2>1, <2>2 DEF Write, On, Go
<1>9. ASSUME k = 7
      PROVE  /\ Write("event", "dsp_bypass", hmute, TRUE, pwdn)
             /\ Go("event", Suffix(PreUp, 8))
  <2>1. Head(todo["event"]) = "dsp_bypass" /\ Tail(todo["event"]) = Suffix(PreUp, 8)
    BY <1>2, <1>9, UpProgram
  <2>2. Write("event", "dsp_bypass", hmute, TRUE, pwdn) BY <1>1, <2>1, NextStep
  <2> QED BY <2>1, <2>2 DEF Write, On, Go
<1>10. ASSUME k = 8
      PROVE  /\ Images("event")
             /\ \/ /\ Go("event", Suffix(PreUp, 9)) /\ prof_cur' = prof_index
                   /\ set' = Assign({"lp", "cfg"}, prof_index)
                \/ Go("event", Suffix(PreUp, 10)) /\ UNCHANGED <<prof_cur, set>>
  <2>1. /\ Head(todo["event"]) = "images" /\ Tail(todo["event"]) = Suffix(PreUp, 9)
        /\ todo["event"][2] = "queue"
    BY <1>2, <1>10, UpProgram
  <2>2. Images("event") BY <1>1, <2>1, NextStep
  <2>3. ~Reloads("event", 1) BY <2>1 DEF Reloads
  <2> QED BY <2>1, <2>2, <2>3, Ends DEF Images, UpdateFails, On, Go
<1>11. ASSUME k = 9 PROVE Queue("event") /\ Go("event", Suffix(PreUp, 10))
  <2>1. Head(todo["event"]) = "queue" /\ Tail(todo["event"]) = Suffix(PreUp, 10)
    BY <1>2, <1>11, UpProgram
  <2>2. Queue("event") BY <1>1, <2>1, NextStep
  <2> QED BY <2>1, <2>2 DEF Queue, On, Go
<1>12. ASSUME k = 10 PROVE End("event") /\ Go("event", <<>>)
  <2>1. Head(todo["event"]) = "end" /\ Tail(todo["event"]) = <<>>
    BY <1>2, <1>12, UpProgram, <1>w
  <2>2. End("event") BY <1>1, <2>1, NextStep
  <2> QED BY <2>1, <2>2 DEF End, On, Go
<1> QED BY <1>3, <1>4, <1>5, <1>6, <1>7, <1>8, <1>9, <1>10, <1>11, <1>12, Zenon

\* The steps of POST_PMD.
LEMMA DownMoves ==
    ASSUME NEW k \in 1..9, Is("event", PostDown, k), Step("event")
    PROVE  /\ k = 1 => Lock("event") /\ Go("event", Suffix(PostDown, 2))
           /\ k = 2 => Cancel("event") /\ Go("event", Suffix(PostDown, 3))
           /\ k = 3 => /\ DoStop("event")
                       /\ \/ ~Off /\ Go("event", Suffix(PostDown, 4))
                          \/ Off /\ Go("event", Suffix(PostDown, 8))
           /\ k = 4 => DoFadeOut("event") /\ Go("event", Suffix(PostDown, 5))
           /\ k = 5 => /\ Write("event", "hmute", TRUE, dspby, pwdn)
                       /\ Go("event", Suffix(PostDown, 6))
           /\ k = 6 => /\ Write("event", "dsp_bypass", hmute, TRUE, pwdn)
                       /\ Go("event", Suffix(PostDown, 7))
           /\ k = 7 => /\ Write("event", "pwr_off", hmute, dspby, TRUE)
                       /\ Go("event", Suffix(PostDown, 8))
           /\ k = 8 => Down("event") /\ Go("event", Suffix(PostDown, 9))
           /\ k = 9 => End("event") /\ Go("event", <<>>)
<1>1. PostDown \in Seq(Labels) /\ k \in 1..Len(PostDown) /\ "event" \in Threads
  BY DownProgram DEF Threads
<1>2. Head(todo["event"]) = PostDown[k] /\ Tail(todo["event"]) = Suffix(PostDown, k + 1)
  BY <1>1, Here
<1>w. Suffix(PostDown, 10) = <<>> BY Wholes
<1>3. ASSUME k = 1 PROVE Lock("event") /\ Go("event", Suffix(PostDown, 2))
  <2>1. Head(todo["event"]) = "lock" /\ Tail(todo["event"]) = Suffix(PostDown, 2)
    BY <1>2, <1>3, DownProgram
  <2>2. Lock("event") BY <1>1, <2>1, NextStep
  <2> QED BY <2>1, <2>2 DEF Lock, On, Go
<1>4. ASSUME k = 2 PROVE Cancel("event") /\ Go("event", Suffix(PostDown, 3))
  <2>1. Head(todo["event"]) = "cancel" /\ Tail(todo["event"]) = Suffix(PostDown, 3)
    BY <1>2, <1>4, DownProgram
  <2>2. Cancel("event") BY <1>1, <2>1, NextStep
  <2> QED BY <2>1, <2>2 DEF Cancel, On, Go
<1>5. ASSUME k = 3
      PROVE  /\ DoStop("event")
             /\ \/ ~Off /\ Go("event", Suffix(PostDown, 4))
                \/ Off /\ Go("event", Suffix(PostDown, 8))
  <2>1. Head(todo["event"]) = "stop" /\ Tail(todo["event"]) = Suffix(PostDown, 4)
    BY <1>2, <1>5, DownProgram
  <2>2. DoStop("event") BY <1>1, <2>1, NextStep
  <2>3. From("event", {"start", "down"}) = Suffix(PostDown, 8)
    <3> DEFINE L == {"start", "down"}
    <3>1. 8 \in 3..Len(PostDown) /\ PostDown[8] \in L
      BY DownProgram
    <3>2. \A i \in 3..(8 - 1) : PostDown[i] \notin L
      BY DownProgram
    <3>3. Is("event", PostDown, 3) /\ 3 \in 1..Len(PostDown) BY <1>1, <1>5
    <3> HIDE DEF L
    <3>4. From("event", L) = Suffix(PostDown, 8) BY <1>1, <3>1, <3>2, <3>3, Jumps
    <3> QED BY <3>4 DEF L
  <2> QED BY <2>1, <2>2, <2>3 DEF DoStop, Off, Go
<1>6. ASSUME k = 4 PROVE DoFadeOut("event") /\ Go("event", Suffix(PostDown, 5))
  <2>1. Head(todo["event"]) = "fade_out" /\ Tail(todo["event"]) = Suffix(PostDown, 5)
    BY <1>2, <1>6, DownProgram
  <2>2. DoFadeOut("event") BY <1>1, <2>1, NextStep
  <2> QED BY <2>1, <2>2 DEF DoFadeOut, On, Go
<1>7. ASSUME k = 5
      PROVE  /\ Write("event", "hmute", TRUE, dspby, pwdn)
             /\ Go("event", Suffix(PostDown, 6))
  <2>1. Head(todo["event"]) = "hmute" /\ Tail(todo["event"]) = Suffix(PostDown, 6)
    BY <1>2, <1>7, DownProgram
  <2>2. Write("event", "hmute", TRUE, dspby, pwdn) BY <1>1, <2>1, NextStep
  <2> QED BY <2>1, <2>2 DEF Write, On, Go
<1>8. ASSUME k = 6
      PROVE  /\ Write("event", "dsp_bypass", hmute, TRUE, pwdn)
             /\ Go("event", Suffix(PostDown, 7))
  <2>1. Head(todo["event"]) = "dsp_bypass" /\ Tail(todo["event"]) = Suffix(PostDown, 7)
    BY <1>2, <1>8, DownProgram
  <2>2. Write("event", "dsp_bypass", hmute, TRUE, pwdn) BY <1>1, <2>1, NextStep
  <2> QED BY <2>1, <2>2 DEF Write, On, Go
<1>9. ASSUME k = 7
      PROVE  /\ Write("event", "pwr_off", hmute, dspby, TRUE)
             /\ Go("event", Suffix(PostDown, 8))
  <2>1. Head(todo["event"]) = "pwr_off" /\ Tail(todo["event"]) = Suffix(PostDown, 8)
    BY <1>2, <1>9, DownProgram
  <2>2. Write("event", "pwr_off", hmute, dspby, TRUE) BY <1>1, <2>1, NextStep
  <2> QED BY <2>1, <2>2 DEF Write, On, Go
<1>10. ASSUME k = 8 PROVE Down("event") /\ Go("event", Suffix(PostDown, 9))
  <2>1. Head(todo["event"]) = "down" /\ Tail(todo["event"]) = Suffix(PostDown, 9)
    BY <1>2, <1>10, DownProgram
  <2>2. Down("event") BY <1>1, <2>1, NextStep
  <2> QED BY <2>1, <2>2 DEF Down, On, Go
<1>11. ASSUME k = 9 PROVE End("event") /\ Go("event", <<>>)
  <2>1. Head(todo["event"]) = "end" /\ Tail(todo["event"]) = <<>>
    BY <1>2, <1>11, DownProgram, <1>w
  <2>2. End("event") BY <1>1, <2>1, NextStep
  <2> QED BY <2>1, <2>2 DEF End, On, Go
<1> QED BY <1>3, <1>4, <1>5, <1>6, <1>7, <1>8, <1>9, <1>10, <1>11, Zenon
\* The steps of profile_set with the lock; those of the work are the last of them.
LEMMA StartMoves ==
    ASSUME NEW t \in Threads, NEW k \in 2..28, StartSteps(t, k), Step(t)
    PROVE  /\ k = 2 => /\ Choose(t)
                       /\ \/ Go(t, Suffix(SetProfile, 28)) /\ (prof_index' = prof_index \/ Off)
                          \/ Go(t, Suffix(SetProfile, 3)) /\ ~Off
           /\ k = 3 => DoStop(t) /\ Go(t, Suffix(SetProfile, 4))
           /\ k = 4 => DoFadeOut(t) /\ Go(t, Suffix(SetProfile, 5))
           /\ k = 5 => Write(t, "hmute", TRUE, dspby, pwdn) /\ Go(t, Suffix(SetProfile, 6))
           /\ k = 6 => Write(t, "dsp_bypass", hmute, TRUE, pwdn) /\ Go(t, Suffix(SetProfile, 7))
           /\ k = 7 => Write(t, "pwr_off", hmute, dspby, TRUE) /\ Go(t, Suffix(SetProfile, 8))
           /\ k = 8 => Start(t) /\ Go(t, Suffix(SetProfile, 9))
           /\ k = 9 => /\ Regs(t) /\ ~Reloads(t, 5)
                       /\ \/ RegsWritten(t) /\ Go(t, Suffix(SetProfile, 10))
                          \/ RegsStop(t) /\ Go(t, Suffix(SetProfile, 28))
           /\ k = 10 => DoFadeOut(t) /\ Go(t, Suffix(SetProfile, 11))
           /\ k = 11 => Write(t, "hmute", TRUE, dspby, pwdn) /\ Go(t, Suffix(SetProfile, 12))
           /\ k = 12 => /\ Write(t, "dsp_bypass", hmute, TRUE, pwdn)
                        /\ Go(t, Suffix(SetProfile, 13))
           /\ k = 13 => /\ Images(t)
                        /\ \/ /\ Go(t, Suffix(SetProfile, 14)) /\ prof_cur' = prof_index
                              /\ set' = Assign({"lp", "cfg"}, prof_index)
                           \/ Go(t, Suffix(SetProfile, 28)) /\ UNCHANGED <<prof_cur, set>>
           /\ k = 14 => PowerOn(t) /\ Go(t, Suffix(SetProfile, 15))
           /\ k = 15 => /\ Checks(t)
                        /\ \/ Go(t, Suffix(SetProfile, 16))
                           \/ Go(t, Suffix(SetProfile, 21))
           /\ k = 16 => Write(t, "dsp_on", hmute, FALSE, pwdn) /\ Go(t, Suffix(SetProfile, 17))
           /\ k = 17 => Write(t, "unmute", FALSE, dspby, pwdn) /\ Go(t, Suffix(SetProfile, 18))
           /\ k = 18 => FadeRead(t) /\ Go(t, Suffix(SetProfile, 19))
           /\ k = 19 => FadeWrite(t) /\ Go(t, Suffix(SetProfile, 20))
           /\ k = 20 => Started(t) /\ Go(t, Suffix(SetProfile, 28))
           /\ k = 21 => Write(t, "failed", hmute, TRUE, TRUE) /\ Go(t, Suffix(SetProfile, 22))
           /\ k = 22 => /\ Regs(t) /\ Reloads(t, 5)
                        /\ \/ RegsWritten(t) /\ Go(t, Suffix(SetProfile, 23))
                           \/ RegsStop(t) /\ Go(t, Suffix(SetProfile, 27))
           /\ k = 23 => DoFadeOut(t) /\ Go(t, Suffix(SetProfile, 24))
           /\ k = 24 => Write(t, "hmute", TRUE, dspby, pwdn) /\ Go(t, Suffix(SetProfile, 25))
           /\ k = 25 => /\ Write(t, "dsp_bypass", hmute, TRUE, pwdn)
                        /\ Go(t, Suffix(SetProfile, 26))
           /\ k = 26 => /\ Images(t)
                        /\ Go(t, Suffix(SetProfile, 27))
                        /\ \/ /\ prof_cur' = prof_index
                              /\ set' = Assign({"lp", "cfg"}, prof_index)
                           \/ UNCHANGED <<prof_cur, set>>
           /\ k = 27 => /\ NextAttempt(t)
                        /\ Go(t, Suffix(SetProfile, IF attempt'[t] < Retries THEN 14 ELSE 28))
           /\ k = 28 => End(t) /\ Go(t, <<>>)
<1>0. Is(t, SetProfile, k) /\ (k = 3 => ~Off) /\ (k \in 4..27 => Off) BY DEF StartSteps
<1>1. SetProfile \in Seq(Labels) /\ k \in 1..Len(SetProfile) /\ t \in Threads
  BY ProfileProgram
<1>2. /\ Head(todo[t]) = SetProfile[k] /\ Tail(todo[t]) = Suffix(SetProfile, k + 1)
      /\ k < Len(SetProfile) => todo[t][2] = SetProfile[k + 1]
  BY <1>0, <1>1, Here
<1>w. Suffix(SetProfile, 29) = <<>> BY Wholes
<1>3. ASSUME k = 2
      PROVE  /\ Choose(t)
             /\ \/ Go(t, Suffix(SetProfile, 28)) /\ (prof_index' = prof_index \/ Off)
                \/ Go(t, Suffix(SetProfile, 3)) /\ ~Off
  <2>1. Head(todo[t]) = "choose" /\ Tail(todo[t]) = Suffix(SetProfile, 3)
    BY <1>2, <1>3, ProfileStops
  <2>2. Choose(t) BY <1>1, <2>1, NextStep
  <2> QED BY <2>1, <2>2, <1>0, Ends, AsocAssumption DEF Choose, Off, Go, TypeOK
<1>4. ASSUME k = 3 PROVE DoStop(t) /\ Go(t, Suffix(SetProfile, 4))
  <2>1. Head(todo[t]) = "stop" /\ Tail(todo[t]) = Suffix(SetProfile, 4)
    BY <1>2, <1>4, ProfileStops
  <2>2. DoStop(t) BY <1>1, <2>1, NextStep
  <2>3. ~Off BY <1>0, <1>4
  <2> QED BY <2>1, <2>2, <2>3 DEF DoStop, Off, Go
<1>5. ASSUME k = 4 PROVE DoFadeOut(t) /\ Go(t, Suffix(SetProfile, 5))
  <2>1. Head(todo[t]) = "fade_out" /\ Tail(todo[t]) = Suffix(SetProfile, 5)
    BY <1>2, <1>5, ProfileStops
  <2>2. DoFadeOut(t) BY <1>1, <2>1, NextStep
  <2> QED BY <2>1, <2>2 DEF DoFadeOut, On, Go
<1>6. ASSUME k = 5 PROVE Write(t, "hmute", TRUE, dspby, pwdn) /\ Go(t, Suffix(SetProfile, 6))
  <2>1. Head(todo[t]) = "hmute" /\ Tail(todo[t]) = Suffix(SetProfile, 6)
    BY <1>2, <1>6, ProfileStops
  <2>2. Write(t, "hmute", TRUE, dspby, pwdn) BY <1>1, <2>1, NextStep
  <2> QED BY <2>1, <2>2 DEF Write, On, Go
<1>7. ASSUME k = 6
      PROVE  /\ Write(t, "dsp_bypass", hmute, TRUE, pwdn)
             /\ Go(t, Suffix(SetProfile, 7))
  <2>1. Head(todo[t]) = "dsp_bypass" /\ Tail(todo[t]) = Suffix(SetProfile, 7)
    BY <1>2, <1>7, ProfileStops
  <2>2. Write(t, "dsp_bypass", hmute, TRUE, pwdn) BY <1>1, <2>1, NextStep
  <2> QED BY <2>1, <2>2 DEF Write, On, Go
<1>8. ASSUME k = 7 PROVE Write(t, "pwr_off", hmute, dspby, TRUE) /\ Go(t, Suffix(SetProfile, 8))
  <2>1. Head(todo[t]) = "pwr_off" /\ Tail(todo[t]) = Suffix(SetProfile, 8)
    BY <1>2, <1>8, ProfileStops
  <2>2. Write(t, "pwr_off", hmute, dspby, TRUE) BY <1>1, <2>1, NextStep
  <2> QED BY <2>1, <2>2 DEF Write, On, Go
<1>9. ASSUME k = 8 PROVE Start(t) /\ Go(t, Suffix(SetProfile, 9))
  <2>1. Head(todo[t]) = "start" /\ Tail(todo[t]) = Suffix(SetProfile, 9)
    BY <1>2, <1>9, ProfileStops
  <2>2. Start(t) BY <1>1, <2>1, NextStep
  <2>3. Off BY <1>0, <1>9
  <2> QED BY <2>1, <2>2, <2>3 DEF Start, Off, Go
<1>10. ASSUME k = 9
      PROVE  /\ Regs(t) /\ ~Reloads(t, 5)
             /\ \/ RegsWritten(t) /\ Go(t, Suffix(SetProfile, 10))
                \/ RegsStop(t) /\ Go(t, Suffix(SetProfile, 28))
  <2>1. Head(todo[t]) = "regs" /\ Tail(todo[t]) = Suffix(SetProfile, 10)
    BY <1>2, <1>10, ProfileLoads
  <2>2. Regs(t) BY <1>1, <2>1, NextStep
  <2>3. todo[t][6] = "pwr_on"
    <3>1. 6 \in 1..(Len(SetProfile) - 9 + 1) /\ 9 \in 1..Len(SetProfile) BY ProfileProgram
    <3>2. todo[t][6] = SetProfile[9 + 6 - 1] BY <1>0, <1>1, <1>10, <3>1, Ahead
    <3> QED BY <3>2, ProfileStarts
  <2>4. ~Reloads(t, 5) BY <2>3 DEF Reloads
  <2> QED BY <2>1, <2>2, <2>4, Ends DEF Regs, RegsWritten, RegsStop, UpdateFails, On, Go
<1>11. ASSUME k = 10 PROVE DoFadeOut(t) /\ Go(t, Suffix(SetProfile, 11))
  <2>1. Head(todo[t]) = "fade_out" /\ Tail(todo[t]) = Suffix(SetProfile, 11)
    BY <1>2, <1>11, ProfileLoads
  <2>2. DoFadeOut(t) BY <1>1, <2>1, NextStep
  <2> QED BY <2>1, <2>2 DEF DoFadeOut, On, Go
<1>12. ASSUME k = 11 PROVE Write(t, "hmute", TRUE, dspby, pwdn) /\ Go(t, Suffix(SetProfile, 12))
  <2>1. Head(todo[t]) = "hmute" /\ Tail(todo[t]) = Suffix(SetProfile, 12)
    BY <1>2, <1>12, ProfileLoads
  <2>2. Write(t, "hmute", TRUE, dspby, pwdn) BY <1>1, <2>1, NextStep
  <2> QED BY <2>1, <2>2 DEF Write, On, Go
<1>13. ASSUME k = 12
      PROVE  /\ Write(t, "dsp_bypass", hmute, TRUE, pwdn)
             /\ Go(t, Suffix(SetProfile, 13))
  <2>1. Head(todo[t]) = "dsp_bypass" /\ Tail(todo[t]) = Suffix(SetProfile, 13)
    BY <1>2, <1>13, ProfileLoads
  <2>2. Write(t, "dsp_bypass", hmute, TRUE, pwdn) BY <1>1, <2>1, NextStep
  <2> QED BY <2>1, <2>2 DEF Write, On, Go
<1>14. ASSUME k = 13
      PROVE  /\ Images(t)
             /\ \/ /\ Go(t, Suffix(SetProfile, 14)) /\ prof_cur' = prof_index
                   /\ set' = Assign({"lp", "cfg"}, prof_index)
                \/ Go(t, Suffix(SetProfile, 28)) /\ UNCHANGED <<prof_cur, set>>
  <2>1. /\ Head(todo[t]) = "images" /\ Tail(todo[t]) = Suffix(SetProfile, 14)
        /\ todo[t][2] = "pwr_on"
    BY <1>2, <1>14, ProfileProgram, ProfileLoads, ProfileStarts
  <2>2. Images(t) BY <1>1, <2>1, NextStep
  <2>3. ~Reloads(t, 1) BY <2>1 DEF Reloads
  <2> QED BY <2>1, <2>2, <2>3, Ends DEF Images, UpdateFails, On, Go
<1>15. ASSUME k = 14 PROVE PowerOn(t) /\ Go(t, Suffix(SetProfile, 15))
  <2>1. Head(todo[t]) = "pwr_on" /\ Tail(todo[t]) = Suffix(SetProfile, 15)
    BY <1>2, <1>15, ProfileStarts
  <2>2. PowerOn(t) BY <1>1, <2>1, NextStep
  <2>3. Off BY <1>0, <1>15
  <2> QED BY <2>1, <2>2, <2>3 DEF PowerOn, On, Off, Go
<1>16. ASSUME k = 15
      PROVE  /\ Checks(t)
             /\ \/ Go(t, Suffix(SetProfile, 16))
                \/ Go(t, Suffix(SetProfile, 21))
  <2>1. Head(todo[t]) = "checks" /\ Tail(todo[t]) = Suffix(SetProfile, 16)
    BY <1>2, <1>16, ProfileStarts
  <2>2. Checks(t) BY <1>1, <2>1, NextStep
  <2>3. From(t, {"failed"}) = Suffix(SetProfile, 21)
    <3> DEFINE L == {"failed"}
    <3>1. 21 \in 15..Len(SetProfile) /\ SetProfile[21] \in L
      BY ProfileProgram, ProfileStarts
    <3>2. \A i \in 15..(21 - 1) : SetProfile[i] \notin L
      BY ProfileProgram, ProfileStarts
    <3>3. Is(t, SetProfile, 15) /\ 15 \in 1..Len(SetProfile) BY <1>0, <1>1, <1>16
    <3> HIDE DEF L
    <3>4. From(t, L) = Suffix(SetProfile, 21) BY <1>1, <3>1, <3>2, <3>3, Jumps
    <3> QED BY <3>4 DEF L
  <2> QED BY <2>1, <2>2, <2>3 DEF Checks, On, Go
<1>17. ASSUME k = 16
      PROVE  /\ Write(t, "dsp_on", hmute, FALSE, pwdn)
             /\ Go(t, Suffix(SetProfile, 17))
  <2>1. Head(todo[t]) = "dsp_on" /\ Tail(todo[t]) = Suffix(SetProfile, 17)
    BY <1>2, <1>17, ProfileStarts
  <2>2. Write(t, "dsp_on", hmute, FALSE, pwdn) BY <1>1, <2>1, NextStep
  <2> QED BY <2>1, <2>2 DEF Write, On, Go
<1>18. ASSUME k = 17
      PROVE  /\ Write(t, "unmute", FALSE, dspby, pwdn)
             /\ Go(t, Suffix(SetProfile, 18))
  <2>1. Head(todo[t]) = "unmute" /\ Tail(todo[t]) = Suffix(SetProfile, 18)
    BY <1>2, <1>18, ProfileStarts
  <2>2. Write(t, "unmute", FALSE, dspby, pwdn) BY <1>1, <2>1, NextStep
  <2> QED BY <2>1, <2>2 DEF Write, On, Go
<1>19. ASSUME k = 18 PROVE FadeRead(t) /\ Go(t, Suffix(SetProfile, 19))
  <2>1. Head(todo[t]) = "fade_read" /\ Tail(todo[t]) = Suffix(SetProfile, 19)
    BY <1>2, <1>19, ProfileStarts
  <2>2. FadeRead(t) BY <1>1, <2>1, NextStep
  <2> QED BY <2>1, <2>2 DEF FadeRead, On, Go
<1>20. ASSUME k = 19 PROVE FadeWrite(t) /\ Go(t, Suffix(SetProfile, 20))
  <2>1. Head(todo[t]) = "fade_write" /\ Tail(todo[t]) = Suffix(SetProfile, 20)
    BY <1>2, <1>20, ProfileStarts
  <2>2. FadeWrite(t) BY <1>1, <2>1, NextStep
  <2> QED BY <2>1, <2>2 DEF FadeWrite, FadeEnds, On, Go
<1>21. ASSUME k = 20 PROVE Started(t) /\ Go(t, Suffix(SetProfile, 28))
  <2>1. Head(todo[t]) = "started" /\ Tail(todo[t]) = Suffix(SetProfile, 21)
    BY <1>2, <1>21, ProfileStarts
  <2>2. Started(t) BY <1>1, <2>1, NextStep
  <2>3. From(t, {"end"}) = Suffix(SetProfile, 28)
    <3> DEFINE L == {"end"}
    <3>1. 28 \in 20..Len(SetProfile) /\ SetProfile[28] \in L
      BY ProfileProgram, ProfileReloads
    <3>2. \A i \in 20..(28 - 1) : SetProfile[i] \notin L
      BY ProfileProgram, ProfileStarts, ProfileReloads
    <3>3. Is(t, SetProfile, 20) /\ 20 \in 1..Len(SetProfile) BY <1>0, <1>1, <1>21
    <3> HIDE DEF L
    <3>4. From(t, L) = Suffix(SetProfile, 28) BY <1>1, <3>1, <3>2, <3>3, Jumps
    <3> QED BY <3>4 DEF L
  <2> QED BY <2>1, <2>2, <2>3 DEF Started, Go
<1>22. ASSUME k = 21
      PROVE  /\ Write(t, "failed", hmute, TRUE, TRUE)
             /\ Go(t, Suffix(SetProfile, 22))
  <2>1. Head(todo[t]) = "failed" /\ Tail(todo[t]) = Suffix(SetProfile, 22)
    BY <1>2, <1>22, ProfileStarts
  <2>2. Write(t, "failed", hmute, TRUE, TRUE) BY <1>1, <2>1, NextStep
  <2> QED BY <2>1, <2>2 DEF Write, On, Go
<1>23. ASSUME k = 22
      PROVE  /\ Regs(t) /\ Reloads(t, 5)
             /\ \/ RegsWritten(t) /\ Go(t, Suffix(SetProfile, 23))
                \/ RegsStop(t) /\ Go(t, Suffix(SetProfile, 27))
  <2>1. Head(todo[t]) = "regs" /\ Tail(todo[t]) = Suffix(SetProfile, 23)
    BY <1>2, <1>23, ProfileReloads
  <2>2. Regs(t) BY <1>1, <2>1, NextStep
  <2>3. todo[t][6] = "next"
    <3>1. 6 \in 1..(Len(SetProfile) - 22 + 1) /\ 22 \in 1..Len(SetProfile) BY ProfileProgram
    <3>2. todo[t][6] = SetProfile[22 + 6 - 1] BY <1>0, <1>1, <1>23, <3>1, Ahead
    <3> QED BY <3>2, ProfileReloads
  <2>4. Reloads(t, 5) BY <2>3 DEF Reloads
  <2>5. From(t, {"next"}) = Suffix(SetProfile, 27)
    <3> DEFINE L == {"next"}
    <3>1. 27 \in 22..Len(SetProfile) /\ SetProfile[27] \in L
      BY ProfileProgram, ProfileReloads
    <3>2. \A i \in 22..(27 - 1) : SetProfile[i] \notin L
      BY ProfileProgram, ProfileReloads
    <3>3. Is(t, SetProfile, 22) /\ 22 \in 1..Len(SetProfile) BY <1>0, <1>1, <1>23
    <3> HIDE DEF L
    <3>4. From(t, L) = Suffix(SetProfile, 27) BY <1>1, <3>1, <3>2, <3>3, Jumps
    <3> QED BY <3>4 DEF L
  <2> QED BY <2>1, <2>2, <2>4, <2>5 DEF Regs, RegsWritten, RegsStop, UpdateFails, On, Go
<1>24. ASSUME k = 23 PROVE DoFadeOut(t) /\ Go(t, Suffix(SetProfile, 24))
  <2>1. Head(todo[t]) = "fade_out" /\ Tail(todo[t]) = Suffix(SetProfile, 24)
    BY <1>2, <1>24, ProfileReloads
  <2>2. DoFadeOut(t) BY <1>1, <2>1, NextStep
  <2> QED BY <2>1, <2>2 DEF DoFadeOut, On, Go
<1>25. ASSUME k = 24 PROVE Write(t, "hmute", TRUE, dspby, pwdn) /\ Go(t, Suffix(SetProfile, 25))
  <2>1. Head(todo[t]) = "hmute" /\ Tail(todo[t]) = Suffix(SetProfile, 25)
    BY <1>2, <1>25, ProfileReloads
  <2>2. Write(t, "hmute", TRUE, dspby, pwdn) BY <1>1, <2>1, NextStep
  <2> QED BY <2>1, <2>2 DEF Write, On, Go
<1>26. ASSUME k = 25
      PROVE  /\ Write(t, "dsp_bypass", hmute, TRUE, pwdn)
             /\ Go(t, Suffix(SetProfile, 26))
  <2>1. Head(todo[t]) = "dsp_bypass" /\ Tail(todo[t]) = Suffix(SetProfile, 26)
    BY <1>2, <1>26, ProfileReloads
  <2>2. Write(t, "dsp_bypass", hmute, TRUE, pwdn) BY <1>1, <2>1, NextStep
  <2> QED BY <2>1, <2>2 DEF Write, On, Go
<1>27. ASSUME k = 26
      PROVE  /\ Images(t)
             /\ Go(t, Suffix(SetProfile, 27))
             /\ \/ /\ prof_cur' = prof_index
                   /\ set' = Assign({"lp", "cfg"}, prof_index)
                \/ UNCHANGED <<prof_cur, set>>
  <2>1. /\ Head(todo[t]) = "images" /\ Tail(todo[t]) = Suffix(SetProfile, 27)
        /\ todo[t][2] = "next"
    BY <1>2, <1>27, ProfileProgram, ProfileReloads
  <2>2. Images(t) BY <1>1, <2>1, NextStep
  <2>3. From(t, {"next"}) = Suffix(SetProfile, 27)
    <3> DEFINE L == {"next"}
    <3>1. 27 \in 26..Len(SetProfile) /\ SetProfile[27] \in L
      BY ProfileProgram, ProfileReloads
    <3>2. \A i \in 26..(27 - 1) : SetProfile[i] \notin L
      BY ProfileProgram, ProfileReloads
    <3>3. Is(t, SetProfile, 26) /\ 26 \in 1..Len(SetProfile) BY <1>0, <1>1, <1>27
    <3> HIDE DEF L
    <3>4. From(t, L) = Suffix(SetProfile, 27) BY <1>1, <3>1, <3>2, <3>3, Jumps
    <3> QED BY <3>4 DEF L
  <2>4. Reloads(t, 1) BY <2>1 DEF Reloads
  <2> QED BY <2>1, <2>2, <2>3, <2>4 DEF Images, UpdateFails, On, Go
<1>28. ASSUME k = 27
      PROVE  /\ NextAttempt(t)
             /\ Go(t, Suffix(SetProfile, IF attempt'[t] < Retries THEN 14 ELSE 28))
  <2>1. Head(todo[t]) = "next" /\ Tail(todo[t]) = Suffix(SetProfile, 28)
    BY <1>2, <1>28, ProfileReloads
  <2>2. NextAttempt(t) BY <1>1, <2>1, NextStep
  <2> QED BY <2>1, <2>2, StartProgram DEF NextAttempt, Go
<1>29. ASSUME k = 28 PROVE End(t) /\ Go(t, <<>>)
  <2>1. Head(todo[t]) = "end" /\ Tail(todo[t]) = <<>>
    BY <1>2, <1>29, ProfileReloads, <1>w
  <2>2. End(t) BY <1>1, <2>1, NextStep
  <2> QED BY <2>1, <2>2 DEF End, On, Go
<1> QED BY <1>3, <1>4, <1>5, <1>6, <1>7, <1>8, <1>9, <1>10, <1>11, <1>12, <1>13, <1>14,
       <1>15, <1>16, <1>17, <1>18, <1>19, <1>20, <1>21, <1>22, <1>23, <1>24, <1>25, <1>26,
       <1>27, <1>28, <1>29, Zenon

\* The steps of volume_set.
LEMMA VolumeMoves ==
    ASSUME NEW k \in 1..3, Is("control", SetVolume, k), Step("control")
    PROVE  /\ k = 1 => SetCtl("control") /\ Go("control", Suffix(SetVolume, 2))
           /\ k = 2 => SetVol("control") /\ Go("control", Suffix(SetVolume, 3))
           /\ k = 3 => End("control") /\ Go("control", <<>>)
<1>1. SetVolume \in Seq(Labels) /\ k \in 1..Len(SetVolume) /\ "control" \in Threads
  BY VolumeProgram DEF Threads
<1>2. Head(todo["control"]) = SetVolume[k] /\ Tail(todo["control"]) = Suffix(SetVolume, k + 1)
  BY <1>1, Here
<1>w. Suffix(SetVolume, 4) = <<>> BY Wholes
<1>3. ASSUME k = 1 PROVE SetCtl("control") /\ Go("control", Suffix(SetVolume, 2))
  <2>1. Head(todo["control"]) = "set_ctl" /\ Tail(todo["control"]) = Suffix(SetVolume, 2)
    BY <1>2, <1>3, VolumeProgram
  <2>2. SetCtl("control") BY <1>1, <2>1, NextStep
  <2> QED BY <2>1, <2>2 DEF SetCtl, On, Go
<1>4. ASSUME k = 2 PROVE SetVol("control") /\ Go("control", Suffix(SetVolume, 3))
  <2>1. Head(todo["control"]) = "set_vol" /\ Tail(todo["control"]) = Suffix(SetVolume, 3)
    BY <1>2, <1>4, VolumeProgram
  <2>2. SetVol("control") BY <1>1, <2>1, NextStep
  <2> QED BY <2>1, <2>2 DEF SetVol, On, Go
<1>5. ASSUME k = 3 PROVE End("control") /\ Go("control", <<>>)
  <2>1. Head(todo["control"]) = "end" /\ Tail(todo["control"]) = <<>>
    BY <1>2, <1>5, VolumeProgram, <1>w
  <2>2. End("control") BY <1>1, <2>1, NextStep
  <2> QED BY <2>1, <2>2 DEF End, On, Go
<1> QED BY <1>3, <1>4, <1>5, Zenon

\* The steps of a calibration.
LEMMA CaliMoves ==
    ASSUME NEW k \in 1..19, Is("control", Calibrate, k), Step("control")
    PROVE  /\ k = 1 => /\ CaliBegin("control")
                       /\ \/ Go("control", Suffix(Calibrate, 2))
                          \/ Go("control", Suffix(Calibrate, 19))
           /\ k = 2 => /\ Write("control", "unmute", FALSE, dspby, pwdn)
                       /\ Go("control", Suffix(Calibrate, 3))
           /\ k = 3 => FadeRead("control") /\ Go("control", Suffix(Calibrate, 4))
           /\ k = 4 => FadeWrite("control") /\ Go("control", Suffix(Calibrate, 5))
           /\ k = 5 => /\ CaliCheck("control")
                       /\ \/ Go("control", Suffix(Calibrate, 6))
                          \/ Go("control", Suffix(Calibrate, 18))
           /\ k = 6 => Backup("control") /\ Go("control", Suffix(Calibrate, 7))
           /\ k = 7 => /\ Write("control", "dsp_bypass", hmute, TRUE, pwdn)
                       /\ Go("control", Suffix(Calibrate, 8))
           /\ k = 8 => CaliQuiet("control") /\ Go("control", Suffix(Calibrate, 9))
           /\ k = 9 => /\ CaliCfg("control")
                       /\ \/ /\ Go("control", Suffix(Calibrate, 10)) /\ UNCHANGED harm
                             /\ saved' = Save({"cfg"})
                             /\ set' = Assign({"cfg"}, Cali)
                          \/ /\ Failing /\ Go("control", Suffix(Calibrate, 17))
                             /\ UNCHANGED <<set, saved>>
                          \/ /\ Failing /\ Go("control", Suffix(Calibrate, 16))
                             /\ saved' = Save({"cfg"})
                             /\ set' = Assign({"cfg"}, Cali)
           /\ k = 10 => /\ Write("control", "dsp_on", hmute, FALSE, pwdn)
                        /\ Go("control", Suffix(Calibrate, 11))
           /\ k = 11 => /\ CaliVol("control")
                        /\ \/ /\ Go("control", Suffix(Calibrate, 12)) /\ UNCHANGED harm
                              /\ saved' = Save({"vol"})
                              /\ set' = Assign({"vol"}, Cali)
                           \/ /\ Failing /\ Go("control", Suffix(Calibrate, 15))
                              /\ UNCHANGED <<set, saved>>
           /\ k = 12 => /\ Measure("control")
                        /\ \/ Go("control", <<"dsp_bypass", "dsp_on">> \o Suffix(Calibrate, 13))
                           \/ Go("control", FadeOut \o Suffix(Calibrate, 13))
           /\ k = 13 => /\ PutBack("control", "put_vol", {"vol"})
                        /\ Go("control", Suffix(Calibrate, 14))
           /\ k = 14 => /\ PutBack("control", "recover", {"ng", "lp"})
                        /\ Go("control", Suffix(Calibrate, 15))
           /\ k = 15 => /\ Write("control", "dsp_bypass", hmute, TRUE, pwdn)
                        /\ Go("control", Suffix(Calibrate, 16))
           /\ k = 16 => /\ PutBack("control", "put_cfg", {"cfg"})
                        /\ Go("control", Suffix(Calibrate, 17))
           /\ k = 17 => /\ Write("control", "dsp_on", hmute, FALSE, pwdn)
                        /\ Go("control", Suffix(Calibrate, 18))
           /\ k = 18 => CaliEnd("control") /\ Go("control", Suffix(Calibrate, 19))
           /\ k = 19 => End("control") /\ Go("control", <<>>)
<1>1. Calibrate \in Seq(Labels) /\ k \in 1..Len(Calibrate) /\ "control" \in Threads
  BY CaliProgram DEF Threads
<1>2. Head(todo["control"]) = Calibrate[k] /\ Tail(todo["control"]) = Suffix(Calibrate, k + 1)
  BY <1>1, Here
<1>w. Suffix(Calibrate, 20) = <<>> BY Wholes
<1>3. ASSUME k = 1
      PROVE  /\ CaliBegin("control")
             /\ Go("control", Suffix(Calibrate, 2)) \/ Go("control", Suffix(Calibrate, 19))
  <2>1. Head(todo["control"]) = "cali_begin" /\ Tail(todo["control"]) = Suffix(Calibrate, 2)
    BY <1>2, <1>3, CaliFirst
  <2>2. CaliBegin("control") BY <1>1, <2>1, NextStep
  <2> QED BY <2>1, <2>2, Ends DEF CaliBegin, Go
<1>4. ASSUME k = 2
      PROVE  /\ Write("control", "unmute", FALSE, dspby, pwdn)
             /\ Go("control", Suffix(Calibrate, 3))
  <2>1. Head(todo["control"]) = "unmute" /\ Tail(todo["control"]) = Suffix(Calibrate, 3)
    BY <1>2, <1>4, CaliFirst
  <2>2. Write("control", "unmute", FALSE, dspby, pwdn) BY <1>1, <2>1, NextStep
  <2> QED BY <2>1, <2>2 DEF Write, On, Go
<1>5. ASSUME k = 3 PROVE FadeRead("control") /\ Go("control", Suffix(Calibrate, 4))
  <2>1. Head(todo["control"]) = "fade_read" /\ Tail(todo["control"]) = Suffix(Calibrate, 4)
    BY <1>2, <1>5, CaliFirst
  <2>2. FadeRead("control") BY <1>1, <2>1, NextStep
  <2> QED BY <2>1, <2>2 DEF FadeRead, On, Go
<1>6. ASSUME k = 4 PROVE FadeWrite("control") /\ Go("control", Suffix(Calibrate, 5))
  <2>1. Head(todo["control"]) = "fade_write" /\ Tail(todo["control"]) = Suffix(Calibrate, 5)
    BY <1>2, <1>6, CaliFirst
  <2>2. FadeWrite("control") BY <1>1, <2>1, NextStep
  <2> QED BY <2>1, <2>2 DEF FadeWrite, FadeEnds, On, Go
<1>7. ASSUME k = 5
      PROVE  /\ CaliCheck("control")
             /\ Go("control", Suffix(Calibrate, 6)) \/ Go("control", Suffix(Calibrate, 18))
  <2>1. Head(todo["control"]) = "cali_check" /\ Tail(todo["control"]) = Suffix(Calibrate, 6)
    BY <1>2, <1>7, CaliFirst
  <2>2. CaliCheck("control") BY <1>1, <2>1, NextStep
  <2> QED BY <2>1, <2>2, CaliEnds DEF CaliCheck, On, Go
<1>8. ASSUME k = 6 PROVE Backup("control") /\ Go("control", Suffix(Calibrate, 7))
  <2>1. Head(todo["control"]) = "backup" /\ Tail(todo["control"]) = Suffix(Calibrate, 7)
    BY <1>2, <1>8, CaliFirst
  <2>2. Backup("control") BY <1>1, <2>1, NextStep
  <2> QED BY <2>1, <2>2 DEF Backup, On, Go
<1>9. ASSUME k = 7
      PROVE  /\ Write("control", "dsp_bypass", hmute, TRUE, pwdn)
             /\ Go("control", Suffix(Calibrate, 8))
  <2>1. Head(todo["control"]) = "dsp_bypass" /\ Tail(todo["control"]) = Suffix(Calibrate, 8)
    BY <1>2, <1>9, CaliFirst
  <2>2. Write("control", "dsp_bypass", hmute, TRUE, pwdn) BY <1>1, <2>1, NextStep
  <2> QED BY <2>1, <2>2 DEF Write, On, Go
<1>10. ASSUME k = 8 PROVE CaliQuiet("control") /\ Go("control", Suffix(Calibrate, 9))
  <2>1. Head(todo["control"]) = "cali_quiet" /\ Tail(todo["control"]) = Suffix(Calibrate, 9)
    BY <1>2, <1>10, CaliFirst
  <2>2. CaliQuiet("control") BY <1>1, <2>1, NextStep
  <2> QED BY <2>1, <2>2 DEF CaliQuiet, On, Go
<1>11. ASSUME k = 9
      PROVE  /\ CaliCfg("control")
             /\ \/ /\ Go("control", Suffix(Calibrate, 10)) /\ UNCHANGED harm
                   /\ saved' = Save({"cfg"})
                   /\ set' = Assign({"cfg"}, Cali)
                \/ Failing /\ Go("control", Suffix(Calibrate, 17)) /\ UNCHANGED <<set, saved>>
                \/ /\ Failing /\ Go("control", Suffix(Calibrate, 16))
                   /\ saved' = Save({"cfg"})
                   /\ set' = Assign({"cfg"}, Cali)
  <2>1. Head(todo["control"]) = "cali_cfg" /\ Tail(todo["control"]) = Suffix(Calibrate, 10)
    BY <1>2, <1>11, CaliFirst
  <2>2. CaliCfg("control") BY <1>1, <2>1, NextStep
  <2> QED BY <2>1, <2>2, CaliEnds DEF CaliCfg, Failing, On, Go
<1>12. ASSUME k = 10
      PROVE  /\ Write("control", "dsp_on", hmute, FALSE, pwdn)
             /\ Go("control", Suffix(Calibrate, 11))
  <2>1. Head(todo["control"]) = "dsp_on" /\ Tail(todo["control"]) = Suffix(Calibrate, 11)
    BY <1>2, <1>12, CaliFirst
  <2>2. Write("control", "dsp_on", hmute, FALSE, pwdn) BY <1>1, <2>1, NextStep
  <2> QED BY <2>1, <2>2 DEF Write, On, Go
<1>13. ASSUME k = 11
      PROVE  /\ CaliVol("control")
             /\ \/ /\ Go("control", Suffix(Calibrate, 12)) /\ UNCHANGED harm
                   /\ saved' = Save({"vol"})
                   /\ set' = Assign({"vol"}, Cali)
                \/ Failing /\ Go("control", Suffix(Calibrate, 15)) /\ UNCHANGED <<set, saved>>
  <2>1. Head(todo["control"]) = "cali_vol" /\ Tail(todo["control"]) = Suffix(Calibrate, 12)
    BY <1>2, <1>13, CaliLast
  <2>2. CaliVol("control") BY <1>1, <2>1, NextStep
  <2> QED BY <2>1, <2>2, CaliEnds DEF CaliVol, Failing, On, Go
<1>14. ASSUME k = 12
      PROVE  /\ Measure("control")
             /\ \/ Go("control", <<"dsp_bypass", "dsp_on">> \o Suffix(Calibrate, 13))
                \/ Go("control", FadeOut \o Suffix(Calibrate, 13))
  <2>1. Head(todo["control"]) = "measure" /\ Tail(todo["control"]) = Suffix(Calibrate, 13)
    BY <1>2, <1>14, CaliLast
  <2>2. Measure("control") BY <1>1, <2>1, NextStep
  <2> QED BY <2>1, <2>2 DEF Measure, Go
<1>15. ASSUME k = 13
      PROVE  /\ PutBack("control", "put_vol", {"vol"})
             /\ Go("control", Suffix(Calibrate, 14))
  <2>1. Head(todo["control"]) = "put_vol" /\ Tail(todo["control"]) = Suffix(Calibrate, 14)
    BY <1>2, <1>15, CaliLast
  <2>2. PutBack("control", "put_vol", {"vol"}) BY <1>1, <2>1, NextStep
  <2> QED BY <2>1, <2>2 DEF PutBack, On, Go
<1>16. ASSUME k = 14
      PROVE  /\ PutBack("control", "recover", {"ng", "lp"})
             /\ Go("control", Suffix(Calibrate, 15))
  <2>1. Head(todo["control"]) = "recover" /\ Tail(todo["control"]) = Suffix(Calibrate, 15)
    BY <1>2, <1>16, CaliLast
  <2>2. PutBack("control", "recover", {"ng", "lp"}) BY <1>1, <2>1, NextStep
  <2> QED BY <2>1, <2>2 DEF PutBack, On, Go
<1>17. ASSUME k = 15
      PROVE  /\ Write("control", "dsp_bypass", hmute, TRUE, pwdn)
             /\ Go("control", Suffix(Calibrate, 16))
  <2>1. Head(todo["control"]) = "dsp_bypass" /\ Tail(todo["control"]) = Suffix(Calibrate, 16)
    BY <1>2, <1>17, CaliLast
  <2>2. Write("control", "dsp_bypass", hmute, TRUE, pwdn) BY <1>1, <2>1, NextStep
  <2> QED BY <2>1, <2>2 DEF Write, On, Go
<1>18. ASSUME k = 16
      PROVE  /\ PutBack("control", "put_cfg", {"cfg"})
             /\ Go("control", Suffix(Calibrate, 17))
  <2>1. Head(todo["control"]) = "put_cfg" /\ Tail(todo["control"]) = Suffix(Calibrate, 17)
    BY <1>2, <1>18, CaliLast
  <2>2. PutBack("control", "put_cfg", {"cfg"}) BY <1>1, <2>1, NextStep
  <2> QED BY <2>1, <2>2 DEF PutBack, On, Go
<1>19. ASSUME k = 17
      PROVE  /\ Write("control", "dsp_on", hmute, FALSE, pwdn)
             /\ Go("control", Suffix(Calibrate, 18))
  <2>1. Head(todo["control"]) = "dsp_on" /\ Tail(todo["control"]) = Suffix(Calibrate, 18)
    BY <1>2, <1>19, CaliLast
  <2>2. Write("control", "dsp_on", hmute, FALSE, pwdn) BY <1>1, <2>1, NextStep
  <2> QED BY <2>1, <2>2 DEF Write, On, Go
<1>20. ASSUME k = 18 PROVE CaliEnd("control") /\ Go("control", Suffix(Calibrate, 19))
  <2>1. Head(todo["control"]) = "cali_end" /\ Tail(todo["control"]) = Suffix(Calibrate, 19)
    BY <1>2, <1>20, CaliLast
  <2>2. CaliEnd("control") BY <1>1, <2>1, NextStep
  <2> QED BY <2>1, <2>2 DEF CaliEnd, On, Go
<1>21. ASSUME k = 19 PROVE End("control") /\ Go("control", <<>>)
  <2>1. Head(todo["control"]) = "end" /\ Tail(todo["control"]) = <<>>
    BY <1>2, <1>21, CaliLast, <1>w
  <2>2. End("control") BY <1>1, <2>1, NextStep
  <2> QED BY <2>1, <2>2 DEF End, On, Go
<1> QED BY <1>3, <1>4, <1>5, <1>6, <1>7, <1>8, <1>9, <1>10, <1>11, <1>12, <1>13, <1>14,
       <1>15, <1>16, <1>17, <1>18, <1>19, <1>20, <1>21, Zenon

\* Two steps before others.
LEMMA JoinedTwo ==
    ASSUME NEW x \in Labels, NEW y \in Labels, NEW a \in Seq(Labels)
    PROVE  /\ Head(<<x, y>> \o a) = x /\ Tail(<<x, y>> \o a) = <<y>> \o a
           /\ <<x, y>> \o a # <<>>
<1>1. <<x, y>> \o a = <<x>> \o (<<y>> \o a)
  <2>1. <<x>> \in Seq(Labels) /\ <<y>> \in Seq(Labels) OBVIOUS
  <2>2. <<x, y>> = <<x>> \o <<y>>
    <3> DEFINE p == <<x, y>>
               q == <<x>> \o <<y>>
    <3>1. p \in Seq(Labels) /\ Len(p) = 2 /\ p[1] = x /\ p[2] = y OBVIOUS
    <3>2. q \in Seq(Labels) /\ Len(q) = 2 /\ q[1] = x /\ q[2] = y
      BY <2>1, ConcatProperties
    <3> HIDE DEF p, q
    <3>3. \A i \in 1..2 : p[i] = q[i]
      <4> SUFFICES ASSUME NEW i \in 1..2 PROVE p[i] = q[i] OBVIOUS
      <4>1. i = 1 \/ i = 2 OBVIOUS
      <4> QED BY <3>1, <3>2, <4>1
    <3>4. p = q BY <3>1, <3>2, <3>3, SeqEqual
    <3> QED BY <3>4 DEF p, q
  <2> QED BY <2>1, <2>2, ConcatAssociative
<1>2. <<y>> \o a \in Seq(Labels) BY Joined
<1> QED BY <1>1, <1>2, Joined, Zenon

\* They begin with neither the lock nor a loop.
LEMMA ExtraHeads ==
    ASSUME NEW x \in Extras, AtExtra(x)
    PROVE  Head(todo["control"]) \in {"dsp_bypass", "dsp_on", "fade_out", "hmute"}
<1> DEFINE s == Suffix(Calibrate, 13)
<1>1. s \in Seq(Labels)
  <2>1. Calibrate \in Seq(Labels) /\ 13 \in 1..Len(Calibrate) BY CaliProgram
  <2> QED BY <2>1, StepsLeft
<1>2. {"dsp_bypass", "dsp_on", "fade_out", "hmute"} \subseteq Labels BY DEF Labels
<1>3. todo["control"] = x \o s BY DEF AtExtra
<1> HIDE DEF s
<1>4. CASE x = <<"dsp_bypass", "dsp_on">> BY <1>1, <1>2, <1>3, <1>4, JoinedTwo
<1>5. CASE x = <<"dsp_on">> BY <1>1, <1>2, <1>3, <1>5, Joined
<1>6. CASE x = FadeOut BY <1>1, <1>2, <1>3, <1>6, JoinedTwo DEF FadeOut
<1>7. CASE x = <<"hmute">> BY <1>1, <1>2, <1>3, <1>7, Joined
<1> QED BY <1>4, <1>5, <1>6, <1>7 DEF Extras

\* The steps after a measurement.
LEMMA ExtraMoves ==
    ASSUME NEW x \in Extras, AtExtra(x), Step("control")
    PROVE  /\ x = <<"dsp_bypass", "dsp_on">> =>
                 /\ Write("control", "dsp_bypass", hmute, TRUE, pwdn)
                 /\ Go("control", <<"dsp_on">> \o Suffix(Calibrate, 13))
           /\ x = <<"dsp_on">> => /\ Write("control", "dsp_on", hmute, FALSE, pwdn)
                                  /\ Go("control", Suffix(Calibrate, 13))
           /\ x = FadeOut => /\ DoFadeOut("control")
                             /\ Go("control", <<"hmute">> \o Suffix(Calibrate, 13))
           /\ x = <<"hmute">> => /\ Write("control", "hmute", TRUE, dspby, pwdn)
                                 /\ Go("control", Suffix(Calibrate, 13))
<1> DEFINE s == Suffix(Calibrate, 13)
<1>1. s \in Seq(Labels) /\ "control" \in Threads
  <2>1. Calibrate \in Seq(Labels) /\ 13 \in 1..Len(Calibrate) BY CaliProgram
  <2> QED BY <2>1, StepsLeft DEF Threads
<1>2. {"dsp_bypass", "dsp_on", "fade_out", "hmute"} \subseteq Labels BY DEF Labels
<1>3. todo["control"] = x \o s BY DEF AtExtra
<1> HIDE DEF s
<1>4. ASSUME x = <<"dsp_bypass", "dsp_on">>
      PROVE  /\ Write("control", "dsp_bypass", hmute, TRUE, pwdn)
             /\ Go("control", <<"dsp_on">> \o s)
  <2>1. Head(todo["control"]) = "dsp_bypass" /\ Tail(todo["control"]) = <<"dsp_on">> \o s
    BY <1>1, <1>2, <1>3, <1>4, JoinedTwo
  <2>2. Write("control", "dsp_bypass", hmute, TRUE, pwdn) BY <1>1, <2>1, NextStep
  <2> QED BY <2>1, <2>2 DEF Write, On, Go
<1>5. ASSUME x = <<"dsp_on">>
      PROVE  Write("control", "dsp_on", hmute, FALSE, pwdn) /\ Go("control", s)
  <2>1. Head(todo["control"]) = "dsp_on" /\ Tail(todo["control"]) = s
    BY <1>1, <1>2, <1>3, <1>5, Joined
  <2>2. Write("control", "dsp_on", hmute, FALSE, pwdn) BY <1>1, <2>1, NextStep
  <2> QED BY <2>1, <2>2 DEF Write, On, Go
<1>6. ASSUME x = FadeOut PROVE DoFadeOut("control") /\ Go("control", <<"hmute">> \o s)
  <2>1. Head(todo["control"]) = "fade_out" /\ Tail(todo["control"]) = <<"hmute">> \o s
    BY <1>1, <1>2, <1>3, <1>6, JoinedTwo DEF FadeOut
  <2>2. DoFadeOut("control") BY <1>1, <2>1, NextStep
  <2> QED BY <2>1, <2>2 DEF DoFadeOut, On, Go
<1>7. ASSUME x = <<"hmute">>
      PROVE  Write("control", "hmute", TRUE, dspby, pwdn) /\ Go("control", s)
  <2>1. Head(todo["control"]) = "hmute" /\ Tail(todo["control"]) = s
    BY <1>1, <1>2, <1>3, <1>7, Joined
  <2>2. Write("control", "hmute", TRUE, dspby, pwdn) BY <1>1, <2>1, NextStep
  <2> QED BY <2>1, <2>2 DEF Write, On, Go
<1> QED BY <1>4, <1>5, <1>6, <1>7, Zenon DEF s

-----------------------------------------------------------------------------
(* What the steps do to the lock, the queue and the other threads.         *)

\* What each step of PRE_PMU does, and where it goes.
LEMMA UpEffects ==
    ASSUME DOMAIN todo = Threads, NEW k \in 1..10, UpSteps(k), Step("event")
    PROVE  /\ DOMAIN todo' = Threads
           /\ todo'["work"] = todo["work"] /\ todo'["control"] = todo["control"]
           /\ status' = status /\ widget' = widget /\ present' = present
           /\ IF k = 1 THEN lock = Nobody /\ lock' = "event"
              ELSE lock = "event" /\ lock' = IF k = 10 THEN Nobody ELSE "event"
           /\ CASE k = 2 -> Quiet("work") /\ ~queued'
                [] k = 9 -> queued'
                [] OTHER -> queued' = queued
           /\ CASE k = 10 -> Quiet("event")'
                [] k = 4 -> Is("event", PreUp, 5)' \/ Is("event", PreUp, 10)'
                [] k = 8 -> Is("event", PreUp, 9)' \/ Is("event", PreUp, 10)'
                [] OTHER -> Is("event", PreUp, k + 1)'
<1>1. Is("event", PreUp, k) /\ Off /\ (lock = "event" <=> k >= 2) BY DEF UpSteps
<1>2. "event" \in Threads /\ "work" \in Threads \ {"event"} /\ "control" \in Threads \ {"event"}
  BY DEF Threads
<1>3. CASE k = 1
  <2>1. Lock("event") /\ Go("event", Suffix(PreUp, 2)) BY <1>1, <1>3, UpMoves
  <2>2. /\ DOMAIN todo' = Threads /\ todo'["event"] = Suffix(PreUp, 2)
        /\ todo'["work"] = todo["work"] /\ todo'["control"] = todo["control"]
    BY <1>2, <2>1, GoMoves
  <2> QED BY <1>1, <1>3, <2>1, <2>2 DEF Lock, Is, amp
<1>4. CASE k = 2
  <2>1. Cancel("event") /\ Go("event", Suffix(PreUp, 3)) BY <1>1, <1>4, UpMoves
  <2>2. /\ DOMAIN todo' = Threads /\ todo'["event"] = Suffix(PreUp, 3)
        /\ todo'["work"] = todo["work"] /\ todo'["control"] = todo["control"]
    BY <1>2, <2>1, GoMoves
  <2> QED BY <1>1, <1>4, <2>1, <2>2 DEF Cancel, Is, amp
<1>5. CASE k = 3
  <2>1. Start("event") /\ Go("event", Suffix(PreUp, 4)) BY <1>1, <1>5, UpMoves
  <2>2. /\ DOMAIN todo' = Threads /\ todo'["event"] = Suffix(PreUp, 4)
        /\ todo'["work"] = todo["work"] /\ todo'["control"] = todo["control"]
    BY <1>2, <2>1, GoMoves
  <2> QED BY <1>1, <1>5, <2>1, <2>2 DEF Start, Is, amp, sched
<1>6. CASE k = 4
  <2>1. Regs("event") /\ (Go("event", Suffix(PreUp, 5)) \/ Go("event", Suffix(PreUp, 10)))
    BY <1>1, <1>6, UpMoves
  <2>2. /\ DOMAIN todo' = Threads
        /\ todo'["event"] = Suffix(PreUp, 5) \/ todo'["event"] = Suffix(PreUp, 10)
        /\ todo'["work"] = todo["work"] /\ todo'["control"] = todo["control"]
    BY <1>2, <2>1, GoMoves
  <2> QED BY <1>1, <1>6, <2>1, <2>2 DEF Regs, Is, amp, sched
<1>7. CASE k = 5
  <2>1. DoFadeOut("event") /\ Go("event", Suffix(PreUp, 6)) BY <1>1, <1>7, UpMoves
  <2>2. /\ DOMAIN todo' = Threads /\ todo'["event"] = Suffix(PreUp, 6)
        /\ todo'["work"] = todo["work"] /\ todo'["control"] = todo["control"]
    BY <1>2, <2>1, GoMoves
  <2> QED BY <1>1, <1>7, <2>1, <2>2 DEF DoFadeOut, Is, amp, sched
<1>8. CASE k = 6
  <2>1. Write("event", "hmute", TRUE, dspby, pwdn) /\ Go("event", Suffix(PreUp, 7))
    BY <1>1, <1>8, UpMoves
  <2>2. /\ DOMAIN todo' = Threads /\ todo'["event"] = Suffix(PreUp, 7)
        /\ todo'["work"] = todo["work"] /\ todo'["control"] = todo["control"]
    BY <1>2, <2>1, GoMoves
  <2> QED BY <1>1, <1>8, <2>1, <2>2 DEF Write, Is, amp, sched
<1>9. CASE k = 7
  <2>1. Write("event", "dsp_bypass", hmute, TRUE, pwdn) /\ Go("event", Suffix(PreUp, 8))
    BY <1>1, <1>9, UpMoves
  <2>2. /\ DOMAIN todo' = Threads /\ todo'["event"] = Suffix(PreUp, 8)
        /\ todo'["work"] = todo["work"] /\ todo'["control"] = todo["control"]
    BY <1>2, <2>1, GoMoves
  <2> QED BY <1>1, <1>9, <2>1, <2>2 DEF Write, Is, amp, sched
<1>10. CASE k = 8
  <2>1. Images("event") /\ (Go("event", Suffix(PreUp, 9)) \/ Go("event", Suffix(PreUp, 10)))
    BY <1>1, <1>10, UpMoves
  <2>2. /\ DOMAIN todo' = Threads
        /\ todo'["event"] = Suffix(PreUp, 9) \/ todo'["event"] = Suffix(PreUp, 10)
        /\ todo'["work"] = todo["work"] /\ todo'["control"] = todo["control"]
    BY <1>2, <2>1, GoMoves
  <2> QED BY <1>1, <1>10, <2>1, <2>2 DEF Images, Is, amp, sched
<1>11. CASE k = 9
  <2>1. Queue("event") /\ Go("event", Suffix(PreUp, 10)) BY <1>1, <1>11, UpMoves
  <2>2. /\ DOMAIN todo' = Threads /\ todo'["event"] = Suffix(PreUp, 10)
        /\ todo'["work"] = todo["work"] /\ todo'["control"] = todo["control"]
    BY <1>2, <2>1, GoMoves
  <2> QED BY <1>1, <1>11, <2>1, <2>2 DEF Queue, Is, amp
<1>12. CASE k = 10
  <2>1. End("event") /\ Go("event", <<>>) BY <1>1, <1>12, UpMoves
  <2>2. /\ DOMAIN todo' = Threads /\ todo'["event"] = <<>>
        /\ todo'["work"] = todo["work"] /\ todo'["control"] = todo["control"]
    BY <1>2, <2>1, GoMoves
  <2> QED BY <1>1, <1>12, <2>1, <2>2 DEF End, Quiet
<1> QED BY <1>3, <1>4, <1>5, <1>6, <1>7, <1>8, <1>9, <1>10, <1>11, <1>12

\* What each step of POST_PMD does, and where it goes.
LEMMA DownEffects ==
    ASSUME DOMAIN todo = Threads, NEW k \in 1..9, DownSteps(k), Step("event")
    PROVE  /\ DOMAIN todo' = Threads
           /\ todo'["work"] = todo["work"] /\ todo'["control"] = todo["control"]
           /\ status' = (IF k = 3 THEN "PW_OFF" ELSE status) /\ present' = present
           /\ IF k = 8 THEN ~widget' ELSE widget' = widget
           /\ IF k = 1 THEN lock = Nobody /\ lock' = "event"
              ELSE lock = "event" /\ lock' = IF k = 9 THEN Nobody ELSE "event"
           /\ IF k = 2 THEN Quiet("work") /\ ~queued' ELSE queued' = queued
           /\ CASE k = 9 -> Quiet("event")'
                [] k = 3 -> Is("event", PostDown, 4)' \/ Is("event", PostDown, 8)'
                [] OTHER -> Is("event", PostDown, k + 1)'
<1>1. Is("event", PostDown, k) /\ (lock = "event" <=> k >= 2) BY DEF DownSteps
<1>2. "event" \in Threads /\ "work" \in Threads \ {"event"} /\ "control" \in Threads \ {"event"}
  BY DEF Threads
<1>3. CASE k = 1
  <2>1. Lock("event") /\ Go("event", Suffix(PostDown, 2)) BY <1>1, <1>3, DownMoves
  <2>2. /\ DOMAIN todo' = Threads /\ todo'["event"] = Suffix(PostDown, 2)
        /\ todo'["work"] = todo["work"] /\ todo'["control"] = todo["control"]
    BY <1>2, <2>1, GoMoves
  <2> QED BY <1>1, <1>3, <2>1, <2>2 DEF Lock, Is, amp
<1>4. CASE k = 2
  <2>1. Cancel("event") /\ Go("event", Suffix(PostDown, 3)) BY <1>1, <1>4, DownMoves
  <2>2. /\ DOMAIN todo' = Threads /\ todo'["event"] = Suffix(PostDown, 3)
        /\ todo'["work"] = todo["work"] /\ todo'["control"] = todo["control"]
    BY <1>2, <2>1, GoMoves
  <2> QED BY <1>1, <1>4, <2>1, <2>2 DEF Cancel, Is, amp
<1>5. CASE k = 3
  <2>1. DoStop("event") /\ (Go("event", Suffix(PostDown, 4)) \/ Go("event", Suffix(PostDown, 8)))
    BY <1>1, <1>5, DownMoves
  <2>2. /\ DOMAIN todo' = Threads
        /\ todo'["event"] = Suffix(PostDown, 4) \/ todo'["event"] = Suffix(PostDown, 8)
        /\ todo'["work"] = todo["work"] /\ todo'["control"] = todo["control"]
    BY <1>2, <2>1, GoMoves
  <2> QED BY <1>1, <1>5, <2>1, <2>2 DEF DoStop, Is, sched
<1>6. CASE k = 4
  <2>1. DoFadeOut("event") /\ Go("event", Suffix(PostDown, 5)) BY <1>1, <1>6, DownMoves
  <2>2. /\ DOMAIN todo' = Threads /\ todo'["event"] = Suffix(PostDown, 5)
        /\ todo'["work"] = todo["work"] /\ todo'["control"] = todo["control"]
    BY <1>2, <2>1, GoMoves
  <2> QED BY <1>1, <1>6, <2>1, <2>2 DEF DoFadeOut, Is, amp, sched
<1>7. CASE k = 5
  <2>1. Write("event", "hmute", TRUE, dspby, pwdn) /\ Go("event", Suffix(PostDown, 6))
    BY <1>1, <1>7, DownMoves
  <2>2. /\ DOMAIN todo' = Threads /\ todo'["event"] = Suffix(PostDown, 6)
        /\ todo'["work"] = todo["work"] /\ todo'["control"] = todo["control"]
    BY <1>2, <2>1, GoMoves
  <2> QED BY <1>1, <1>7, <2>1, <2>2 DEF Write, Is, amp, sched
<1>8. CASE k = 6
  <2>1. Write("event", "dsp_bypass", hmute, TRUE, pwdn) /\ Go("event", Suffix(PostDown, 7))
    BY <1>1, <1>8, DownMoves
  <2>2. /\ DOMAIN todo' = Threads /\ todo'["event"] = Suffix(PostDown, 7)
        /\ todo'["work"] = todo["work"] /\ todo'["control"] = todo["control"]
    BY <1>2, <2>1, GoMoves
  <2> QED BY <1>1, <1>8, <2>1, <2>2 DEF Write, Is, amp, sched
<1>9. CASE k = 7
  <2>1. Write("event", "pwr_off", hmute, dspby, TRUE) /\ Go("event", Suffix(PostDown, 8))
    BY <1>1, <1>9, DownMoves
  <2>2. /\ DOMAIN todo' = Threads /\ todo'["event"] = Suffix(PostDown, 8)
        /\ todo'["work"] = todo["work"] /\ todo'["control"] = todo["control"]
    BY <1>2, <2>1, GoMoves
  <2> QED BY <1>1, <1>9, <2>1, <2>2 DEF Write, Is, amp, sched
<1>10. CASE k = 8
  <2>1. Down("event") /\ Go("event", Suffix(PostDown, 9)) BY <1>1, <1>10, DownMoves
  <2>2. /\ DOMAIN todo' = Threads /\ todo'["event"] = Suffix(PostDown, 9)
        /\ todo'["work"] = todo["work"] /\ todo'["control"] = todo["control"]
    BY <1>2, <2>1, GoMoves
  <2> QED BY <1>1, <1>10, <2>1, <2>2 DEF Down, Is, amp
<1>11. CASE k = 9
  <2>1. End("event") /\ Go("event", <<>>) BY <1>1, <1>11, DownMoves
  <2>2. /\ DOMAIN todo' = Threads /\ todo'["event"] = <<>>
        /\ todo'["work"] = todo["work"] /\ todo'["control"] = todo["control"]
    BY <1>2, <2>1, GoMoves
  <2> QED BY <1>1, <1>11, <2>1, <2>2 DEF End, Quiet
<1> QED BY <1>3, <1>4, <1>5, <1>6, <1>7, <1>8, <1>9, <1>10, <1>11

\* What each step of start work and profile_set does, and where it goes.
LEMMA StartEffects ==
    ASSUME DOMAIN todo = Threads, NEW t \in {"work", "control"}, NEW k \in 2..28,
           StartSteps(t, k), Step(t)
    PROVE  /\ DOMAIN todo' = Threads /\ \A u \in Threads \ {t} : todo'[u] = todo[u]
           /\ queued' = queued /\ widget' = widget /\ present' = present
           /\ lock = t /\ lock' = IF k = 28 THEN Nobody ELSE t
           /\ CASE k = 3 -> Off' [] k = 20 -> ~Off' [] OTHER -> status' = status
           /\ CASE k = 28 -> Quiet(t)'
                [] k = 2 -> Is(t, SetProfile, 28)' \/ (Is(t, SetProfile, 3)' /\ ~Off)
                [] k = 9 -> Is(t, SetProfile, 10)' \/ Is(t, SetProfile, 28)'
                [] k = 13 -> Is(t, SetProfile, 14)' \/ Is(t, SetProfile, 28)'
                [] k = 15 -> Is(t, SetProfile, 16)' \/ Is(t, SetProfile, 21)'
                [] k = 20 -> Is(t, SetProfile, 28)'
                [] k = 22 -> Is(t, SetProfile, 23)' \/ Is(t, SetProfile, 27)'
                [] k = 27 -> Is(t, SetProfile, 14)' \/ Is(t, SetProfile, 28)'
                [] OTHER -> Is(t, SetProfile, k + 1)'
<1>1. Is(t, SetProfile, k) /\ lock = t BY DEF StartSteps
<1>2. t \in Threads BY DEF Threads
<1>3. CASE k = 2
  <2>1. /\ Choose(t)
        /\ Go(t, Suffix(SetProfile, 28)) \/ (Go(t, Suffix(SetProfile, 3)) /\ ~Off)
    BY <1>2, <1>3, StartMoves
  <2>2. /\ DOMAIN todo' = Threads
        /\ todo'[t] = Suffix(SetProfile, 28) \/ (todo'[t] = Suffix(SetProfile, 3) /\ ~Off)
        /\ \A u \in Threads \ {t} : todo'[u] = todo[u]
    BY <1>2, <2>1, GoMoves
  <2> QED BY <1>1, <1>3, <2>1, <2>2 DEF Choose, Is, amp, sched
<1>4. CASE k = 3
  <2>1. DoStop(t) /\ Go(t, Suffix(SetProfile, 4))
    BY <1>1, <1>2, <1>4, StartMoves
  <2>2. /\ DOMAIN todo' = Threads /\ todo'[t] = Suffix(SetProfile, 4)
        /\ \A u \in Threads \ {t} : todo'[u] = todo[u]
    BY <1>2, <2>1, GoMoves
  <2> QED BY <1>1, <1>2, <1>4, <2>1, <2>2 DEF DoStop, Off, Is, sched
<1>5. CASE k = 4
  <2>1. DoFadeOut(t) /\ Go(t, Suffix(SetProfile, 5))
    BY <1>1, <1>2, <1>5, StartMoves
  <2>2. /\ DOMAIN todo' = Threads /\ todo'[t] = Suffix(SetProfile, 5)
        /\ \A u \in Threads \ {t} : todo'[u] = todo[u]
    BY <1>2, <2>1, GoMoves
  <2> QED BY <1>1, <1>2, <1>5, <2>1, <2>2 DEF DoFadeOut, Is, amp, sched
<1>6. CASE k = 5
  <2>1. Write(t, "hmute", TRUE, dspby, pwdn) /\ Go(t, Suffix(SetProfile, 6))
    BY <1>1, <1>2, <1>6, StartMoves
  <2>2. /\ DOMAIN todo' = Threads /\ todo'[t] = Suffix(SetProfile, 6)
        /\ \A u \in Threads \ {t} : todo'[u] = todo[u]
    BY <1>2, <2>1, GoMoves
  <2> QED BY <1>1, <1>2, <1>6, <2>1, <2>2 DEF Write, Is, amp, sched
<1>7. CASE k = 6
  <2>1. Write(t, "dsp_bypass", hmute, TRUE, pwdn) /\ Go(t, Suffix(SetProfile, 7))
    BY <1>1, <1>2, <1>7, StartMoves
  <2>2. /\ DOMAIN todo' = Threads /\ todo'[t] = Suffix(SetProfile, 7)
        /\ \A u \in Threads \ {t} : todo'[u] = todo[u]
    BY <1>2, <2>1, GoMoves
  <2> QED BY <1>1, <1>2, <1>7, <2>1, <2>2 DEF Write, Is, amp, sched
<1>8. CASE k = 7
  <2>1. Write(t, "pwr_off", hmute, dspby, TRUE) /\ Go(t, Suffix(SetProfile, 8))
    BY <1>1, <1>2, <1>8, StartMoves
  <2>2. /\ DOMAIN todo' = Threads /\ todo'[t] = Suffix(SetProfile, 8)
        /\ \A u \in Threads \ {t} : todo'[u] = todo[u]
    BY <1>2, <2>1, GoMoves
  <2> QED BY <1>1, <1>2, <1>8, <2>1, <2>2 DEF Write, Is, amp, sched
<1>9. CASE k = 8
  <2>1. Start(t) /\ Go(t, Suffix(SetProfile, 9))
    BY <1>1, <1>2, <1>9, StartMoves
  <2>2. /\ DOMAIN todo' = Threads /\ todo'[t] = Suffix(SetProfile, 9)
        /\ \A u \in Threads \ {t} : todo'[u] = todo[u]
    BY <1>2, <2>1, GoMoves
  <2> QED BY <1>1, <1>2, <1>9, <2>1, <2>2 DEF Start, Is, amp, sched
<1>10. CASE k = 9
  <2>1. Regs(t) /\ (Go(t, Suffix(SetProfile, 10)) \/ Go(t, Suffix(SetProfile, 28)))
    BY <1>1, <1>2, <1>10, StartMoves
  <2>2. /\ DOMAIN todo' = Threads
        /\ \/ todo'[t] = Suffix(SetProfile, 10)
           \/ todo'[t] = Suffix(SetProfile, 28)
        /\ \A u \in Threads \ {t} : todo'[u] = todo[u]
    BY <1>2, <2>1, GoMoves
  <2> QED BY <1>1, <1>2, <1>10, <2>1, <2>2 DEF Regs, Is, amp, sched
<1>11. CASE k = 10
  <2>1. DoFadeOut(t) /\ Go(t, Suffix(SetProfile, 11))
    BY <1>1, <1>2, <1>11, StartMoves
  <2>2. /\ DOMAIN todo' = Threads /\ todo'[t] = Suffix(SetProfile, 11)
        /\ \A u \in Threads \ {t} : todo'[u] = todo[u]
    BY <1>2, <2>1, GoMoves
  <2> QED BY <1>1, <1>2, <1>11, <2>1, <2>2 DEF DoFadeOut, Is, amp, sched
<1>12. CASE k = 11
  <2>1. Write(t, "hmute", TRUE, dspby, pwdn) /\ Go(t, Suffix(SetProfile, 12))
    BY <1>1, <1>2, <1>12, StartMoves
  <2>2. /\ DOMAIN todo' = Threads /\ todo'[t] = Suffix(SetProfile, 12)
        /\ \A u \in Threads \ {t} : todo'[u] = todo[u]
    BY <1>2, <2>1, GoMoves
  <2> QED BY <1>1, <1>2, <1>12, <2>1, <2>2 DEF Write, Is, amp, sched
<1>13. CASE k = 12
  <2>1. Write(t, "dsp_bypass", hmute, TRUE, pwdn) /\ Go(t, Suffix(SetProfile, 13))
    BY <1>1, <1>2, <1>13, StartMoves
  <2>2. /\ DOMAIN todo' = Threads /\ todo'[t] = Suffix(SetProfile, 13)
        /\ \A u \in Threads \ {t} : todo'[u] = todo[u]
    BY <1>2, <2>1, GoMoves
  <2> QED BY <1>1, <1>2, <1>13, <2>1, <2>2 DEF Write, Is, amp, sched
<1>14. CASE k = 13
  <2>1. Images(t) /\ (Go(t, Suffix(SetProfile, 14)) \/ Go(t, Suffix(SetProfile, 28)))
    BY <1>1, <1>2, <1>14, StartMoves
  <2>2. /\ DOMAIN todo' = Threads
        /\ \/ todo'[t] = Suffix(SetProfile, 14)
           \/ todo'[t] = Suffix(SetProfile, 28)
        /\ \A u \in Threads \ {t} : todo'[u] = todo[u]
    BY <1>2, <2>1, GoMoves
  <2> QED BY <1>1, <1>2, <1>14, <2>1, <2>2 DEF Images, Is, amp, sched
<1>15. CASE k = 14
  <2>1. PowerOn(t) /\ Go(t, Suffix(SetProfile, 15))
    BY <1>1, <1>2, <1>15, StartMoves
  <2>2. /\ DOMAIN todo' = Threads /\ todo'[t] = Suffix(SetProfile, 15)
        /\ \A u \in Threads \ {t} : todo'[u] = todo[u]
    BY <1>2, <2>1, GoMoves
  <2> QED BY <1>1, <1>2, <1>15, <2>1, <2>2 DEF PowerOn, Is, amp, sched
<1>16. CASE k = 15
  <2>1. Checks(t) /\ (Go(t, Suffix(SetProfile, 16)) \/ Go(t, Suffix(SetProfile, 21)))
    BY <1>1, <1>2, <1>16, StartMoves
  <2>2. /\ DOMAIN todo' = Threads
        /\ \/ todo'[t] = Suffix(SetProfile, 16)
           \/ todo'[t] = Suffix(SetProfile, 21)
        /\ \A u \in Threads \ {t} : todo'[u] = todo[u]
    BY <1>2, <2>1, GoMoves
  <2> QED BY <1>1, <1>2, <1>16, <2>1, <2>2 DEF Checks, Is, amp, sched
<1>17. CASE k = 16
  <2>1. Write(t, "dsp_on", hmute, FALSE, pwdn) /\ Go(t, Suffix(SetProfile, 17))
    BY <1>1, <1>2, <1>17, StartMoves
  <2>2. /\ DOMAIN todo' = Threads /\ todo'[t] = Suffix(SetProfile, 17)
        /\ \A u \in Threads \ {t} : todo'[u] = todo[u]
    BY <1>2, <2>1, GoMoves
  <2> QED BY <1>1, <1>2, <1>17, <2>1, <2>2 DEF Write, Is, amp, sched
<1>18. CASE k = 17
  <2>1. Write(t, "unmute", FALSE, dspby, pwdn) /\ Go(t, Suffix(SetProfile, 18))
    BY <1>1, <1>2, <1>18, StartMoves
  <2>2. /\ DOMAIN todo' = Threads /\ todo'[t] = Suffix(SetProfile, 18)
        /\ \A u \in Threads \ {t} : todo'[u] = todo[u]
    BY <1>2, <2>1, GoMoves
  <2> QED BY <1>1, <1>2, <1>18, <2>1, <2>2 DEF Write, Is, amp, sched
<1>19. CASE k = 18
  <2>1. FadeRead(t) /\ Go(t, Suffix(SetProfile, 19))
    BY <1>1, <1>2, <1>19, StartMoves
  <2>2. /\ DOMAIN todo' = Threads /\ todo'[t] = Suffix(SetProfile, 19)
        /\ \A u \in Threads \ {t} : todo'[u] = todo[u]
    BY <1>2, <2>1, GoMoves
  <2> QED BY <1>1, <1>2, <1>19, <2>1, <2>2 DEF FadeRead, Is, amp, sched
<1>20. CASE k = 19
  <2>1. FadeWrite(t) /\ Go(t, Suffix(SetProfile, 20))
    BY <1>1, <1>2, <1>20, StartMoves
  <2>2. /\ DOMAIN todo' = Threads /\ todo'[t] = Suffix(SetProfile, 20)
        /\ \A u \in Threads \ {t} : todo'[u] = todo[u]
    BY <1>2, <2>1, GoMoves
  <2> QED BY <1>1, <1>2, <1>20, <2>1, <2>2 DEF FadeWrite, FadeEnds, Is, amp, sched
<1>21. CASE k = 20
  <2>1. Started(t) /\ Go(t, Suffix(SetProfile, 28))
    BY <1>1, <1>2, <1>21, StartMoves
  <2>2. /\ DOMAIN todo' = Threads /\ todo'[t] = Suffix(SetProfile, 28)
        /\ \A u \in Threads \ {t} : todo'[u] = todo[u]
    BY <1>2, <2>1, GoMoves
  <2> QED BY <1>1, <1>2, <1>21, <2>1, <2>2 DEF Started, Off, Is, sched
<1>22. CASE k = 21
  <2>1. Write(t, "failed", hmute, TRUE, TRUE) /\ Go(t, Suffix(SetProfile, 22))
    BY <1>1, <1>2, <1>22, StartMoves
  <2>2. /\ DOMAIN todo' = Threads /\ todo'[t] = Suffix(SetProfile, 22)
        /\ \A u \in Threads \ {t} : todo'[u] = todo[u]
    BY <1>2, <2>1, GoMoves
  <2> QED BY <1>1, <1>2, <1>22, <2>1, <2>2 DEF Write, Is, amp, sched
<1>23. CASE k = 22
  <2>1. Regs(t) /\ (Go(t, Suffix(SetProfile, 23)) \/ Go(t, Suffix(SetProfile, 27)))
    BY <1>1, <1>2, <1>23, StartMoves
  <2>2. /\ DOMAIN todo' = Threads
        /\ \/ todo'[t] = Suffix(SetProfile, 23)
           \/ todo'[t] = Suffix(SetProfile, 27)
        /\ \A u \in Threads \ {t} : todo'[u] = todo[u]
    BY <1>2, <2>1, GoMoves
  <2> QED BY <1>1, <1>2, <1>23, <2>1, <2>2 DEF Regs, Is, amp, sched
<1>24. CASE k = 23
  <2>1. DoFadeOut(t) /\ Go(t, Suffix(SetProfile, 24))
    BY <1>1, <1>2, <1>24, StartMoves
  <2>2. /\ DOMAIN todo' = Threads /\ todo'[t] = Suffix(SetProfile, 24)
        /\ \A u \in Threads \ {t} : todo'[u] = todo[u]
    BY <1>2, <2>1, GoMoves
  <2> QED BY <1>1, <1>2, <1>24, <2>1, <2>2 DEF DoFadeOut, Is, amp, sched
<1>25. CASE k = 24
  <2>1. Write(t, "hmute", TRUE, dspby, pwdn) /\ Go(t, Suffix(SetProfile, 25))
    BY <1>1, <1>2, <1>25, StartMoves
  <2>2. /\ DOMAIN todo' = Threads /\ todo'[t] = Suffix(SetProfile, 25)
        /\ \A u \in Threads \ {t} : todo'[u] = todo[u]
    BY <1>2, <2>1, GoMoves
  <2> QED BY <1>1, <1>2, <1>25, <2>1, <2>2 DEF Write, Is, amp, sched
<1>26. CASE k = 25
  <2>1. Write(t, "dsp_bypass", hmute, TRUE, pwdn) /\ Go(t, Suffix(SetProfile, 26))
    BY <1>1, <1>2, <1>26, StartMoves
  <2>2. /\ DOMAIN todo' = Threads /\ todo'[t] = Suffix(SetProfile, 26)
        /\ \A u \in Threads \ {t} : todo'[u] = todo[u]
    BY <1>2, <2>1, GoMoves
  <2> QED BY <1>1, <1>2, <1>26, <2>1, <2>2 DEF Write, Is, amp, sched
<1>27. CASE k = 26
  <2>1. Images(t) /\ Go(t, Suffix(SetProfile, 27))
    BY <1>1, <1>2, <1>27, StartMoves
  <2>2. /\ DOMAIN todo' = Threads /\ todo'[t] = Suffix(SetProfile, 27)
        /\ \A u \in Threads \ {t} : todo'[u] = todo[u]
    BY <1>2, <2>1, GoMoves
  <2> QED BY <1>1, <1>2, <1>27, <2>1, <2>2 DEF Images, Is, amp, sched
<1>28. CASE k = 27
  <2> DEFINE s == Suffix(SetProfile, IF attempt'[t] < Retries THEN 14 ELSE 28)
  <2>1. NextAttempt(t) /\ Go(t, s) BY <1>2, <1>28, StartMoves
  <2>2. s = Suffix(SetProfile, 14) \/ s = Suffix(SetProfile, 28) OBVIOUS
  <2>3. DOMAIN todo' = Threads /\ todo'[t] = s /\ \A u \in Threads \ {t} : todo'[u] = todo[u]
    BY <1>2, <2>1 DEF Go
  <2> HIDE DEF s
  <2> QED BY <1>1, <1>28, <2>1, <2>2, <2>3 DEF NextAttempt, Is, sched
<1>29. CASE k = 28
  <2>1. End(t) /\ Go(t, <<>>)
    BY <1>1, <1>2, <1>29, StartMoves
  <2>2. /\ DOMAIN todo' = Threads /\ todo'[t] = <<>>
        /\ \A u \in Threads \ {t} : todo'[u] = todo[u]
    BY <1>2, <2>1, GoMoves
  <2> QED BY <1>1, <1>2, <1>29, <2>1, <2>2 DEF End, Quiet
<1> QED BY <1>3, <1>4, <1>5, <1>6, <1>7, <1>8, <1>9, <1>10, <1>11, <1>12, <1>13, <1>14,
       <1>15, <1>16, <1>17, <1>18, <1>19, <1>20, <1>21, <1>22, <1>23, <1>24, <1>25, <1>26,
       <1>27, <1>28, <1>29

\* A control without the lock leaves the lock, the queue and the status alone.
LEMMA VolumeEffects ==
    ASSUME DOMAIN todo = Threads, NEW k \in 1..3, Is("control", SetVolume, k), Step("control"),
           lock # "control"
    PROVE  /\ DOMAIN todo' = Threads
           /\ todo'["event"] = todo["event"] /\ todo'["work"] = todo["work"]
           /\ sched' = sched /\ status' = status
           /\ IF k = 3 THEN Quiet("control")' ELSE Is("control", SetVolume, k + 1)'
<1>2. "control" \in Threads /\ "event" \in Threads \ {"control"} /\ "work" \in Threads \ {"control"}
  BY DEF Threads
<1>3. CASE k = 1
  <2>1. SetCtl("control") /\ Go("control", Suffix(SetVolume, 2))
    BY <1>2, <1>3, VolumeMoves
  <2>2. /\ DOMAIN todo' = Threads /\ todo'["control"] = Suffix(SetVolume, 2)
        /\ todo'["event"] = todo["event"] /\ todo'["work"] = todo["work"]
    BY <1>2, <2>1, GoMoves
  <2> QED BY <1>2, <1>3, <2>1, <2>2 DEF SetCtl, Is, amp, sched
<1>4. CASE k = 2
  <2>1. SetVol("control") /\ Go("control", Suffix(SetVolume, 3))
    BY <1>2, <1>4, VolumeMoves
  <2>2. /\ DOMAIN todo' = Threads /\ todo'["control"] = Suffix(SetVolume, 3)
        /\ todo'["event"] = todo["event"] /\ todo'["work"] = todo["work"]
    BY <1>2, <2>1, GoMoves
  <2> QED BY <1>2, <1>4, <2>1, <2>2 DEF SetVol, Is, amp, sched
<1>5. CASE k = 3
  <2>1. End("control") /\ Go("control", <<>>)
    BY <1>2, <1>5, VolumeMoves
  <2>2. /\ DOMAIN todo' = Threads /\ todo'["control"] = <<>>
        /\ todo'["event"] = todo["event"] /\ todo'["work"] = todo["work"]
    BY <1>2, <2>1, GoMoves
  <2> QED BY <1>2, <1>5, <2>1, <2>2 DEF End, Quiet, sched
<1> QED BY <1>3, <1>4, <1>5

\* What each step of a calibration does, and where it goes.
LEMMA CaliEffects ==
    ASSUME DOMAIN todo = Threads, NEW k \in 1..19, Is("control", Calibrate, k), Step("control"),
           lock # "control"
    PROVE  /\ DOMAIN todo' = Threads
           /\ todo'["event"] = todo["event"] /\ todo'["work"] = todo["work"]
           /\ sched' = sched /\ status' = status
           /\ CASE k = 19 -> Quiet("control")'
                [] k = 1 -> Is("control", Calibrate, 2)' \/ Is("control", Calibrate, 19)'
                [] k = 5 -> Is("control", Calibrate, 6)' \/ Is("control", Calibrate, 18)'
                [] k = 9 -> \/ Is("control", Calibrate, 10)' \/ Is("control", Calibrate, 16)'
                            \/ Is("control", Calibrate, 17)'
                [] k = 11 -> Is("control", Calibrate, 12)' \/ Is("control", Calibrate, 15)'
                [] k = 12 -> AtExtra(<<"dsp_bypass", "dsp_on">>)' \/ AtExtra(FadeOut)'
                [] OTHER -> Is("control", Calibrate, k + 1)'
<1>2. "control" \in Threads /\ "event" \in Threads \ {"control"} /\ "work" \in Threads \ {"control"}
  BY DEF Threads
<1>3. CASE k = 1
  <2>1. /\ CaliBegin("control")
        /\ \/ Go("control", Suffix(Calibrate, 2))
           \/ Go("control", Suffix(Calibrate, 19))
    BY <1>2, <1>3, CaliMoves
  <2>2. /\ DOMAIN todo' = Threads
        /\ \/ todo'["control"] = Suffix(Calibrate, 2)
           \/ todo'["control"] = Suffix(Calibrate, 19)
        /\ todo'["event"] = todo["event"] /\ todo'["work"] = todo["work"]
    BY <1>2, <2>1, GoMoves
  <2> QED BY <1>2, <1>3, <2>1, <2>2 DEF CaliBegin, Is, CaliRest, amp, sched
<1>4. CASE k = 2
  <2>1. Write("control", "unmute", FALSE, dspby, pwdn) /\ Go("control", Suffix(Calibrate, 3))
    BY <1>2, <1>4, CaliMoves
  <2>2. /\ DOMAIN todo' = Threads /\ todo'["control"] = Suffix(Calibrate, 3)
        /\ todo'["event"] = todo["event"] /\ todo'["work"] = todo["work"]
    BY <1>2, <2>1, GoMoves
  <2> QED BY <1>2, <1>4, <2>1, <2>2 DEF Write, Is, amp, sched
<1>5. CASE k = 3
  <2>1. FadeRead("control") /\ Go("control", Suffix(Calibrate, 4))
    BY <1>2, <1>5, CaliMoves
  <2>2. /\ DOMAIN todo' = Threads /\ todo'["control"] = Suffix(Calibrate, 4)
        /\ todo'["event"] = todo["event"] /\ todo'["work"] = todo["work"]
    BY <1>2, <2>1, GoMoves
  <2> QED BY <1>2, <1>5, <2>1, <2>2 DEF FadeRead, Is, amp, sched
<1>6. CASE k = 4
  <2>1. FadeWrite("control") /\ Go("control", Suffix(Calibrate, 5))
    BY <1>2, <1>6, CaliMoves
  <2>2. /\ DOMAIN todo' = Threads /\ todo'["control"] = Suffix(Calibrate, 5)
        /\ todo'["event"] = todo["event"] /\ todo'["work"] = todo["work"]
    BY <1>2, <2>1, GoMoves
  <2> QED BY <1>2, <1>6, <2>1, <2>2 DEF FadeWrite, FadeEnds, Is, amp, sched
<1>7. CASE k = 5
  <2>1. /\ CaliCheck("control")
        /\ \/ Go("control", Suffix(Calibrate, 6))
           \/ Go("control", Suffix(Calibrate, 18))
    BY <1>2, <1>7, CaliMoves
  <2>2. /\ DOMAIN todo' = Threads
        /\ \/ todo'["control"] = Suffix(Calibrate, 6)
           \/ todo'["control"] = Suffix(Calibrate, 18)
        /\ todo'["event"] = todo["event"] /\ todo'["work"] = todo["work"]
    BY <1>2, <2>1, GoMoves
  <2> QED BY <1>2, <1>7, <2>1, <2>2 DEF CaliCheck, Is, CaliRest, amp, sched
<1>8. CASE k = 6
  <2>1. Backup("control") /\ Go("control", Suffix(Calibrate, 7))
    BY <1>2, <1>8, CaliMoves
  <2>2. /\ DOMAIN todo' = Threads /\ todo'["control"] = Suffix(Calibrate, 7)
        /\ todo'["event"] = todo["event"] /\ todo'["work"] = todo["work"]
    BY <1>2, <2>1, GoMoves
  <2> QED BY <1>2, <1>8, <2>1, <2>2 DEF Backup, Is, CaliRest, amp, sched
<1>9. CASE k = 7
  <2>1. Write("control", "dsp_bypass", hmute, TRUE, pwdn) /\ Go("control", Suffix(Calibrate, 8))
    BY <1>2, <1>9, CaliMoves
  <2>2. /\ DOMAIN todo' = Threads /\ todo'["control"] = Suffix(Calibrate, 8)
        /\ todo'["event"] = todo["event"] /\ todo'["work"] = todo["work"]
    BY <1>2, <2>1, GoMoves
  <2> QED BY <1>2, <1>9, <2>1, <2>2 DEF Write, Is, amp, sched
<1>10. CASE k = 8
  <2>1. CaliQuiet("control") /\ Go("control", Suffix(Calibrate, 9))
    BY <1>2, <1>10, CaliMoves
  <2>2. /\ DOMAIN todo' = Threads /\ todo'["control"] = Suffix(Calibrate, 9)
        /\ todo'["event"] = todo["event"] /\ todo'["work"] = todo["work"]
    BY <1>2, <2>1, GoMoves
  <2> QED BY <1>2, <1>10, <2>1, <2>2 DEF CaliQuiet, Is, CaliRest, amp, sched
<1>11. CASE k = 9
  <2>1. /\ CaliCfg("control")
        /\ \/ Go("control", Suffix(Calibrate, 10))
           \/ Go("control", Suffix(Calibrate, 17))
           \/ Go("control", Suffix(Calibrate, 16))
    BY <1>2, <1>11, CaliMoves
  <2>2. /\ DOMAIN todo' = Threads
        /\ \/ todo'["control"] = Suffix(Calibrate, 10)
           \/ todo'["control"] = Suffix(Calibrate, 17)
           \/ todo'["control"] = Suffix(Calibrate, 16)
        /\ todo'["event"] = todo["event"] /\ todo'["work"] = todo["work"]
    BY <1>2, <2>1, GoMoves
  <2> QED BY <1>2, <1>11, <2>1, <2>2 DEF CaliCfg, Is, CaliRest, amp, sched
<1>12. CASE k = 10
  <2>1. Write("control", "dsp_on", hmute, FALSE, pwdn) /\ Go("control", Suffix(Calibrate, 11))
    BY <1>2, <1>12, CaliMoves
  <2>2. /\ DOMAIN todo' = Threads /\ todo'["control"] = Suffix(Calibrate, 11)
        /\ todo'["event"] = todo["event"] /\ todo'["work"] = todo["work"]
    BY <1>2, <2>1, GoMoves
  <2> QED BY <1>2, <1>12, <2>1, <2>2 DEF Write, Is, amp, sched
<1>13. CASE k = 11
  <2>1. /\ CaliVol("control")
        /\ \/ Go("control", Suffix(Calibrate, 12))
           \/ Go("control", Suffix(Calibrate, 15))
    BY <1>2, <1>13, CaliMoves
  <2>2. /\ DOMAIN todo' = Threads
        /\ \/ todo'["control"] = Suffix(Calibrate, 12)
           \/ todo'["control"] = Suffix(Calibrate, 15)
        /\ todo'["event"] = todo["event"] /\ todo'["work"] = todo["work"]
    BY <1>2, <2>1, GoMoves
  <2> QED BY <1>2, <1>13, <2>1, <2>2 DEF CaliVol, Is, CaliRest, amp, sched
<1>14. CASE k = 12
  <2>1. /\ Measure("control")
        /\ \/ Go("control", <<"dsp_bypass", "dsp_on">> \o Suffix(Calibrate, 13))
           \/ Go("control", FadeOut \o Suffix(Calibrate, 13))
    BY <1>2, <1>14, CaliMoves
  <2>2. /\ DOMAIN todo' = Threads
        /\ \/ todo'["control"] = <<"dsp_bypass", "dsp_on">> \o Suffix(Calibrate, 13)
           \/ todo'["control"] = FadeOut \o Suffix(Calibrate, 13)
        /\ todo'["event"] = todo["event"] /\ todo'["work"] = todo["work"]
    BY <1>2, <2>1, GoMoves
  <2> QED BY <1>2, <1>14, <2>1, <2>2 DEF Measure, AtExtra, CaliRest, amp, sched
<1>15. CASE k = 13
  <2>1. PutBack("control", "put_vol", {"vol"}) /\ Go("control", Suffix(Calibrate, 14))
    BY <1>2, <1>15, CaliMoves
  <2>2. /\ DOMAIN todo' = Threads /\ todo'["control"] = Suffix(Calibrate, 14)
        /\ todo'["event"] = todo["event"] /\ todo'["work"] = todo["work"]
    BY <1>2, <2>1, GoMoves
  <2> QED BY <1>2, <1>15, <2>1, <2>2 DEF PutBack, Is, CaliRest, amp, sched
<1>16. CASE k = 14
  <2>1. PutBack("control", "recover", {"ng", "lp"}) /\ Go("control", Suffix(Calibrate, 15))
    BY <1>2, <1>16, CaliMoves
  <2>2. /\ DOMAIN todo' = Threads /\ todo'["control"] = Suffix(Calibrate, 15)
        /\ todo'["event"] = todo["event"] /\ todo'["work"] = todo["work"]
    BY <1>2, <2>1, GoMoves
  <2> QED BY <1>2, <1>16, <2>1, <2>2 DEF PutBack, Is, CaliRest, amp, sched
<1>17. CASE k = 15
  <2>1. Write("control", "dsp_bypass", hmute, TRUE, pwdn) /\ Go("control", Suffix(Calibrate, 16))
    BY <1>2, <1>17, CaliMoves
  <2>2. /\ DOMAIN todo' = Threads /\ todo'["control"] = Suffix(Calibrate, 16)
        /\ todo'["event"] = todo["event"] /\ todo'["work"] = todo["work"]
    BY <1>2, <2>1, GoMoves
  <2> QED BY <1>2, <1>17, <2>1, <2>2 DEF Write, Is, amp, sched
<1>18. CASE k = 16
  <2>1. PutBack("control", "put_cfg", {"cfg"}) /\ Go("control", Suffix(Calibrate, 17))
    BY <1>2, <1>18, CaliMoves
  <2>2. /\ DOMAIN todo' = Threads /\ todo'["control"] = Suffix(Calibrate, 17)
        /\ todo'["event"] = todo["event"] /\ todo'["work"] = todo["work"]
    BY <1>2, <2>1, GoMoves
  <2> QED BY <1>2, <1>18, <2>1, <2>2 DEF PutBack, Is, CaliRest, amp, sched
<1>19. CASE k = 17
  <2>1. Write("control", "dsp_on", hmute, FALSE, pwdn) /\ Go("control", Suffix(Calibrate, 18))
    BY <1>2, <1>19, CaliMoves
  <2>2. /\ DOMAIN todo' = Threads /\ todo'["control"] = Suffix(Calibrate, 18)
        /\ todo'["event"] = todo["event"] /\ todo'["work"] = todo["work"]
    BY <1>2, <2>1, GoMoves
  <2> QED BY <1>2, <1>19, <2>1, <2>2 DEF Write, Is, amp, sched
<1>20. CASE k = 18
  <2>1. CaliEnd("control") /\ Go("control", Suffix(Calibrate, 19))
    BY <1>2, <1>20, CaliMoves
  <2>2. /\ DOMAIN todo' = Threads /\ todo'["control"] = Suffix(Calibrate, 19)
        /\ todo'["event"] = todo["event"] /\ todo'["work"] = todo["work"]
    BY <1>2, <2>1, GoMoves
  <2> QED BY <1>2, <1>20, <2>1, <2>2 DEF CaliEnd, Is, CaliRest, amp, sched
<1>21. CASE k = 19
  <2>1. End("control") /\ Go("control", <<>>)
    BY <1>2, <1>21, CaliMoves
  <2>2. /\ DOMAIN todo' = Threads /\ todo'["control"] = <<>>
        /\ todo'["event"] = todo["event"] /\ todo'["work"] = todo["work"]
    BY <1>2, <2>1, GoMoves
  <2> QED BY <1>2, <1>21, <2>1, <2>2 DEF End, Quiet, sched
<1> QED BY <1>3, <1>4, <1>5, <1>6, <1>7, <1>8, <1>9, <1>10, <1>11, <1>12, <1>13, <1>14,
       <1>15, <1>16, <1>17, <1>18, <1>19, <1>20, <1>21

\* What the steps off the straight path of a calibration do.
LEMMA ExtraEffects ==
    ASSUME DOMAIN todo = Threads, NEW x \in Extras, AtExtra(x), Step("control")
    PROVE  /\ DOMAIN todo' = Threads
           /\ todo'["event"] = todo["event"] /\ todo'["work"] = todo["work"]
           /\ sched' = sched /\ status' = status
           /\ Is("control", Calibrate, 13)' \/ \E y \in Extras : AtExtra(y)'
<1>2. "control" \in Threads /\ "event" \in Threads \ {"control"} /\ "work" \in Threads \ {"control"}
  BY DEF Threads
<1>3. CASE x = <<"dsp_bypass", "dsp_on">>
  <2>1. /\ Write("control", "dsp_bypass", hmute, TRUE, pwdn)
        /\ Go("control", <<"dsp_on">> \o Suffix(Calibrate, 13))
    BY <1>2, <1>3, ExtraMoves
  <2>2. /\ DOMAIN todo' = Threads /\ todo'["control"] = <<"dsp_on">> \o Suffix(Calibrate, 13)
        /\ todo'["event"] = todo["event"] /\ todo'["work"] = todo["work"]
    BY <1>2, <2>1, GoMoves
  <2> QED BY <1>2, <1>3, <2>1, <2>2 DEF Write, AtExtra, Extras, amp, sched
<1>4. CASE x = <<"dsp_on">>
  <2>1. Write("control", "dsp_on", hmute, FALSE, pwdn) /\ Go("control", Suffix(Calibrate, 13))
    BY <1>2, <1>4, ExtraMoves
  <2>2. /\ DOMAIN todo' = Threads /\ todo'["control"] = Suffix(Calibrate, 13)
        /\ todo'["event"] = todo["event"] /\ todo'["work"] = todo["work"]
    BY <1>2, <2>1, GoMoves
  <2> QED BY <1>2, <1>4, <2>1, <2>2 DEF Write, Is, amp, sched
<1>5. CASE x = FadeOut
  <2>1. DoFadeOut("control") /\ Go("control", <<"hmute">> \o Suffix(Calibrate, 13))
    BY <1>2, <1>5, ExtraMoves
  <2>2. /\ DOMAIN todo' = Threads /\ todo'["control"] = <<"hmute">> \o Suffix(Calibrate, 13)
        /\ todo'["event"] = todo["event"] /\ todo'["work"] = todo["work"]
    BY <1>2, <2>1, GoMoves
  <2> QED BY <1>2, <1>5, <2>1, <2>2 DEF DoFadeOut, AtExtra, Extras, amp, sched
<1>6. CASE x = <<"hmute">>
  <2>1. Write("control", "hmute", TRUE, dspby, pwdn) /\ Go("control", Suffix(Calibrate, 13))
    BY <1>2, <1>6, ExtraMoves
  <2>2. /\ DOMAIN todo' = Threads /\ todo'["control"] = Suffix(Calibrate, 13)
        /\ todo'["event"] = todo["event"] /\ todo'["work"] = todo["work"]
    BY <1>2, <2>1, GoMoves
  <2> QED BY <1>2, <1>6, <2>1, <2>2 DEF Write, Is, amp, sched
<1> QED BY <1>3, <1>4, <1>5, <1>6 DEF Extras

-----------------------------------------------------------------------------
(* A thread stays where it is while another one moves.                     *)

\* The place of the event thread, if another thread moves.
LEMMA EventKept ==
    ASSUME EventInv, todo'["event"] = todo["event"], lock = "event" <=> lock' = "event",
           widget' = widget, lock = "event" => status' = status,
           Off /\ ~Restarting /\ ~queued /\ Quiet("work") =>
               Off' /\ ~Restarting' /\ ~queued' /\ Quiet("work")',
           lock = "event" /\ ~queued /\ Quiet("work") => ~queued' /\ Quiet("work")'
    PROVE  EventInv'
<1>1. CASE Quiet("event") /\ lock # "event" BY <1>1 DEF EventInv, Quiet
<1>2. ASSUME NEW k \in 1..10, UpSteps(k) PROVE UpSteps(k)'
  <2>1. CASE k = 1 BY <1>2, <2>1 DEF UpSteps, Is
  <2>2. CASE k >= 2 BY <1>2, <2>2 DEF UpSteps, Is, Off, Restarting
  <2> QED BY <2>1, <2>2
<1>3. ASSUME NEW k \in 1..9, DownSteps(k) PROVE DownSteps(k)'
  BY <1>3 DEF DownSteps, Is, Off
<1> QED BY <1>1, <1>2, <1>3 DEF EventInv

\* The place of the work, if another thread moves.
LEMMA WorkKept ==
    ASSUME WorkInv, todo'["work"] = todo["work"], lock = "work" <=> lock' = "work",
           lock = "work" => status' = status /\ (widget => widget')
    PROVE  WorkInv'
<1>1. ASSUME NEW k \in 14..28, StartSteps("work", k) PROVE StartSteps("work", k)'
  BY <1>1 DEF StartSteps, Is, Off
<1> QED BY <1>1 DEF WorkInv, Quiet

\* The place of the control, if another thread moves.
LEMMA ControlKept ==
    ASSUME ControlInv, todo'["control"] = todo["control"],
           lock = "control" <=> lock' = "control",
           lock = "control" => status' = status /\ (widget => widget')
    PROVE  ControlInv'
<1>1. ASSUME NEW k \in 2..28, StartSteps("control", k) PROVE StartSteps("control", k)'
  BY <1>1 DEF StartSteps, Is, Off
<1>2. ASSUME Gentle \/ Loose PROVE (Gentle \/ Loose)'
  BY <1>2 DEF Gentle, Loose, Quiet, Is, AtExtra
<1> QED BY <1>1, <1>2 DEF ControlInv

\* The lengths of what is left.
LEMMA Lengths ==
    /\ \A k \in 1..10 : Suffix(PreUp, k) # <<>>
    /\ \A k \in 1..9 : Suffix(PostDown, k) # <<>>
    /\ \A k \in 1..28 : Suffix(SetProfile, k) # <<>> /\ Len(Suffix(SetProfile, k)) = 29 - k
    /\ \A k \in 1..3 : Suffix(SetVolume, k) # <<>>
    /\ \A k \in 1..19 : Suffix(Calibrate, k) # <<>>
    /\ \A x \in Extras : x \o Suffix(Calibrate, 13) # <<>>
<1>1. ASSUME NEW P \in Seq(Labels), NEW k \in 1..Len(P)
      PROVE  Suffix(P, k) # <<>> /\ Len(Suffix(P, k)) = Len(P) + 1 - k
  BY StepsLeft
<1>2. \A k \in 1..10 : Suffix(PreUp, k) # <<>> BY <1>1, UpProgram
<1>3. \A k \in 1..9 : Suffix(PostDown, k) # <<>> BY <1>1, DownProgram
<1>4. ASSUME NEW k \in 1..28
      PROVE  Suffix(SetProfile, k) # <<>> /\ Len(Suffix(SetProfile, k)) = 29 - k
  <2>1. SetProfile \in Seq(Labels) /\ k \in 1..Len(SetProfile) /\ Len(SetProfile) + 1 - k = 29 - k
    BY ProfileProgram
  <2>2. /\ Suffix(SetProfile, k) # <<>>
        /\ Len(Suffix(SetProfile, k)) = Len(SetProfile) + 1 - k
    BY <1>1, <2>1
  <2> QED BY <2>1, <2>2
<1>5. \A k \in 1..3 : Suffix(SetVolume, k) # <<>> BY <1>1, VolumeProgram
<1>6. \A k \in 1..19 : Suffix(Calibrate, k) # <<>> BY <1>1, CaliProgram
<1>7. ASSUME NEW x \in Extras PROVE x \o Suffix(Calibrate, 13) # <<>>
  <2>1. Suffix(Calibrate, 13) \in Seq(Labels)
    <3>1. Calibrate \in Seq(Labels) /\ 13 \in 1..Len(Calibrate) BY CaliProgram
    <3> QED BY <3>1, StepsLeft
  <2>2. {"dsp_bypass", "dsp_on", "fade_out", "hmute"} \subseteq Labels BY DEF Labels
  <2>3. CASE x = <<"dsp_bypass", "dsp_on">> BY <2>1, <2>2, <2>3, JoinedTwo
  <2>4. CASE x = <<"dsp_on">> BY <2>1, <2>2, <2>4, Joined
  <2>5. CASE x = FadeOut BY <2>1, <2>2, <2>5, JoinedTwo DEF FadeOut
  <2>6. CASE x = <<"hmute">> BY <2>1, <2>2, <2>6, Joined
  <2> QED BY <2>3, <2>4, <2>5, <2>6 DEF Extras
<1> QED BY <1>2, <1>3, <1>4, <1>5, <1>6, <1>7

\* Where profile_set is when it has the lock.
LEMMA RestartPlaces ==
    ASSUME NEW k \in 2..28, StartSteps("control", k)
    PROVE  Restarting <=> k \in 3..27
<1>1. k \in 1..28 /\ todo["control"] = Suffix(SetProfile, k) /\ lock = "control"
  BY DEF StartSteps, Is
<1>2. Len(Suffix(SetProfile, k)) = 29 - k BY <1>1, Lengths
<1> QED BY <1>1, <1>2 DEF Restarting

-----------------------------------------------------------------------------
(* Every step keeps the threads where they may be.                         *)

\* PRE_PMU goes from step to step, or ends early.
LEMMA UpAdvance ==
    ASSUME DOMAIN todo = Threads, NEW k \in 1..9, UpSteps(k), Step("event"),
           NEW j \in {k + 1, 10}, Is("event", PreUp, j)', j = 10 => k \in {4, 8, 9}
    PROVE  UpSteps(j)'
<1>1. /\ todo'["work"] = todo["work"] /\ status' = status /\ widget' = widget
      /\ lock' = "event"
      /\ k # 2 /\ k # 9 => queued' = queued
      /\ k = 2 => Quiet("work") /\ ~queued'
  BY UpEffects
<1>2. ~Restarting' BY <1>1 DEF Restarting
<1> QED BY <1>1, <1>2 DEF UpSteps, Off, Quiet

\* A step of PRE_PMU leaves every thread in its place.
LEMMA UpPlaces ==
    ASSUME DOMAIN todo = Threads, PlacesInv, NEW k \in 1..10, UpSteps(k), Step("event")
    PROVE  PlacesInv'
<1>1. /\ DOMAIN todo' = Threads
      /\ todo'["work"] = todo["work"] /\ todo'["control"] = todo["control"]
      /\ status' = status /\ widget' = widget /\ present' = present
      /\ IF k = 1 THEN lock = Nobody /\ lock' = "event"
         ELSE lock = "event" /\ lock' = IF k = 10 THEN Nobody ELSE "event"
      /\ CASE k = 2 -> Quiet("work") /\ ~queued'
           [] k = 9 -> queued'
           [] OTHER -> queued' = queued
      /\ CASE k = 10 -> Quiet("event")'
           [] k = 4 -> Is("event", PreUp, 5)' \/ Is("event", PreUp, 10)'
           [] k = 8 -> Is("event", PreUp, 9)' \/ Is("event", PreUp, 10)'
           [] OTHER -> Is("event", PreUp, k + 1)'
  BY UpEffects
<1>2. /\ lock # "work" /\ lock' # "work" /\ lock # "control" /\ lock' # "control"
      /\ lock' # "event" <=> k = 10
  BY <1>1, AsocAssumption DEF Threads
<1>3. EventInv'
  <2>1. CASE k = 10 BY <1>1, <1>2, <2>1 DEF EventInv
  <2>2. CASE k \in {1, 2, 3, 5, 6, 7, 9}
    <3>1. Is("event", PreUp, k + 1)' BY <1>1, <2>2
    <3>2. k \in 1..9 /\ k + 1 \in {k + 1, 10} /\ k + 1 \in 1..10 /\ (k + 1 = 10 => k \in {4, 8, 9})
      BY <2>2
    <3>3. UpSteps(k + 1)' BY <3>1, <3>2, UpAdvance
    <3> QED BY <3>2, <3>3 DEF EventInv
  <2>3. CASE k = 8
    <3>1. Is("event", PreUp, 9)' \/ Is("event", PreUp, 10)' BY <1>1, <2>3
    <3>2. UpSteps(9)' \/ UpSteps(10)' BY <2>3, <3>1, UpAdvance
    <3> QED BY <3>2 DEF EventInv
  <2>4. CASE k = 4
    <3>1. Is("event", PreUp, 5)' \/ Is("event", PreUp, 10)' BY <1>1, <2>4
    <3>2. UpSteps(5)' \/ UpSteps(10)' BY <2>4, <3>1, UpAdvance
    <3> QED BY <3>2 DEF EventInv
  <2> QED BY <2>1, <2>2, <2>3, <2>4
<1>4. WorkInv' BY <1>1, <1>2, WorkKept DEF PlacesInv
<1>5. ControlInv' BY <1>1, <1>2, ControlKept DEF PlacesInv
<1>6. QueueInv'
  <2>1. ~Restarting' BY <1>2 DEF Restarting
  <2>2. k <= 9 => ~queued /\ Quiet("work") BY DEF UpSteps
  <2>3. Off' /\ widget' BY <1>1 DEF UpSteps, Off
  <2>4. queued' => Quiet("work")
    <3>1. CASE k = 9 BY <2>2, <3>1
    <3>2. CASE k # 9
      <4>1. queued' => queued BY <1>1, <3>2
      <4> QED BY <4>1 DEF PlacesInv, QueueInv
    <3> QED BY <3>1, <3>2
  <2>5. queued' => Quiet("work")' BY <1>1, <2>4 DEF Quiet
  <2> QED BY <2>1, <2>3, <2>5 DEF QueueInv
<1>7. (~Off => widget)' /\ (~present => ~widget /\ ~queued /\ AllQuiet)'
  <2>1. widget' /\ present BY <1>1 DEF PlacesInv, UpSteps
  <2> QED BY <1>1, <2>1
<1> QED BY <1>3, <1>4, <1>5, <1>6, <1>7 DEF PlacesInv

\* POST_PMD goes from step to step, or skips a stop of an amp that is off.
LEMMA DownAdvance ==
    ASSUME DOMAIN todo = Threads, NEW k \in 1..8, DownSteps(k), Step("event"),
           NEW j \in {k + 1, 8}, Is("event", PostDown, j)', j = 8 => k \in {3, 7}
    PROVE  DownSteps(j)'
<1>1. /\ todo'["work"] = todo["work"] /\ lock' = "event"
      /\ status' = IF k = 3 THEN "PW_OFF" ELSE status
      /\ k # 8 => widget' = widget
      /\ k # 2 => queued' = queued
      /\ k = 2 => Quiet("work") /\ ~queued'
  BY DownEffects
<1> QED BY <1>1 DEF DownSteps, Off, Quiet

\* A step of POST_PMD leaves every thread in its place.
LEMMA DownPlaces ==
    ASSUME DOMAIN todo = Threads, PlacesInv, NEW k \in 1..9, DownSteps(k), Step("event")
    PROVE  PlacesInv'
<1>1. /\ DOMAIN todo' = Threads
      /\ todo'["work"] = todo["work"] /\ todo'["control"] = todo["control"]
      /\ status' = (IF k = 3 THEN "PW_OFF" ELSE status) /\ present' = present
      /\ IF k = 8 THEN ~widget' ELSE widget' = widget
      /\ IF k = 1 THEN lock = Nobody /\ lock' = "event"
         ELSE lock = "event" /\ lock' = IF k = 9 THEN Nobody ELSE "event"
      /\ IF k = 2 THEN Quiet("work") /\ ~queued' ELSE queued' = queued
      /\ CASE k = 9 -> Quiet("event")'
           [] k = 3 -> Is("event", PostDown, 4)' \/ Is("event", PostDown, 8)'
           [] OTHER -> Is("event", PostDown, k + 1)'
  BY DownEffects
<1>2. /\ lock # "work" /\ lock' # "work" /\ lock # "control" /\ lock' # "control"
      /\ lock' # "event" <=> k = 9
  BY <1>1, AsocAssumption DEF Threads
<1>3. EventInv'
  <2>1. CASE k = 9 BY <1>1, <1>2, <2>1 DEF EventInv
  <2>2. CASE k \in {1, 2, 4, 5, 6, 7, 8}
    <3>1. Is("event", PostDown, k + 1)' BY <1>1, <2>2
    <3>2. k \in 1..8 /\ k + 1 \in {k + 1, 8} /\ k + 1 \in 1..9 /\ (k + 1 = 8 => k \in {3, 7})
      BY <2>2
    <3>3. DownSteps(k + 1)' BY <3>1, <3>2, DownAdvance
    <3> QED BY <3>2, <3>3 DEF EventInv
  <2>3. CASE k = 3
    <3>1. Is("event", PostDown, 4)' \/ Is("event", PostDown, 8)' BY <1>1, <2>3
    <3>2. DownSteps(4)' \/ DownSteps(8)' BY <2>3, <3>1, DownAdvance
    <3> QED BY <3>2 DEF EventInv
  <2> QED BY <2>1, <2>2, <2>3
<1>4. WorkInv' BY <1>1, <1>2, WorkKept DEF PlacesInv
<1>5. ControlInv' BY <1>1, <1>2, ControlKept DEF PlacesInv
<1>6. QueueInv'
  <2>1. ~Restarting' BY <1>2 DEF Restarting
  <2>2. Off => Off' BY <1>1 DEF Off
  <2>3. queued' => queued BY <1>1
  <2>4. k = 8 => ~queued /\ Quiet("work") BY DEF DownSteps
  <2> QED BY <1>1, <2>1, <2>2, <2>3, <2>4 DEF PlacesInv, QueueInv, Waits, Quiet
<1>7. (~Off => widget)'
  <2>1. k = 8 => Off BY DEF DownSteps
  <2> QED BY <1>1, <2>1 DEF PlacesInv, Off
<1>8. (~present => ~widget /\ ~queued /\ AllQuiet)'
  <2>1. ~Quiet("event") BY Lengths DEF DownSteps, Is, Quiet
  <2>2. present BY <2>1 DEF PlacesInv, AllQuiet, Threads
  <2> QED BY <1>1, <2>2
<1> QED BY <1>3, <1>4, <1>5, <1>6, <1>7, <1>8 DEF PlacesInv

\* Start work and profile_set go from step to step, by the code's ways out.
LEMMA StartAdvance ==
    ASSUME DOMAIN todo = Threads, NEW t \in {"work", "control"}, NEW k \in 2..27,
           StartSteps(t, k), Step(t), ~Off => widget, NEW j \in 3..28, Is(t, SetProfile, j)',
           j = 3 => k = 2 /\ ~Off, k = 2 => j \in {3, 28}, k = 20 => j = 28
    PROVE  StartSteps(t, j)'
<1>1. /\ widget' = widget /\ lock' = t
      /\ k = 3 => Off'
      /\ k # 3 /\ k # 20 => status' = status
  BY StartEffects
<1>2. j = 3 => ~Off' BY <1>1 DEF Off
<1>3. j \in 4..27 => Off'
  <2>1. j \in 4..27 => k \in 3..27 /\ k # 20 OBVIOUS
  <2>2. k \in 4..27 /\ k # 20 => Off' BY <1>1 DEF StartSteps, Off
  <2> QED BY <1>1, <2>1, <2>2
<1>4. j \in 3..27 => widget'
  <2>1. CASE k = 2 BY <1>1, <2>1
  <2>2. CASE k \in 3..27 BY <1>1, <2>2 DEF StartSteps
  <2> QED BY <2>1, <2>2
<1> QED BY <1>1, <1>2, <1>3, <1>4 DEF StartSteps

\* The next place with the lock, or none.
LEMMA StartGoes ==
    ASSUME DOMAIN todo = Threads, NEW t \in {"work", "control"}, NEW k \in 2..28,
           StartSteps(t, k), Step(t), ~Off => widget
    PROVE  \/ k = 28 /\ Quiet(t)' /\ lock' = Nobody
           \/ \E j \in 3..28 : StartSteps(t, j)' /\ (k >= 14 => j >= 14)
<1>1. /\ lock' = (IF k = 28 THEN Nobody ELSE t)
      /\ CASE k = 28 -> Quiet(t)'
           [] k = 2 -> Is(t, SetProfile, 28)' \/ (Is(t, SetProfile, 3)' /\ ~Off)
           [] k = 9 -> Is(t, SetProfile, 10)' \/ Is(t, SetProfile, 28)'
           [] k = 13 -> Is(t, SetProfile, 14)' \/ Is(t, SetProfile, 28)'
           [] k = 15 -> Is(t, SetProfile, 16)' \/ Is(t, SetProfile, 21)'
           [] k = 20 -> Is(t, SetProfile, 28)'
           [] k = 22 -> Is(t, SetProfile, 23)' \/ Is(t, SetProfile, 27)'
           [] k = 27 -> Is(t, SetProfile, 14)' \/ Is(t, SetProfile, 28)'
           [] OTHER -> Is(t, SetProfile, k + 1)'
  BY StartEffects
<1>2. CASE k = 28 BY <1>1, <1>2
<1>3. CASE k # 28
  <2>1. PICK j \in 3..28 : /\ Is(t, SetProfile, j)' /\ (k >= 14 => j >= 14)
                           /\ (j = 3 => k = 2 /\ ~Off)
                           /\ (k = 2 => j \in {3, 28}) /\ (k = 20 => j = 28)
    <3>1. CASE k = 2 BY <1>1, <3>1
    <3>2. CASE k = 13 BY <1>1, <3>2
    <3>3. CASE k = 15 BY <1>1, <3>3
    <3>4. CASE k = 20 BY <1>1, <3>4
    <3>5. CASE k = 27 BY <1>1, <3>5
    <3>7. CASE k = 9 BY <1>1, <3>7
    <3>8. CASE k = 22 BY <1>1, <3>8
    <3>6. CASE k \notin {2, 9, 13, 15, 20, 22, 27, 28}
      <4>1. Is(t, SetProfile, k + 1)' BY <1>1, <3>6
      <4>2. k + 1 \in 4..28 /\ (k >= 14 => k + 1 >= 14) BY <3>6
      <4> QED BY <3>6, <4>1, <4>2
    <3> QED BY <1>3, <3>1, <3>2, <3>3, <3>4, <3>5, <3>6, <3>7, <3>8
  <2>2. StartSteps(t, j)' BY <1>3, <2>1, StartAdvance
  <2> QED BY <2>1, <2>2
<1> QED BY <1>2, <1>3

\* A step of the work leaves every thread in its place.
LEMMA WorkPlaces ==
    ASSUME DOMAIN todo = Threads, PlacesInv, NEW k \in 14..28, StartSteps("work", k), Step("work")
    PROVE  PlacesInv'
<1>0. "work" \in {"work", "control"} /\ k \in 2..28 /\ (~Off => widget) BY DEF PlacesInv
<1>1. /\ todo'["event"] = todo["event"] /\ todo'["control"] = todo["control"]
      /\ queued' = queued /\ widget' = widget /\ present' = present
      /\ lock = "work" /\ lock' = (IF k = 28 THEN Nobody ELSE "work")
      /\ CASE k = 3 -> Off' [] k = 20 -> ~Off' [] OTHER -> status' = status
  BY <1>0, StartEffects DEF Threads
<1>2. /\ lock # "event" /\ lock' # "event" /\ lock # "control" /\ lock' # "control"
      /\ ~Restarting' /\ Nobody # "work"
  BY <1>1, AsocAssumption DEF Threads, Restarting
<1>3. ~Quiet("work") /\ present
  <2>1. k \in 1..28 /\ todo["work"] = Suffix(SetProfile, k) BY DEF StartSteps, Is
  <2>2. ~Quiet("work") BY <2>1, Lengths DEF Quiet
  <2> QED BY <2>2 DEF PlacesInv, AllQuiet, Threads
<1>4. EventInv' BY <1>1, <1>2, <1>3, EventKept DEF PlacesInv
<1>5. WorkInv' /\ todo'["work"] # StartWork
  <2>1. \/ Quiet("work")' /\ lock' = Nobody
        \/ \E j \in 14..28 : StartSteps("work", j)'
    BY <1>0, StartGoes
  <2>2. WorkInv' BY <1>2, <2>1 DEF WorkInv
  <2>3. StartWork # <<>> /\ Len(StartWork) = 16 BY StartProgram
  <2>4. ASSUME NEW j \in 14..28, StartSteps("work", j)' PROVE todo'["work"] # StartWork
    <3>1. todo'["work"] = Suffix(SetProfile, j) /\ j \in 1..28 BY <2>4 DEF StartSteps, Is
    <3>2. Len(Suffix(SetProfile, j)) = 29 - j BY <3>1, Lengths
    <3>3. 29 - j # 16 OBVIOUS
    <3>4. Suffix(SetProfile, j) # StartWork BY <2>3, <3>2, <3>3, Zenon
    <3> QED BY <3>1, <3>4
  <2> QED BY <2>1, <2>2, <2>3, <2>4 DEF Quiet
<1>6. ControlInv' BY <1>1, <1>2, ControlKept DEF PlacesInv
<1>7. QueueInv'
  <2>1. ~queued /\ widget BY <1>3 DEF PlacesInv, QueueInv
  <2> QED BY <1>1, <1>5, <2>1 DEF QueueInv, Waits
<1>8. (~Off => widget)' /\ (~present => ~widget /\ ~queued /\ AllQuiet)'
  <2>1. widget BY <1>3 DEF PlacesInv, QueueInv
  <2> QED BY <1>1, <1>3, <2>1
<1> QED BY <1>4, <1>5, <1>6, <1>7, <1>8 DEF PlacesInv

\* The work takes the lock.
LEMMA WorkLocks ==
    ASSUME DOMAIN todo = Threads, PlacesInv, todo["work"] = StartWork, lock # "work", Step("work")
    PROVE  PlacesInv' /\ Lock("work") /\ StartSteps("work", 14)'
<1>0. "work" \in Threads /\ "event" \in Threads \ {"work"} /\ "control" \in Threads \ {"work"}
  BY DEF Threads
<1>1. Head(todo["work"]) = "lock" /\ Tail(todo["work"]) = Suffix(SetProfile, 14)
  BY StartProgram
<1>2. Lock("work") BY <1>0, <1>1, NextStep
<1>3. Go("work", Suffix(SetProfile, 14)) BY <1>1, <1>2 DEF Lock, On
<1>4. /\ todo'["work"] = Suffix(SetProfile, 14)
      /\ todo'["event"] = todo["event"] /\ todo'["control"] = todo["control"]
      /\ queued' = queued /\ widget' = widget /\ present' = present /\ status' = status
      /\ lock = Nobody /\ lock' = "work"
  BY <1>0, <1>2, <1>3, GoMoves DEF Lock, amp
<1>5. Off /\ widget /\ ~queued /\ ~Quiet("work") /\ present /\ Nobody \notin Threads
  <2>1. ~Quiet("work") BY StartProgram DEF Quiet
  <2> QED BY <2>1, AsocAssumption DEF PlacesInv, QueueInv, Waits, AllQuiet, Threads
<1>6. StartSteps("work", 14)' BY <1>4, <1>5 DEF StartSteps, Is, Off
<1>7. ~Restarting' /\ lock' # "event" /\ lock # "event" /\ lock' # "control" /\ lock # "control"
  BY <1>4, <1>5 DEF Restarting, Threads
<1>8. EventInv' BY <1>4, <1>5, <1>7, EventKept DEF PlacesInv
<1>9. WorkInv' BY <1>6 DEF WorkInv
<1>10. ControlInv' BY <1>4, <1>7, ControlKept DEF PlacesInv
<1>11. QueueInv' BY <1>4, <1>5, <1>7 DEF QueueInv, Waits, Off
<1> QED BY <1>2, <1>4, <1>5, <1>6, <1>8, <1>9, <1>10, <1>11 DEF PlacesInv

\* A step of profile_set leaves every thread in its place.
LEMMA ControlPlaces ==
    ASSUME DOMAIN todo = Threads, PlacesInv, NEW k \in 2..28, StartSteps("control", k),
           Step("control")
    PROVE  PlacesInv'
<1>0. "control" \in {"work", "control"} /\ (~Off => widget) BY DEF PlacesInv
<1>1. /\ todo'["event"] = todo["event"] /\ todo'["work"] = todo["work"]
      /\ queued' = queued /\ widget' = widget /\ present' = present
      /\ lock = "control" /\ lock' = (IF k = 28 THEN Nobody ELSE "control")
      /\ CASE k = 3 -> Off' [] k = 20 -> ~Off' [] OTHER -> status' = status
      /\ k = 2 => Is("control", SetProfile, 28)' \/ (Is("control", SetProfile, 3)' /\ ~Off)
  BY <1>0, StartEffects DEF Threads
<1>2. /\ lock # "event" /\ lock' # "event" /\ lock # "work" /\ lock' # "work"
      /\ Nobody # "control"
  BY <1>1, AsocAssumption DEF Threads
<1>3. present
  <2>1. k \in 1..28 /\ todo["control"] = Suffix(SetProfile, k) BY DEF StartSteps, Is
  <2>2. ~Quiet("control") BY <2>1, Lengths DEF Quiet
  <2> QED BY <2>2 DEF PlacesInv, AllQuiet, Threads
<1>4. Off /\ ~Restarting => Off' /\ ~Restarting'
  <2> SUFFICES ASSUME Off, ~Restarting PROVE Off' /\ ~Restarting' OBVIOUS
  <2>1. k = 2 \/ k = 28 BY RestartPlaces
  <2>2. CASE k = 2
    <3>1. todo'["control"] = Suffix(SetProfile, 28) BY <1>1, <2>2 DEF Is
    <3>2. 28 \in 1..28 OBVIOUS
    <3>3. Len(Suffix(SetProfile, 28)) = 29 - 28 BY <3>2, Lengths
    <3> QED BY <1>1, <2>2, <3>1, <3>3 DEF Restarting, Off
  <2>3. CASE k = 28 BY <1>1, <1>2, <2>3 DEF Restarting, Off
  <2> QED BY <2>1, <2>2, <2>3
<1>5. EventInv'
  <2>1. ~queued /\ Quiet("work") => ~queued' /\ Quiet("work")' BY <1>1 DEF Quiet
  <2> QED BY <1>1, <1>2, <1>4, <2>1, EventKept DEF PlacesInv
<1>6. WorkInv' BY <1>1, <1>2, WorkKept DEF PlacesInv
<1>7. ControlInv'
  <2>1. \/ k = 28 /\ Quiet("control")' /\ lock' = Nobody
        \/ \E j \in 3..28 : StartSteps("control", j)'
    BY <1>0, StartGoes
  <2> QED BY <1>2, <2>1 DEF ControlInv, Gentle
<1>8. QueueInv' BY <1>1, <1>4 DEF PlacesInv, QueueInv, Waits, Quiet
<1>9. (~Off => widget)' /\ (~present => ~widget /\ ~queued /\ AllQuiet)'
  <2>1. k = 20 => widget BY DEF StartSteps
  <2>2. k # 20 => (Off => Off') BY <1>1 DEF Off
  <2> QED BY <1>0, <1>1, <1>3, <2>1, <2>2
<1> QED BY <1>5, <1>6, <1>7, <1>8, <1>9 DEF PlacesInv

\* profile_set takes the lock.
LEMMA ControlLocks ==
    ASSUME DOMAIN todo = Threads, PlacesInv, Is("control", SetProfile, 1), lock # "control",
           Step("control")
    PROVE  PlacesInv' /\ Lock("control") /\ StartSteps("control", 2)'
<1>0. /\ "control" \in Threads /\ "event" \in Threads \ {"control"}
      /\ "work" \in Threads \ {"control"} /\ Nobody \notin Threads
  BY AsocAssumption DEF Threads
<1>1. Head(todo["control"]) = "lock" /\ Tail(todo["control"]) = Suffix(SetProfile, 2)
  <2>1. SetProfile \in Seq(Labels) /\ 1 \in 1..Len(SetProfile) BY ProfileProgram
  <2>2. Head(todo["control"]) = SetProfile[1] /\ Tail(todo["control"]) = Suffix(SetProfile, 1 + 1)
    BY <2>1, Here
  <2> QED BY <2>2, ProfileStops
<1>2. Lock("control") BY <1>0, <1>1, NextStep
<1>3. Go("control", Suffix(SetProfile, 2)) BY <1>1, <1>2 DEF Lock, On
<1>4. /\ todo'["control"] = Suffix(SetProfile, 2)
      /\ todo'["event"] = todo["event"] /\ todo'["work"] = todo["work"]
      /\ queued' = queued /\ widget' = widget /\ present' = present /\ status' = status
      /\ lock = Nobody /\ lock' = "control"
  BY <1>0, <1>2, <1>3, GoMoves DEF Lock, amp
<1>5. present
  <2>1. todo["control"] # <<>> BY Lengths DEF Is
  <2> QED BY <2>1 DEF PlacesInv, AllQuiet, Threads, Quiet
<1>6. StartSteps("control", 2)' BY <1>4 DEF StartSteps, Is
<1>7. /\ ~Restarting' /\ lock # "event" /\ lock' # "event" /\ lock # "work" /\ lock' # "work"
  <2>1. 2 \in 1..28 OBVIOUS
  <2>2. Len(Suffix(SetProfile, 2)) = 29 - 2 BY <2>1, Lengths
  <2> QED BY <1>0, <1>4, <2>2 DEF Restarting, Threads
<1>8. EventInv'
  <2>1. ~queued /\ Quiet("work") => ~queued' /\ Quiet("work")' BY <1>4 DEF Quiet
  <2>2. Off => Off' BY <1>4 DEF Off
  <2> QED BY <1>4, <1>7, <2>1, <2>2, EventKept DEF PlacesInv
<1>9. WorkInv' BY <1>4, <1>7, WorkKept DEF PlacesInv
<1>10. ControlInv' BY <1>6 DEF ControlInv
<1>11. QueueInv' BY <1>4, <1>7 DEF PlacesInv, QueueInv, Waits, Quiet, Off
<1>12. (~Off => widget)' /\ (~present => ~widget /\ ~queued /\ AllQuiet)'
  BY <1>4, <1>5 DEF PlacesInv, Off
<1> QED BY <1>2, <1>6, <1>8, <1>9, <1>10, <1>11, <1>12 DEF PlacesInv

\* A control without the lock takes a step.
LEMMA LooseGoes ==
    ASSUME DOMAIN todo = Threads, Loose, Step("control"), lock # "control"
    PROVE  /\ todo'["event"] = todo["event"] /\ todo'["work"] = todo["work"]
           /\ sched' = sched /\ status' = status
           /\ Quiet("control")' \/ Loose'
<1>1. ASSUME NEW k \in 1..3, Is("control", SetVolume, k)
      PROVE  /\ todo'["event"] = todo["event"] /\ todo'["work"] = todo["work"]
             /\ sched' = sched /\ status' = status
             /\ Quiet("control")' \/ Loose'
  <2>1. /\ todo'["event"] = todo["event"] /\ todo'["work"] = todo["work"]
        /\ sched' = sched /\ status' = status
        /\ IF k = 3 THEN Quiet("control")' ELSE Is("control", SetVolume, k + 1)'
    BY <1>1, VolumeEffects
  <2>2. k # 3 => k + 1 \in 1..3 OBVIOUS
  <2> QED BY <2>1, <2>2 DEF Loose
<1>2. ASSUME NEW k \in 1..19, Is("control", Calibrate, k)
      PROVE  /\ todo'["event"] = todo["event"] /\ todo'["work"] = todo["work"]
             /\ sched' = sched /\ status' = status
             /\ Quiet("control")' \/ Loose'
  <2>1. /\ todo'["event"] = todo["event"] /\ todo'["work"] = todo["work"]
        /\ sched' = sched /\ status' = status
        /\ CASE k = 19 -> Quiet("control")'
             [] k = 1 -> Is("control", Calibrate, 2)' \/ Is("control", Calibrate, 19)'
             [] k = 5 -> Is("control", Calibrate, 6)' \/ Is("control", Calibrate, 18)'
             [] k = 9 -> \/ Is("control", Calibrate, 10)' \/ Is("control", Calibrate, 16)'
                         \/ Is("control", Calibrate, 17)'
             [] k = 11 -> Is("control", Calibrate, 12)' \/ Is("control", Calibrate, 15)'
             [] k = 12 -> AtExtra(<<"dsp_bypass", "dsp_on">>)' \/ AtExtra(FadeOut)'
             [] OTHER -> Is("control", Calibrate, k + 1)'
    BY <1>2, CaliEffects
  <2>2. CASE k = 12
    <3>1. <<"dsp_bypass", "dsp_on">> \in Extras /\ FadeOut \in Extras BY DEF Extras
    <3>2. AtExtra(<<"dsp_bypass", "dsp_on">>)' \/ AtExtra(FadeOut)' BY <2>1, <2>2
    <3> QED BY <2>1, <3>1, <3>2 DEF Loose
  <2>3. CASE k # 12
    <3>1. Quiet("control")' \/ \E j \in 1..19 : Is("control", Calibrate, j)'
      <4>1. CASE k \in {1, 5, 9, 11, 19} BY <2>1, <4>1
      <4>2. CASE k \notin {1, 5, 9, 11, 19}
        <5>1. Is("control", Calibrate, k + 1)' BY <2>1, <2>3, <4>2
        <5>2. k + 1 \in 1..19 BY <4>2
        <5> QED BY <5>1, <5>2
      <4> QED BY <4>1, <4>2
    <3> QED BY <2>1, <3>1 DEF Loose
  <2> QED BY <2>2, <2>3
<1>3. ASSUME NEW x \in Extras, AtExtra(x)
      PROVE  /\ todo'["event"] = todo["event"] /\ todo'["work"] = todo["work"]
             /\ sched' = sched /\ status' = status
             /\ Quiet("control")' \/ Loose'
  <2>1. /\ todo'["event"] = todo["event"] /\ todo'["work"] = todo["work"]
        /\ sched' = sched /\ status' = status
        /\ Is("control", Calibrate, 13)' \/ \E y \in Extras : AtExtra(y)'
    BY <1>3, ExtraEffects
  <2> QED BY <2>1 DEF Loose
<1> QED BY <1>1, <1>2, <1>3 DEF Loose

\* A step of a control that took no lock leaves every thread in its place.
LEMMA LoosePlaces ==
    ASSUME DOMAIN todo = Threads, PlacesInv, Loose, lock # "control", Step("control")
    PROVE  PlacesInv'
<1>1. /\ todo'["event"] = todo["event"] /\ todo'["work"] = todo["work"]
      /\ lock' = lock /\ queued' = queued /\ widget' = widget /\ present' = present
      /\ status' = status /\ (Quiet("control")' \/ Loose')
  BY LooseGoes DEF sched
<1>2. ~Restarting' BY <1>1 DEF Restarting
<1>3. present
  <2>1. todo["control"] # <<>> BY Lengths DEF Loose, Is, AtExtra
  <2> QED BY <2>1 DEF PlacesInv, AllQuiet, Threads, Quiet
<1>4. EventInv'
  <2>1. ~queued /\ Quiet("work") => ~queued' /\ Quiet("work")' BY <1>1 DEF Quiet
  <2>2. Off => Off' BY <1>1 DEF Off
  <2> QED BY <1>1, <1>2, <2>1, <2>2, EventKept DEF PlacesInv
<1>5. WorkInv' BY <1>1, WorkKept DEF PlacesInv
<1>6. ControlInv' BY <1>1 DEF ControlInv, Gentle
<1>7. QueueInv' BY <1>1, <1>2 DEF PlacesInv, QueueInv, Waits, Quiet, Off
<1>8. (~Off => widget)' /\ (~present => ~widget /\ ~queued /\ AllQuiet)'
  BY <1>1, <1>3 DEF PlacesInv, Off
<1> QED BY <1>4, <1>5, <1>6, <1>7, <1>8 DEF PlacesInv

\* Every step of a thread leaves every thread in its place.
LEMMA StepPlaces ==
    ASSUME DOMAIN todo = Threads, PlacesInv, NEW t \in Threads, Step(t)
    PROVE  PlacesInv'
<1>0. \A u \in Threads : Step(u) => ~Quiet(u) BY StepRuns
<1>1. CASE t = "event"
  <2>1. (\E k \in 1..10 : UpSteps(k)) \/ (\E k \in 1..9 : DownSteps(k))
    BY <1>0, <1>1 DEF PlacesInv, EventInv
  <2>2. Step("event") BY <1>1
  <2> QED BY <2>1, <2>2, UpPlaces, DownPlaces
<1>2. CASE t = "work"
  <2>1. Step("work") BY <1>2
  <2>2. \/ todo["work"] = StartWork /\ lock # "work"
        \/ \E k \in 14..28 : StartSteps("work", k)
    BY <1>0, <1>2 DEF PlacesInv, WorkInv
  <2> QED BY <2>1, <2>2, WorkLocks, WorkPlaces
<1>3. CASE t = "control"
  <2>1. Step("control") BY <1>3
  <2>2. \/ lock # "control" /\ (Is("control", SetProfile, 1) \/ Loose)
        \/ \E k \in 2..28 : StartSteps("control", k)
    BY <1>0, <1>3 DEF PlacesInv, ControlInv, Gentle
  <2> QED BY <2>1, <2>2, ControlLocks, LoosePlaces, ControlPlaces
<1> QED BY <1>1, <1>2, <1>3 DEF Threads

-----------------------------------------------------------------------------
(* The threads begin, and the component goes and comes back.               *)

\* PRE_PMU begins.
LEMMA PlaybackUpPlaces ==
    ASSUME DOMAIN todo = Threads, PlacesInv, PlaybackUp
    PROVE  PlacesInv' /\ UpSteps(1)'
<1>1. /\ "event" \in Threads /\ "work" \in Threads \ {"event"}
      /\ "control" \in Threads \ {"event"}
  BY DEF Threads
<1>2. /\ todo'["event"] = PreUp /\ todo'["work"] = todo["work"]
      /\ todo'["control"] = todo["control"]
      /\ lock' = lock /\ queued' = queued /\ present /\ present' = present
      /\ status' = status /\ ~widget /\ widget' /\ Quiet("event")
  BY <1>1 DEF PlaybackUp, Begin, amp
<1>3. Off /\ ~queued /\ Quiet("work") BY <1>2 DEF PlacesInv, QueueInv
<1>4. ~Restarting
  <2>1. CASE lock # "control" BY <2>1 DEF Restarting
  <2>2. ASSUME NEW k \in 2..28, StartSteps("control", k) PROVE ~Restarting
    <3>1. k \notin 3..27 BY <1>2, <2>2 DEF StartSteps
    <3> QED BY <2>2, <3>1, RestartPlaces
  <2> QED BY <2>1, <2>2 DEF PlacesInv, ControlInv
<1>5. lock # "event"
  <2>1. ASSUME NEW k \in 1..10, UpSteps(k) PROVE FALSE
    BY <1>2, <2>1, Lengths DEF UpSteps, Is, Quiet
  <2>2. ASSUME NEW k \in 1..9, DownSteps(k) PROVE FALSE
    BY <1>2, <2>2, Lengths DEF DownSteps, Is, Quiet
  <2> QED BY <2>1, <2>2 DEF PlacesInv, EventInv
<1>6. ~Restarting' BY <1>2, <1>4 DEF Restarting
<1>7. UpSteps(1)' BY <1>2, <1>3, <1>5, <1>6, Wholes DEF UpSteps, Is, Off, Quiet
<1>8. EventInv' BY <1>7 DEF EventInv
<1>9. WorkInv' BY <1>2, WorkKept DEF PlacesInv
<1>10. ControlInv' BY <1>2, ControlKept DEF PlacesInv
<1>11. QueueInv' BY <1>2, <1>3, <1>6 DEF PlacesInv, QueueInv, Waits, Quiet, Off
<1> QED BY <1>2, <1>7, <1>8, <1>9, <1>10, <1>11 DEF PlacesInv

\* POST_PMD begins.
LEMMA PlaybackDownPlaces ==
    ASSUME DOMAIN todo = Threads, PlacesInv, PlaybackDown
    PROVE  PlacesInv' /\ DownSteps(1)'
<1>1. /\ "event" \in Threads /\ "work" \in Threads \ {"event"}
      /\ "control" \in Threads \ {"event"}
  BY DEF Threads
<1>2. /\ todo'["event"] = PostDown /\ todo'["work"] = todo["work"]
      /\ todo'["control"] = todo["control"]
      /\ lock' = lock /\ queued' = queued /\ present /\ present' = present
      /\ status' = status /\ widget /\ widget' = widget /\ Quiet("event")
  BY <1>1 DEF PlaybackDown, Begin, amp
<1>3. lock # "event"
  <2>1. ASSUME NEW k \in 1..10, UpSteps(k) PROVE FALSE
    BY <1>2, <2>1, Lengths DEF UpSteps, Is, Quiet
  <2>2. ASSUME NEW k \in 1..9, DownSteps(k) PROVE FALSE
    BY <1>2, <2>2, Lengths DEF DownSteps, Is, Quiet
  <2> QED BY <2>1, <2>2 DEF PlacesInv, EventInv
<1>4. Restarting' => Restarting BY <1>2 DEF Restarting
<1>5. DownSteps(1)' BY <1>2, <1>3, Wholes DEF DownSteps, Is
<1>6. EventInv' BY <1>5 DEF EventInv
<1>7. WorkInv' BY <1>2, WorkKept DEF PlacesInv
<1>8. ControlInv' BY <1>2, ControlKept DEF PlacesInv
<1>9. QueueInv' BY <1>2, <1>4 DEF PlacesInv, QueueInv, Waits, Quiet, Off
<1> QED BY <1>2, <1>5, <1>6, <1>7, <1>8, <1>9 DEF PlacesInv, Off

\* The timer expires: the work was queued, so a widget is up or coming up.
LEMMA WorkBeginsPlaces ==
    ASSUME DOMAIN todo = Threads, PlacesInv, WorkBegins
    PROVE  PlacesInv'
<1>1. /\ "work" \in Threads /\ "event" \in Threads \ {"work"}
      /\ "control" \in Threads \ {"work"}
  BY DEF Threads
<1>2. /\ todo'["work"] = StartWork /\ todo'["event"] = todo["event"]
      /\ todo'["control"] = todo["control"]
      /\ lock' = lock /\ queued /\ ~queued' /\ present /\ present' = present
      /\ status' = status /\ widget' = widget /\ Quiet("work")
  BY <1>1 DEF WorkBegins, Begin, amp
<1>3. lock # "work"
  <2>1. ASSUME NEW k \in 14..28, StartSteps("work", k) PROVE FALSE
    <3>1. k \in 1..28 /\ todo["work"] = Suffix(SetProfile, k) BY <2>1 DEF StartSteps, Is
    <3> QED BY <1>2, <3>1, Lengths DEF Quiet
  <2> QED BY <2>1 DEF PlacesInv, WorkInv
<1>4. Off /\ ~Restarting /\ widget BY <1>2 DEF PlacesInv, QueueInv, Waits
<1>5. ~Restarting' BY <1>2, <1>4 DEF Restarting
<1>6. EventInv' BY <1>2, EventKept DEF PlacesInv
<1>7. WorkInv' BY <1>2, <1>3 DEF WorkInv
<1>8. ControlInv' BY <1>2, ControlKept DEF PlacesInv
<1>9. QueueInv' BY <1>2, <1>4, <1>5 DEF QueueInv, Off
<1> QED BY <1>2, <1>4, <1>6, <1>7, <1>8, <1>9 DEF PlacesInv, Off

\* A control begins: the lock is not its own.
LEMMA ControlBegins ==
    ASSUME DOMAIN todo = Threads, PlacesInv, NEW s, Begin("control", s),
           UNCHANGED <<queued, widget, present>>,
           s = SetProfile \/ s = SetVolume \/ s = Calibrate
    PROVE  PlacesInv' /\ lock # "control"
<1>1. /\ "control" \in Threads /\ "event" \in Threads \ {"control"}
      /\ "work" \in Threads \ {"control"}
  BY DEF Threads
<1>2. /\ todo'["control"] = s /\ todo'["event"] = todo["event"]
      /\ todo'["work"] = todo["work"]
      /\ lock' = lock /\ queued' = queued /\ present /\ present' = present
      /\ status' = status /\ widget' = widget /\ Quiet("control")
  BY <1>1 DEF Begin, amp
<1>3. lock # "control"
  <2>1. ASSUME NEW k \in 2..28, StartSteps("control", k) PROVE FALSE
    <3>1. k \in 1..28 /\ todo["control"] = Suffix(SetProfile, k) BY <2>1 DEF StartSteps, Is
    <3> QED BY <1>2, <3>1, Lengths DEF Quiet
  <2> QED BY <2>1 DEF PlacesInv, ControlInv
<1>4. ~Restarting' BY <1>2, <1>3 DEF Restarting
<1>5. EventInv'
  <2>1. ~queued /\ Quiet("work") => ~queued' /\ Quiet("work")' BY <1>2 DEF Quiet
  <2>2. Off => Off' BY <1>2 DEF Off
  <2> QED BY <1>2, <1>4, <2>1, <2>2, EventKept DEF PlacesInv
<1>6. WorkInv' BY <1>2, WorkKept DEF PlacesInv
<1>7. ControlInv'
  <2>1. (Gentle \/ Loose)'
    <3>1. CASE s = SetProfile BY <1>2, <3>1, Wholes DEF Gentle, Is
    <3>2. CASE s = SetVolume BY <1>2, <3>2, Wholes DEF Loose, Is
    <3>3. CASE s = Calibrate BY <1>2, <3>3, Wholes DEF Loose, Is
    <3> QED BY <3>1, <3>2, <3>3
  <2> QED BY <1>2, <1>3, <2>1 DEF ControlInv
<1>8. QueueInv' BY <1>2, <1>4 DEF PlacesInv, QueueInv, Waits, Quiet, Off
<1> QED BY <1>2, <1>3, <1>5, <1>6, <1>7, <1>8 DEF PlacesInv, Off

\* codec_remove: nobody was at work.
LEMMA RemovePlaces ==
    ASSUME DOMAIN todo = Threads, PlacesInv, CodecRemove
    PROVE  PlacesInv'
<1>1. /\ todo' = todo /\ lock' = lock /\ status' = status /\ widget' = widget
      /\ ~widget /\ ~queued' /\ AllQuiet
  BY DEF CodecRemove, amp, AllQuiet, Threads
<1>2. Off /\ Quiet("work") BY <1>1 DEF PlacesInv, QueueInv, AllQuiet, Threads
<1>3. Restarting' => Restarting BY <1>1 DEF Restarting
<1>4. EventInv'
  <2>1. ~queued /\ Quiet("work") => ~queued' /\ Quiet("work")' BY <1>1 DEF Quiet
  <2> QED BY <1>1, <1>3, <2>1, EventKept DEF PlacesInv, Off
<1>5. WorkInv' BY <1>1, WorkKept DEF PlacesInv
<1>6. ControlInv' BY <1>1, ControlKept DEF PlacesInv
<1>7. todo["work"] # StartWork BY <1>2, StartProgram DEF Quiet
<1>8. QueueInv' BY <1>1, <1>2, <1>7 DEF QueueInv, Waits, Quiet
<1> QED BY <1>1, <1>2, <1>4, <1>5, <1>6, <1>8 DEF PlacesInv, Off, AllQuiet, Quiet

\* codec_probe: nobody was at work.
LEMMA ProbePlaces ==
    ASSUME DOMAIN todo = Threads, PlacesInv, CodecProbe
    PROVE  PlacesInv'
<1>1. /\ todo' = todo /\ lock' = lock /\ status' = status /\ widget' = widget
      /\ queued' = queued /\ present'
  BY DEF CodecProbe, amp
<1>2. Restarting' => Restarting BY <1>1 DEF Restarting
<1>3. EventInv'
  <2>1. ~queued /\ Quiet("work") => ~queued' /\ Quiet("work")' BY <1>1 DEF Quiet
  <2> QED BY <1>1, <1>2, <2>1, EventKept DEF PlacesInv, Off
<1>4. WorkInv' BY <1>1, WorkKept DEF PlacesInv
<1>5. ControlInv' BY <1>1, ControlKept DEF PlacesInv
<1>6. QueueInv' BY <1>1, <1>2 DEF PlacesInv, QueueInv, Waits, Quiet, Off
<1> QED BY <1>1, <1>3, <1>4, <1>5, <1>6 DEF PlacesInv, Off

\* The places are inductive, whatever threads overlap.
LEMMA NextPlaces ==
    ASSUME DOMAIN todo = Threads, PlacesInv, [Next]_vars
    PROVE  PlacesInv'
<1>1. CASE PlaybackUp BY <1>1, PlaybackUpPlaces
<1>2. CASE PlaybackDown BY <1>2, PlaybackDownPlaces
<1>3. CASE WorkBegins BY <1>3, WorkBeginsPlaces
<1>4. CASE ProfileSet BY <1>4, ControlBegins DEF ProfileSet
<1>5. CASE VolumeSet BY <1>5, ControlBegins DEF VolumeSet
<1>6. CASE CalibSet BY <1>6, ControlBegins DEF CalibSet
<1>7. CASE CodecRemove BY <1>7, RemovePlaces
<1>8. CASE CodecProbe BY <1>8, ProbePlaces
<1>9. CASE \E t \in Threads : Step(t) BY <1>9, StepPlaces
<1>10. CASE UNCHANGED vars
  <2>1. /\ todo' = todo /\ lock' = lock /\ status' = status /\ widget' = widget
        /\ queued' = queued /\ present' = present
    BY <1>10 DEF vars, sched, amp
  <2>2. Restarting' => Restarting BY <2>1 DEF Restarting
  <2>3. EventInv'
    <3>1. ~queued /\ Quiet("work") => ~queued' /\ Quiet("work")' BY <2>1 DEF Quiet
    <3> QED BY <2>1, <2>2, <3>1, EventKept DEF PlacesInv, Off
  <2>4. WorkInv' BY <2>1, WorkKept DEF PlacesInv
  <2>5. ControlInv' BY <2>1, ControlKept DEF PlacesInv
  <2>6. QueueInv' BY <2>1, <2>2 DEF PlacesInv, QueueInv, Waits, Quiet, Off
  <2> QED BY <2>1, <2>3, <2>4, <2>5, <2>6 DEF PlacesInv, Off, AllQuiet, Quiet
<1> QED BY <1>1, <1>2, <1>3, <1>4, <1>5, <1>6, <1>7, <1>8, <1>9, <1>10 DEF Next

-----------------------------------------------------------------------------
(* The values of the variables.                                            *)

\* A thread before its loop count has nothing else to do.
LEMMA NextLast ==
    ASSUME PlacesInv, NEW t \in Threads, Head(todo[t]) = "next", ~Quiet(t)
    PROVE  Tail(todo[t]) = <<"end">>
<1>1. ASSUME NEW u, NEW k \in 1..28, Is(u, SetProfile, k), Head(todo[u]) = "next"
      PROVE  Tail(todo[u]) = <<"end">>
  <2>1. SetProfile \in Seq(Labels) /\ k \in 1..Len(SetProfile) BY ProfileProgram
  <2>2. Head(todo[u]) = SetProfile[k] /\ Tail(todo[u]) = Suffix(SetProfile, k + 1)
    BY <1>1, <2>1, Here
  <2>3. k \notin 1..13
    <3>1. CASE k \in 1..8
      <4>1. k \in {1, 2, 3, 4, 5, 6, 7, 8} BY <3>1
      <4> QED BY <1>1, <2>2, <4>1, ProfileStops
    <3>2. CASE k \in 9..13
      <4>1. k \in {9, 10, 11, 12, 13} BY <3>2
      <4> QED BY <1>1, <2>2, <4>1, ProfileLoads
    <3> QED BY <3>1, <3>2
  <2>4. k \notin 14..21
    <3>1. k \in 14..21 => k \in {14, 15, 16, 17, 18, 19, 20, 21} OBVIOUS
    <3> QED BY <1>1, <2>2, <3>1, ProfileStarts
  <2>5. k = 27
    <3>1. k \in {22, 23, 24, 25, 26, 27, 28} BY <2>3, <2>4
    <3> QED BY <1>1, <2>2, <3>1, ProfileReloads
  <2>6. k + 1 = 28 BY <2>5
  <2> QED BY <2>2, <2>6, Ends
<1>2. ASSUME NEW k \in 1..10, Is("event", PreUp, k) PROVE Head(todo["event"]) # "next"
  <2>1. PreUp \in Seq(Labels) /\ k \in 1..Len(PreUp) BY UpProgram
  <2>2. Head(todo["event"]) = PreUp[k] BY <1>2, <2>1, Here
  <2>3. k \in {1, 2, 3, 4, 5, 6, 7, 8, 9, 10} OBVIOUS
  <2> QED BY <2>2, <2>3, UpProgram
<1>3. ASSUME NEW k \in 1..9, Is("event", PostDown, k) PROVE Head(todo["event"]) # "next"
  <2>1. PostDown \in Seq(Labels) /\ k \in 1..Len(PostDown) BY DownProgram
  <2>2. Head(todo["event"]) = PostDown[k] BY <1>3, <2>1, Here
  <2>3. k \in {1, 2, 3, 4, 5, 6, 7, 8, 9} OBVIOUS
  <2> QED BY <2>2, <2>3, DownProgram
<1>4. ASSUME Loose PROVE Head(todo["control"]) # "next"
  <2>1. ASSUME NEW k \in 1..3, Is("control", SetVolume, k) PROVE Head(todo["control"]) # "next"
    <3>1. SetVolume \in Seq(Labels) /\ k \in 1..Len(SetVolume) BY VolumeProgram
    <3>2. Head(todo["control"]) = SetVolume[k] BY <2>1, <3>1, Here
    <3>3. k \in {1, 2, 3} OBVIOUS
    <3> QED BY <3>2, <3>3, VolumeProgram
  <2>2. ASSUME NEW k \in 1..19, Is("control", Calibrate, k) PROVE Head(todo["control"]) # "next"
    <3>1. Calibrate \in Seq(Labels) /\ k \in 1..Len(Calibrate) BY CaliProgram
    <3>2. Head(todo["control"]) = Calibrate[k] BY <2>2, <3>1, Here
    <3>3. CASE k \in 1..10
      <4>1. k \in {1, 2, 3, 4, 5, 6, 7, 8, 9, 10} BY <3>3
      <4> QED BY <3>2, <4>1, CaliFirst
    <3>4. CASE k \in 11..19
      <4>1. k \in {11, 12, 13, 14, 15, 16, 17, 18, 19} BY <3>4
      <4> QED BY <3>2, <4>1, CaliLast
    <3> QED BY <3>3, <3>4
  <2>3. ASSUME NEW x \in Extras, AtExtra(x) PROVE Head(todo["control"]) # "next"
    <3>1. Head(todo["control"]) \in {"dsp_bypass", "dsp_on", "fade_out", "hmute"}
      BY <2>3, ExtraHeads
    <3> QED BY <3>1
  <2> QED BY <1>4, <2>1, <2>2, <2>3 DEF Loose
<1>5. CASE t = "event"
  BY <1>2, <1>3, <1>5 DEF PlacesInv, EventInv, UpSteps, DownSteps
<1>6. CASE t = "work"
  <2>1. StartWork # <<>> /\ Head(StartWork) = "lock" BY StartProgram
  <2>2. PICK k \in 14..28 : StartSteps("work", k)
    BY <1>6, <2>1 DEF PlacesInv, WorkInv
  <2>3. k \in 1..28 /\ Is("work", SetProfile, k) BY <2>2 DEF StartSteps
  <2> QED BY <1>1, <1>6, <2>3
<1>7. CASE t = "control"
  <2>1. PICK k \in 1..28 : Is("control", SetProfile, k)
    BY <1>4, <1>7 DEF PlacesInv, ControlInv, Gentle, StartSteps
  <2> QED BY <1>1, <1>7, <2>1
<1> QED BY <1>5, <1>6, <1>7 DEF Threads

\* A step keeps the types, and counts an attempt only while there are more.
LEMMA StepTypes ==
    ASSUME TypeOK, CountInv, PlacesInv, NEW t \in Threads, Step(t)
    PROVE  TypeOK' /\ CountInv'
<1> USE AsocAssumption
<1>1. CASE NextAttempt(t)
  <2>1. ~Quiet(t) /\ Head(todo[t]) = "next" BY <1>1 DEF NextAttempt, At, Quiet
  <2>2. todo[t] # <<"end">> BY <2>1
  <2>3. attempt[t] < Retries /\ attempt[t] \in 0..Retries
    BY <2>2 DEF CountInv, TypeOK
  <2>4. Tail(todo[t]) = <<"end">> BY <2>1, NextLast
  <2>5. /\ attempt' = [attempt EXCEPT ![t] = attempt[t] + 1]
        /\ attempt[t] + 1 \in 0..Retries
    BY <1>1, <2>3 DEF NextAttempt
  <2>6. TypeOK' BY <1>1, <2>5 DEF NextAttempt, TypeOK, Go, sched, prof, vol, pins, cali
  <2>7. attempt'[t] < Retries \/ todo'[t] = <<"end">>
    BY <1>1, <2>4 DEF NextAttempt, Go, TypeOK
  <2>8. \A u \in Threads \ {t} : attempt'[u] = attempt[u] /\ todo'[u] = todo[u]
    BY <1>1, <2>5 DEF NextAttempt, Go, TypeOK
  <2> QED BY <2>6, <2>7, <2>8 DEF CountInv
<1>2. ASSUME attempt' = attempt, NEW s, Go(t, s), Head(todo[t]) # "end"
      PROVE  CountInv' /\ DOMAIN todo' = Threads
  <2>1. todo[t] # <<"end">> BY <1>2
  <2>2. DOMAIN todo' = Threads /\ \A u \in Threads \ {t} : todo'[u] = todo[u]
    BY <1>2 DEF Go, TypeOK
  <2> QED BY <1>2, <2>1, <2>2 DEF CountInv
<1>3. CASE End(t)
  <2>1. DOMAIN todo' = Threads /\ \A u \in Threads \ {t} : todo'[u] = todo[u]
    BY <1>3 DEF End, On, Go, TypeOK
  <2>2. attempt' = [attempt EXCEPT ![t] = 0] /\ 0 \in 0..Retries /\ 0 < Retries
    BY <1>3 DEF End
  <2>3. CountInv' BY <2>1, <2>2 DEF CountInv, TypeOK
  <2> QED BY <1>3, <2>1, <2>2, <2>3 DEF End, TypeOK, prof, vol, pins, cali
<1>4. CASE Lock(t)
  <2>1. attempt' = attempt /\ Go(t, Tail(todo[t])) /\ Head(todo[t]) # "end"
    BY <1>4 DEF Lock, On, At, amp
  <2>2. CountInv' /\ DOMAIN todo' = Threads BY <1>2, <2>1
  <2> QED BY <1>4, <2>1, <2>2 DEF Lock, TypeOK, amp, prof, vol, pins, cali
<1>5. CASE Cancel(t)
  <2>1. attempt' = attempt /\ Go(t, Tail(todo[t])) /\ Head(todo[t]) # "end"
    BY <1>5 DEF Cancel, On, At, amp
  <2>2. CountInv' /\ DOMAIN todo' = Threads BY <1>2, <2>1
  <2> QED BY <1>5, <2>1, <2>2 DEF Cancel, TypeOK, amp, prof, vol, pins, cali
<1>6. CASE Start(t)
  <2>1. /\ attempt' = attempt
        /\ Go(t, IF status = "PW_ON" THEN <<"end">> ELSE Tail(todo[t]))
        /\ Head(todo[t]) # "end"
    BY <1>6 DEF Start, On, At, amp
  <2>2. CountInv' /\ DOMAIN todo' = Threads BY <1>2, <2>1
  <2> QED BY <1>6, <2>1, <2>2 DEF Start, TypeOK, sched, amp, prof, vol, pins, cali
<1>7. CASE Queue(t)
  <2>1. attempt' = attempt /\ Go(t, Tail(todo[t])) /\ Head(todo[t]) # "end"
    BY <1>7 DEF Queue, On, At, amp
  <2>2. CountInv' /\ DOMAIN todo' = Threads BY <1>2, <2>1
  <2> QED BY <1>7, <2>1, <2>2 DEF Queue, TypeOK, amp, prof, vol, pins, cali
<1>8. CASE Down(t)
  <2>1. attempt' = attempt /\ Go(t, Tail(todo[t])) /\ Head(todo[t]) # "end"
    BY <1>8 DEF Down, On, At, amp
  <2>2. CountInv' /\ DOMAIN todo' = Threads BY <1>2, <2>1
  <2> QED BY <1>8, <2>1, <2>2 DEF Down, TypeOK, amp, prof, vol, pins, cali
<1>9. CASE Pins(t)
  <2>1. attempt' = attempt /\ Go(t, Tail(todo[t])) /\ Head(todo[t]) # "end"
    BY <1>9 DEF Pins, Write, On, At, amp
  <2>2. CountInv' /\ DOMAIN todo' = Threads BY <1>2, <2>1
  <2>3. /\ hmute' \in BOOLEAN /\ dspby' \in BOOLEAN /\ pwdn' \in BOOLEAN
        /\ UNCHANGED <<sched, amp, prof, vol, cali>>
    BY <1>9 DEF Pins, Write, TypeOK
  <2> QED BY <2>2, <2>3 DEF TypeOK, sched, amp, prof, vol, cali
<1>10. CASE DoFadeOut(t)
  <2>1. attempt' = attempt /\ Go(t, Tail(todo[t])) /\ Head(todo[t]) # "end"
    BY <1>10 DEF DoFadeOut, On, At, amp
  <2>2. CountInv' /\ DOMAIN todo' = Threads BY <1>2, <2>1
  <2> QED BY <1>10, <2>1, <2>2 DEF DoFadeOut, Overtakes, TypeOK, sched, amp, prof, pins, cali
<1>11. CASE FadeRead(t)
  <2>1. attempt' = attempt /\ Go(t, Tail(todo[t])) /\ Head(todo[t]) # "end"
    BY <1>11 DEF FadeRead, On, At, amp
  <2>2. CountInv' /\ DOMAIN todo' = Threads BY <1>2, <2>1
  <2> QED BY <1>11, <2>1, <2>2 DEF FadeRead, Overtakes, TypeOK, sched, amp, prof, pins, cali
<1>12. CASE FadeWrite(t)
  <2>1. attempt' = attempt /\ Go(t, Tail(todo[t])) /\ Head(todo[t]) # "end"
    BY <1>12 DEF FadeWrite, FadeEnds, On, At, amp
  <2>2. CountInv' /\ DOMAIN todo' = Threads BY <1>2, <2>1
  <2> QED BY <1>12, <2>1, <2>2 DEF FadeWrite, FadeEnds, TypeOK, sched, amp, prof, pins, cali
<1>13. CASE SetCtl(t)
  <2>1. attempt' = attempt /\ Go(t, Tail(todo[t])) /\ Head(todo[t]) # "end"
    BY <1>13 DEF SetCtl, On, At, amp
  <2>2. CountInv' /\ DOMAIN todo' = Threads BY <1>2, <2>1
  <2> QED BY <1>13, <2>1, <2>2 DEF SetCtl, Overtakes, TypeOK, sched, amp, prof, pins, cali
<1>14. CASE SetVol(t)
  <2>1. attempt' = attempt /\ Go(t, Tail(todo[t])) /\ Head(todo[t]) # "end"
    BY <1>14 DEF SetVol, On, At, amp
  <2>2. CountInv' /\ DOMAIN todo' = Threads BY <1>2, <2>1
  <2> QED BY <1>14, <2>1, <2>2 DEF SetVol, TypeOK, sched, amp, prof, pins, cali
<1>15. CASE Choose(t)
  <2>1. attempt' = attempt /\ (\E s : Go(t, s)) /\ Head(todo[t]) # "end"
    BY <1>15 DEF Choose, On, At, amp
  <2>2. CountInv' /\ DOMAIN todo' = Threads BY <1>2, <2>1
  <2> QED BY <1>15, <2>1, <2>2 DEF Choose, TypeOK, sched, amp, vol, pins, cali
<1>16. CASE DoStop(t)
  <2>1. attempt' = attempt /\ (\E s : Go(t, s)) /\ Head(todo[t]) # "end"
    BY <1>16 DEF DoStop, On, At, amp
  <2>2. CountInv' /\ DOMAIN todo' = Threads BY <1>2, <2>1
  <2> QED BY <1>16, <2>1, <2>2 DEF DoStop, TypeOK, sched, prof, vol, pins, cali
<1>17. CASE Regs(t)
  <2>1. attempt' = attempt /\ (\E s : Go(t, s)) /\ Head(todo[t]) # "end"
    BY <1>17 DEF Regs, RegsWritten, RegsStop, UpdateFails, On, At
  <2>2. CountInv' /\ DOMAIN todo' = Threads BY <1>2, <2>1
  <2>3. CASE RegsWritten(t)
    BY <1>17, <2>2, <2>3 DEF Regs, RegsWritten, Overtakes, Assign, TypeOK, sched, prof
  <2>4. CASE RegsStop(t)
    <3>1. hmute' \in BOOLEAN /\ dspby' \in BOOLEAN /\ pwdn' \in BOOLEAN
      BY <2>4 DEF RegsStop, TypeOK, pins
    <3>3. volume' \in Volumes BY <2>4 DEF RegsStop, TypeOK
    <3>4. set' \in [Settings -> Profiles \cup {Cali}] BY <2>4 DEF RegsStop, Assign, TypeOK
    <3>2. /\ UNCHANGED <<sched, status, attempt, prof, fade, saved, cali_running>>
          /\ UNCHANGED <<ctl_volume, overtaken, harm>>
      BY <1>17, <2>4 DEF Regs, RegsStop
    <3> QED BY <2>2, <3>1, <3>2, <3>3, <3>4 DEF TypeOK, sched, prof
  <2> QED BY <1>17, <2>3, <2>4 DEF Regs
<1>18. CASE Images(t)
  <2>1. attempt' = attempt /\ (\E s : Go(t, s)) /\ Head(todo[t]) # "end"
    BY <1>18 DEF Images, UpdateFails, On, At, amp
  <2>2. CountInv' /\ DOMAIN todo' = Threads BY <1>2, <2>1
  <2> QED BY <1>18, <2>1, <2>2 DEF Images, UpdateFails, Assign, TypeOK, sched, amp, vol, pins
<1>19. CASE PowerOn(t)
  <2>1. attempt' = attempt /\ (\E s : Go(t, s)) /\ Head(todo[t]) # "end"
    BY <1>19 DEF PowerOn, On, At, amp
  <2>2. CountInv' /\ DOMAIN todo' = Threads BY <1>2, <2>1
  <2>3. pwdn' \in BOOLEAN /\ UNCHANGED <<sched, amp, prof, vol, hmute, dspby, cali>>
    BY <1>19 DEF PowerOn, TypeOK
  <2> QED BY <2>2, <2>3 DEF TypeOK, sched, amp, prof, vol, cali
<1>20. CASE Checks(t)
  <2>1. attempt' = attempt /\ (\E s : Go(t, s)) /\ Head(todo[t]) # "end"
    BY <1>20 DEF Checks, On, At, amp
  <2>2. CountInv' /\ DOMAIN todo' = Threads BY <1>2, <2>1
  <2> QED BY <1>20, <2>1, <2>2 DEF Checks, TypeOK, sched, amp, prof, vol, pins, cali
<1>21. CASE Started(t)
  <2>1. attempt' = attempt /\ Go(t, From(t, {"end"})) /\ Head(todo[t]) # "end"
    BY <1>21 DEF Started, On, At, amp
  <2>2. CountInv' /\ DOMAIN todo' = Threads BY <1>2, <2>1
  <2> QED BY <1>21, <2>1, <2>2 DEF Started, TypeOK, sched, prof, vol, pins, cali
<1>22. CASE CaliStep(t)
  <2>a. UNCHANGED <<sched, amp, prof, vol, pins>> /\ Head(todo[t]) # "end"
    <3>1. CASE CaliBegin(t) \/ CaliCheck(t) BY <3>1 DEF CaliBegin, CaliCheck, At, CaliRest
    <3>2. CASE CaliCfg(t) \/ CaliVol(t) BY <3>2 DEF CaliCfg, CaliVol, At, CaliRest
    <3>3. CASE Measure(t) BY <3>3 DEF Measure, At, CaliRest
    <3>4. CASE Backup(t) \/ CaliQuiet(t) \/ CaliEnd(t)
      BY <3>4 DEF Backup, CaliQuiet, CaliEnd, At, CaliRest
    <3>5. CASE \/ PutBack(t, "put_vol", {"vol"}) \/ PutBack(t, "recover", {"ng", "lp"})
               \/ PutBack(t, "put_cfg", {"cfg"})
      BY <3>5 DEF PutBack, At, CaliRest
    <3> QED BY <1>22, <3>1, <3>2, <3>3, <3>4, <3>5 DEF CaliStep
  <2>b. \E s : Go(t, s)
    <3>1. CASE CaliBegin(t) BY <3>1 DEF CaliBegin
    <3>2. CASE CaliCheck(t) BY <3>2 DEF CaliCheck, On
    <3>3. CASE CaliCfg(t) BY <3>3 DEF CaliCfg, On
    <3>4. CASE CaliVol(t) BY <3>4 DEF CaliVol, On
    <3>5. CASE Measure(t) BY <3>5 DEF Measure
    <3>6. CASE Backup(t) \/ CaliQuiet(t) \/ CaliEnd(t) BY <3>6 DEF Backup, CaliQuiet, CaliEnd, On
    <3>7. CASE \/ PutBack(t, "put_vol", {"vol"}) \/ PutBack(t, "recover", {"ng", "lp"})
               \/ PutBack(t, "put_cfg", {"cfg"})
      BY <3>7 DEF PutBack, On
    <3> QED BY <1>22, <3>1, <3>2, <3>3, <3>4, <3>5, <3>6, <3>7 DEF CaliStep
  <2>1. attempt' = attempt BY <2>a DEF amp
  <2>2. CountInv' /\ DOMAIN todo' = Threads BY <1>2, <2>a, <2>b, <2>1
  <2>3. /\ set' \in [Settings -> Profiles \cup {Cali}]
        /\ saved' \in [Settings -> Profiles \cup {Cali}]
        /\ cali_running' \in BOOLEAN /\ harm' \in {"none", "failed", "interrupted"}
    <3>1. CASE CaliBegin(t) \/ CaliCheck(t) BY <3>1 DEF CaliBegin, CaliCheck, TypeOK, cali
    <3>2. CASE CaliCfg(t) BY <3>2 DEF CaliCfg, Failing, Assign, Save, TypeOK
    <3>3. CASE CaliVol(t) BY <3>3 DEF CaliVol, Failing, Assign, Save, TypeOK
    <3>4. CASE Measure(t) BY <3>4 DEF Measure, TypeOK, cali
    <3>5. CASE Backup(t) BY <3>5 DEF Backup, Save, TypeOK
    <3>6. CASE CaliQuiet(t) BY <3>6 DEF CaliQuiet, Assign, TypeOK
    <3>8. CASE CaliEnd(t) BY <3>8 DEF CaliEnd, TypeOK
    <3>7. CASE \/ PutBack(t, "put_vol", {"vol"}) \/ PutBack(t, "recover", {"ng", "lp"})
               \/ PutBack(t, "put_cfg", {"cfg"})
      BY <3>7 DEF PutBack, TypeOK
    <3> QED BY <1>22, <3>1, <3>2, <3>3, <3>4, <3>5, <3>6, <3>7, <3>8 DEF CaliStep
  <2> QED BY <2>a, <2>2, <2>3 DEF TypeOK, sched, amp, prof, vol, pins
<1> QED BY <1>1, <1>3, <1>4, <1>5, <1>6, <1>7, <1>8, <1>9, <1>10, <1>11, <1>12, <1>13, <1>14,
       <1>15, <1>16, <1>17, <1>18, <1>19, <1>20, <1>21, <1>22 DEF Step

\* The types are inductive, whatever threads overlap.
LEMMA NextTypes ==
    ASSUME TypeOK, CountInv, PlacesInv, [Next]_vars
    PROVE  TypeOK' /\ CountInv'
<1> USE AsocAssumption
<1>1. ASSUME NEW u \in Threads, NEW s, Begin(u, s)
      PROVE  DOMAIN todo' = Threads /\ CountInv'
  <2>1. DOMAIN todo' = Threads /\ attempt' = attempt /\ todo[u] = <<>>
        /\ \A v \in Threads \ {u} : todo'[v] = todo[v]
    BY <1>1 DEF Begin, TypeOK, Quiet, amp
  <2>2. todo[u] # <<"end">> BY <2>1
  <2> QED BY <2>1, <2>2 DEF CountInv
<1>2. CASE PlaybackUp
  <2>1. DOMAIN todo' = Threads /\ CountInv' BY <1>1, <1>2 DEF PlaybackUp, Threads
  <2> QED BY <1>2, <2>1 DEF PlaybackUp, Begin, TypeOK, amp, prof, vol, pins, cali
<1>3. CASE PlaybackDown
  <2>1. DOMAIN todo' = Threads /\ CountInv' BY <1>1, <1>3 DEF PlaybackDown, Threads
  <2> QED BY <1>3, <2>1 DEF PlaybackDown, Begin, TypeOK, amp, prof, vol, pins, cali
<1>4. CASE WorkBegins
  <2>1. DOMAIN todo' = Threads /\ CountInv' BY <1>1, <1>4 DEF WorkBegins, Threads
  <2> QED BY <1>4, <2>1 DEF WorkBegins, Begin, TypeOK, amp, prof, vol, pins, cali
<1>5. CASE ProfileSet \/ VolumeSet \/ CalibSet
  <2>1. DOMAIN todo' = Threads /\ CountInv'
    BY <1>1, <1>5 DEF ProfileSet, VolumeSet, CalibSet, Threads
  <2> QED BY <1>5, <2>1
       DEF ProfileSet, VolumeSet, CalibSet, Begin, TypeOK, amp, prof, vol, pins, cali
<1>6. CASE CodecRemove
  BY <1>6 DEF CodecRemove, CountInv, TypeOK, amp, prof, vol, pins, cali
<1>7. CASE CodecProbe
  <2>1. [s \in Settings |-> First] \in [Settings -> Profiles \cup {Cali}] OBVIOUS
  <2> QED BY <1>7, <2>1 DEF CodecProbe, CountInv, TypeOK, amp
<1>8. CASE \E t \in Threads : Step(t) BY <1>8, StepTypes
<1>9. CASE UNCHANGED vars
  BY <1>9 DEF vars, CountInv, TypeOK, sched, amp, prof, vol, pins, cali
<1> QED BY <1>2, <1>3, <1>4, <1>5, <1>6, <1>7, <1>8, <1>9 DEF Next

\* After codec_probe no thread is at work.
LEMMA InitSteps == Init => StepsInv
<1> SUFFICES ASSUME Init PROVE StepsInv OBVIOUS
<1> USE AsocAssumption
<1>1. TypeOK
  <2>1. /\ DOMAIN todo = Threads /\ attempt \in [Threads -> 0..Retries]
        /\ fade \in [Threads -> Volumes]
    BY DEF Init
  <2>2. /\ set \in [Settings -> Profiles \cup {Cali}]
        /\ saved \in [Settings -> Profiles \cup {Cali}]
    BY DEF Init
  <2> QED BY <2>1, <2>2 DEF Init, TypeOK
<1>2. CountInv BY DEF Init, CountInv
<1>3. \A t \in Threads : Quiet(t) BY DEF Init, Quiet
<1>4. "event" \in Threads /\ "work" \in Threads /\ "control" \in Threads BY DEF Threads
<1>5. lock \notin Threads /\ ~queued /\ Off /\ present BY DEF Init, Off
<1>6. EventInv /\ WorkInv /\ ControlInv
  BY <1>3, <1>4, <1>5 DEF EventInv, WorkInv, ControlInv, Gentle
<1>7. todo["work"] # StartWork BY <1>3, <1>4, StartProgram DEF Quiet
<1>8. QueueInv BY <1>3, <1>4, <1>5, <1>7 DEF QueueInv, Waits
<1> QED BY <1>1, <1>2, <1>5, <1>6, <1>8 DEF StepsInv, PlacesInv

\* The first layer is inductive.
LEMMA NextSteps == StepsInv /\ [Next]_vars => StepsInv'
<1> SUFFICES ASSUME StepsInv, [Next]_vars PROVE StepsInv' OBVIOUS
<1>1. DOMAIN todo = Threads BY DEF StepsInv, TypeOK
<1> QED BY <1>1, NextPlaces, NextTypes DEF StepsInv

\* Whatever runs beside whatever, each of the three threads is at a step of one
\* of its programs, and lock, queue and status are as that step wants them.
THEOREM StepsHold == Spec => []StepsInv
BY InitSteps, NextSteps, PTL DEF Spec

\* Only start_pa under the lock turns the amp on.
LEMMA OnlyStarts ==
    ASSUME StepsInv, [Next]_vars, status = "PW_OFF", status' = "PW_ON"
    PROVE  widget
<1>0. DOMAIN todo = Threads /\ PlacesInv BY DEF StepsInv, TypeOK
<1>1. PICK t \in Threads : Step(t)
  BY DEF Next, PlaybackUp, PlaybackDown, WorkBegins, ProfileSet, VolumeSet, CalibSet, Begin,
         CodecRemove, CodecProbe, vars, amp
<1>2. ~Quiet(t) BY <1>1, StepRuns
<1>3. ~Off => widget BY <1>0 DEF PlacesInv
<1>4. ASSUME t \in {"work", "control"}, NEW k \in 2..28, StartSteps(t, k) PROVE widget
  <2>1. (k = 3 => Off') /\ (k # 3 /\ k # 20 => status' = status)
    BY <1>0, <1>1, <1>4, StartEffects
  <2>2. k = 20 BY <2>1 DEF Off
  <2> QED BY <1>4, <2>2 DEF StartSteps
<1>5. CASE t = "event"
  <2>0. Step("event") BY <1>1, <1>5
  <2>1. ASSUME NEW k \in 1..10, UpSteps(k) PROVE FALSE
    <3>1. status' = status BY <1>0, <2>0, <2>1, UpEffects
    <3> QED BY <3>1
  <2>2. ASSUME NEW k \in 1..9, DownSteps(k) PROVE FALSE
    <3>1. status' = IF k = 3 THEN "PW_OFF" ELSE status BY <1>0, <2>0, <2>2, DownEffects
    <3> QED BY <3>1
  <2> QED BY <1>0, <1>2, <1>5, <2>1, <2>2 DEF PlacesInv, EventInv
<1>6. CASE t = "work"
  <2>1. CASE todo["work"] = StartWork /\ lock # "work"
    <3>1. Lock("work") BY <1>0, <1>1, <1>6, <2>1, WorkLocks
    <3> QED BY <3>1 DEF Lock, amp
  <2>2. CASE \E k \in 14..28 : StartSteps("work", k) BY <1>4, <1>6, <2>2
  <2> QED BY <1>0, <1>2, <1>6, <2>1, <2>2 DEF PlacesInv, WorkInv
<1>7. CASE t = "control"
  <2>0. Step("control") BY <1>1, <1>7
  <2>1. CASE Is("control", SetProfile, 1) /\ lock # "control"
    <3>1. Lock("control") BY <1>0, <2>0, <2>1, ControlLocks
    <3> QED BY <3>1 DEF Lock, amp
  <2>2. CASE Loose /\ lock # "control"
    <3>1. status' = status BY <1>0, <2>0, <2>2, LooseGoes
    <3> QED BY <3>1
  <2>3. CASE \E k \in 2..28 : StartSteps("control", k) BY <1>4, <1>7, <2>3
  <2> QED BY <1>0, <1>2, <1>7, <2>1, <2>2, <2>3 DEF PlacesInv, ControlInv, Gentle
<1> QED BY <1>5, <1>6, <1>7 DEF Threads

\* aw88399_startup_work, PRE_PMU, POST_PMD and the put handlers in any overlap:
\* no start completes after POST_PMD, because cancel_delayed_work_sync takes the
\* work away under the lock and profile_set restarts only what is on.
THEOREM StartsPlaying == Spec => StartsOnlyPlaying
<1>1. StepsInv /\ [Next]_vars => [(status = "PW_OFF" /\ status' = "PW_ON") => widget]_vars
  BY OnlyStarts
<1> QED BY <1>1, StepsHold, PTL DEF Spec, StartsOnlyPlaying

-----------------------------------------------------------------------------
(* Where a step leads, label by label.                                     *)

\* The label of the k-th step of PRE_PMU, ...
LEMMA UpHeads ==
    ASSUME NEW k \in 1..10, Is("event", PreUp, k)
    PROVE  ~Quiet("event") /\ Head(todo["event"]) = PreUp[k]
<1>1. PreUp \in Seq(Labels) /\ k \in 1..Len(PreUp) BY UpProgram
<1> QED BY <1>1, Here

\* ... of POST_PMD, ...
LEMMA DownHeads ==
    ASSUME NEW k \in 1..9, Is("event", PostDown, k)
    PROVE  ~Quiet("event") /\ Head(todo["event"]) = PostDown[k]
<1>1. PostDown \in Seq(Labels) /\ k \in 1..Len(PostDown) BY DownProgram
<1> QED BY <1>1, Here

\* ... of profile_set and of the work that is its end, ...
LEMMA StartHeads ==
    ASSUME NEW t, NEW k \in 1..28, Is(t, SetProfile, k)
    PROVE  ~Quiet(t) /\ Head(todo[t]) = SetProfile[k]
<1>1. SetProfile \in Seq(Labels) /\ k \in 1..Len(SetProfile) BY ProfileProgram
<1> QED BY <1>1, Here

\* ... of volume_set, ...
LEMMA VolumeHeads ==
    ASSUME NEW k \in 1..3, Is("control", SetVolume, k)
    PROVE  ~Quiet("control") /\ Head(todo["control"]) = SetVolume[k]
<1>1. SetVolume \in Seq(Labels) /\ k \in 1..Len(SetVolume) BY VolumeProgram
<1> QED BY <1>1, Here

\* ... and of calib_set.
LEMMA CaliHeads ==
    ASSUME NEW k \in 1..19, Is("control", Calibrate, k)
    PROVE  ~Quiet("control") /\ Head(todo["control"]) = Calibrate[k]
<1>1. Calibrate \in Seq(Labels) /\ k \in 1..Len(Calibrate) BY CaliProgram
<1> QED BY <1>1, Here

\* The labels that a calibration has at its ends only, or not at all.
LEMMA CaliLabels ==
    /\ \A k \in 2..18 : Calibrate[k] \notin {"lock", "set_ctl", "set_vol", "end", "cali_begin",
                                            "regs", "started", "next", "stop"}
    /\ \A k \in 2..17 : Calibrate[k] # "cali_end"
<1>1. ASSUME NEW k \in 2..10
      PROVE  Calibrate[k] \notin {"lock", "set_ctl", "set_vol", "end", "cali_begin", "regs",
                                  "started", "next", "stop", "cali_end"}
  <2>1. k \in {2, 3, 4, 5, 6, 7, 8, 9, 10} OBVIOUS
  <2> QED BY <2>1, CaliFirst
<1>2. ASSUME NEW k \in 11..18
      PROVE  /\ Calibrate[k] \notin {"lock", "set_ctl", "set_vol", "end", "cali_begin", "regs",
                                     "started", "next", "stop"}
             /\ k # 18 => Calibrate[k] # "cali_end"
  <2>1. k \in {11, 12, 13, 14, 15, 16, 17, 18} OBVIOUS
  <2> QED BY <2>1, CaliLast
<1> QED BY <1>1, <1>2

\* A control that is calibrating, about to begin, or leaves the amp alone.
LEMMA CaliPlaces ==
    /\ InCali => /\ ~Quiet("control")
                 /\ Head(todo["control"]) \notin {"lock", "set_ctl", "set_vol", "end",
                                                  "cali_begin", "regs", "started", "stop"}
    /\ Is("control", Calibrate, 1) => At("control", "cali_begin")
    /\ Light => Quiet("control")
                \/ Head(todo["control"]) \in {"lock", "set_ctl", "set_vol", "end"}
    /\ ~(Light /\ InCali) /\ ~(Light /\ Is("control", Calibrate, 1))
    /\ ~(InCali /\ Is("control", Calibrate, 1))
<1>1. ASSUME InCali
      PROVE  /\ ~Quiet("control")
             /\ Head(todo["control"]) \notin {"lock", "set_ctl", "set_vol", "end",
                                              "cali_begin", "regs", "started", "stop"}
  <2>1. ASSUME NEW k \in 2..18, Is("control", Calibrate, k)
        PROVE  /\ ~Quiet("control")
               /\ Head(todo["control"]) \notin {"lock", "set_ctl", "set_vol", "end",
                                                "cali_begin", "regs", "started", "stop"}
    <3>1. k \in 1..19 OBVIOUS
    <3>2. ~Quiet("control") /\ Head(todo["control"]) = Calibrate[k] BY <2>1, <3>1, CaliHeads
    <3> QED BY <3>2, CaliLabels
  <2>2. ASSUME NEW x \in Extras, AtExtra(x)
        PROVE  /\ ~Quiet("control")
               /\ Head(todo["control"]) \notin {"lock", "set_ctl", "set_vol", "end",
                                                "cali_begin", "regs", "started", "stop"}
    <3>1. ~Quiet("control") BY <2>2, Lengths DEF AtExtra, Quiet
    <3>2. Head(todo["control"]) \in {"dsp_bypass", "dsp_on", "fade_out", "hmute"}
      BY <2>2, ExtraHeads
    <3> QED BY <3>1, <3>2
  <2> QED BY <1>1, <2>1, <2>2 DEF InCali
<1>2. ASSUME Is("control", Calibrate, 1) PROVE At("control", "cali_begin")
  <2>1. 1 \in 1..19 OBVIOUS
  <2>2. ~Quiet("control") /\ Head(todo["control"]) = Calibrate[1] BY <1>2, <2>1, CaliHeads
  <2> QED BY <2>2, CaliFirst DEF At, Quiet
<1>3. ASSUME Light
      PROVE  Quiet("control") \/ Head(todo["control"]) \in {"lock", "set_ctl", "set_vol", "end"}
  <2>1. CASE Is("control", SetProfile, 1)
    <3>1. 1 \in 1..28 OBVIOUS
    <3>2. Head(todo["control"]) = SetProfile[1] BY <2>1, <3>1, StartHeads
    <3> QED BY <3>2, ProfileStops
  <2>2. ASSUME NEW k \in 1..3, Is("control", SetVolume, k)
        PROVE  Head(todo["control"]) \in {"lock", "set_ctl", "set_vol", "end"}
    <3>1. Head(todo["control"]) = SetVolume[k] BY <2>2, VolumeHeads
    <3>2. k \in {1, 2, 3} OBVIOUS
    <3> QED BY <3>1, <3>2, VolumeProgram
  <2>3. CASE Is("control", Calibrate, 19)
    <3>1. 19 \in 1..19 OBVIOUS
    <3>2. Head(todo["control"]) = Calibrate[19] BY <2>3, <3>1, CaliHeads
    <3> QED BY <3>2, CaliLast
  <2> QED BY <1>3, <2>1, <2>2, <2>3 DEF Light, Gentle
<1> QED BY <1>1, <1>2, <1>3 DEF At, Quiet

\* A control without the lock is light, about to calibrate, or calibrating.
LEMMA ControlKinds ==
    ASSUME PlacesInv, lock # "control"
    PROVE  Light \/ Is("control", Calibrate, 1) \/ InCali
<1>1. Gentle \/ Loose BY DEF PlacesInv, ControlInv, StartSteps
<1>2. ASSUME NEW k \in 1..19, Is("control", Calibrate, k)
      PROVE  Light \/ Is("control", Calibrate, 1) \/ InCali
  <2>1. k = 1 \/ k \in 2..18 \/ k = 19 OBVIOUS
  <2> QED BY <1>2, <2>1 DEF Light, InCali
<1> QED BY <1>1, <1>2 DEF Light, InCali, Loose

\* When the history does not show a calibration, the control is light.
LEMMA NotCalibrating ==
    ASSUME PlacesInv, RunInv, lock # "control", ~Calibrating
    PROVE  Light
BY ControlKinds, CaliPlaces DEF RunInv, Calibrating

\* The holder of the lock has something to do.
LEMMA HolderRuns ==
    ASSUME PlacesInv, NEW t \in Threads, lock = t
    PROVE  ~Quiet(t)
<1>1. ASSUME NEW k \in 2..28, NEW u \in Threads, StartSteps(u, k) PROVE ~Quiet(u)
  <2>1. k \in 1..28 BY <1>1
  <2> QED BY <1>1, <2>1, Lengths DEF StartSteps, Is, Quiet
<1>2. CASE t = "event"
  <2>1. ASSUME NEW k \in 1..10, UpSteps(k) PROVE ~Quiet("event")
    BY <2>1, Lengths DEF UpSteps, Is, Quiet
  <2>2. ASSUME NEW k \in 1..9, DownSteps(k) PROVE ~Quiet("event")
    BY <2>2, Lengths DEF DownSteps, Is, Quiet
  <2> QED BY <1>2, <2>1, <2>2 DEF PlacesInv, EventInv
<1>3. CASE t = "work"
  <2>1. PICK k \in 14..28 : StartSteps("work", k) BY <1>3 DEF PlacesInv, WorkInv
  <2>2. k \in 2..28 OBVIOUS
  <2> QED BY <1>1, <1>3, <2>1, <2>2
<1>4. CASE t = "control" BY <1>1, <1>4 DEF PlacesInv, ControlInv
<1> QED BY <1>2, <1>3, <1>4 DEF Threads

\* The work, once it has the lock, waits no longer.
LEMMA NotAtLock ==
    /\ \A k \in 14..28 : Suffix(SetProfile, k) # StartWork
    /\ <<>> # StartWork
<1>1. StartWork # <<>> /\ Len(StartWork) = 16 BY StartProgram
<1>2. ASSUME NEW k \in 14..28 PROVE Suffix(SetProfile, k) # StartWork
  <2>1. k \in 1..28 /\ 29 - k # 16 OBVIOUS
  <2>2. Len(Suffix(SetProfile, k)) = 29 - k BY <2>1, Lengths
  <2> QED BY <1>1, <2>1, <2>2, Zenon
<1> QED BY <1>1, <1>2

\* cali_running is written where a calibration begins and ends.
LEMMA RunningKept ==
    ASSUME NEW t \in Threads, Step(t), Head(todo[t]) \notin {"cali_begin", "cali_end"}
    PROVE  cali_running' = cali_running
BY DEF Step, Pins, CaliStep, At, Lock, End, Cancel, Start, Queue, Down, Write, DoFadeOut,
       FadeRead, FadeWrite, FadeEnds, SetCtl, SetVol, Choose, DoStop, Regs, Images, PowerOn,
       Checks, Started, NextAttempt, CaliBegin, CaliCheck, Backup, CaliQuiet, CaliCfg, CaliVol,
       Measure, PutBack, CaliEnd, cali

\* What the history says of a step: a stop under a calibration sets it back,
\* registers written for a start put it right.
LEMMA HarmKept ==
    ASSUME NEW t \in Threads, Step(t), harm' # "interrupted"
    PROVE  /\ harm = "interrupted" => /\ At(t, "regs") /\ RegsWritten(t)
                                      /\ ~Calibrating /\ ~Reloads(t, 5)
           /\ At(t, "stop") => ~Calibrating /\ harm' = harm
BY DEF Step, Pins, CaliStep, At, Lock, End, Cancel, Start, Queue, Down, Write, DoFadeOut,
       FadeRead, FadeWrite, FadeEnds, SetCtl, SetVol, Choose, DoStop, Regs, RegsStop, RegsWritten,
       Images, PowerOn, Checks, Started, NextAttempt, CaliBegin, CaliCheck, Backup, CaliQuiet,
       CaliCfg, CaliVol, Failing, Measure, PutBack, CaliEnd, cali

-----------------------------------------------------------------------------
(* A calibration runs from its beginning to its end.                       *)

\* A step of the event or the work, or of the control with the lock.
LEMMA HoldersNotRunning ==
    ASSUME PlacesInv, NEW t \in Threads, ~Quiet(t), t = "control" => lock = "control"
    PROVE  Head(todo[t]) \notin {"cali_begin", "cali_end"}
<1>1. ASSUME NEW u, NEW k \in 1..28, Is(u, SetProfile, k)
      PROVE  Head(todo[u]) \notin {"cali_begin", "cali_end"}
  <2>1. Head(todo[u]) = SetProfile[k] BY <1>1, StartHeads
  <2>2. CASE k \in 1..8
    <3>1. k \in {1, 2, 3, 4, 5, 6, 7, 8} BY <2>2
    <3> QED BY <2>1, <3>1, ProfileStops
  <2>3. CASE k \in 9..13
    <3>1. k \in {9, 10, 11, 12, 13} BY <2>3
    <3> QED BY <2>1, <3>1, ProfileLoads
  <2>4. CASE k \in 14..21
    <3>1. k \in {14, 15, 16, 17, 18, 19, 20, 21} BY <2>4
    <3> QED BY <2>1, <3>1, ProfileStarts
  <2>5. CASE k \in 22..28
    <3>1. k \in {22, 23, 24, 25, 26, 27, 28} BY <2>5
    <3> QED BY <2>1, <3>1, ProfileReloads
  <2> QED BY <2>2, <2>3, <2>4, <2>5
<1>2. CASE t = "event"
  <2>1. ASSUME NEW k \in 1..10, UpSteps(k)
        PROVE  Head(todo["event"]) \notin {"cali_begin", "cali_end"}
    <3>1. Head(todo["event"]) = PreUp[k] BY <2>1, UpHeads DEF UpSteps
    <3>2. k \in {1, 2, 3, 4, 5, 6, 7, 8, 9, 10} OBVIOUS
    <3> QED BY <3>1, <3>2, UpProgram
  <2>2. ASSUME NEW k \in 1..9, DownSteps(k)
        PROVE  Head(todo["event"]) \notin {"cali_begin", "cali_end"}
    <3>1. Head(todo["event"]) = PostDown[k] BY <2>2, DownHeads DEF DownSteps
    <3>2. k \in {1, 2, 3, 4, 5, 6, 7, 8, 9} OBVIOUS
    <3> QED BY <3>1, <3>2, DownProgram
  <2> QED BY <1>2, <2>1, <2>2 DEF PlacesInv, EventInv
<1>3. CASE t = "work"
  <2>1. CASE todo["work"] = StartWork BY <1>3, <2>1, StartProgram
  <2>2. ASSUME NEW k \in 14..28, StartSteps("work", k)
        PROVE  Head(todo["work"]) \notin {"cali_begin", "cali_end"}
    <3>1. k \in 1..28 OBVIOUS
    <3> QED BY <1>1, <2>2, <3>1 DEF StartSteps
  <2> QED BY <1>3, <2>1, <2>2 DEF PlacesInv, WorkInv
<1>4. CASE t = "control"
  <2>1. PICK k \in 2..28 : StartSteps("control", k) BY <1>4 DEF PlacesInv, ControlInv
  <2>2. k \in 1..28 OBVIOUS
  <2> QED BY <1>1, <1>4, <2>1, <2>2 DEF StartSteps
<1> QED BY <1>2, <1>3, <1>4 DEF Threads

\* Where the control is after a step, said of the values after it.
LEMMA CaliPlacesNext ==
    /\ InCali' => ~Quiet("control")'
    /\ ~(Light /\ InCali)' /\ ~(InCali /\ Is("control", Calibrate, 1))'
    /\ ~(Light /\ Is("control", Calibrate, 1))'
<1>1. /\ InCali => ~Quiet("control")
      /\ ~(Light /\ InCali) /\ ~(InCali /\ Is("control", Calibrate, 1))
      /\ ~(Light /\ Is("control", Calibrate, 1))
  BY CaliPlaces
<1> QED BY <1>1, PTL

\* A control without the lock that steps into or inside a calibration runs it.
LEMMA LooseRuns ==
    ASSUME DOMAIN todo = Threads, PlacesInv, RunInv, lock # "control", Loose, Step("control")
    PROVE  InCali' => cali_running'
<1>0. ~(Light /\ InCali)' /\ (InCali' => ~Quiet("control")') BY CaliPlacesNext
<1>1. ASSUME NEW k \in 1..3, Is("control", SetVolume, k) PROVE ~InCali'
  <2>1. IF k = 3 THEN Quiet("control")' ELSE Is("control", SetVolume, k + 1)'
    BY <1>1, VolumeEffects
  <2>2. k + 1 \in 1..3 \/ k = 3 OBVIOUS
  <2>3. Light' \/ Quiet("control")' BY <2>1, <2>2 DEF Light
  <2> QED BY <1>0, <2>3
<1>2. ASSUME NEW k \in 1..19, Is("control", Calibrate, k) PROVE InCali' => cali_running'
  <2>1. (CASE k = 19 -> Quiet("control")'
          [] k = 1 -> Is("control", Calibrate, 2)' \/ Is("control", Calibrate, 19)'
          [] k = 18 -> Is("control", Calibrate, 19)'
          [] OTHER -> TRUE)
    BY <1>2, CaliEffects
  <2>2. CASE k = 1
    <3>1. CaliBegin("control") BY <1>2, <2>2, CaliMoves
    <3> QED BY <3>1 DEF CaliBegin
  <2>3. CASE k = 18 BY <1>0, <2>1, <2>3 DEF Light
  <2>4. CASE k = 19 BY <1>0, <2>1, <2>4
  <2>5. CASE k \in 2..17
    <3>1. Head(todo["control"]) = Calibrate[k] BY <1>2, CaliHeads
    <3>2. Calibrate[k] \notin {"cali_begin", "cali_end"} BY <2>5, CaliLabels
    <3>3. cali_running' = cali_running BY <3>1, <3>2, RunningKept DEF Threads
    <3>4. InCali BY <1>2, <2>5 DEF InCali
    <3> QED BY <3>3, <3>4 DEF RunInv
  <2> QED BY <2>2, <2>3, <2>4, <2>5
<1>3. ASSUME NEW x \in Extras, AtExtra(x) PROVE InCali' => cali_running'
  <2>1. Head(todo["control"]) \in {"dsp_bypass", "dsp_on", "fade_out", "hmute"}
    BY <1>3, ExtraHeads
  <2>2. cali_running' = cali_running BY <2>1, RunningKept DEF Threads
  <2>3. InCali BY <1>3 DEF InCali
  <2> QED BY <2>2, <2>3 DEF RunInv
<1> QED BY <1>1, <1>2, <1>3 DEF Loose

\* A step keeps cali_running over a calibration.
LEMMA StepRunning ==
    ASSUME DOMAIN todo = Threads, PlacesInv, RunInv, NEW t \in Threads, Step(t)
    PROVE  RunInv'
<1>0. ~(Light /\ InCali)' /\ (InCali' => ~Quiet("control")') BY CaliPlacesNext
<1>1. ~Quiet(t) BY StepRuns
<1>2. "control" \in Threads /\ Nobody \notin Threads BY AsocAssumption DEF Threads
<1>3. CASE t # "control"
  <2>1. cali_running' = cali_running BY <1>1, <1>3, HoldersNotRunning, RunningKept
  <2>2. todo'["control"] = todo["control"] /\ (lock' # "control" => lock # "control")
    <3>1. CASE t = "event"
      <4>1. ASSUME NEW k \in 1..10, UpSteps(k)
            PROVE  todo'["control"] = todo["control"] /\ (lock' # "control" => lock # "control")
        BY <1>2, <3>1, <4>1, UpEffects
      <4>2. ASSUME NEW k \in 1..9, DownSteps(k)
            PROVE  todo'["control"] = todo["control"] /\ (lock' # "control" => lock # "control")
        BY <1>2, <3>1, <4>2, DownEffects
      <4> QED BY <1>1, <3>1, <4>1, <4>2 DEF PlacesInv, EventInv
    <3>2. CASE t = "work"
      <4>1. CASE todo["work"] = StartWork /\ lock # "work"
        <5>1. Lock("work") BY <3>2, <4>1, WorkLocks
        <5> QED BY <1>2, <5>1 DEF Lock, On, Go
      <4>2. ASSUME NEW k \in 14..28, StartSteps("work", k)
            PROVE  todo'["control"] = todo["control"] /\ (lock' # "control" => lock # "control")
        <5>1. k \in 2..28 /\ "control" \in Threads \ {"work"} BY DEF Threads
        <5> QED BY <3>2, <4>2, <5>1, StartEffects
      <4> QED BY <1>1, <3>2, <4>1, <4>2 DEF PlacesInv, WorkInv
    <3> QED BY <1>3, <3>1, <3>2 DEF Threads
  <2>3. InCali' => InCali BY <2>2 DEF InCali, Is, AtExtra
  <2> QED BY <2>1, <2>2, <2>3 DEF RunInv
<1>4. CASE t = "control" /\ lock = "control"
  <2>1. PICK k \in 2..28 : StartSteps("control", k) BY <1>4 DEF PlacesInv, ControlInv
  <2>2. ~Off => widget BY DEF PlacesInv
  <2>3. Quiet("control")' \/ \E j \in 3..28 : StartSteps("control", j)'
    BY <1>4, <2>1, <2>2, StartGoes
  <2> QED BY <1>0, <2>3 DEF RunInv, StartSteps
<1>5. CASE t = "control" /\ lock # "control"
  <2>1. CASE Loose BY <1>5, <2>1, LooseRuns DEF RunInv
  <2>2. CASE Is("control", SetProfile, 1)
    <3>1. StartSteps("control", 2)' BY <1>5, <2>2, ControlLocks
    <3> QED BY <3>1 DEF RunInv, StartSteps
  <2> QED BY <1>1, <1>5, <2>1, <2>2 DEF PlacesInv, ControlInv, Gentle, StartSteps
<1> QED BY <1>3, <1>4, <1>5

\* No control begins inside a calibration.
LEMMA NextRunning ==
    ASSUME DOMAIN todo = Threads, PlacesInv, RunInv, [Next]_vars
    PROVE  RunInv'
<1>0. /\ ~(Light /\ InCali)' /\ (InCali' => ~Quiet("control")')
      /\ ~(InCali /\ Is("control", Calibrate, 1))'
  BY CaliPlacesNext
<1>1. "control" \in Threads /\ "event" \in Threads /\ "work" \in Threads BY DEF Threads
<1>2. CASE ProfileSet \/ VolumeSet \/ CalibSet
  <2>1. /\ ProfileSet => Is("control", SetProfile, 1)'
        /\ VolumeSet => Is("control", SetVolume, 1)'
        /\ CalibSet => Is("control", Calibrate, 1)'
    BY <1>1, Wholes DEF ProfileSet, VolumeSet, CalibSet, Begin, Is
  <2>2. Light' \/ Is("control", Calibrate, 1)'
    <3>1. 1 \in 1..3 OBVIOUS
    <3> QED BY <1>2, <2>1, <3>1 DEF Light, Gentle
  <2> QED BY <1>0, <2>2 DEF RunInv
<1>3. CASE PlaybackUp \/ PlaybackDown \/ WorkBegins \/ CodecRemove \/ CodecProbe \/ UNCHANGED vars
  <2>1. UNCHANGED <<lock, cali_running>> /\ todo'["control"] = todo["control"]
    BY <1>1, <1>3 DEF PlaybackUp, PlaybackDown, WorkBegins, CodecRemove, CodecProbe, Begin, vars,
                      sched, cali
  <2>2. InCali' => InCali BY <2>1 DEF InCali, Is, AtExtra
  <2> QED BY <2>1, <2>2 DEF RunInv
<1>4. CASE \E t \in Threads : Step(t) BY <1>4, StepRunning
<1> QED BY <1>2, <1>3, <1>4 DEF Next

-----------------------------------------------------------------------------
(* What the steps do to the amp.                                           *)

\* A step that writes nothing of the amp leaves what is said of it.
LEMMA SameAmp ==
    ASSUME UNCHANGED <<status, prof, hmute, dspby, set, saved, harm>>
    PROVE  /\ (Off' <=> Off) /\ (Still' <=> Still) /\ (Fresh => Fresh') /\ (Good(set) => Good(set)')
           /\ \A over : Restores(over) => Restores(over)'
           /\ (Rest => Rest') =>
                 /\ \A k \in 2..10 : UpRight(k) => UpRight(k)'
                 /\ \A k \in 2..9 : DownRight(k) => DownRight(k)'
                 /\ \A k \in 2..28 : StartRight(k) => StartRight(k)'
<1>1. /\ status' = status /\ prof_index' = prof_index /\ prof_cur' = prof_cur
      /\ hmute' = hmute /\ dspby' = dspby
      /\ set' = set /\ saved' = saved /\ harm' = harm
  BY DEF prof
<1>2. (Off' <=> Off) /\ (Still' <=> Still) /\ (Fixed' <=> Fixed) /\ (Fresh' <=> Fresh)
  BY <1>1 DEF Off, Still, Fixed, Fresh
<1>3. \A over : Restores(over) => Restores(over)' BY <1>1 DEF Restores, Before, Good
<1>4. Good(set) => Good(set)' BY <1>1 DEF Good
<1>5. ASSUME Rest => Rest', NEW k \in 2..10, UpRight(k) PROVE UpRight(k)'
  BY <1>2, <1>5 DEF UpRight
<1>6. ASSUME Rest => Rest', NEW k \in 2..9, DownRight(k) PROVE DownRight(k)'
  BY <1>1, <1>2, <1>6 DEF DownRight
<1>7. ASSUME Rest => Rest', NEW k \in 2..28, StartRight(k) PROVE StartRight(k)'
  BY <1>1, <1>2, <1>4, <1>7 DEF StartRight
<1> QED BY <1>2, <1>3, <1>4, <1>5, <1>6, <1>7

\* Nor does it disturb an amp at rest while the control stays where it is, ...
LEMMA SameRest ==
    ASSUME UNCHANGED <<status, prof, hmute, dspby, set, saved, harm>>,
           todo'["control"] = todo["control"], lock' = "control" <=> lock = "control"
    PROVE  /\ Rest => Rest'
           /\ Light' <=> Light
<1>1. (Off' <=> Off) /\ (Still' <=> Still) /\ \A over : Restores(over) => Restores(over)'
  BY SameAmp
<1>2. Light' <=> Light BY DEF Light, Gentle, Quiet, Is
<1>3. ASSUME NEW k \in 1..18, Restores(Overridden(k)) PROVE Restores(Overridden(k))'
  BY <1>3 DEF Restores, Before, Good, Overridden, prof
<1>4. ASSUME Settled PROVE Settled'
  <2>1. CASE Light \/ lock = "control" BY <1>1, <1>2, <1>4, <2>1 DEF Settled
  <2>2. ASSUME ~Light, lock # "control", NEW k \in 1..18, Is("control", Calibrate, k),
               Restores(Overridden(k))
        PROVE  Settled'
    <3>1. Is("control", Calibrate, k)' BY <2>2 DEF Is
    <3>2. Restores(Overridden(k))' BY <1>3, <2>2
    <3> QED BY <1>2, <2>2, <3>1, <3>2 DEF Settled
  <2>3. ASSUME ~Light, lock # "control", NEW x \in Extras, AtExtra(x), Restores(Settings)
        PROVE  Settled'
    <3>1. AtExtra(x)' BY <2>3 DEF AtExtra
    <3> QED BY <1>1, <1>2, <2>3, <3>1 DEF Settled
  <2> QED BY <1>4, <2>1, <2>2, <2>3 DEF Settled
<1> QED BY <1>1, <1>2, <1>4 DEF Rest

\* ... or is none that calibrates, before and after.
LEMMA LightRest ==
    ASSUME UNCHANGED <<status, prof, hmute, dspby, set, saved, harm>>,
           Light \/ lock = "control", Light' \/ lock' = "control"
    PROVE  Rest => Rest'
BY SameAmp DEF Rest, Settled

\* Registers that are written leave the amp muted and bypassed with those of the
\* profile; one that cannot be written leaves what there was of that.
LEMMA RegsData ==
    ASSUME TypeOK, NEW t \in Threads, Regs(t)
    PROVE  /\ Good(set) => Good(set)'
           /\ Still => Still'
           /\ RegsWritten(t) => Still' /\ Fixed'
<1>1. UNCHANGED <<prof_index, prof_cur>> BY DEF Regs, prof
<1>2. ASSUME RegsWritten(t) PROVE Still' /\ Fixed' /\ (Good(set) => Good(set)')
  <2>1. set' = Assign({"ng", "vol"}, prof_index) BY <1>2 DEF RegsWritten
  <2>2. Still' BY <1>2 DEF RegsWritten, Still
  <2>3. Fixed' BY <1>1, <2>1 DEF Fixed, Assign
  <2>4. Good(set) => Good(set)' BY <1>1, <2>1 DEF Good, Assign
  <2> QED BY <2>2, <2>3, <2>4
<1>3. ASSUME RegsStop(t) PROVE (Still => Still') /\ (Good(set) => Good(set)')
  <2>1. PICK done \in SUBSET {"ng", "vol"} : set' = Assign(done, prof_index)
    BY <1>3 DEF RegsStop
  <2>2. Still => Still' BY <1>3 DEF RegsStop, Still, pins
  <2>3. Good(set) => Good(set)' BY <1>1, <2>1 DEF Good, Assign
  <2> QED BY <2>2, <2>3
<1> QED BY <1>2, <1>3 DEF Regs, Still

\* PRE_PMU: registers and images of the profile that is set, on an amp that is off.
LEMMA UpData ==
    ASSUME TypeOK, NEW k \in 2..10, UpSteps(k), UpRight(k), Step("event")
    PROVE  /\ Off'
           /\ CASE k = 10 -> Still' /\ (Fresh => Fresh')
                [] k = 9 -> Still' /\ Fresh'
                [] k = 4 -> \/ Is("event", PreUp, 5)' /\ UpRight(5)'
                            \/ Is("event", PreUp, 10)' /\ UpRight(10)'
                [] k = 8 -> \/ Is("event", PreUp, 9)' /\ UpRight(9)'
                            \/ Is("event", PreUp, 10)' /\ UpRight(10)'
                [] OTHER -> UpRight(k + 1)'
<1>0. Is("event", PreUp, k) /\ Off /\ k \in 1..10 /\ "event" \in Threads BY DEF UpSteps, Threads
<1>1. Off'
  <2>1. status' = status BY <1>0, UpEffects DEF TypeOK
  <2> QED BY <1>0, <2>1 DEF Off
<1>2. CASE k = 2 \/ k = 3
  <2>1. UNCHANGED <<amp, prof, vol, pins, cali>>
    <3>1. CASE k = 2 BY <1>0, <3>1, UpMoves DEF Cancel
    <3>2. CASE k = 3 BY <1>0, <3>2, UpMoves DEF Start
    <3> QED BY <1>2, <3>1, <3>2
  <2>2. Still BY <1>0, <1>2 DEF UpRight, Rest
  <2>3. Still' BY <2>1, <2>2 DEF Still, pins
  <2>4. UpRight(k + 1)' BY <1>1, <1>2, <2>3 DEF UpRight, Rest
  <2> QED BY <1>1, <1>2, <2>4
<1>3. CASE k = 4
  <2>1. /\ Regs("event")
        /\ \/ RegsWritten("event") /\ Go("event", Suffix(PreUp, 5))
           \/ RegsStop("event") /\ Go("event", Suffix(PreUp, 10))
    BY <1>0, <1>3, UpMoves
  <2>2. Still BY <1>0, <1>3 DEF UpRight, Rest
  <2>3. CASE RegsWritten("event") /\ Go("event", Suffix(PreUp, 5))
    <3>1. Still' /\ Fixed' BY <1>0, <2>1, <2>3, RegsData
    <3>2. UpRight(5)' BY <3>1 DEF UpRight
    <3>3. Is("event", PreUp, 5)' BY <2>3 DEF Go, Is, TypeOK, Threads
    <3> QED BY <1>1, <1>3, <3>2, <3>3
  <2>4. CASE Go("event", Suffix(PreUp, 10))
    <3>1. Still' BY <1>0, <2>1, <2>2, RegsData
    <3>2. UpRight(10)' BY <1>1, <3>1 DEF UpRight, Rest
    <3>3. Is("event", PreUp, 10)' BY <2>4 DEF Go, Is, TypeOK, Threads
    <3> QED BY <1>1, <1>3, <3>2, <3>3
  <2> QED BY <2>1, <2>3, <2>4
<1>4. CASE k \in 5..7
  <2>1. UNCHANGED <<prof_index, set>> /\ (Still => Still')
    <3>1. CASE k = 5
      <4>1. DoFadeOut("event") BY <1>0, <3>1, UpMoves
      <4> QED BY <4>1 DEF DoFadeOut, Still, prof, pins, cali
    <3>2. CASE k = 6
      <4>1. Write("event", "hmute", TRUE, dspby, pwdn) BY <1>0, <3>2, UpMoves
      <4> QED BY <4>1 DEF Write, Still, prof, cali
    <3>3. CASE k = 7
      <4>1. Write("event", "dsp_bypass", hmute, TRUE, pwdn) BY <1>0, <3>3, UpMoves
      <4> QED BY <4>1 DEF Write, Still, prof, cali
    <3> QED BY <1>4, <3>1, <3>2, <3>3
  <2>2. Still /\ Fixed BY <1>4 DEF UpRight
  <2>3. Still' /\ Fixed' BY <2>1, <2>2 DEF Fixed
  <2>4. k + 1 \in 6..8 BY <1>4
  <2>5. UpRight(k + 1)' BY <2>3, <2>4 DEF UpRight
  <2> QED BY <1>1, <1>4, <2>5
<1>5. CASE k = 8
  <2>1. Still /\ Fixed BY <1>5 DEF UpRight
  <2>2. /\ Images("event")
        /\ \/ /\ Go("event", Suffix(PreUp, 9)) /\ prof_cur' = prof_index
              /\ set' = Assign({"lp", "cfg"}, prof_index)
           \/ Go("event", Suffix(PreUp, 10)) /\ UNCHANGED <<prof_cur, set>>
    BY <1>0, <1>5, UpMoves
  <2>3. Still' BY <2>1, <2>2 DEF Images, Still, pins
  <2>4. CASE /\ Go("event", Suffix(PreUp, 9)) /\ prof_cur' = prof_index
             /\ set' = Assign({"lp", "cfg"}, prof_index)
    <3>1. Fresh' BY <2>1, <2>4, AsocAssumption DEF Fresh, Fixed, Assign
    <3>2. UpRight(9)' BY <2>3, <3>1 DEF UpRight
    <3>3. Is("event", PreUp, 9)' BY <2>4 DEF Go, Is, TypeOK, Threads
    <3> QED BY <1>1, <1>5, <3>2, <3>3
  <2>5. CASE Go("event", Suffix(PreUp, 10))
    <3>1. UpRight(10)' BY <1>1, <2>3 DEF UpRight, Rest
    <3>2. Is("event", PreUp, 10)' BY <2>5 DEF Go, Is, TypeOK, Threads
    <3> QED BY <1>1, <1>5, <3>1, <3>2
  <2> QED BY <2>2, <2>4, <2>5
<1>6. CASE k = 9
  <2>1. UNCHANGED <<amp, prof, vol, pins, cali>> BY <1>0, <1>6, UpMoves DEF Queue
  <2>2. Still /\ Fresh BY <1>6 DEF UpRight
  <2>3. Still' /\ Fresh' BY <2>1, <2>2 DEF Still, Fresh, prof, pins, cali
  <2> QED BY <1>1, <1>6, <2>3
<1>7. CASE k = 10
  <2>1. UNCHANGED <<status, prof, vol, pins, cali>> BY <1>0, <1>7, UpMoves DEF End
  <2>2. Still BY <1>0, <1>7 DEF UpRight, Rest
  <2>3. Still' /\ (Fresh => Fresh') BY <2>1, <2>2 DEF Still, Fresh, prof, pins, cali
  <2> QED BY <1>1, <1>7, <2>3
<1> QED BY <1>2, <1>3, <1>4, <1>5, <1>6, <1>7

\* POST_PMD: an amp that is on is muted and bypassed, one that is off was so.
LEMMA DownData ==
    ASSUME TypeOK, NEW k \in 2..9, DownSteps(k), DownRight(k), Step("event")
    PROVE  CASE k = 9 -> Rest' /\ (Fresh => Fresh')
             [] k = 3 -> \/ Is("event", PostDown, 4)' /\ DownRight(4)'
                         \/ Is("event", PostDown, 8)' /\ DownRight(8)'
             [] OTHER -> DownRight(k + 1)'
<1>1. /\ Is("event", PostDown, k) /\ (k >= 4 => Off) /\ k \in 1..9 /\ lock = "event"
      /\ "control" \in Threads /\ Nobody \notin Threads
  BY AsocAssumption DEF DownSteps, Threads
<1>2. /\ todo'["control"] = todo["control"]
      /\ IF k = 9 THEN lock' = Nobody ELSE lock' = "event"
  BY <1>1, DownEffects DEF TypeOK
<1>3. lock' = "control" <=> lock = "control" BY <1>1, <1>2
<1>4. CASE k = 2
  <2>1. Cancel("event") BY <1>1, <1>4, DownMoves
  <2>2. UNCHANGED <<status, prof, hmute, dspby, set, saved, harm>>
    BY <2>1 DEF Cancel, amp, pins, cali
  <2>3. Rest' BY <1>2, <1>3, <1>4, <2>2, SameRest DEF DownRight
  <2>4. DownRight(3)' BY <2>3 DEF DownRight
  <2> QED BY <1>4, <2>4
<1>5. CASE k = 3
  <2>1. /\ DoStop("event")
        /\ Go("event", Suffix(PostDown, 4)) \/ Go("event", Suffix(PostDown, 8))
        /\ Go("event", Suffix(PostDown, 4)) \/ Off
    BY <1>1, <1>5, DownMoves DEF Off
  <2>2. Rest BY <1>5 DEF DownRight
  <2>3. CASE Go("event", Suffix(PostDown, 4))
    <3>1. Is("event", PostDown, 4)' BY <2>3 DEF Go, Is, TypeOK, Threads
    <3>2. DownRight(4)' BY DEF DownRight
    <3> QED BY <1>5, <3>1, <3>2
  <2>4. CASE Off /\ Go("event", Suffix(PostDown, 8))
    <3>1. Is("event", PostDown, 8)' BY <2>4 DEF Go, Is, TypeOK, Threads
    <3>2. Still' BY <2>1, <2>2, <2>4 DEF DoStop, Rest, Still, pins
    <3>3. DownRight(8)' BY <3>2 DEF DownRight
    <3> QED BY <1>5, <3>1, <3>3
  <2> QED BY <2>1, <2>3, <2>4
<1>6. CASE k = 4
  <2>1. DownRight(5)' BY DEF DownRight
  <2> QED BY <1>6, <2>1
<1>7. CASE k = 5
  <2>1. Write("event", "hmute", TRUE, dspby, pwdn) BY <1>1, <1>7, DownMoves
  <2>2. DownRight(6)' BY <2>1 DEF DownRight, Write
  <2> QED BY <1>7, <2>2
<1>8. CASE k = 6
  <2>1. Write("event", "dsp_bypass", hmute, TRUE, pwdn) BY <1>1, <1>8, DownMoves
  <2>2. DownRight(7)' BY <1>8, <2>1 DEF DownRight, Write, Still
  <2> QED BY <1>8, <2>2
<1>9. CASE k = 7
  <2>1. Write("event", "pwr_off", hmute, dspby, TRUE) BY <1>1, <1>9, DownMoves
  <2>2. DownRight(8)' BY <1>9, <2>1 DEF DownRight, Write, Still
  <2> QED BY <1>9, <2>2
<1>10. CASE k = 8
  <2>1. Down("event") BY <1>1, <1>10, DownMoves
  <2>2. Rest' BY <1>1, <1>10, <2>1 DEF Down, DownRight, Rest, Still, Off, amp, pins
  <2>3. DownRight(9)' BY <2>2 DEF DownRight
  <2> QED BY <1>10, <2>3
<1>11. CASE k = 9
  <2>1. End("event") BY <1>1, <1>11, DownMoves
  <2>2. UNCHANGED <<status, prof, hmute, dspby, set, saved, harm>>
    BY <2>1 DEF End, pins, cali
  <2>3. Rest BY <1>11 DEF DownRight
  <2>4. Rest' BY <1>2, <1>3, <2>2, <2>3, SameRest
  <2>5. Fresh => Fresh' BY <2>2, SameAmp
  <2> QED BY <1>11, <2>4, <2>5
<1> QED BY <1>4, <1>5, <1>6, <1>7, <1>8, <1>9, <1>10, <1>11

\* aw88399_start and the restart of profile_set: the amp is muted and bypassed
\* until an attempt has passed its checks.
LEMMA StartData ==
    ASSUME TypeOK, NEW t \in {"work", "control"}, NEW k \in 2..28, StartSteps(t, k),
           StartRight(k), Step(t), Off /\ t = "work" => Light
    PROVE  CASE k = 2 -> /\ Fresh => Fresh'
                         /\ \/ Is(t, SetProfile, 28)' /\ StartRight(28)'
                            \/ Is(t, SetProfile, 3)' /\ StartRight(3)' /\ ~Off
             [] k = 9 -> \/ Is(t, SetProfile, 10)' /\ StartRight(10)'
                         \/ Is(t, SetProfile, 28)' /\ StartRight(28)'
             [] k = 13 -> \/ Is(t, SetProfile, 14)' /\ StartRight(14)'
                          \/ Is(t, SetProfile, 28)' /\ StartRight(28)'
             [] k = 15 -> \/ Is(t, SetProfile, 16)' /\ StartRight(16)'
                          \/ Is(t, SetProfile, 21)' /\ StartRight(21)'
             [] k = 20 -> StartRight(28)'
             [] k = 22 -> \/ Is(t, SetProfile, 23)' /\ StartRight(23)'
                          \/ Is(t, SetProfile, 27)' /\ StartRight(27)'
             [] k = 27 -> \/ Is(t, SetProfile, 14)' /\ StartRight(14)'
                          \/ Is(t, SetProfile, 28)' /\ StartRight(28)'
             [] k = 28 -> Rest' /\ (Fresh => Fresh')
             [] OTHER -> StartRight(k + 1)'
<1>1. /\ t \in Threads /\ (k \in 4..27 => Off) /\ lock = t /\ "control" \in Threads
      /\ Nobody \notin Threads
  BY AsocAssumption DEF StartSteps, Threads
<1>2. ASSUME NEW j, Go(t, Suffix(SetProfile, j)) PROVE Is(t, SetProfile, j)'
  BY <1>1, <1>2 DEF Go, Is, TypeOK
<1>a. /\ t = "work" => todo'["control"] = todo["control"]
      /\ k \in 4..27 /\ k # 20 => Off'
      /\ IF k = 28 THEN lock' = Nobody /\ Quiet(t)' ELSE lock' = t
  <2>1. /\ \A u \in Threads \ {t} : todo'[u] = todo[u]
        /\ CASE k = 3 -> Off' [] k = 20 -> ~Off' [] OTHER -> status' = status
        /\ lock' = IF k = 28 THEN Nobody ELSE t
        /\ CASE k = 28 -> Quiet(t)' [] OTHER -> TRUE
    BY StartEffects DEF TypeOK
  <2> QED BY <1>1, <2>1 DEF Off
<1>3. CASE k = 2
  <2>1. /\ Choose(t)
        /\ \/ Go(t, Suffix(SetProfile, 28)) /\ (prof_index' = prof_index \/ Off)
           \/ Go(t, Suffix(SetProfile, 3)) /\ ~Off
    BY <1>1, <1>3, StartMoves
  <2>2. UNCHANGED <<amp, prof_cur, vol, pins, cali>> BY <2>1 DEF Choose
  <2>3. Rest BY <1>3 DEF StartRight
  <2>4. Fresh => Fresh' BY <2>2 DEF Fresh, cali
  <2>5. CASE Go(t, Suffix(SetProfile, 28)) /\ prof_index' = prof_index
    <3>1. UNCHANGED <<status, prof, hmute, dspby, set, saved, harm>>
      BY <2>2, <2>5 DEF prof, amp, pins, cali
    <3>2. Rest'
      <4>1. CASE t = "work"
        <5>1. todo'["control"] = todo["control"] /\ (lock' = "control" <=> lock = "control")
          BY <1>1, <1>3, <1>a, <4>1
        <5> QED BY <2>3, <3>1, <5>1, SameRest
      <4>2. CASE t = "control" BY <1>1, <1>3, <1>a, <2>3, <3>1, <4>2, LightRest
      <4> QED BY <4>1, <4>2
    <3>3. StartRight(28)' BY <3>2 DEF StartRight
    <3>4. Is(t, SetProfile, 28)' BY <1>2, <2>5
    <3> QED BY <1>3, <2>4, <3>3, <3>4
  <2>6. CASE Go(t, Suffix(SetProfile, 28)) /\ Off
    <3>1. Rest' BY <2>2, <2>3, <2>6 DEF Rest, Off, Still, amp, pins
    <3>2. StartRight(28)' BY <3>1 DEF StartRight
    <3>3. Is(t, SetProfile, 28)' BY <1>2, <2>6
    <3> QED BY <1>3, <2>4, <3>2, <3>3
  <2>7. CASE Go(t, Suffix(SetProfile, 3)) /\ ~Off
    <3>1. Is(t, SetProfile, 3)' BY <1>2, <2>7
    <3>2. StartRight(3)' BY DEF StartRight
    <3> QED BY <1>3, <2>4, <2>7, <3>1, <3>2
  <2> QED BY <2>1, <2>5, <2>6, <2>7
<1>4. CASE k \in 3..4
  <2>1. k + 1 \in 4..5 BY <1>4
  <2>2. StartRight(k + 1)' BY <2>1 DEF StartRight
  <2> QED BY <1>4, <2>2
<1>5. CASE k \in 5..8
  <2>1. /\ k = 5 => Write(t, "hmute", TRUE, dspby, pwdn)
        /\ k = 6 => Write(t, "dsp_bypass", hmute, TRUE, pwdn)
        /\ k = 7 => Write(t, "pwr_off", hmute, dspby, TRUE)
        /\ k = 8 => Start(t)
    BY <1>1, <1>5, StartMoves
  <2>2. CASE k = 5
    <3>1. StartRight(6)' BY <2>1, <2>2 DEF Write, StartRight
    <3> QED BY <2>2, <3>1
  <2>3. CASE k = 6
    <3>1. Still' BY <2>1, <2>3 DEF Write, StartRight, Still
    <3>2. StartRight(7)' BY <3>1 DEF StartRight
    <3> QED BY <2>3, <3>2
  <2>4. CASE k = 7
    <3>1. Still' BY <2>1, <2>4 DEF Write, StartRight, Still
    <3>2. StartRight(8)' BY <3>1 DEF StartRight
    <3> QED BY <2>4, <3>2
  <2>5. CASE k = 8
    <3>1. Still' BY <2>1, <2>5 DEF Start, StartRight, Still, pins
    <3>2. StartRight(9)' BY <3>1 DEF StartRight
    <3> QED BY <2>5, <3>2
  <2> QED BY <1>5, <2>2, <2>3, <2>4, <2>5
<1>6. CASE k = 9
  <2>1. /\ Regs(t)
        /\ \/ RegsWritten(t) /\ Go(t, Suffix(SetProfile, 10))
           \/ RegsStop(t) /\ Go(t, Suffix(SetProfile, 28))
    BY <1>1, <1>6, StartMoves
  <2>2. Off' /\ Still BY <1>6, <1>a DEF StartRight
  <2>3. CASE RegsWritten(t) /\ Go(t, Suffix(SetProfile, 10))
    <3>1. Still' /\ Fixed' BY <1>1, <2>1, <2>3, RegsData
    <3>2. StartRight(10)' BY <3>1 DEF StartRight
    <3>3. Is(t, SetProfile, 10)' BY <1>2, <2>3
    <3> QED BY <1>6, <3>2, <3>3
  <2>4. CASE Go(t, Suffix(SetProfile, 28))
    <3>1. Still' BY <1>1, <2>1, <2>2, RegsData
    <3>2. StartRight(28)' BY <2>2, <3>1 DEF StartRight, Rest
    <3>3. Is(t, SetProfile, 28)' BY <1>2, <2>4
    <3> QED BY <1>6, <3>2, <3>3
  <2> QED BY <2>1, <2>3, <2>4
<1>7. CASE k = 22
  <2>1. /\ Regs(t)
        /\ \/ RegsWritten(t) /\ Go(t, Suffix(SetProfile, 23))
           \/ RegsStop(t) /\ Go(t, Suffix(SetProfile, 27))
    BY <1>1, <1>7, StartMoves
  <2>2. Still /\ Good(set) BY <1>7 DEF StartRight
  <2>3. Still' /\ Good(set)' BY <1>1, <2>1, <2>2, RegsData
  <2>4. CASE RegsWritten(t) /\ Go(t, Suffix(SetProfile, 23))
    <3>1. Fixed' BY <1>1, <2>1, <2>4, RegsData
    <3>2. StartRight(23)' BY <2>3, <3>1 DEF StartRight
    <3>3. Is(t, SetProfile, 23)' BY <1>2, <2>4
    <3> QED BY <1>7, <3>2, <3>3
  <2>5. CASE Go(t, Suffix(SetProfile, 27))
    <3>1. StartRight(27)' BY <2>3 DEF StartRight
    <3>2. Is(t, SetProfile, 27)' BY <1>2, <2>5
    <3> QED BY <1>7, <3>1, <3>2
  <2> QED BY <2>1, <2>4, <2>5
<1>8. CASE k \in (10..12) \cup (23..25)
  <2>1. UNCHANGED <<prof, cali>> /\ (Still => Still')
    <3>1. CASE k \in {10, 23}
      <4>1. DoFadeOut(t)
        <5>1. CASE k = 10 BY <1>1, <5>1, StartMoves
        <5>2. CASE k = 23 BY <1>1, <5>2, StartMoves
        <5> QED BY <3>1, <5>1, <5>2
      <4> QED BY <4>1 DEF DoFadeOut, Still, pins
    <3>2. CASE k \in {11, 24}
      <4>1. Write(t, "hmute", TRUE, dspby, pwdn)
        <5>1. CASE k = 11 BY <1>1, <5>1, StartMoves
        <5>2. CASE k = 24 BY <1>1, <5>2, StartMoves
        <5> QED BY <3>2, <5>1, <5>2
      <4> QED BY <4>1 DEF Write, Still
    <3>3. CASE k \in {12, 25}
      <4>1. Write(t, "dsp_bypass", hmute, TRUE, pwdn)
        <5>1. CASE k = 12 BY <1>1, <5>1, StartMoves
        <5>2. CASE k = 25 BY <1>1, <5>2, StartMoves
        <5> QED BY <3>3, <5>1, <5>2
      <4> QED BY <4>1 DEF Write, Still
    <3> QED BY <1>8, <3>1, <3>2, <3>3
  <2>2. Still /\ Fixed /\ (k \in 23..25 => Good(set)) BY <1>8 DEF StartRight
  <2>3. Still' /\ Fixed' /\ (k \in 23..25 => Good(set)')
    BY <2>1, <2>2 DEF Fixed, Good, prof, cali
  <2>4. CASE k \in 10..12
    <3>1. k + 1 \in 11..13 BY <2>4
    <3>2. StartRight(k + 1)' BY <2>3, <2>4, <3>1 DEF StartRight
    <3> QED BY <2>4, <3>2
  <2>5. CASE k \in 23..25
    <3>1. k + 1 \in 24..26 BY <2>5
    <3>2. StartRight(k + 1)' BY <2>3, <2>5, <3>1 DEF StartRight
    <3> QED BY <2>5, <3>2
  <2> QED BY <1>8, <2>4, <2>5
<1>9. CASE k = 13
  <2>1. /\ Images(t)
        /\ \/ /\ Go(t, Suffix(SetProfile, 14)) /\ prof_cur' = prof_index
              /\ set' = Assign({"lp", "cfg"}, prof_index)
           \/ Go(t, Suffix(SetProfile, 28)) /\ UNCHANGED <<prof_cur, set>>
    BY <1>1, <1>9, StartMoves
  <2>2. Still /\ Fixed BY <1>9 DEF StartRight
  <2>3. Still' /\ Off' /\ prof_index' = prof_index
    BY <1>9, <1>a, <2>1, <2>2 DEF Images, Still, pins
  <2>4. CASE /\ Go(t, Suffix(SetProfile, 14)) /\ prof_cur' = prof_index
             /\ set' = Assign({"lp", "cfg"}, prof_index)
    <3>1. Good(set)' BY <2>2, <2>3, <2>4 DEF Good, Fixed, Assign
    <3>2. StartRight(14)' BY <2>3, <3>1 DEF StartRight
    <3> QED BY <1>2, <1>9, <2>4, <3>2
  <2>5. CASE Go(t, Suffix(SetProfile, 28))
    <3>1. StartRight(28)' BY <2>3 DEF StartRight, Rest
    <3> QED BY <1>2, <1>9, <2>5, <3>1
  <2> QED BY <2>1, <2>4, <2>5
<1>10. CASE k = 26
  <2>1. /\ Images(t)
        /\ \/ prof_cur' = prof_index /\ set' = Assign({"lp", "cfg"}, prof_index)
           \/ UNCHANGED <<prof_cur, set>>
    BY <1>1, <1>10, StartMoves
  <2>2. Still /\ Fixed /\ Good(set) BY <1>10 DEF StartRight
  <2>3. Still' /\ prof_index' = prof_index BY <2>1, <2>2 DEF Images, Still, pins
  <2>4. Good(set)' BY <2>1, <2>2, <2>3 DEF Good, Fixed, Assign
  <2>5. StartRight(27)' BY <2>3, <2>4 DEF StartRight
  <2> QED BY <1>10, <2>5
<1>11. CASE k = 14
  <2>1. PowerOn(t) BY <1>1, <1>11, StartMoves
  <2>2. UNCHANGED <<prof, hmute, dspby, cali>> BY <2>1 DEF PowerOn
  <2>3. Still' /\ Good(set)' BY <1>11, <2>2 DEF StartRight, Still, Good, prof, cali
  <2>4. StartRight(15)' BY <2>3 DEF StartRight
  <2> QED BY <1>11, <2>4
<1>12. CASE k = 15
  <2>1. Checks(t) /\ (Go(t, Suffix(SetProfile, 16)) \/ Go(t, Suffix(SetProfile, 21)))
    BY <1>1, <1>12, StartMoves
  <2>2. Still' /\ Good(set)'
    BY <1>12, <2>1 DEF Checks, StartRight, Still, Good, prof, pins, cali
  <2>3. StartRight(16)' /\ StartRight(21)' BY <2>2 DEF StartRight, Still
  <2> QED BY <1>2, <1>12, <2>1, <2>3
<1>13. CASE k = 16
  <2>1. Write(t, "dsp_on", hmute, FALSE, pwdn) BY <1>1, <1>13, StartMoves
  <2>2. hmute' /\ Good(set)' BY <1>13, <2>1 DEF Write, StartRight, Still, Good, prof, cali
  <2>3. StartRight(17)' BY <2>2 DEF StartRight
  <2> QED BY <1>13, <2>3
<1>14. CASE k = 17
  <2>1. Write(t, "unmute", FALSE, dspby, pwdn) BY <1>1, <1>14, StartMoves
  <2>2. Good(set)' BY <1>14, <2>1 DEF Write, StartRight, Good, prof, cali
  <2>3. StartRight(18)' BY <2>2 DEF StartRight
  <2> QED BY <1>14, <2>3
<1>15. CASE k = 18
  <2>1. FadeRead(t) BY <1>1, <1>15, StartMoves
  <2>2. Good(set)' BY <1>15, <2>1 DEF FadeRead, StartRight, Good, prof, cali
  <2>3. StartRight(19)' BY <2>2 DEF StartRight
  <2> QED BY <1>15, <2>3
<1>16. CASE k = 19
  <2>1. FadeWrite(t) BY <1>1, <1>16, StartMoves
  <2>2. Good(set)' BY <1>16, <2>1 DEF FadeWrite, FadeEnds, StartRight, Good, prof, cali
  <2>3. StartRight(20)' BY <2>2 DEF StartRight
  <2> QED BY <1>16, <2>3
<1>17. CASE k = 20
  <2>1. Started(t) BY <1>1, <1>17, StartMoves
  <2>2. ~Off' BY <2>1 DEF Started, Off
  <2>3. Good(set)' BY <1>17, <2>1 DEF Started, StartRight, Good, prof, cali
  <2>4. Restores({})' BY <2>3 DEF Restores, Before, Good
  <2>5. Light' \/ lock' = "control"
    <3>1. CASE t = "work"
      <4>1. Light BY <1>1, <1>17, <3>1
      <4>2. todo'["control"] = todo["control"] BY <1>a, <3>1
      <4> QED BY <4>1, <4>2 DEF Light, Gentle, Quiet, Is
    <3>2. CASE t = "control" BY <1>17, <1>a, <3>2
    <3> QED BY <3>1, <3>2
  <2>6. StartRight(28)' BY <2>2, <2>4, <2>5 DEF StartRight, Rest, Settled
  <2> QED BY <1>17, <2>6
<1>18. CASE k = 21
  <2>1. Write(t, "failed", hmute, TRUE, TRUE) BY <1>1, <1>18, StartMoves
  <2>2. Still' /\ Good(set)' BY <1>18, <2>1 DEF Write, StartRight, Still, Good, prof, cali
  <2>3. StartRight(22)' BY <2>2 DEF StartRight
  <2> QED BY <1>18, <2>3
<1>19. CASE k = 27
  <2>1. /\ NextAttempt(t)
        /\ Go(t, Suffix(SetProfile, 14)) \/ Go(t, Suffix(SetProfile, 28))
    BY <1>1, <1>19, StartMoves
  <2>2. Still' /\ Good(set)' /\ Off'
    BY <1>19, <1>a, <2>1 DEF NextAttempt, StartRight, Still, Good, prof, pins, cali
  <2>3. StartRight(14)' /\ StartRight(28)' BY <2>2 DEF StartRight, Rest
  <2> QED BY <1>2, <1>19, <2>1, <2>3
<1>20. CASE k = 28
  <2>1. End(t) BY <1>1, <1>20, StartMoves
  <2>2. UNCHANGED <<status, prof, hmute, dspby, set, saved, harm>> BY <2>1 DEF End, pins, cali
  <2>3. Rest BY <1>20 DEF StartRight
  <2>4. Rest'
    <3>1. CASE t = "work"
      <4>1. todo'["control"] = todo["control"] /\ (lock' = "control" <=> lock = "control")
        BY <1>1, <1>20, <1>a, <3>1
      <4> QED BY <2>2, <2>3, <4>1, SameRest
    <3>2. CASE t = "control"
      <4>1. Light' BY <1>20, <1>a, <3>2 DEF Light, Gentle
      <4> QED BY <1>1, <2>2, <2>3, <3>2, <4>1, LightRest
    <3> QED BY <3>1, <3>2
  <2>5. Fresh => Fresh' BY <2>2, SameAmp
  <2> QED BY <1>20, <2>4, <2>5
<1>21. \/ k = 2 \/ k \in 3..4 \/ k \in 5..8 \/ k = 9 \/ k = 22 \/ k \in (10..12) \cup (23..25)
       \/ k = 13 \/ k = 26 \/ k = 14 \/ k = 15 \/ k = 16 \/ k = 17 \/ k = 18 \/ k = 19 \/ k = 20
       \/ k = 21 \/ k = 27 \/ k = 28
  OBVIOUS
<1> QED BY <1>3, <1>4, <1>5, <1>6, <1>7, <1>8, <1>9, <1>10, <1>11, <1>12, <1>13, <1>14, <1>15,
       <1>16, <1>17, <1>18, <1>19, <1>20, <1>21, Zenon

\* A calibration: what it overrides is in the backups until it is put back.
LEMMA CaliData ==
    ASSUME TypeOK, NEW k \in 1..18, Is("control", Calibrate, k), lock # "control",
           Restores(Overridden(k)), Step("control")
    PROVE  CASE k = 12 -> Restores(Settings)'
             [] k = 9 -> \/ Is("control", Calibrate, 10)' /\ Restores(Overridden(10))'
                         \/ Is("control", Calibrate, 16)' /\ Restores(Overridden(16))'
                         \/ Is("control", Calibrate, 17)' /\ Restores(Overridden(17))'
             [] k = 11 -> \/ Is("control", Calibrate, 12)' /\ Restores(Overridden(12))'
                          \/ Is("control", Calibrate, 15)' /\ Restores(Overridden(15))'
             [] k \in {1, 5, 18} -> Restores({})'
             [] OTHER -> Restores(Overridden(k + 1))'
<1>1. k \in 1..19 OBVIOUS
<1>2. ASSUME NEW j, Go("control", Suffix(Calibrate, j)) PROVE Is("control", Calibrate, j)'
  BY <1>2 DEF Go, Is, TypeOK, Threads
<1>3. ASSUME UNCHANGED <<prof, set, saved, harm>>, NEW over
      PROVE  Restores(over) => Restores(over)'
  BY <1>3 DEF prof, Restores, Before, Good
<1>4. ASSUME Failing, NEW over PROVE Restores(over)'
  BY <1>4 DEF Failing, TypeOK, Restores
<1>c. /\ Overridden(10) = {"ng", "lp", "cfg"} /\ Overridden(12) = Settings
      /\ Overridden(11) = {"ng", "lp", "cfg"} /\ Overridden(9) = {"ng", "lp"}
      /\ Overridden(7) = {"ng", "lp"} /\ Overridden(6) = {} /\ Overridden(8) = {"ng", "lp"}
      /\ Overridden(13) = Settings /\ Overridden(14) = {"ng", "lp", "cfg"}
      /\ Overridden(15) = {"cfg"} /\ Overridden(16) = {"cfg"} /\ Overridden(17) = {}
      /\ Overridden(1) = {} /\ Overridden(5) = {} /\ Overridden(18) = {}
      /\ Overridden(2) = {} /\ Overridden(3) = {} /\ Overridden(4) = {}
  BY DEF Overridden
<1>5. CASE k = 1 \/ k = 5
  <2>1. UNCHANGED <<prof, set, saved, harm>>
    <3>1. CASE k = 1 BY <1>1, <3>1, CaliMoves DEF CaliBegin, CaliRest
    <3>2. CASE k = 5 BY <1>1, <3>2, CaliMoves DEF CaliCheck, CaliRest, cali
    <3> QED BY <1>5, <3>1, <3>2
  <2>2. Restores({}) BY <1>5, <1>c
  <2>3. Restores({})' BY <1>3, <2>1, <2>2
  <2> QED BY <1>5, <2>3
<1>6. CASE k = 18
  <2>1. CaliEnd("control") BY <1>1, <1>6, CaliMoves
  <2>2. Restores({}) BY <1>6, <1>c
  <2>3. Restores({})' BY <2>1, <2>2 DEF CaliEnd, CaliRest, prof, Restores, Before, Good
  <2> QED BY <1>6, <2>3
<1>7. CASE k \in {2, 3, 4, 7, 10, 15, 17}
  <2>1. UNCHANGED <<prof, set, saved, harm>>
    <3>1. CASE k = 2 BY <1>1, <3>1, CaliMoves DEF Write, cali
    <3>2. CASE k = 3 BY <1>1, <3>2, CaliMoves DEF FadeRead, cali
    <3>3. CASE k = 4 BY <1>1, <3>3, CaliMoves DEF FadeWrite, FadeEnds, cali
    <3>4. CASE k = 7 BY <1>1, <3>4, CaliMoves DEF Write, cali
    <3>5. CASE k = 10 BY <1>1, <3>5, CaliMoves DEF Write, cali
    <3>6. CASE k = 15 BY <1>1, <3>6, CaliMoves DEF Write, cali
    <3>7. CASE k = 17 BY <1>1, <3>7, CaliMoves DEF Write, cali
    <3> QED BY <1>7, <3>1, <3>2, <3>3, <3>4, <3>5, <3>6, <3>7
  <2>2. Restores(Overridden(k))' BY <2>1 DEF prof, Restores, Before, Good, Overridden
  <2>3. Overridden(k + 1) = Overridden(k) BY <1>7 DEF Overridden
  <2>4. Restores(Overridden(k + 1))' BY <2>2, <2>3
  <2> QED BY <1>7, <2>4
<1>8. CASE k = 6
  <2>1. Backup("control") BY <1>1, <1>8, CaliMoves
  <2>2. Restores({}) BY <1>8, <1>c
  <2>3. Restores({"ng", "lp"})'
    BY <2>1, <2>2 DEF Backup, Save, CaliRest, Restores, Before, Good, prof
  <2> QED BY <1>8, <1>c, <2>3
<1>9. CASE k = 8
  <2>1. CaliQuiet("control") BY <1>1, <1>9, CaliMoves
  <2>2. Restores({"ng", "lp"}) BY <1>9, <1>c
  <2>3. Restores({"ng", "lp"})'
    BY <2>1, <2>2 DEF CaliQuiet, Assign, CaliRest, Restores, Before, Good, prof
  <2> QED BY <1>9, <1>c, <2>3
<1>10. CASE k = 9
  <2>1. /\ CaliCfg("control")
        /\ \/ /\ Go("control", Suffix(Calibrate, 10)) /\ UNCHANGED harm
              /\ saved' = Save({"cfg"})
              /\ set' = Assign({"cfg"}, Cali)
           \/ Failing /\ Go("control", Suffix(Calibrate, 17))
           \/ Failing /\ Go("control", Suffix(Calibrate, 16))
    BY <1>1, <1>10, CaliMoves
  <2>2. CASE /\ Go("control", Suffix(Calibrate, 10)) /\ UNCHANGED harm
             /\ saved' = Save({"cfg"})
             /\ set' = Assign({"cfg"}, Cali)
    <3>1. Restores({"ng", "lp"}) BY <1>10, <1>c
    <3>2. Restores({"ng", "lp", "cfg"})'
      BY <2>1, <2>2, <3>1 DEF CaliCfg, Assign, Save, CaliRest, Restores, Before, Good, prof
    <3>3. Is("control", Calibrate, 10)' BY <1>2, <2>2
    <3> QED BY <1>10, <1>c, <3>2, <3>3
  <2>3. CASE Failing /\ Go("control", Suffix(Calibrate, 17))
    <3>1. Restores({})' /\ Is("control", Calibrate, 17)' BY <1>2, <1>4, <2>3
    <3> QED BY <1>10, <1>c, <3>1
  <2>4. CASE Failing /\ Go("control", Suffix(Calibrate, 16))
    <3>1. Restores({"cfg"})' /\ Is("control", Calibrate, 16)' BY <1>2, <1>4, <2>4
    <3> QED BY <1>10, <1>c, <3>1
  <2> QED BY <2>1, <2>2, <2>3, <2>4
<1>11. CASE k = 11
  <2>1. /\ CaliVol("control")
        /\ \/ /\ Go("control", Suffix(Calibrate, 12)) /\ UNCHANGED harm
              /\ saved' = Save({"vol"})
              /\ set' = Assign({"vol"}, Cali)
           \/ Failing /\ Go("control", Suffix(Calibrate, 15))
    BY <1>1, <1>11, CaliMoves
  <2>2. CASE /\ Go("control", Suffix(Calibrate, 12)) /\ UNCHANGED harm
             /\ saved' = Save({"vol"})
             /\ set' = Assign({"vol"}, Cali)
    <3>1. Restores({"ng", "lp", "cfg"}) BY <1>11, <1>c
    <3>2. Restores(Settings)'
      BY <2>1, <2>2, <3>1, AsocAssumption
         DEF CaliVol, Assign, Save, CaliRest, Restores, Before, Good, prof
    <3>3. Is("control", Calibrate, 12)' BY <1>2, <2>2
    <3> QED BY <1>11, <1>c, <3>2, <3>3
  <2>3. CASE Failing /\ Go("control", Suffix(Calibrate, 15))
    <3>1. Restores({"cfg"})' /\ Is("control", Calibrate, 15)' BY <1>2, <1>4, <2>3
    <3> QED BY <1>11, <1>c, <3>1
  <2> QED BY <2>1, <2>2, <2>3
<1>12. CASE k = 12
  <2>1. Measure("control") BY <1>1, <1>12, CaliMoves
  <2>2. Restores(Settings) BY <1>12, <1>c
  <2>3. Restores(Settings)' BY <1>3, <2>1, <2>2 DEF Measure, CaliRest, cali
  <2> QED BY <1>12, <2>3
<1>13. CASE k = 13
  <2>1. PutBack("control", "put_vol", {"vol"}) BY <1>1, <1>13, CaliMoves
  <2>2. Restores(Settings) BY <1>13, <1>c
  <2>3. Restores({"ng", "lp", "cfg"})'
    BY <2>1, <2>2, AsocAssumption DEF PutBack, CaliRest, Restores, Before, Good, prof
  <2> QED BY <1>13, <1>c, <2>3
<1>14. CASE k = 14
  <2>1. PutBack("control", "recover", {"ng", "lp"}) BY <1>1, <1>14, CaliMoves
  <2>2. Restores({"ng", "lp", "cfg"}) BY <1>14, <1>c
  <2>3. Restores({"cfg"})'
    BY <2>1, <2>2, AsocAssumption DEF PutBack, CaliRest, Restores, Before, Good, prof
  <2> QED BY <1>14, <1>c, <2>3
<1>15. CASE k = 16
  <2>1. PutBack("control", "put_cfg", {"cfg"}) BY <1>1, <1>15, CaliMoves
  <2>2. Restores({"cfg"}) BY <1>15, <1>c
  <2>3. Restores({})'
    BY <2>1, <2>2, AsocAssumption DEF PutBack, CaliRest, Restores, Before, Good, prof
  <2> QED BY <1>15, <1>c, <2>3
<1>16. \/ k = 1 \/ k = 5 \/ k = 18 \/ k \in {2, 3, 4, 7, 10, 15, 17} \/ k = 6 \/ k = 8 \/ k = 9
       \/ k = 11 \/ k = 12 \/ k = 13 \/ k = 14 \/ k = 16
  OBVIOUS
<1> QED BY <1>5, <1>6, <1>7, <1>8, <1>9, <1>10, <1>11, <1>12, <1>13, <1>14, <1>15, <1>16, Zenon

\* A running amp beside a calibration: each of its steps leaves settings that
\* the rest of it puts back.
LEMMA CaliSettles ==
    ASSUME TypeOK, ~Light, lock # "control", Settled, Step("control")
    PROVE  Settled'
<1>0. /\ ~(Light /\ InCali)' /\ ~(Light /\ Is("control", Calibrate, 1))'
  BY CaliPlacesNext
<1>1. ASSUME lock' # "control", NEW k \in 2..18, Is("control", Calibrate, k)',
             Restores(Overridden(k))'
      PROVE  Settled'
  <2>1. ~Light' BY <1>0, <1>1 DEF InCali
  <2>2. k \in 1..18 OBVIOUS
  <2> QED BY <1>1, <2>1, <2>2 DEF Settled
<1>2. ASSUME lock' # "control", NEW x \in Extras, AtExtra(x)', Restores(Settings)'
      PROVE  Settled'
  <2>1. ~Light' BY <1>0, <1>2 DEF InCali
  <2> QED BY <1>2, <2>1 DEF Settled
<1>3. ASSUME Light', Restores({})' PROVE Settled' BY <1>3 DEF Settled
<1>4. ASSUME NEW k \in 1..18, Is("control", Calibrate, k), Restores(Overridden(k))
      PROVE  Settled'
  <2>0. k \in 1..19 /\ DOMAIN todo = Threads BY DEF TypeOK
  <2>1. sched' = sched
        /\ CASE k = 1 -> Is("control", Calibrate, 2)' \/ Is("control", Calibrate, 19)'
             [] k = 5 -> Is("control", Calibrate, 6)' \/ Is("control", Calibrate, 18)'
             [] k \in {9, 11} -> TRUE
             [] k = 12 -> AtExtra(<<"dsp_bypass", "dsp_on">>)' \/ AtExtra(FadeOut)'
             [] OTHER -> Is("control", Calibrate, k + 1)'
    BY <1>4, <2>0, CaliEffects
  <2>2. lock' # "control" BY <2>1 DEF sched
  <2>3. (CASE k = 12 -> Restores(Settings)'
          [] k = 9 -> \/ Is("control", Calibrate, 10)' /\ Restores(Overridden(10))'
                      \/ Is("control", Calibrate, 16)' /\ Restores(Overridden(16))'
                      \/ Is("control", Calibrate, 17)' /\ Restores(Overridden(17))'
          [] k = 11 -> \/ Is("control", Calibrate, 12)' /\ Restores(Overridden(12))'
                       \/ Is("control", Calibrate, 15)' /\ Restores(Overridden(15))'
          [] k \in {1, 5, 18} -> Restores({})'
          [] OTHER -> Restores(Overridden(k + 1))')
    BY <1>4, CaliData
  <2>4. Overridden(2) = {} /\ Overridden(6) = {} /\ Overridden(18) = {} BY DEF Overridden
  <2>5. CASE k = 1
    <3>1. CASE Is("control", Calibrate, 2)'
      <4>1. 2 \in 2..18 OBVIOUS
      <4> QED BY <1>1, <2>2, <2>3, <2>4, <2>5, <3>1, <4>1
    <3>2. CASE Is("control", Calibrate, 19)' BY <1>3, <2>3, <2>5, <3>2 DEF Light
    <3> QED BY <2>1, <2>5, <3>1, <3>2
  <2>6. CASE k = 5
    <3>1. 6 \in 2..18 /\ 18 \in 2..18 OBVIOUS
    <3> QED BY <1>1, <2>1, <2>2, <2>3, <2>4, <2>6, <3>1
  <2>7. CASE k = 9 \/ k = 11
    <3>1. 10 \in 2..18 /\ 12 \in 2..18 /\ 15 \in 2..18 /\ 16 \in 2..18 /\ 17 \in 2..18 OBVIOUS
    <3>2. CASE k = 9 BY <1>1, <2>2, <2>3, <3>1, <3>2
    <3>3. CASE k = 11 BY <1>1, <2>2, <2>3, <3>1, <3>3
    <3> QED BY <2>7, <3>2, <3>3
  <2>8. CASE k = 12
    <3>1. <<"dsp_bypass", "dsp_on">> \in Extras /\ FadeOut \in Extras BY DEF Extras
    <3> QED BY <1>2, <2>1, <2>2, <2>3, <2>8, <3>1
  <2>9. CASE k = 18
    <3>1. Is("control", Calibrate, 19)' BY <2>1, <2>9
    <3> QED BY <1>3, <2>3, <2>9, <3>1 DEF Light
  <2>10. CASE k \notin {1, 5, 9, 11, 12, 18}
    <3>1. k + 1 \in 2..18 BY <2>10
    <3>2. Is("control", Calibrate, k + 1)' /\ Restores(Overridden(k + 1))' BY <2>1, <2>3, <2>10
    <3> QED BY <1>1, <2>2, <3>1, <3>2
  <2> QED BY <2>5, <2>6, <2>7, <2>8, <2>9, <2>10
<1>5. ASSUME NEW x \in Extras, AtExtra(x), Restores(Settings) PROVE Settled'
  <2>1. /\ sched' = sched
        /\ Is("control", Calibrate, 13)' \/ \E y \in Extras : AtExtra(y)'
    BY <1>5, ExtraEffects DEF TypeOK
  <2>2. lock' # "control" BY <2>1 DEF sched
  <2>3. UNCHANGED <<prof, cali>> BY <1>5, ExtraMoves DEF Write, DoFadeOut, Extras
  <2>4. Restores(Settings)' BY <1>5, <2>3 DEF Restores, Before, Good, prof, cali
  <2>5. 13 \in 2..18 /\ Overridden(13) = Settings BY DEF Overridden
  <2>6. CASE Is("control", Calibrate, 13)' BY <1>1, <2>2, <2>4, <2>5, <2>6
  <2> QED BY <1>2, <2>1, <2>2, <2>4, <2>6
<1> QED BY <1>4, <1>5 DEF Settled

-----------------------------------------------------------------------------
(* The holder of the lock has the amp.                                     *)

\* The registers of a profile are written by the holder of the lock, off.
LEMMA AtRegs ==
    ASSUME PlacesInv, NEW t \in Threads, At(t, "regs")
    PROVE  \/ t = "event" /\ UpSteps(4)
           \/ t \in {"work", "control"} /\ (StartSteps(t, 22) \/ (t = "control" /\ StartSteps(t, 9)))
<1>1. ~Quiet(t) /\ Head(todo[t]) = "regs" BY DEF At, Quiet
<1>2. ASSUME NEW u, NEW k \in 1..28, Is(u, SetProfile, k), Head(todo[u]) = "regs"
      PROVE  k = 9 \/ k = 22
  <2>1. SetProfile[k] = "regs" BY <1>2, StartHeads
  <2>2. CASE k \in 1..8
    <3>1. k \in {1, 2, 3, 4, 5, 6, 7, 8} BY <2>2
    <3> QED BY <2>1, <3>1, ProfileStops
  <2>3. CASE k \in 9..13
    <3>1. k \in {9, 10, 11, 12, 13} BY <2>3
    <3> QED BY <2>1, <3>1, ProfileLoads
  <2>4. CASE k \in 14..21
    <3>1. k \in {14, 15, 16, 17, 18, 19, 20, 21} BY <2>4
    <3> QED BY <2>1, <3>1, ProfileStarts
  <2>5. CASE k \in 22..28
    <3>1. k \in {22, 23, 24, 25, 26, 27, 28} BY <2>5
    <3> QED BY <2>1, <3>1, ProfileReloads
  <2> QED BY <2>2, <2>3, <2>4, <2>5
<1>3. CASE t = "event"
  <2>1. ASSUME NEW k \in 1..10, UpSteps(k) PROVE k = 4
    <3>1. PreUp[k] = "regs" BY <1>1, <1>3, <2>1, UpHeads DEF UpSteps
    <3>2. k \in {1, 2, 3, 4, 5, 6, 7, 8, 9, 10} OBVIOUS
    <3> QED BY <3>1, <3>2, UpProgram
  <2>2. ASSUME NEW k \in 1..9, DownSteps(k) PROVE FALSE
    <3>1. PostDown[k] = "regs" BY <1>1, <1>3, <2>2, DownHeads DEF DownSteps
    <3>2. k \in {1, 2, 3, 4, 5, 6, 7, 8, 9} OBVIOUS
    <3> QED BY <3>1, <3>2, DownProgram
  <2> QED BY <1>1, <1>3, <2>1, <2>2 DEF PlacesInv, EventInv
<1>4. CASE t = "work"
  <2>1. todo["work"] # StartWork BY <1>1, <1>4, StartProgram
  <2>2. PICK k \in 14..28 : StartSteps("work", k)
    BY <1>1, <1>4, <2>1 DEF PlacesInv, WorkInv
  <2>3. k \in 1..28 OBVIOUS
  <2>4. k = 22 BY <1>1, <1>2, <1>4, <2>2, <2>3 DEF StartSteps
  <2> QED BY <1>4, <2>2, <2>4
<1>5. CASE t = "control"
  <2>1. CASE \E k \in 2..28 : StartSteps("control", k)
    <3>1. PICK k \in 2..28 : StartSteps("control", k) BY <2>1
    <3>2. k \in 1..28 OBVIOUS
    <3>3. k = 9 \/ k = 22 BY <1>1, <1>2, <1>5, <3>1, <3>2 DEF StartSteps
    <3> QED BY <1>5, <3>1, <3>3
  <2>2. CASE lock # "control"
    <3>1. Light \/ Is("control", Calibrate, 1) \/ InCali BY <2>2, ControlKinds
    <3> QED BY <1>1, <1>5, <3>1, CaliPlaces DEF At
  <2> QED BY <2>1, <2>2 DEF PlacesInv, ControlInv
<1> QED BY <1>3, <1>4, <1>5 DEF Threads

\* The registers of a start put an amp right that was stopped under a calibration.
LEMMA HealedAmp ==
    ASSUME TypeOK, PlacesInv, RunInv, NEW t \in Threads, Step(t), harm = "interrupted",
           harm' # "interrupted"
    PROVE  AmpInv'
<1>1. /\ At(t, "regs") /\ RegsWritten(t) /\ ~Calibrating /\ ~Reloads(t, 5) BY HarmKept
<1>2. /\ DOMAIN todo = Threads /\ Nobody \notin Threads /\ "control" \in Threads
      /\ "event" \in Threads /\ "work" \in Threads
  BY AsocAssumption DEF TypeOK, Threads
<1>3. CASE t = "event"
  <2>1. UpSteps(4) BY <1>1, <1>3, AtRegs
  <2>2. Regs("event") /\ RegsWritten("event")
    <3>1. 4 \in 1..10 OBVIOUS
    <3> QED BY <1>1, <1>3, <2>1, <3>1, UpMoves DEF UpSteps
  <2>3. Still' /\ Fixed' BY <1>2, <2>2, RegsData
  <2>4. /\ todo'["work"] = todo["work"] /\ todo'["control"] = todo["control"]
        /\ lock = "event" /\ lock' = "event" /\ queued' = queued /\ status' = status
    <3>1. 4 \in 1..10 OBVIOUS
    <3> QED BY <1>2, <1>3, <2>1, <3>1, UpEffects
  <2>5. Is("event", PreUp, 5)'
    <3>1. Go("event", Suffix(PreUp, 5))
      <4>1. Head(todo["event"]) = "regs" BY <1>1, <1>3 DEF At
      <4>2. PreUp \in Seq(Labels) /\ 4 \in 1..Len(PreUp) BY UpProgram
      <4>3. Tail(todo["event"]) = Suffix(PreUp, 4 + 1) BY <2>1, <4>2, Here DEF UpSteps
      <4>4. 4 + 1 = 5 OBVIOUS
      <4>5. On("event") BY <2>2 DEF RegsWritten
      <4> QED BY <4>3, <4>4, <4>5 DEF On
    <3> QED BY <1>2, <3>1 DEF Go, Is
  <2>6. UpSteps(5)'
    <3>1. 4 \in 1..9 /\ 5 \in {4 + 1, 10} /\ (5 = 10 => 4 \in {4, 8, 9}) OBVIOUS
    <3> QED BY <1>2, <1>3, <2>1, <2>5, <3>1, UpAdvance
  <2>7. UpRight(5)' BY <2>3 DEF UpRight
  <2>8. EventHas' BY <2>6, <2>7 DEF EventHas
  <2>9. Light BY <1>1, <1>2, <2>4, NotCalibrating DEF Threads
  <2>10. Light' BY <2>4, <2>9 DEF Light, Gentle, Quiet, Is
  <2>11. ~Waits' BY <2>6, NotAtLock DEF UpSteps, Quiet, Waits
  <2> QED BY <1>2, <2>4, <2>8, <2>10, <2>11 DEF AmpInv, Threads
<1>4. CASE t \in {"work", "control"}
  <2>1. ~StartSteps(t, 22)
    <3>1. ASSUME StartSteps(t, 22) PROVE FALSE
      <4>1. 22 \in 2..28 OBVIOUS
      <4> QED BY <1>1, <1>4, <3>1, <4>1, StartMoves
    <3> QED BY <3>1
  <2>2. t = "control" /\ StartSteps("control", 9) BY <1>1, <1>4, <2>1, AtRegs
  <2>3. 9 \in 2..28 /\ 9 \in 2..27 OBVIOUS
  <2>4. Regs("control") BY <2>2, <2>3, StartMoves
  <2>5. Still' /\ Fixed' BY <1>1, <1>2, <2>2, <2>4, RegsData
  <2>6. Is("control", SetProfile, 10)'
    <3>1. SetProfile \in Seq(Labels) /\ 9 \in 1..Len(SetProfile) BY ProfileProgram
    <3>2. Tail(todo["control"]) = Suffix(SetProfile, 9 + 1) BY <2>2, <3>1, Here DEF StartSteps
    <3> QED BY <1>1, <1>2, <2>2, <3>2 DEF RegsWritten, On, Go, Is
  <2>7. /\ todo'["work"] = todo["work"] /\ queued' = queued /\ lock' = "control"
    <3>1. "work" \in Threads \ {"control"} BY <1>2
    <3> QED BY <1>2, <2>2, <2>3, <3>1, StartEffects
  <2>8. StartSteps("control", 10)'
    <3>1. 10 \in 3..28 /\ (10 = 3 => 9 = 2 /\ ~Off) /\ (9 = 2 => 10 \in {3, 28})
          /\ (9 = 20 => 10 = 28)
      OBVIOUS
    <3>2. ~Off => widget BY DEF PlacesInv
    <3> QED BY <1>2, <2>2, <2>3, <2>6, <3>1, <3>2, StartAdvance
  <2>9. StartRight(10)' BY <2>5 DEF StartRight
  <2>10. StartHas("control", 2)'
    <3>1. 10 \in 2..28 OBVIOUS
    <3> QED BY <2>8, <2>9, <3>1 DEF StartHas
  <2>11. ~Waits
    <3>1. Restarting
      <4>1. 9 \in 3..27 OBVIOUS
      <4> QED BY <2>2, <2>3, <4>1, RestartPlaces
    <3> QED BY <3>1 DEF PlacesInv, QueueInv
  <2>12. ~Waits' BY <2>7, <2>11 DEF Waits
  <2> QED BY <1>2, <2>7, <2>10, <2>12 DEF AmpInv, Threads
<1> QED BY <1>3, <1>4 DEF Threads

\* The event that is at its first step waits for the lock.
LEMMA EventLocks ==
    ASSUME TypeOK, PlacesInv, AmpInv, harm # "interrupted", Step("event"), lock # "event"
    PROVE  AmpInv'
<1>1. DOMAIN todo = Threads /\ "event" \in Threads /\ Nobody \notin Threads
  BY AsocAssumption DEF TypeOK, Threads
<1>2. ASSUME lock = Nobody, lock' = "event", todo'["control"] = todo["control"],
             todo'["work"] = todo["work"], queued' = queued,
             UNCHANGED <<status, prof, vol, pins, cali>>
      PROVE  /\ Rest' /\ (Waits => Fresh)' /\ (Off => Light \/ lock = "control")'
  <2>1. Rest BY <1>2 DEF AmpInv
  <2>2. UNCHANGED <<status, prof, hmute, dspby, set, saved, harm>> BY <1>2 DEF pins, cali
  <2>3. lock' = "control" <=> lock = "control" BY <1>1, <1>2 DEF Threads
  <2>4. Rest' /\ (Light' <=> Light) BY <1>2, <2>1, <2>2, <2>3, SameRest
  <2>5. (Fresh => Fresh') /\ (Off' <=> Off) BY <2>2, SameAmp
  <2>6. Waits' => Waits BY <1>2 DEF Waits
  <2> QED BY <2>3, <2>4, <2>5, <2>6 DEF AmpInv
<1>3. ~Quiet("event") BY <1>1, StepRuns
<1>4. CASE UpSteps(1)
  <2>1. Lock("event") /\ Is("event", PreUp, 1) /\ Off BY <1>4, UpMoves DEF UpSteps
  <2>2. /\ todo'["work"] = todo["work"] /\ todo'["control"] = todo["control"]
        /\ lock = Nobody /\ lock' = "event" /\ queued' = queued /\ Is("event", PreUp, 2)'
    <3>1. 1 \in 1..10 OBVIOUS
    <3> QED BY <1>1, <1>4, <3>1, UpEffects
  <2>3. UNCHANGED <<status, prof, vol, pins, cali>> BY <2>1 DEF Lock, amp
  <2>4. Rest' /\ (Waits => Fresh)' /\ (Off => Light \/ lock = "control")' BY <1>2, <2>2, <2>3
  <2>5. UpSteps(2)'
    <3>1. 1 \in 1..9 /\ 2 \in {1 + 1, 10} /\ (2 = 10 => 1 \in {4, 8, 9}) OBVIOUS
    <3> QED BY <1>1, <1>4, <2>2, <3>1, UpAdvance
  <2>6. UpRight(2)' BY <2>4 DEF UpRight
  <2>7. EventHas' BY <2>5, <2>6 DEF EventHas
  <2> QED BY <1>1, <2>2, <2>4, <2>7 DEF AmpInv
<1>5. CASE DownSteps(1)
  <2>1. Lock("event") /\ Is("event", PostDown, 1) BY <1>5, DownMoves DEF DownSteps
  <2>2. /\ todo'["work"] = todo["work"] /\ todo'["control"] = todo["control"]
        /\ lock = Nobody /\ lock' = "event" /\ queued' = queued /\ Is("event", PostDown, 2)'
    <3>1. 1 \in 1..9 OBVIOUS
    <3> QED BY <1>1, <1>5, <3>1, DownEffects
  <2>3. UNCHANGED <<status, prof, vol, pins, cali>> BY <2>1 DEF Lock, amp
  <2>4. Rest' /\ (Waits => Fresh)' /\ (Off => Light \/ lock = "control")' BY <1>2, <2>2, <2>3
  <2>5. DownSteps(2)'
    <3>1. 1 \in 1..8 /\ 2 \in {1 + 1, 8} /\ (2 = 8 => 1 \in {3, 7}) OBVIOUS
    <3> QED BY <1>1, <1>5, <2>2, <3>1, DownAdvance
  <2>6. DownRight(2)' BY <2>4 DEF DownRight
  <2>7. EventHas' BY <2>5, <2>6 DEF EventHas
  <2> QED BY <1>1, <2>2, <2>4, <2>7 DEF AmpInv
<1>6. ASSUME NEW k \in 1..10, UpSteps(k) PROVE k = 1 BY <1>6 DEF UpSteps
<1>7. ASSUME NEW k \in 1..9, DownSteps(k) PROVE k = 1 BY <1>7 DEF DownSteps
<1> QED BY <1>3, <1>4, <1>5, <1>6, <1>7 DEF PlacesInv, EventInv

\* A step of the event keeps what is said of the amp.
LEMMA EventAmp ==
    ASSUME TypeOK, PlacesInv, RunInv, AmpInv, harm # "interrupted", harm' # "interrupted",
           Step("event")
    PROVE  AmpInv'
<1>1. DOMAIN todo = Threads /\ "event" \in Threads /\ Nobody \notin Threads
      /\ "control" \in Threads
  BY AsocAssumption DEF TypeOK, Threads
<1>2. CASE lock # "event" BY <1>2, EventLocks
<1>3. ASSUME lock = "event", NEW k \in 2..10, UpSteps(k), UpRight(k) PROVE AmpInv'
  <2>1. (Waits => Fresh) /\ Light
    <3>1. Off BY <1>3 DEF UpSteps
    <3> QED BY <1>3, <3>1 DEF AmpInv
  <2>2. /\ todo'["work"] = todo["work"] /\ todo'["control"] = todo["control"]
        /\ lock' = (IF k = 10 THEN Nobody ELSE "event")
        /\ k # 2 /\ k # 9 => queued' = queued
        /\ k \notin {4, 8, 10} => Is("event", PreUp, k + 1)'
    <3>1. k \in 1..10 OBVIOUS
    <3>2. /\ CASE k = 2 -> Quiet("work") /\ ~queued'
               [] k = 9 -> queued'
               [] OTHER -> queued' = queued
          /\ CASE k = 10 -> TRUE
               [] k = 4 -> TRUE
               [] k = 8 -> TRUE
               [] OTHER -> Is("event", PreUp, k + 1)'
          /\ todo'["work"] = todo["work"] /\ todo'["control"] = todo["control"]
          /\ lock' = (IF k = 10 THEN Nobody ELSE "event")
      BY <1>1, <1>3, <3>1, UpEffects
    <3> QED BY <3>2
  <2>3. /\ Off'
        /\ (CASE k = 10 -> Still' /\ (Fresh => Fresh')
              [] k = 9 -> Still' /\ Fresh'
              [] k = 4 -> \/ Is("event", PreUp, 5)' /\ UpRight(5)'
                          \/ Is("event", PreUp, 10)' /\ UpRight(10)'
              [] k = 8 -> \/ Is("event", PreUp, 9)' /\ UpRight(9)'
                          \/ Is("event", PreUp, 10)' /\ UpRight(10)'
              [] OTHER -> UpRight(k + 1)')
    BY <1>3, UpData
  <2>4. Light' BY <2>1, <2>2 DEF Light, Gentle, Quiet, Is
  <2>5. ASSUME k # 10, NEW j \in {k + 1, 10}, j = 10 => k \in {4, 8, 9}, Is("event", PreUp, j)',
               UpRight(j)'
        PROVE  AmpInv'
    <3>1. k \in 1..9 /\ j \in 2..10 BY <2>5
    <3>2. UpSteps(j)' BY <1>1, <1>3, <2>5, <3>1, UpAdvance
    <3>3. EventHas' BY <2>5, <3>1, <3>2 DEF EventHas
    <3>4. (Waits => Fresh)'
      <4>1. CASE j <= 9 BY <3>2, <4>1, NotAtLock DEF UpSteps, Quiet, Waits
      <4>2. CASE k = 9 BY <2>3, <4>2
      <4>3. CASE k = 4 \/ k = 8
        <5>1. ~queued /\ Quiet("work") BY <1>3, <4>3 DEF UpSteps
        <5>2. ~queued' /\ Quiet("work")' BY <2>2, <4>3, <5>1 DEF Quiet
        <5> QED BY <5>2, NotAtLock DEF Quiet, Waits
      <4> QED BY <2>5, <3>1, <4>1, <4>2, <4>3
    <3>5. lock' = "event" BY <2>2, <2>5
    <3> QED BY <1>1, <2>4, <3>3, <3>4, <3>5 DEF AmpInv
  <2>6. CASE k \in {2, 3, 5, 6, 7}
    <3>1. k + 1 \in {k + 1, 10} /\ k # 10 /\ (k + 1 = 10 => k \in {4, 8, 9}) BY <2>6
    <3>2. Is("event", PreUp, k + 1)' /\ UpRight(k + 1)' BY <2>2, <2>3, <2>6
    <3> QED BY <2>5, <3>1, <3>2
  <2>7. CASE k = 8
    <3>1. \/ Is("event", PreUp, 9)' /\ UpRight(9)'
          \/ Is("event", PreUp, 10)' /\ UpRight(10)'
      BY <2>3, <2>7
    <3> QED BY <2>5, <2>7, <3>1
  <2>8. CASE k = 4
    <3>1. \/ Is("event", PreUp, 5)' /\ UpRight(5)'
          \/ Is("event", PreUp, 10)' /\ UpRight(10)'
      BY <2>3, <2>8
    <3> QED BY <2>5, <2>8, <3>1
  <2>9. CASE k = 9
    <3>1. Is("event", PreUp, 10)' /\ Still' /\ Off' BY <2>2, <2>3, <2>9
    <3>2. UpRight(10)' BY <3>1 DEF UpRight, Rest
    <3> QED BY <2>5, <2>9, <3>1, <3>2
  <2>10. CASE k = 10
    <3>1. Rest' /\ (Fresh => Fresh') /\ lock' = Nobody /\ queued' = queued
      BY <2>2, <2>3, <2>10 DEF Rest
    <3>2. Waits' => Waits BY <2>2, <3>1 DEF Waits
    <3> QED BY <1>1, <2>1, <2>4, <3>1, <3>2 DEF AmpInv, Threads
  <2>11. k \in {2, 3, 5, 6, 7} \/ k = 8 \/ k = 4 \/ k = 9 \/ k = 10 OBVIOUS
  <2> QED BY <2>6, <2>7, <2>8, <2>9, <2>10, <2>11
<1>4. ASSUME lock = "event", NEW k \in 2..9, DownSteps(k), DownRight(k) PROVE AmpInv'
  <2>1. Waits => Fresh BY <1>4 DEF AmpInv
  <2>2. /\ todo'["work"] = todo["work"] /\ todo'["control"] = todo["control"]
        /\ lock' = (IF k = 9 THEN Nobody ELSE "event")
        /\ k # 2 => queued' = queued
        /\ k \notin {3, 9} => Is("event", PostDown, k + 1)'
        /\ k # 3 => status' = status
    <3>1. k \in 1..9 OBVIOUS
    <3> QED BY <1>1, <1>4, <3>1, DownEffects
  <2>3. (CASE k = 9 -> Rest' /\ (Fresh => Fresh')
          [] k = 3 -> \/ Is("event", PostDown, 4)' /\ DownRight(4)'
                      \/ Is("event", PostDown, 8)' /\ DownRight(8)'
          [] OTHER -> DownRight(k + 1)')
    BY <1>4, DownData
  <2>4. Off' => Light'
    <3>1. Light' <=> Light BY <2>2 DEF Light, Gentle, Quiet, Is
    <3>2. CASE k # 3
      <4>1. Off' => Off BY <2>2, <3>2 DEF Off
      <4>2. Off => Light BY <1>4 DEF AmpInv
      <4> QED BY <3>1, <4>1, <4>2
    <3>3. CASE k = 3
      <4>1. At("event", "stop")
        <5>1. 3 \in 1..9 OBVIOUS
        <5>2. ~Quiet("event") /\ Head(todo["event"]) = PostDown[3]
          BY <1>4, <3>3, <5>1, DownHeads DEF DownSteps
        <5> QED BY <5>2, DownProgram DEF At, Quiet
      <4>2. ~Calibrating BY <1>1, <4>1, HarmKept
      <4>3. Light BY <1>4, <4>2, NotCalibrating
      <4> QED BY <3>1, <4>3
    <3> QED BY <3>2, <3>3
  <2>5. ASSUME k # 9, NEW j \in {k + 1, 8}, j = 8 => k \in {3, 7}, Is("event", PostDown, j)',
               DownRight(j)'
        PROVE  AmpInv'
    <3>1. k \in 1..8 /\ j \in 2..9 /\ j >= 3 BY <2>5
    <3>2. DownSteps(j)' BY <1>1, <1>4, <2>5, <3>1, DownAdvance
    <3>3. EventHas' BY <2>5, <3>1, <3>2 DEF EventHas
    <3>4. (Waits => Fresh)' BY <3>1, <3>2, NotAtLock DEF DownSteps, Quiet, Waits
    <3>5. lock' = "event" BY <2>2, <2>5
    <3> QED BY <1>1, <2>4, <3>3, <3>4, <3>5 DEF AmpInv
  <2>6. CASE k \notin {3, 9}
    <3>1. k + 1 \in {k + 1, 8} /\ (k + 1 = 8 => k \in {3, 7}) BY <2>6
    <3>2. Is("event", PostDown, k + 1)' /\ DownRight(k + 1)' BY <2>2, <2>3, <2>6
    <3> QED BY <2>5, <2>6, <3>1, <3>2
  <2>7. CASE k = 3
    <3>1. \/ Is("event", PostDown, 4)' /\ DownRight(4)'
          \/ Is("event", PostDown, 8)' /\ DownRight(8)'
      BY <2>3, <2>7
    <3> QED BY <2>5, <2>7, <3>1
  <2>8. CASE k = 9
    <3>1. Rest' /\ (Fresh => Fresh') /\ lock' = Nobody /\ queued' = queued BY <2>2, <2>3, <2>8
    <3>2. Waits' => Waits BY <2>2, <3>1 DEF Waits
    <3> QED BY <1>1, <2>1, <2>4, <3>1, <3>2 DEF AmpInv, Threads
  <2> QED BY <2>6, <2>7, <2>8
<1> QED BY <1>2, <1>3, <1>4 DEF AmpInv, EventHas

\* The holder of the lock that starts the amp has it at its next step too, or
\* frees the lock over an amp at rest.
LEMMA StartAmp ==
    ASSUME TypeOK, PlacesInv, NEW t \in {"work", "control"}, NEW k \in 2..28,
           StartSteps(t, k), StartRight(k), Step(t), Off /\ t = "work" => Light
    PROVE  \/ k = 28 /\ Quiet(t)' /\ lock' = Nobody /\ Rest' /\ (Fresh => Fresh')
           \/ /\ lock' = t /\ (k = 2 => (Fresh => Fresh')) /\ k # 28
              /\ \E j \in 3..28 : /\ StartSteps(t, j)' /\ StartRight(j)'
                                  /\ k >= 14 => j >= 14
<1>1. DOMAIN todo = Threads /\ (~Off => widget) BY DEF TypeOK, PlacesInv
<1>2. /\ lock' = (IF k = 28 THEN Nobody ELSE t)
      /\ k = 28 => Quiet(t)'
      /\ k = 20 => Is(t, SetProfile, 28)'
      /\ k \notin {2, 9, 13, 15, 20, 22, 27, 28} => Is(t, SetProfile, k + 1)'
  <2>1. /\ lock' = (IF k = 28 THEN Nobody ELSE t)
        /\ CASE k = 28 -> Quiet(t)'
             [] k \in {2, 9, 13, 15, 22, 27} -> TRUE
             [] k = 20 -> Is(t, SetProfile, 28)'
             [] OTHER -> Is(t, SetProfile, k + 1)'
    BY <1>1, StartEffects
  <2> QED BY <2>1
<1>3. (CASE k = 2 -> /\ Fresh => Fresh'
                     /\ \/ Is(t, SetProfile, 28)' /\ StartRight(28)'
                        \/ Is(t, SetProfile, 3)' /\ StartRight(3)' /\ ~Off
         [] k = 9 -> \/ Is(t, SetProfile, 10)' /\ StartRight(10)'
                     \/ Is(t, SetProfile, 28)' /\ StartRight(28)'
         [] k = 13 -> \/ Is(t, SetProfile, 14)' /\ StartRight(14)'
                      \/ Is(t, SetProfile, 28)' /\ StartRight(28)'
         [] k = 15 -> \/ Is(t, SetProfile, 16)' /\ StartRight(16)'
                      \/ Is(t, SetProfile, 21)' /\ StartRight(21)'
         [] k = 20 -> StartRight(28)'
         [] k = 22 -> \/ Is(t, SetProfile, 23)' /\ StartRight(23)'
                      \/ Is(t, SetProfile, 27)' /\ StartRight(27)'
         [] k = 27 -> \/ Is(t, SetProfile, 14)' /\ StartRight(14)'
                      \/ Is(t, SetProfile, 28)' /\ StartRight(28)'
         [] k = 28 -> Rest' /\ (Fresh => Fresh')
         [] OTHER -> StartRight(k + 1)')
  BY StartData
<1>4. CASE k = 28 BY <1>2, <1>3, <1>4
<1>5. CASE k # 28
  <2>1. PICK j \in 3..28 : /\ Is(t, SetProfile, j)' /\ StartRight(j)'
                           /\ (k >= 14 => j >= 14) /\ (j = 3 => k = 2 /\ ~Off)
                           /\ (k = 2 => j \in {3, 28}) /\ (k = 20 => j = 28)
    <3>1. CASE k = 2 BY <1>3, <3>1
    <3>2. CASE k = 9 BY <1>3, <3>2
    <3>3. CASE k = 13 BY <1>3, <3>3
    <3>4. CASE k = 15 BY <1>3, <3>4
    <3>5. CASE k = 20 BY <1>2, <1>3, <3>5
    <3>6. CASE k = 22 BY <1>3, <3>6
    <3>7. CASE k = 27 BY <1>3, <3>7
    <3>8. CASE k \notin {2, 9, 13, 15, 20, 22, 27, 28}
      <4>1. Is(t, SetProfile, k + 1)' BY <1>2, <3>8
      <4>2. StartRight(k + 1)' BY <1>3, <3>8
      <4>3. k + 1 \in 4..28 /\ (k >= 14 => k + 1 >= 14) BY <3>8
      <4> QED BY <3>8, <4>1, <4>2, <4>3
    <3> QED BY <1>5, <3>1, <3>2, <3>3, <3>4, <3>5, <3>6, <3>7, <3>8
  <2>2. StartSteps(t, j)' BY <1>1, <1>5, <2>1, StartAdvance
  <2>3. k = 2 => (Fresh => Fresh') BY <1>3
  <2> QED BY <1>2, <1>5, <2>1, <2>2, <2>3
<1> QED BY <1>4, <1>5

\* A step of the work keeps what is said of the amp.
LEMMA WorkAmp ==
    ASSUME TypeOK, PlacesInv, AmpInv, harm # "interrupted", harm' # "interrupted", Step("work")
    PROVE  AmpInv'
<1>1. /\ DOMAIN todo = Threads /\ "work" \in Threads /\ Nobody \notin Threads
      /\ "control" \in Threads \ {"work"}
  BY AsocAssumption DEF TypeOK, Threads
<1>2. ~Quiet("work") BY <1>1, StepRuns
<1>3. ~queued BY <1>2 DEF PlacesInv, QueueInv
<1>4. CASE lock # "work"
  <2>1. todo["work"] = StartWork
    <3>1. ASSUME NEW k \in 14..28, StartSteps("work", k) PROVE FALSE
      BY <1>4, <3>1 DEF StartSteps
    <3> QED BY <1>2, <3>1 DEF PlacesInv, WorkInv
  <2>2. Lock("work") /\ StartSteps("work", 14)' BY <1>1, <1>4, <2>1, WorkLocks
  <2>3. lock = Nobody /\ lock' = "work" /\ queued' = queued
        /\ UNCHANGED <<status, prof, vol, pins, cali>>
    BY <2>2 DEF Lock, amp
  <2>4. todo'["control"] = todo["control"] BY <1>1, <2>2 DEF Lock, On, Go
  <2>5. Waits /\ Off BY <2>1 DEF Waits, PlacesInv, QueueInv
  <2>6. Light /\ Still /\ Fresh
    <3>1. lock # "control" BY <1>1, <2>3
    <3> QED BY <2>3, <2>5, <3>1 DEF AmpInv, Rest
  <2>7. Light' BY <2>4, <2>6 DEF Light, Gentle, Quiet, Is
  <2>8. Still' /\ Good(set)' BY <2>3, <2>6 DEF Still, Good, Fresh, prof, pins, cali
  <2>9. StartRight(14)' BY <2>8 DEF StartRight
  <2>10. StartHas("work", 14)' BY <2>2, <2>9 DEF StartHas
  <2>11. ~Waits'
    <3>1. todo'["work"] = Suffix(SetProfile, 14) /\ 14 \in 14..28 BY <2>2 DEF StartSteps, Is
    <3>2. todo'["work"] # StartWork BY <3>1, NotAtLock
    <3> QED BY <1>3, <2>3, <3>2 DEF Waits
  <2> QED BY <1>1, <2>3, <2>7, <2>10, <2>11 DEF AmpInv, Threads
<1>5. CASE lock = "work"
  <2>1. PICK k \in 14..28 : StartSteps("work", k) /\ StartRight(k)
    BY <1>5 DEF AmpInv, StartHas
  <2>2. Off => Light
    <3>1. lock # "control" BY <1>5
    <3> QED BY <3>1 DEF AmpInv
  <2>3. k \in 2..28 /\ "work" \in {"work", "control"} OBVIOUS
  <2>4. \/ k = 28 /\ Quiet("work")' /\ lock' = Nobody /\ Rest'
        \/ lock' = "work" /\ \E j \in 14..28 : StartSteps("work", j)' /\ StartRight(j)'
    <3>1. \/ k = 28 /\ Quiet("work")' /\ lock' = Nobody /\ Rest'
          \/ /\ lock' = "work"
             /\ \E j \in 3..28 : StartSteps("work", j)' /\ StartRight(j)' /\ (k >= 14 => j >= 14)
      BY <2>1, <2>2, <2>3, StartAmp
    <3>2. ASSUME NEW j \in 3..28, k >= 14 => j >= 14 PROVE j \in 14..28 BY <3>2
    <3> QED BY <3>1, <3>2
  <2>5. todo'["control"] = todo["control"] /\ queued' = queued /\ (Off' => Off)
    <3>1. /\ todo'["control"] = todo["control"] /\ queued' = queued
          /\ CASE k = 3 -> Off' [] k = 20 -> ~Off' [] OTHER -> status' = status
      BY <1>1, <2>1, <2>3, StartEffects
    <3> QED BY <3>1 DEF Off
  <2>6. Off' => Light' BY <2>2, <2>5 DEF Light, Gentle, Quiet, Is
  <2>7. CASE Quiet("work")' /\ lock' = Nobody /\ Rest'
    <3>1. ~Waits' BY <1>3, <2>5, <2>7, NotAtLock DEF Waits, Quiet
    <3> QED BY <1>1, <2>6, <2>7, <3>1 DEF AmpInv, Threads
  <2>8. ASSUME lock' = "work", NEW j \in 14..28, StartSteps("work", j)', StartRight(j)'
        PROVE  AmpInv'
    <3>1. ~Waits' BY <1>3, <2>5, <2>8, NotAtLock DEF Waits, StartSteps, Is
    <3>2. StartHas("work", 14)' BY <2>8 DEF StartHas
    <3> QED BY <1>1, <2>6, <2>8, <3>1, <3>2 DEF AmpInv, Threads
  <2> QED BY <2>4, <2>7, <2>8
<1> QED BY <1>4, <1>5

\* Whoever has the amp keeps it while the others begin or leave it alone.
LEMMA KeptAmp ==
    ASSUME AmpInv, UNCHANGED <<lock, status, prof, hmute, dspby, set, saved, harm>>,
           widget => widget',
           \/ todo'["control"] = todo["control"]
           \/ lock # "control" /\ Light /\ (Light' \/ (~Off /\ Is("control", Calibrate, 1)')),
           lock = "event" => /\ todo'["event"] = todo["event"] /\ widget' = widget
                             /\ ~queued /\ Quiet("work") => ~queued' /\ Quiet("work")',
           lock = "work" => todo'["work"] = todo["work"],
           Waits' => Waits
    PROVE  AmpInv'
<1>0. /\ (Off' <=> Off) /\ (Fresh => Fresh') /\ lock' = lock /\ harm' = harm
      /\ Restores({}) => Restores({})'
  BY SameAmp
<1>1. harm # "interrupted" => (Rest => Rest') /\ ((Off => Light \/ lock = "control") =>
                                                  (Off' => Light' \/ lock' = "control"))
  <2>1. CASE todo'["control"] = todo["control"] BY <1>0, <2>1, SameRest
  <2>2. CASE lock # "control" /\ Light /\ Light' BY <1>0, <2>2, LightRest
  <2>3. CASE lock # "control" /\ Light /\ ~Off /\ Is("control", Calibrate, 1)'
    <3>1. ~Light' BY <2>3, CaliPlacesNext
    <3>2. Rest => Restores({})' BY <1>0, <2>3 DEF Rest, Settled
    <3>3. 1 \in 1..18 /\ Overridden(1) = {} BY DEF Overridden
    <3>4. Rest => Settled' BY <1>0, <2>3, <3>1, <3>2, <3>3 DEF Settled
    <3> QED BY <1>0, <2>3, <3>4 DEF Rest
  <2> QED BY <2>1, <2>2, <2>3
<1> SUFFICES ASSUME harm # "interrupted" PROVE AmpInv' BY <1>0 DEF AmpInv
<1>2. /\ \A k \in 2..10 : UpRight(k) => UpRight(k)'
      /\ \A k \in 2..9 : DownRight(k) => DownRight(k)'
      /\ \A k \in 2..28 : StartRight(k) => StartRight(k)'
  BY <1>1, SameAmp
<1>3. ASSUME NEW t, NEW k \in 2..28, StartSteps(t, k), StartRight(k), todo'[t] = todo[t]
      PROVE  StartSteps(t, k)' /\ StartRight(k)'
  <2>1. StartSteps(t, k)' BY <1>0, <1>3 DEF StartSteps, Is
  <2>2. StartRight(k)' BY <1>2, <1>3
  <2> QED BY <2>1, <2>2
<1>4. (lock = "event" => EventHas)'
  <2> SUFFICES ASSUME lock = "event" PROVE EventHas' BY <1>0
  <2>1. EventHas BY DEF AmpInv
  <2>2. ~Restarting' BY <1>0 DEF Restarting
  <2>3. ASSUME NEW k \in 2..10, UpSteps(k), UpRight(k) PROVE UpSteps(k)' /\ UpRight(k)'
    <3>1. UpRight(k)' BY <1>2, <2>3
    <3>2. UpSteps(k)' BY <1>0, <2>2, <2>3 DEF UpSteps, Is
    <3> QED BY <3>1, <3>2
  <2>4. ASSUME NEW k \in 2..9, DownSteps(k), DownRight(k) PROVE DownSteps(k)' /\ DownRight(k)'
    <3>1. DownRight(k)' BY <1>2, <2>4
    <3>2. DownSteps(k)' BY <1>0, <2>4 DEF DownSteps, Is
    <3> QED BY <3>1, <3>2
  <2> QED BY <2>1, <2>3, <2>4 DEF EventHas
<1>5. (lock = "work" => StartHas("work", 14))'
  <2> SUFFICES ASSUME lock = "work" PROVE StartHas("work", 14)' BY <1>0
  <2>1. PICK k \in 14..28 : StartSteps("work", k) /\ StartRight(k) BY DEF AmpInv, StartHas
  <2>2. k \in 2..28 OBVIOUS
  <2>3. StartSteps("work", k)' /\ StartRight(k)' BY <1>3, <2>1, <2>2
  <2> QED BY <2>3 DEF StartHas
<1>6. (lock = "control" => StartHas("control", 2))'
  <2> SUFFICES ASSUME lock = "control" PROVE StartHas("control", 2)' BY <1>0
  <2>1. PICK k \in 2..28 : StartSteps("control", k) /\ StartRight(k) BY DEF AmpInv, StartHas
  <2>2. StartSteps("control", k)' /\ StartRight(k)' BY <1>3, <2>1
  <2> QED BY <2>2 DEF StartHas
<1>7. (lock = Nobody => Rest)' BY <1>0, <1>1 DEF AmpInv
<1>8. (Off => Light \/ lock = "control")' BY <1>1 DEF AmpInv
<1>9. (Waits => Fresh)' BY <1>0 DEF AmpInv
<1> QED BY <1>4, <1>5, <1>6, <1>7, <1>8, <1>9 DEF AmpInv

\* A step of a calibration beside a running amp.
LEMMA CalibratingAmp ==
    ASSUME TypeOK, PlacesInv, AmpInv, harm # "interrupted", lock # "control", Loose, ~Light,
           Step("control")
    PROVE  AmpInv'
<1>1. DOMAIN todo = Threads /\ Nobody \notin Threads BY AsocAssumption DEF TypeOK, Threads
<1>2. /\ todo'["event"] = todo["event"] /\ todo'["work"] = todo["work"]
      /\ lock' = lock /\ queued' = queued /\ widget' = widget /\ status' = status
  BY <1>1, LooseGoes DEF sched
<1>3. ~Off BY DEF AmpInv
<1>4. ~Off' BY <1>2, <1>3 DEF Off
<1>5. ~Waits' BY <1>2, <1>3 DEF PlacesInv, QueueInv, Waits
<1>6. ASSUME Settled PROVE Rest'
  <2>1. Settled' BY <1>6, CaliSettles
  <2> QED BY <1>4, <2>1 DEF Rest
<1>7. CASE lock = "event"
  <2>1. ASSUME NEW k \in 2..10, UpSteps(k) PROVE FALSE BY <1>3, <2>1 DEF UpSteps
  <2>2. PICK k \in 2..9 : DownSteps(k) /\ DownRight(k) BY <1>7, <2>1 DEF AmpInv, EventHas
  <2>3. k \in {2, 3} BY <1>3, <2>2 DEF DownSteps
  <2>4. Rest' BY <1>3, <1>6, <2>2, <2>3 DEF DownRight, Rest
  <2>5. DownRight(k)' BY <2>3, <2>4 DEF DownRight
  <2>6. DownSteps(k)' BY <1>2, <2>2, <2>3 DEF DownSteps, Is, Quiet
  <2>7. EventHas' BY <2>5, <2>6 DEF EventHas
  <2> QED BY <1>1, <1>2, <1>4, <1>5, <1>7, <2>7 DEF AmpInv, Threads
<1>8. CASE lock = "work"
  <2>1. PICK k \in 14..28 : StartSteps("work", k) /\ StartRight(k)
    BY <1>8 DEF AmpInv, StartHas
  <2>2. k = 28 BY <1>3, <2>1 DEF StartSteps
  <2>3. Rest' BY <1>3, <1>6, <2>1, <2>2 DEF StartRight, Rest
  <2>4. StartRight(28)' BY <2>3 DEF StartRight
  <2>5. StartSteps("work", 28)' BY <1>2, <2>1, <2>2 DEF StartSteps, Is
  <2>6. StartHas("work", 14)' BY <2>4, <2>5 DEF StartHas
  <2> QED BY <1>1, <1>2, <1>4, <1>5, <1>8, <2>6 DEF AmpInv, Threads
<1>9. CASE lock = Nobody
  <2>1. Rest' BY <1>3, <1>6, <1>9 DEF AmpInv, Rest
  <2> QED BY <1>1, <1>2, <1>4, <1>5, <1>9, <2>1 DEF AmpInv, Threads
<1> QED BY <1>7, <1>8, <1>9 DEF TypeOK, Threads

\* A step of a control that leaves the amp's settings alone.
LEMMA LightAmp ==
    ASSUME TypeOK, PlacesInv, AmpInv, lock # "control", Loose, Light, Step("control")
    PROVE  AmpInv'
<1>1. DOMAIN todo = Threads BY DEF TypeOK
<1>2. /\ todo'["event"] = todo["event"] /\ todo'["work"] = todo["work"]
      /\ lock' = lock /\ queued' = queued /\ widget' = widget /\ status' = status
  BY <1>1, LooseGoes DEF sched
<1>3. Light' /\ UNCHANGED <<prof, hmute, dspby, set, saved, harm>>
  <2>1. ASSUME NEW k \in 1..3, Is("control", SetVolume, k)
        PROVE  Light' /\ UNCHANGED <<prof, hmute, dspby, set, saved, harm>>
    <3>1. /\ k = 1 => SetCtl("control") /\ Go("control", Suffix(SetVolume, 2))
          /\ k = 2 => SetVol("control") /\ Go("control", Suffix(SetVolume, 3))
          /\ k = 3 => End("control") /\ Go("control", <<>>)
      BY <2>1, VolumeMoves
    <3>2. CASE k = 1
      <4>1. Is("control", SetVolume, 2)' BY <1>1, <3>1, <3>2 DEF Go, Is, Threads
      <4>2. 2 \in 1..3 OBVIOUS
      <4> QED BY <3>1, <3>2, <4>1, <4>2 DEF SetCtl, Light, pins, cali
    <3>3. CASE k = 2
      <4>1. Is("control", SetVolume, 3)' BY <1>1, <3>1, <3>3 DEF Go, Is, Threads
      <4>2. 3 \in 1..3 OBVIOUS
      <4> QED BY <3>1, <3>3, <4>1, <4>2 DEF SetVol, Light, pins, cali
    <3>4. CASE k = 3
      <4>1. Quiet("control")' BY <1>1, <3>1, <3>4 DEF Go, Quiet, Threads
      <4> QED BY <3>1, <3>4, <4>1 DEF End, Light, Gentle, pins, cali
    <3> QED BY <3>2, <3>3, <3>4
  <2>2. ASSUME Is("control", Calibrate, 19)
        PROVE  Light' /\ UNCHANGED <<prof, hmute, dspby, set, saved, harm>>
    <3>1. 19 \in 1..19 OBVIOUS
    <3>2. End("control") /\ Go("control", <<>>) BY <2>2, <3>1, CaliMoves
    <3>3. Quiet("control")' BY <1>1, <3>2 DEF Go, Quiet, Threads
    <3> QED BY <3>2, <3>3 DEF End, Light, Gentle, pins, cali
  <2>3. ~Quiet("control") BY StepRuns DEF Threads
  <2>4. ~Is("control", SetProfile, 1)
    <3>1. ASSUME Is("control", SetProfile, 1) PROVE FALSE
      <4>1. Lock("control") BY <1>1, <3>1, ControlLocks
      <4> QED BY <1>2, <4>1, AsocAssumption DEF Lock, Threads
    <3> QED BY <3>1
  <2> QED BY <2>1, <2>2, <2>3, <2>4 DEF Light, Gentle
<1>4. Waits' => Waits BY <1>2 DEF Waits
<1>5. ~queued /\ Quiet("work") => ~queued' /\ Quiet("work")' BY <1>2 DEF Quiet
<1>6. UNCHANGED <<lock, status, prof, hmute, dspby, set, saved, harm>> BY <1>2, <1>3
<1> QED BY <1>2, <1>3, <1>4, <1>5, <1>6, KeptAmp

\* A step of the control keeps what is said of the amp.
LEMMA ControlAmp ==
    ASSUME TypeOK, PlacesInv, RunInv, AmpInv, harm # "interrupted", harm' # "interrupted",
           Step("control")
    PROVE  AmpInv'
<1>1. /\ DOMAIN todo = Threads /\ "control" \in Threads /\ Nobody \notin Threads
      /\ "work" \in Threads \ {"control"}
  BY AsocAssumption DEF TypeOK, Threads
<1>2. ~Quiet("control") BY <1>1, StepRuns
<1>3. CASE Loose /\ lock # "control" BY <1>3, CalibratingAmp, LightAmp
<1>4. CASE Is("control", SetProfile, 1) /\ lock # "control"
  <2>1. Lock("control") /\ StartSteps("control", 2)' BY <1>1, <1>4, ControlLocks
  <2>2. lock = Nobody /\ lock' = "control" /\ queued' = queued
        /\ UNCHANGED <<status, prof, vol, pins, cali>>
    BY <2>1 DEF Lock, amp
  <2>3. todo'["work"] = todo["work"] BY <1>1, <2>1 DEF Lock, On, Go
  <2>4. UNCHANGED <<status, prof, hmute, dspby, set, saved, harm>> BY <2>2 DEF pins, cali
  <2>5. Rest'
    <3>1. Rest BY <2>2 DEF AmpInv
    <3>2. Light BY <1>4 DEF Light, Gentle
    <3> QED BY <2>2, <2>4, <3>1, <3>2, LightRest
  <2>6. Fresh => Fresh' BY <2>4, SameAmp
  <2>7. StartRight(2)' BY <2>5 DEF StartRight
  <2>8. 2 \in 2..28 OBVIOUS
  <2>9. StartHas("control", 2)' BY <2>1, <2>7, <2>8 DEF StartHas
  <2>10. Waits' => Waits BY <2>2, <2>3 DEF Waits
  <2> QED BY <1>1, <2>2, <2>6, <2>9, <2>10 DEF AmpInv, Threads
<1>5. CASE lock = "control"
  <2>1. PICK k \in 2..28 : StartSteps("control", k) /\ StartRight(k)
    BY <1>5 DEF AmpInv, StartHas
  <2>2. "control" \in {"work", "control"} /\ "control" # "work" OBVIOUS
  <2>3. \/ /\ k = 28 /\ Quiet("control")' /\ lock' = Nobody /\ Rest'
           /\ Fresh => Fresh'
        \/ /\ lock' = "control" /\ (k = 2 => (Fresh => Fresh')) /\ k # 28
           /\ \E j \in 3..28 : StartSteps("control", j)' /\ StartRight(j)'
    BY <2>1, <2>2, StartAmp
  <2>4. todo'["work"] = todo["work"] /\ queued' = queued
    BY <1>1, <2>1, <2>2, StartEffects
  <2>5. (Waits => Fresh)'
    <3>1. Waits' => Waits BY <2>4 DEF Waits
    <3>2. Waits => ~Restarting /\ Fresh BY DEF PlacesInv, QueueInv, AmpInv
    <3>3. ~Restarting => k \in {2, 28} BY <2>1, RestartPlaces
    <3> QED BY <2>3, <3>1, <3>2, <3>3
  <2>6. CASE Quiet("control")' /\ lock' = Nobody /\ Rest'
    <3>1. Light' BY <2>6 DEF Light, Gentle
    <3> QED BY <1>1, <2>5, <2>6, <3>1 DEF AmpInv, Threads
  <2>7. ASSUME lock' = "control", NEW j \in 3..28, StartSteps("control", j)', StartRight(j)'
        PROVE  AmpInv'
    <3>1. j \in 2..28 OBVIOUS
    <3>2. StartHas("control", 2)' BY <2>7, <3>1 DEF StartHas
    <3> QED BY <1>1, <2>5, <2>7, <3>2 DEF AmpInv, Threads
  <2> QED BY <2>3, <2>6, <2>7
<1> QED BY <1>2, <1>3, <1>4, <1>5 DEF PlacesInv, ControlInv, Gentle, StartSteps

\* The second layer is inductive.
LEMMA NextAmp ==
    ASSUME StepsInv, RunInv, AmpInv, [Next]_vars
    PROVE  AmpInv'
<1>0. TypeOK /\ PlacesInv BY DEF StepsInv
<1>1. /\ DOMAIN todo = Threads /\ "event" \in Threads /\ "work" \in Threads
      /\ "control" \in Threads /\ Nobody \notin Threads
  BY <1>0, AsocAssumption DEF TypeOK, Threads
<1>2. CASE PlaybackUp \/ PlaybackDown
  <2>1. /\ UNCHANGED <<lock, status, prof, hmute, dspby, set, saved, harm, queued>>
        /\ widget => widget'
        /\ Quiet("event") /\ todo'["work"] = todo["work"] /\ todo'["control"] = todo["control"]
    BY <1>1, <1>2 DEF PlaybackUp, PlaybackDown, Begin, amp, pins, cali
  <2>2. lock # "event" BY <1>0, <1>1, <2>1, HolderRuns
  <2>3. Waits' => Waits BY <2>1 DEF Waits
  <2> QED BY <2>1, <2>2, <2>3, KeptAmp
<1>3. CASE WorkBegins
  <2>1. /\ UNCHANGED <<lock, status, prof, hmute, dspby, set, saved, harm, widget>>
        /\ queued /\ Quiet("work") /\ todo'["event"] = todo["event"]
        /\ todo'["control"] = todo["control"]
    BY <1>1, <1>3 DEF WorkBegins, Begin, amp, pins, cali
  <2>2. lock # "work" BY <1>0, <1>1, <2>1, HolderRuns
  <2>3. Waits' => Waits BY <2>1 DEF Waits
  <2> QED BY <2>1, <2>2, <2>3, KeptAmp
<1>4. CASE ProfileSet \/ VolumeSet \/ CalibSet
  <2>1. /\ UNCHANGED <<lock, status, prof, hmute, dspby, set, saved, harm, widget, queued>>
        /\ Quiet("control") /\ todo'["event"] = todo["event"] /\ todo'["work"] = todo["work"]
        /\ CalibSet => ~Off
    BY <1>1, <1>4 DEF ProfileSet, VolumeSet, CalibSet, Begin, amp, pins, cali, Off
  <2>2. lock # "control" BY <1>0, <1>1, <2>1, HolderRuns
  <2>3. Waits' => Waits BY <2>1 DEF Waits
  <2>4. Light BY <2>1 DEF Light, Gentle
  <2>5. Light' \/ (~Off /\ Is("control", Calibrate, 1)')
    <3>1. /\ ProfileSet => Is("control", SetProfile, 1)'
          /\ VolumeSet => Is("control", SetVolume, 1)'
          /\ CalibSet => Is("control", Calibrate, 1)'
      BY <1>1, Wholes DEF ProfileSet, VolumeSet, CalibSet, Begin, Is
    <3>2. 1 \in 1..3 OBVIOUS
    <3> QED BY <1>4, <2>1, <3>1, <3>2 DEF Light, Gentle
  <2>6. ~queued /\ Quiet("work") => ~queued' /\ Quiet("work")' BY <2>1 DEF Quiet
  <2> QED BY <2>1, <2>2, <2>3, <2>4, <2>5, <2>6, KeptAmp
<1>5. CASE CodecRemove \/ UNCHANGED vars
  <2>1. /\ UNCHANGED <<lock, status, prof, hmute, dspby, set, saved, harm, todo, widget>>
        /\ queued' => queued
    BY <1>5 DEF CodecRemove, vars, sched, amp, pins, cali
  <2>2. Waits' => Waits BY <2>1 DEF Waits
  <2>3. ~queued /\ Quiet("work") => ~queued' /\ Quiet("work")' BY <2>1 DEF Quiet
  <2> QED BY <2>1, <2>2, <2>3, KeptAmp
<1>6. CASE CodecProbe
  <2>1. /\ UNCHANGED <<lock, status, todo, queued>> /\ hmute' /\ dspby' /\ ~present
    BY <1>6 DEF CodecProbe, amp
  <2>2. ~queued /\ Off /\ AllQuiet BY <1>0, <2>1 DEF PlacesInv
  <2>3. lock = Nobody
    <3>1. lock \notin Threads BY <1>0, <2>2, HolderRuns DEF AllQuiet
    <3> QED BY <1>0, <3>1 DEF TypeOK
  <2>4. Rest' /\ Light'
    BY <2>1, <2>2 DEF Rest, Still, Off, Light, Gentle, Quiet, AllQuiet, Threads
  <2>5. ~Waits' BY <2>1, <2>2, NotAtLock DEF Waits, AllQuiet, Quiet, Threads
  <2>6. lock' = Nobody BY <2>1, <2>3
  <2> QED BY <1>1, <2>4, <2>5, <2>6 DEF AmpInv
<1>7. ASSUME NEW t \in Threads, Step(t) PROVE AmpInv'
  <2>1. CASE harm' = "interrupted" BY <2>1 DEF AmpInv
  <2>2. CASE harm = "interrupted" /\ harm' # "interrupted" BY <1>0, <1>7, <2>2, HealedAmp
  <2>3. CASE harm # "interrupted" /\ harm' # "interrupted"
    <3>1. Step("event") \/ Step("work") \/ Step("control") BY <1>7 DEF Threads
    <3> QED BY <1>0, <2>3, <3>1, EventAmp, WorkAmp, ControlAmp
  <2> QED BY <2>1, <2>2, <2>3
<1> QED BY <1>2, <1>3, <1>4, <1>5, <1>6, <1>7 DEF Next

\* After codec_probe the amp is off, muted and bypassed, and nothing calibrates.
LEMMA InitAmp == Init => RunInv /\ AmpInv
<1> SUFFICES ASSUME Init PROVE RunInv /\ AmpInv OBVIOUS
<1>1. /\ lock = Nobody /\ Nobody \notin Threads /\ Quiet("control") /\ ~queued
      /\ todo["work"] = <<>> /\ Off /\ hmute /\ dspby
  BY AsocAssumption DEF Init, Quiet, Threads, Off
<1>2. Light /\ Rest BY <1>1 DEF Light, Gentle, Rest, Still
<1>3. ~Waits BY <1>1, NotAtLock DEF Waits
<1>4. RunInv BY <1>2, CaliPlaces DEF RunInv
<1> QED BY <1>1, <1>2, <1>3, <1>4 DEF AmpInv, Threads

-----------------------------------------------------------------------------
(* The fades: what comes before and after the steps that the volume needs. *)

\* Two labels in a row: a fade_in reads and writes, the amp starts behind one,
\* a fade_out ends muted, volume_set applies what it chose.
Follows(a, b) ==
    /\ b = "fade_write" => a = "fade_read"
    /\ b = "started" => a = "fade_write"
    /\ a = "unmute" => b = "fade_read"
    /\ a = "fade_read" => b = "fade_write"
    /\ a = "fade_out" => b = "hmute"
    /\ a = "set_ctl" => b = "set_vol"
Flows(t) ==
    \/ Quiet(t)' /\ Follows(Head(todo[t]), "end")
    \/ ~Quiet(t)' /\ Follows(Head(todo[t]), Head(todo'[t]))

\* The programs do.
LEMMA ProgramsFollow ==
    /\ \A k \in 1..9 : Follows(PreUp[k], PreUp[k + 1])
    /\ \A k \in 1..8 : Follows(PostDown[k], PostDown[k + 1])
    /\ \A k \in 1..27 : Follows(SetProfile[k], SetProfile[k + 1])
    /\ \A k \in 1..2 : Follows(SetVolume[k], SetVolume[k + 1])
    /\ \A k \in 1..18 : Follows(Calibrate[k], Calibrate[k + 1])
<1>1. ASSUME NEW k \in 1..9 PROVE Follows(PreUp[k], PreUp[k + 1])
  <2>1. k \in {1, 2, 3, 4, 5, 6, 7, 8, 9} OBVIOUS
  <2> QED BY <2>1, UpProgram DEF Follows
<1>2. ASSUME NEW k \in 1..8 PROVE Follows(PostDown[k], PostDown[k + 1])
  <2>1. k \in {1, 2, 3, 4, 5, 6, 7, 8} OBVIOUS
  <2> QED BY <2>1, DownProgram DEF Follows
<1>3. ASSUME NEW k \in 1..27 PROVE Follows(SetProfile[k], SetProfile[k + 1])
  <2>1. CASE k \in 1..8
    <3>1. k \in {1, 2, 3, 4, 5, 6, 7, 8} BY <2>1
    <3> QED BY <3>1, ProfileStops, ProfileLoads DEF Follows
  <2>2. CASE k \in 9..13
    <3>1. k \in {9, 10, 11, 12, 13} BY <2>2
    <3> QED BY <3>1, ProfileLoads, ProfileStarts DEF Follows
  <2>3. CASE k \in 14..21
    <3>1. k \in {14, 15, 16, 17, 18, 19, 20, 21} BY <2>3
    <3> QED BY <3>1, ProfileStarts, ProfileReloads DEF Follows
  <2>4. CASE k \in 22..27
    <3>1. k \in {22, 23, 24, 25, 26, 27} BY <2>4
    <3> QED BY <3>1, ProfileReloads DEF Follows
  <2> QED BY <2>1, <2>2, <2>3, <2>4
<1>4. ASSUME NEW k \in 1..2 PROVE Follows(SetVolume[k], SetVolume[k + 1])
  <2>1. k \in {1, 2} OBVIOUS
  <2> QED BY <2>1, VolumeProgram DEF Follows
<1>5. ASSUME NEW k \in 1..18 PROVE Follows(Calibrate[k], Calibrate[k + 1])
  <2>1. CASE k \in 1..9
    <3>1. k \in {1, 2, 3, 4, 5, 6, 7, 8, 9} BY <2>1
    <3> QED BY <3>1, CaliFirst DEF Follows
  <2>2. CASE k \in 10..18
    <3>1. k \in {10, 11, 12, 13, 14, 15, 16, 17, 18} BY <2>2
    <3> QED BY <3>1, CaliFirst, CaliLast DEF Follows
  <2> QED BY <2>1, <2>2
<1> QED BY <1>1, <1>2, <1>3, <1>4, <1>5

\* So do their jumps and their ends.
LEMMA JumpsFollow ==
    /\ Follows(PreUp[4], PreUp[10]) /\ Follows(PreUp[8], PreUp[10]) /\ Follows(PreUp[10], "end")
    /\ Follows(PostDown[3], PostDown[8]) /\ Follows(PostDown[9], "end")
    /\ \A k \in {2, 9, 13, 20, 27} : Follows(SetProfile[k], SetProfile[28])
    /\ Follows(SetProfile[15], SetProfile[21]) /\ Follows(SetProfile[22], SetProfile[27])
    /\ Follows(SetProfile[27], SetProfile[14]) /\ Follows(SetProfile[28], "end")
    /\ Follows(SetVolume[3], "end")
    /\ Follows(Calibrate[1], Calibrate[19]) /\ Follows(Calibrate[5], Calibrate[18])
    /\ Follows(Calibrate[9], Calibrate[16]) /\ Follows(Calibrate[9], Calibrate[17])
    /\ Follows(Calibrate[11], Calibrate[15]) /\ Follows(Calibrate[19], "end")
<1>1. Follows(PreUp[4], PreUp[10]) /\ Follows(PreUp[8], PreUp[10]) /\ Follows(PreUp[10], "end")
  BY UpProgram DEF Follows
<1>2. Follows(PostDown[3], PostDown[8]) /\ Follows(PostDown[9], "end")
  BY DownProgram DEF Follows
<1>3. /\ \A k \in {2, 9, 13, 20, 27} : Follows(SetProfile[k], SetProfile[28])
      /\ Follows(SetProfile[15], SetProfile[21]) /\ Follows(SetProfile[22], SetProfile[27])
      /\ Follows(SetProfile[27], SetProfile[14]) /\ Follows(SetProfile[28], "end")
  BY ProfileStops, ProfileLoads, ProfileStarts, ProfileReloads DEF Follows
<1>4. Follows(SetVolume[3], "end") BY VolumeProgram DEF Follows
<1>5. /\ Follows(Calibrate[1], Calibrate[19]) /\ Follows(Calibrate[5], Calibrate[18])
      /\ Follows(Calibrate[9], Calibrate[16]) /\ Follows(Calibrate[9], Calibrate[17])
      /\ Follows(Calibrate[11], Calibrate[15]) /\ Follows(Calibrate[19], "end")
  BY CaliFirst, CaliLast DEF Follows
<1> QED BY <1>1, <1>2, <1>3, <1>4, <1>5

\* The labels of the programs, said of the values after a step.
LEMMA HeadsNext ==
    /\ \A k \in 1..10 : Is("event", PreUp, k)' => ~Quiet("event")' /\ Head(todo'["event"]) = PreUp[k]
    /\ \A k \in 1..9 : Is("event", PostDown, k)' =>
                           ~Quiet("event")' /\ Head(todo'["event"]) = PostDown[k]
    /\ \A t \in Threads : \A k \in 1..28 : Is(t, SetProfile, k)' =>
                                               ~Quiet(t)' /\ Head(todo'[t]) = SetProfile[k]
    /\ \A k \in 1..3 : Is("control", SetVolume, k)' =>
                           ~Quiet("control")' /\ Head(todo'["control"]) = SetVolume[k]
    /\ \A k \in 1..19 : Is("control", Calibrate, k)' =>
                            ~Quiet("control")' /\ Head(todo'["control"]) = Calibrate[k]
<1>1. ASSUME NEW P \in Seq(Labels), NEW k \in 1..Len(P), NEW t, Is(t, P, k)'
      PROVE  ~Quiet(t)' /\ Head(todo'[t]) = P[k]
  BY <1>1, StepsLeft DEF Is, Quiet
<1>2. ASSUME NEW k \in 1..10, Is("event", PreUp, k)'
      PROVE  ~Quiet("event")' /\ Head(todo'["event"]) = PreUp[k]
  <2>1. PreUp \in Seq(Labels) /\ k \in 1..Len(PreUp) BY UpProgram
  <2> QED BY <1>1, <1>2, <2>1
<1>3. ASSUME NEW k \in 1..9, Is("event", PostDown, k)'
      PROVE  ~Quiet("event")' /\ Head(todo'["event"]) = PostDown[k]
  <2>1. PostDown \in Seq(Labels) /\ k \in 1..Len(PostDown) BY DownProgram
  <2> QED BY <1>1, <1>3, <2>1
<1>4. ASSUME NEW t \in Threads, NEW k \in 1..28, Is(t, SetProfile, k)'
      PROVE  ~Quiet(t)' /\ Head(todo'[t]) = SetProfile[k]
  <2>1. SetProfile \in Seq(Labels) /\ k \in 1..Len(SetProfile) BY ProfileProgram
  <2> QED BY <1>1, <1>4, <2>1
<1>5. ASSUME NEW k \in 1..3, Is("control", SetVolume, k)'
      PROVE  ~Quiet("control")' /\ Head(todo'["control"]) = SetVolume[k]
  <2>1. SetVolume \in Seq(Labels) /\ k \in 1..Len(SetVolume) BY VolumeProgram
  <2> QED BY <1>1, <1>5, <2>1
<1>6. ASSUME NEW k \in 1..19, Is("control", Calibrate, k)'
      PROVE  ~Quiet("control")' /\ Head(todo'["control"]) = Calibrate[k]
  <2>1. Calibrate \in Seq(Labels) /\ k \in 1..Len(Calibrate) BY CaliProgram
  <2> QED BY <1>1, <1>6, <2>1
<1> QED BY <1>2, <1>3, <1>4, <1>5, <1>6

\* The event goes where its labels say.
LEMMA EventFlows ==
    ASSUME DOMAIN todo = Threads, PlacesInv, Step("event")
    PROVE  Flows("event")
<1>1. ~Quiet("event") BY StepRuns DEF Threads
<1>2. ASSUME NEW k \in 1..10, UpSteps(k) PROVE Flows("event")
  <2>1. Head(todo["event"]) = PreUp[k] BY <1>2, UpHeads DEF UpSteps
  <2>2. (CASE k = 10 -> Quiet("event")'
          [] k = 4 -> Is("event", PreUp, 5)' \/ Is("event", PreUp, 10)'
          [] k = 8 -> Is("event", PreUp, 9)' \/ Is("event", PreUp, 10)'
          [] OTHER -> Is("event", PreUp, k + 1)')
    BY <1>2, UpEffects
  <2>3. CASE k = 10 BY <2>1, <2>2, <2>3, JumpsFollow DEF Flows
  <2>4. CASE Is("event", PreUp, 10)' /\ k \in {4, 8}
    <3>1. 10 \in 1..10 OBVIOUS
    <3>2. ~Quiet("event")' /\ Head(todo'["event"]) = PreUp[10] BY <2>4, <3>1, HeadsNext
    <3> QED BY <2>1, <2>4, <3>2, JumpsFollow DEF Flows
  <2>5. CASE Is("event", PreUp, k + 1)' /\ k # 10
    <3>1. k \in 1..9 /\ k + 1 \in 1..10 BY <2>5
    <3>2. ~Quiet("event")' /\ Head(todo'["event"]) = PreUp[k + 1] BY <2>5, <3>1, HeadsNext
    <3> QED BY <2>1, <3>1, <3>2, ProgramsFollow DEF Flows
  <2> QED BY <2>2, <2>3, <2>4, <2>5
<1>3. ASSUME NEW k \in 1..9, DownSteps(k) PROVE Flows("event")
  <2>1. Head(todo["event"]) = PostDown[k] BY <1>3, DownHeads DEF DownSteps
  <2>2. (CASE k = 9 -> Quiet("event")'
          [] k = 3 -> Is("event", PostDown, 4)' \/ Is("event", PostDown, 8)'
          [] OTHER -> Is("event", PostDown, k + 1)')
    BY <1>3, DownEffects
  <2>3. CASE k = 9 BY <2>1, <2>2, <2>3, JumpsFollow DEF Flows
  <2>4. CASE Is("event", PostDown, 8)' /\ k = 3
    <3>1. 8 \in 1..9 OBVIOUS
    <3>2. ~Quiet("event")' /\ Head(todo'["event"]) = PostDown[8] BY <2>4, <3>1, HeadsNext
    <3> QED BY <2>1, <2>4, <3>2, JumpsFollow DEF Flows
  <2>5. CASE Is("event", PostDown, k + 1)' /\ k # 9
    <3>1. k \in 1..8 /\ k + 1 \in 1..9 BY <2>5
    <3>2. ~Quiet("event")' /\ Head(todo'["event"]) = PostDown[k + 1] BY <2>5, <3>1, HeadsNext
    <3> QED BY <2>1, <3>1, <3>2, ProgramsFollow DEF Flows
  <2> QED BY <2>2, <2>3, <2>4, <2>5
<1> QED BY <1>1, <1>2, <1>3 DEF PlacesInv, EventInv

\* So does the holder of the lock that starts the amp, ...
LEMMA StartFlows ==
    ASSUME DOMAIN todo = Threads, NEW t \in {"work", "control"}, NEW k \in 2..28,
           StartSteps(t, k), Step(t)
    PROVE  Flows(t)
<1>0. t \in Threads /\ k \in 1..28 BY DEF Threads
<1>1. Head(todo[t]) = SetProfile[k] BY <1>0, StartHeads DEF StartSteps
<1>2. (CASE k = 28 -> Quiet(t)'
         [] k = 2 -> Is(t, SetProfile, 28)' \/ (Is(t, SetProfile, 3)' /\ ~Off)
         [] k = 9 -> Is(t, SetProfile, 10)' \/ Is(t, SetProfile, 28)'
         [] k = 13 -> Is(t, SetProfile, 14)' \/ Is(t, SetProfile, 28)'
         [] k = 15 -> Is(t, SetProfile, 16)' \/ Is(t, SetProfile, 21)'
         [] k = 20 -> Is(t, SetProfile, 28)'
         [] k = 22 -> Is(t, SetProfile, 23)' \/ Is(t, SetProfile, 27)'
         [] k = 27 -> Is(t, SetProfile, 14)' \/ Is(t, SetProfile, 28)'
         [] OTHER -> Is(t, SetProfile, k + 1)')
  BY StartEffects
<1>3. ASSUME NEW j \in 1..28, Is(t, SetProfile, j)', Follows(SetProfile[k], SetProfile[j])
      PROVE  Flows(t)
  <2>1. ~Quiet(t)' /\ Head(todo'[t]) = SetProfile[j] BY <1>0, <1>3, HeadsNext
  <2> QED BY <1>1, <1>3, <2>1 DEF Flows
<1>4. 28 \in 1..28 /\ 14 \in 1..28 /\ 21 \in 1..28 /\ 27 \in 1..28 OBVIOUS
<1>5. CASE k = 28 BY <1>1, <1>2, <1>5, JumpsFollow DEF Flows
<1>6. CASE k # 28 /\ Is(t, SetProfile, k + 1)'
  <2>1. k \in 1..27 /\ k + 1 \in 1..28 BY <1>6
  <2>2. Follows(SetProfile[k], SetProfile[k + 1]) BY <2>1, ProgramsFollow
  <2> QED BY <1>3, <1>6, <2>1, <2>2
<1>7. CASE k \in {2, 9, 13, 20, 27} /\ Is(t, SetProfile, 28)'
  <2>1. Follows(SetProfile[k], SetProfile[28]) BY <1>7, JumpsFollow
  <2> QED BY <1>3, <1>4, <1>7, <2>1
<1>8. CASE k = 15 /\ Is(t, SetProfile, 21)' BY <1>3, <1>4, <1>8, JumpsFollow
<1>9. CASE k = 22 /\ Is(t, SetProfile, 27)' BY <1>3, <1>4, <1>9, JumpsFollow
<1>10. CASE k = 27 /\ Is(t, SetProfile, 14)' BY <1>3, <1>4, <1>10, JumpsFollow
<1> QED BY <1>2, <1>5, <1>6, <1>7, <1>8, <1>9, <1>10

\* ... and a control without the lock.
LEMMA LooseFlows ==
    ASSUME DOMAIN todo = Threads, Loose, lock # "control", Step("control")
    PROVE  Flows("control")
<1>1. ASSUME NEW k \in 1..3, Is("control", SetVolume, k) PROVE Flows("control")
  <2>1. Head(todo["control"]) = SetVolume[k] BY <1>1, VolumeHeads
  <2>2. IF k = 3 THEN Quiet("control")' ELSE Is("control", SetVolume, k + 1)'
    BY <1>1, VolumeEffects
  <2>3. CASE k = 3 BY <2>1, <2>2, <2>3, JumpsFollow DEF Flows
  <2>4. CASE k # 3
    <3>1. k \in 1..2 /\ k + 1 \in 1..3 BY <2>4
    <3>2. ~Quiet("control")' /\ Head(todo'["control"]) = SetVolume[k + 1]
      BY <2>2, <2>4, <3>1, HeadsNext
    <3> QED BY <2>1, <3>1, <3>2, ProgramsFollow DEF Flows
  <2> QED BY <2>3, <2>4
<1>2. ASSUME NEW k \in 1..19, Is("control", Calibrate, k), k # 12 PROVE Flows("control")
  <2>1. Head(todo["control"]) = Calibrate[k] BY <1>2, CaliHeads
  <2>2. (CASE k = 19 -> Quiet("control")'
           [] k = 1 -> Is("control", Calibrate, 2)' \/ Is("control", Calibrate, 19)'
           [] k = 5 -> Is("control", Calibrate, 6)' \/ Is("control", Calibrate, 18)'
           [] k = 9 -> \/ Is("control", Calibrate, 10)' \/ Is("control", Calibrate, 16)'
                       \/ Is("control", Calibrate, 17)'
           [] k = 11 -> Is("control", Calibrate, 12)' \/ Is("control", Calibrate, 15)'
           [] k = 12 -> AtExtra(<<"dsp_bypass", "dsp_on">>)' \/ AtExtra(FadeOut)'
           [] OTHER -> Is("control", Calibrate, k + 1)')
    BY <1>2, CaliEffects
  <2>3. ASSUME NEW j \in 1..19, Is("control", Calibrate, j)', Follows(Calibrate[k], Calibrate[j])
        PROVE  Flows("control")
    <3>1. ~Quiet("control")' /\ Head(todo'["control"]) = Calibrate[j] BY <2>3, HeadsNext
    <3> QED BY <2>1, <2>3, <3>1 DEF Flows
  <2>4. 15 \in 1..19 /\ 16 \in 1..19 /\ 17 \in 1..19 /\ 18 \in 1..19 /\ 19 \in 1..19 OBVIOUS
  <2>5. CASE k = 19 BY <2>1, <2>2, <2>5, JumpsFollow DEF Flows
  <2>6. CASE k # 19 /\ Is("control", Calibrate, k + 1)'
    <3>1. k \in 1..18 /\ k + 1 \in 1..19 BY <2>6
    <3>2. Follows(Calibrate[k], Calibrate[k + 1]) BY <3>1, ProgramsFollow
    <3> QED BY <2>3, <2>6, <3>1, <3>2
  <2>7. CASE k = 1 /\ Is("control", Calibrate, 19)' BY <2>3, <2>4, <2>7, JumpsFollow
  <2>8. CASE k = 5 /\ Is("control", Calibrate, 18)' BY <2>3, <2>4, <2>8, JumpsFollow
  <2>9. CASE k = 9 /\ Is("control", Calibrate, 16)' BY <2>3, <2>4, <2>9, JumpsFollow
  <2>10. CASE k = 9 /\ Is("control", Calibrate, 17)' BY <2>3, <2>4, <2>10, JumpsFollow
  <2>11. CASE k = 11 /\ Is("control", Calibrate, 15)' BY <2>3, <2>4, <2>11, JumpsFollow
  <2> QED BY <1>2, <2>2, <2>5, <2>6, <2>7, <2>8, <2>9, <2>10, <2>11
<1> DEFINE s == Suffix(Calibrate, 13)
<1>3. /\ s \in Seq(Labels) /\ s # <<>> /\ Head(s) = "put_vol"
      /\ {"dsp_bypass", "dsp_on", "fade_out", "hmute"} \subseteq Labels
      /\ "control" \in Threads
  <2>1. Calibrate \in Seq(Labels) /\ 13 \in 1..Len(Calibrate) BY CaliProgram
  <2>2. s \in Seq(Labels) /\ s # <<>> /\ Head(s) = Calibrate[13] BY <2>1, StepsLeft
  <2> QED BY <2>2, CaliLast DEF Labels, Threads
<1>4. ASSUME Is("control", Calibrate, 12) PROVE Flows("control")
  <2>1. 12 \in 1..19 OBVIOUS
  <2>2. Head(todo["control"]) = "measure" BY <1>4, <2>1, CaliHeads, CaliLast
  <2>3. \/ Go("control", <<"dsp_bypass", "dsp_on">> \o s)
        \/ Go("control", FadeOut \o s)
    BY <1>4, <2>1, CaliMoves
  <2>4. todo'["control"] = <<"dsp_bypass", "dsp_on">> \o s \/ todo'["control"] = FadeOut \o s
    BY <1>3, <2>3 DEF Go
  <2> HIDE DEF s
  <2>5. ~Quiet("control")' /\ Head(todo'["control"]) \in {"dsp_bypass", "fade_out"}
    BY <1>3, <2>4, JoinedTwo DEF FadeOut, Quiet
  <2> QED BY <2>2, <2>5 DEF Flows, Follows
<1>5. ASSUME NEW x \in Extras, AtExtra(x) PROVE Flows("control")
  <2>1. /\ x = <<"dsp_bypass", "dsp_on">> =>
              /\ Write("control", "dsp_bypass", hmute, TRUE, pwdn)
              /\ Go("control", <<"dsp_on">> \o s)
        /\ x = <<"dsp_on">> => /\ Write("control", "dsp_on", hmute, FALSE, pwdn)
                               /\ Go("control", s)
        /\ x = FadeOut => /\ DoFadeOut("control")
                          /\ Go("control", <<"hmute">> \o s)
        /\ x = <<"hmute">> => /\ Write("control", "hmute", TRUE, dspby, pwdn)
                              /\ Go("control", s)
    BY <1>5, ExtraMoves
  <2> HIDE DEF s
  <2>2. ASSUME NEW r, Go("control", r) PROVE todo'["control"] = r BY <1>3, <2>2 DEF Go
  <2>3. CASE x = <<"dsp_bypass", "dsp_on">>
    <3>1. Head(todo["control"]) = "dsp_bypass" BY <2>1, <2>3 DEF Write, At
    <3>2. todo'["control"] = <<"dsp_on">> \o s BY <2>1, <2>2, <2>3
    <3>3. "dsp_on" \in Labels BY <1>3
    <3>4. ~Quiet("control")' /\ Head(todo'["control"]) = "dsp_on"
      BY <1>3, <3>2, <3>3, Joined DEF Quiet
    <3> QED BY <3>1, <3>4 DEF Flows, Follows
  <2>4. CASE x = <<"dsp_on">>
    <3>1. Head(todo["control"]) = "dsp_on" BY <2>1, <2>4 DEF Write, At
    <3>2. ~Quiet("control")' /\ Head(todo'["control"]) = "put_vol"
      BY <1>3, <2>1, <2>2, <2>4 DEF Quiet
    <3> QED BY <3>1, <3>2 DEF Flows, Follows
  <2>5. CASE x = FadeOut
    <3>1. Head(todo["control"]) = "fade_out" BY <2>1, <2>5 DEF DoFadeOut, At
    <3>2. todo'["control"] = <<"hmute">> \o s BY <2>1, <2>2, <2>5
    <3>3. "hmute" \in Labels BY <1>3
    <3>4. ~Quiet("control")' /\ Head(todo'["control"]) = "hmute"
      BY <1>3, <3>2, <3>3, Joined DEF Quiet
    <3> QED BY <3>1, <3>4 DEF Flows, Follows
  <2>6. CASE x = <<"hmute">>
    <3>1. Head(todo["control"]) = "hmute" BY <2>1, <2>6 DEF Write, At
    <3>2. ~Quiet("control")' /\ Head(todo'["control"]) = "put_vol"
      BY <1>3, <2>1, <2>2, <2>6 DEF Quiet
    <3> QED BY <3>1, <3>2 DEF Flows, Follows
  <2> QED BY <2>3, <2>4, <2>5, <2>6 DEF Extras
<1> QED BY <1>1, <1>2, <1>4, <1>5 DEF Loose

\* Every thread goes where its labels say.
LEMMA StepFlows ==
    ASSUME DOMAIN todo = Threads, PlacesInv, NEW t \in Threads, Step(t)
    PROVE  Flows(t)
<1>1. ~Quiet(t) BY StepRuns
<1>2. ASSUME t \in {"work", "control"}, Lock(t), NEW j \in {2, 14},
             StartSteps(t, j)'
      PROVE  Flows(t)
  <2>1. Head(todo[t]) = "lock" BY <1>2 DEF Lock, At
  <2>2. j \in 1..28 /\ Is(t, SetProfile, j)' BY <1>2 DEF StartSteps
  <2>3. ~Quiet(t)' /\ Head(todo'[t]) = SetProfile[j] BY <2>2, HeadsNext
  <2>4. SetProfile[j] \in {"choose", "pwr_on"} BY <1>2, ProfileStops, ProfileStarts
  <2> QED BY <2>1, <2>3, <2>4 DEF Flows, Follows
<1>3. CASE t = "event" BY <1>3, EventFlows
<1>4. CASE t = "work"
  <2>1. CASE todo["work"] = StartWork /\ lock # "work"
    <3>1. Lock("work") /\ StartSteps("work", 14)' BY <1>4, <2>1, WorkLocks
    <3> QED BY <1>2, <1>4, <3>1
  <2>2. ASSUME NEW k \in 14..28, StartSteps("work", k) PROVE Flows("work")
    <3>1. k \in 2..28 OBVIOUS
    <3> QED BY <1>4, <2>2, <3>1, StartFlows
  <2> QED BY <1>1, <1>4, <2>1, <2>2 DEF PlacesInv, WorkInv
<1>5. CASE t = "control"
  <2>1. CASE Is("control", SetProfile, 1) /\ lock # "control"
    <3>1. Lock("control") /\ StartSteps("control", 2)' BY <1>5, <2>1, ControlLocks
    <3> QED BY <1>2, <1>5, <3>1
  <2>2. ASSUME NEW k \in 2..28, StartSteps("control", k) PROVE Flows("control")
    BY <1>5, <2>2, StartFlows
  <2>3. CASE Loose /\ lock # "control" BY <1>5, <2>3, LooseFlows
  <2> QED BY <1>1, <1>5, <2>1, <2>2, <2>3 DEF PlacesInv, ControlInv, Gentle
<1> QED BY <1>3, <1>4, <1>5 DEF Threads

-----------------------------------------------------------------------------
(* The volume.                                                             *)

\* A step moves its own thread.
LEMMA OthersStay ==
    ASSUME DOMAIN todo = Threads, NEW t \in Threads, Step(t)
    PROVE  DOMAIN todo' = Threads /\ \A u \in Threads \ {t} : todo'[u] = todo[u]
<1> DEFINE Moved == DOMAIN todo' = Threads /\ \A u \in Threads \ {t} : todo'[u] = todo[u]
<1>1. ASSUME NEW s, Go(t, s) PROVE Moved BY <1>1, GoMoves
<1>2. On(t) => Moved BY <1>1 DEF On
<1> SUFFICES Moved OBVIOUS
<1> HIDE DEF Moved
<1>3. CASE \/ Lock(t) \/ End(t) \/ Cancel(t) \/ Queue(t) \/ Down(t) \/ Pins(t) \/ DoFadeOut(t)
           \/ FadeRead(t) \/ FadeWrite(t) \/ SetCtl(t) \/ SetVol(t)
  BY <1>2, <1>3 DEF Lock, End, Cancel, Queue, Down, Pins, Write, DoFadeOut, FadeRead, FadeWrite,
                    FadeEnds, SetCtl, SetVol
<1>4. CASE \/ Start(t) \/ Choose(t) \/ DoStop(t) \/ PowerOn(t) \/ Checks(t) \/ Started(t)
           \/ NextAttempt(t)
  BY <1>1, <1>2, <1>4 DEF Start, Choose, DoStop, PowerOn, Checks, Started, NextAttempt
<1>5. CASE Regs(t) \/ Images(t)
  BY <1>1, <1>2, <1>5 DEF Regs, RegsWritten, RegsStop, Images, UpdateFails
<1>6. CASE CaliStep(t)
  BY <1>1, <1>2, <1>6 DEF CaliStep, CaliBegin, CaliCheck, Backup, CaliQuiet, CaliCfg, CaliVol,
                          Measure, PutBack, CaliEnd
<1> QED BY <1>3, <1>4, <1>5, <1>6 DEF Step

\* The steps that write a volume or the mute.
VolumeSteps == {"unmute", "hmute", "fade_out", "fade_read", "fade_write", "set_ctl", "set_vol",
                "regs"}

\* No other step does, and only one turns the amp on.
LEMMA VolumeStays ==
    ASSUME NEW t \in Threads, Step(t), Head(todo[t]) \notin VolumeSteps
    PROVE  /\ UNCHANGED <<ctl_volume, fade, volume, overtaken, hmute>>
           /\ status' = status \/ Off' \/ At(t, "started")
BY DEF Step, Pins, CaliStep, At, Lock, End, Cancel, Start, Queue, Down, Write, DoFadeOut,
       FadeRead, FadeWrite, FadeEnds, SetCtl, SetVol, Choose, DoStop, Regs, Images, PowerOn,
       Checks, Started, NextAttempt, CaliBegin, CaliCheck, Backup, CaliQuiet, CaliCfg, CaliVol,
       Measure, PutBack, CaliEnd, CaliRest, vol, pins, amp, Off, VolumeSteps


\* What a fade_in of another thread has taken outlives a step that overtakes
\* nobody; a fade_in takes ctl_volume.
LEMMA FadeData ==
    ASSUME TypeOK, NEW t \in Threads, Step(t), ~overtaken'
    PROVE  /\ \A u \in Threads \ {t} : At(u, "fade_write") =>
                  ~overtaken /\ ctl_volume' = ctl_volume /\ fade'[u] = fade[u]
           /\ At(t, "fade_read") => fade'[t] = ctl_volume'
<1>0. DOMAIN fade = Threads /\ overtaken \in BOOLEAN BY DEF TypeOK
<1>1. ~Quiet(t) BY StepRuns
<1>2. CASE Head(todo[t]) \notin VolumeSteps
  BY <1>2, VolumeStays DEF At, VolumeSteps
<1>3. CASE Head(todo[t]) \in {"unmute", "hmute"}
  <2>1. UNCHANGED vol BY <1>3, NextStep DEF Write
  <2> QED BY <1>3, <2>1 DEF vol, At
<1>4. CASE Head(todo[t]) = "fade_out"
  <2>1. UNCHANGED <<ctl_volume, fade>> /\ Overtakes(t) BY <1>4, NextStep DEF DoFadeOut
  <2> QED BY <1>0, <1>4, <2>1 DEF Overtakes, At
<1>5. CASE Head(todo[t]) = "fade_read"
  <2>1. UNCHANGED ctl_volume /\ Overtakes(t) /\ fade' = [fade EXCEPT ![t] = ctl_volume]
    BY <1>5, NextStep DEF FadeRead
  <2> QED BY <1>0, <1>5, <2>1 DEF Overtakes, At
<1>6. CASE Head(todo[t]) = "fade_write"
  <2>1. UNCHANGED <<ctl_volume, overtaken>> /\ fade' = [fade EXCEPT ![t] = Loudest]
    BY <1>6, NextStep DEF FadeWrite, FadeEnds
  <2> QED BY <1>0, <1>6, <2>1 DEF At
<1>7. CASE Head(todo[t]) = "set_ctl"
  <2>1. UNCHANGED fade /\ Overtakes(t) BY <1>7, NextStep DEF SetCtl
  <2> QED BY <1>0, <1>7, <2>1 DEF Overtakes, At
<1>8. CASE Head(todo[t]) = "set_vol"
  <2>1. UNCHANGED <<ctl_volume, fade, overtaken>> BY <1>8, NextStep DEF SetVol
  <2> QED BY <1>8, <2>1 DEF At
<1>9. CASE Head(todo[t]) = "regs"
  <2>1. UNCHANGED fade /\ (Overtakes(t) \/ UNCHANGED <<ctl_volume, overtaken>>)
    BY <1>9, NextStep DEF Regs, RegsWritten, RegsStop
  <2> QED BY <1>0, <1>9, <2>1 DEF Overtakes, At
<1> QED BY <1>2, <1>3, <1>4, <1>5, <1>6, <1>7, <1>8, <1>9 DEF VolumeSteps

\* Whoever completes a start has the lock.
LEMMA AtStarted ==
    ASSUME PlacesInv, NEW t \in Threads, At(t, "started")
    PROVE  lock = t
<1>1. ~Quiet(t) /\ Head(todo[t]) = "started" BY DEF At, Quiet
<1>2. CASE t = "event"
  <2>1. ASSUME NEW k \in 1..10, UpSteps(k) PROVE FALSE
    <3>1. PreUp[k] = "started" BY <1>1, <1>2, <2>1, UpHeads DEF UpSteps
    <3>2. k \in {1, 2, 3, 4, 5, 6, 7, 8, 9, 10} OBVIOUS
    <3> QED BY <3>1, <3>2, UpProgram
  <2>2. ASSUME NEW k \in 1..9, DownSteps(k) PROVE FALSE
    <3>1. PostDown[k] = "started" BY <1>1, <1>2, <2>2, DownHeads DEF DownSteps
    <3>2. k \in {1, 2, 3, 4, 5, 6, 7, 8, 9} OBVIOUS
    <3> QED BY <3>1, <3>2, DownProgram
  <2> QED BY <1>1, <1>2, <2>1, <2>2 DEF PlacesInv, EventInv
<1>3. CASE t = "work"
  <2>1. todo["work"] # StartWork BY <1>1, <1>3, StartProgram
  <2>2. PICK k \in 14..28 : StartSteps("work", k)
    BY <1>1, <1>3, <2>1 DEF PlacesInv, WorkInv
  <2> QED BY <1>3, <2>2 DEF StartSteps
<1>4. CASE t = "control"
  <2>1. CASE \E k \in 2..28 : StartSteps("control", k) BY <1>4, <2>1 DEF StartSteps
  <2>2. CASE lock # "control"
    <3>1. Light \/ Is("control", Calibrate, 1) \/ InCali BY <2>2, ControlKinds
    <3> QED BY <1>1, <1>4, <3>1, CaliPlaces DEF At
  <2> QED BY <2>1, <2>2 DEF PlacesInv, ControlInv
<1> QED BY <1>2, <1>3, <1>4 DEF Threads

\* A step that leaves the other threads and the volume, and neither fades nor
\* starts the amp, leaves what is said of the volume.
LEMMA VolumeKept ==
    ASSUME VolInv, NEW t \in Threads, \A u \in Threads \ {t} : todo'[u] = todo[u],
           UNCHANGED <<ctl_volume, volume, overtaken, hmute>>,
           status' = status \/ Off' \/ At(t, "started"), ~Fading(t), ~At(t, "started")'
    PROVE  VolInv'
<1> SUFFICES ASSUME ~hmute', ~overtaken', ~Off' \/ \E u \in Threads : At(u, "started")'
             PROVE  volume' = ctl_volume' \/ \E u \in Threads : Fading(u)'
  BY DEF VolInv
<1>1. ~Off \/ \E u \in Threads : At(u, "started")
  <2>1. CASE ~Off' BY <2>1 DEF Off
  <2>2. CASE \E u \in Threads : At(u, "started")' BY <2>2 DEF At
  <2> QED BY <2>1, <2>2
<1>2. volume = ctl_volume \/ \E u \in Threads \ {t} : Fading(u) BY <1>1 DEF VolInv
<1>3. ASSUME NEW u \in Threads \ {t}, Fading(u) PROVE Fading(u)' BY <1>3 DEF Fading, At
<1> QED BY <1>2, <1>3

\* A thread behind a step that another must follow is at that other.
LEMMA FlowsOn ==
    ASSUME DOMAIN todo = Threads, PlacesInv, NEW t \in Threads, Step(t)
    PROVE  /\ At(t, "fade_write")' => Head(todo[t]) = "fade_read"
           /\ At(t, "started")' => Head(todo[t]) = "fade_write"
           /\ Head(todo[t]) = "unmute" => At(t, "fade_read")'
           /\ Head(todo[t]) = "fade_read" => At(t, "fade_write")'
           /\ Head(todo[t]) = "fade_out" => At(t, "hmute")'
           /\ Head(todo[t]) = "set_ctl" => At(t, "set_vol")'
<1>1. Flows(t) BY StepFlows
<1> QED BY <1>1 DEF Flows, Follows, At, Quiet

\* The threads that begin begin before a fade and away from a start.
LEMMA BeginsSoft ==
    ASSUME DOMAIN todo = Threads, NEW t \in Threads,
           NEW s \in {PreUp, PostDown, StartWork, SetProfile, SetVolume, Calibrate},
           Begin(t, s)
    PROVE  /\ \A u \in Threads \ {t} : todo'[u] = todo[u]
           /\ UNCHANGED <<ctl_volume, fade, volume, overtaken, hmute, status>>
           /\ Quiet(t) /\ ~At(t, "fade_write")' /\ ~At(t, "started")'
<1>1. todo' = [todo EXCEPT ![t] = s] /\ Quiet(t) /\ UNCHANGED <<amp, vol, pins>> BY DEF Begin
<1>2. Head(s) \in {"lock", "set_ctl", "cali_begin"}
  <2>1. PreUp # <<>> /\ Head(PreUp) = "lock" BY DEF PreUp
  <2>2. PostDown # <<>> /\ Head(PostDown) = "lock" BY DEF PostDown
  <2>3. Head(StartWork) = "lock" BY StartProgram
  <2>4. Head(SetProfile) = "lock" BY ProfileProgram, ProfileStops
  <2>5. Head(SetVolume) = "set_ctl" BY VolumeProgram
  <2>6. Head(Calibrate) = "cali_begin" BY CaliProgram, CaliFirst
  <2> QED BY <2>1, <2>2, <2>3, <2>4, <2>5, <2>6
<1> QED BY <1>1, <1>2 DEF At, amp, vol, pins

\* What a fade_in has taken stays what it should write.
LEMMA NextFade ==
    ASSUME StepsInv, FadeInv, [Next]_vars
    PROVE  FadeInv'
<1>0. TypeOK /\ PlacesInv /\ DOMAIN todo = Threads BY DEF StepsInv, TypeOK
<1>1. "event" \in Threads /\ "work" \in Threads /\ "control" \in Threads BY DEF Threads
<1>2. ASSUME NEW t \in Threads,
             NEW s \in {PreUp, PostDown, StartWork, SetProfile, SetVolume, Calibrate},
             Begin(t, s)
      PROVE  FadeInv'
  <2>1. /\ \A u \in Threads \ {t} : todo'[u] = todo[u]
        /\ UNCHANGED <<ctl_volume, fade, overtaken>> /\ ~At(t, "fade_write")'
    BY <1>0, <1>2, BeginsSoft
  <2> QED BY <2>1 DEF FadeInv, At
<1>3. CASE PlaybackUp \/ PlaybackDown \/ WorkBegins \/ ProfileSet \/ VolumeSet \/ CalibSet
  BY <1>1, <1>2, <1>3 DEF PlaybackUp, PlaybackDown, WorkBegins, ProfileSet, VolumeSet, CalibSet
<1>4. CASE CodecRemove \/ CodecProbe \/ UNCHANGED vars
  <2>1. UNCHANGED <<todo, ctl_volume, fade, overtaken>>
    BY <1>4 DEF CodecRemove, CodecProbe, vars, vol
  <2> QED BY <2>1 DEF FadeInv, At
<1>5. ASSUME NEW t \in Threads, Step(t) PROVE FadeInv'
  <2> SUFFICES ASSUME ~overtaken', NEW u \in Threads, At(u, "fade_write")'
               PROVE  fade'[u] = ctl_volume'
    BY DEF FadeInv
  <2>1. CASE u = t
    <3>1. Head(todo[t]) = "fade_read" BY <1>0, <1>5, <2>1, FlowsOn
    <3>2. At(t, "fade_read") BY <1>5, <3>1, StepRuns DEF At, Quiet
    <3> QED BY <1>0, <1>5, <2>1, <3>2, FadeData
  <2>2. CASE u # t
    <3>1. At(u, "fade_write") BY <1>0, <1>5, <2>2, OthersStay DEF At
    <3>2. ~overtaken /\ ctl_volume' = ctl_volume /\ fade'[u] = fade[u]
      BY <1>0, <1>5, <2>2, <3>1, FadeData
    <3> QED BY <3>1, <3>2 DEF FadeInv
  <2> QED BY <2>1, <2>2
<1> QED BY <1>3, <1>4, <1>5 DEF Next

\* The registers of a profile are written to an amp that is off, while nobody
\* completes a start.
LEMMA RegsVolume ==
    ASSUME DOMAIN todo = Threads, PlacesInv, NEW t \in Threads, Step(t), At(t, "regs")
    PROVE  VolInv'
<1>1. /\ \A u \in Threads \ {t} : todo'[u] = todo[u]
      /\ ~At(t, "started")'
  BY OthersStay, FlowsOn DEF At
<1>2. Regs(t) BY NextStep DEF At
<1>3. CASE RegsWritten(t) BY <1>3 DEF RegsWritten, VolInv
<1>4. Off /\ lock = t BY AtRegs DEF UpSteps, StartSteps
<1>5. Off' BY <1>2, <1>4 DEF Regs, Off
<1>6. \A u \in Threads \ {t} : ~At(u, "started") BY <1>4, AtStarted
<1>7. \A u \in Threads : ~At(u, "started")' BY <1>1, <1>6 DEF At
<1> QED BY <1>5, <1>7 DEF VolInv

\* The volume is the chosen one or about to be written.
LEMMA NextVolume ==
    ASSUME StepsInv, FadeInv, VolInv, [Next]_vars
    PROVE  VolInv'
<1>0. TypeOK /\ PlacesInv /\ DOMAIN todo = Threads BY DEF StepsInv, TypeOK
<1>1. "event" \in Threads /\ "work" \in Threads /\ "control" \in Threads BY DEF Threads
<1>2. ASSUME NEW t \in Threads,
             NEW s \in {PreUp, PostDown, StartWork, SetProfile, SetVolume, Calibrate},
             Begin(t, s)
      PROVE  VolInv'
  <2>1. /\ \A u \in Threads \ {t} : todo'[u] = todo[u]
        /\ UNCHANGED <<ctl_volume, volume, overtaken, hmute, status>>
        /\ Quiet(t) /\ ~At(t, "started")'
    BY <1>0, <1>2, BeginsSoft
  <2>2. ~Fading(t) BY <2>1 DEF Fading, At, Quiet
  <2> QED BY <2>1, <2>2, VolumeKept
<1>3. CASE PlaybackUp \/ PlaybackDown \/ WorkBegins \/ ProfileSet \/ VolumeSet \/ CalibSet
  BY <1>1, <1>2, <1>3 DEF PlaybackUp, PlaybackDown, WorkBegins, ProfileSet, VolumeSet, CalibSet
<1>4. CASE CodecRemove \/ UNCHANGED vars
  <2>1. UNCHANGED <<todo, ctl_volume, volume, overtaken, hmute, status>>
    BY <1>4 DEF CodecRemove, vars, vol, pins, amp
  <2> QED BY <2>1 DEF VolInv, Fading, At, Off
<1>5. CASE CodecProbe BY <1>5 DEF CodecProbe, VolInv
<1>6. ASSUME NEW t \in Threads, Step(t) PROVE VolInv'
  <2>0. ~Quiet(t) BY <1>6, StepRuns
  <2>1. ASSUME NEW l \in {"set_vol", "fade_read", "fade_write", "hmute"}, At(t, l)'
        PROVE  VolInv'
    <3>1. Fading(t)' BY <2>1 DEF Fading
    <3> QED BY <3>1 DEF VolInv
  <2>2. CASE Head(todo[t]) \in {"unmute", "fade_read", "fade_out", "set_ctl"}
    BY <1>0, <1>6, <2>1, <2>2, FlowsOn
  <2>3. CASE Head(todo[t]) = "hmute"
    <3>1. hmute' BY <1>6, <2>3, NextStep DEF Write
    <3> QED BY <3>1 DEF VolInv
  <2>4. CASE Head(todo[t]) = "set_vol"
    <3>1. volume' = ctl_volume' BY <1>6, <2>4, NextStep DEF SetVol
    <3> QED BY <3>1 DEF VolInv
  <2>5. CASE Head(todo[t]) = "fade_write"
    <3>1. UNCHANGED <<ctl_volume, overtaken>> /\ volume' = fade[t]
      BY <1>6, <2>5, NextStep DEF FadeWrite, FadeEnds
    <3>2. At(t, "fade_write") BY <2>0, <2>5 DEF At, Quiet
    <3>3. ~overtaken => volume' = ctl_volume' BY <3>1, <3>2 DEF FadeInv
    <3> QED BY <3>1, <3>3 DEF VolInv
  <2>6. CASE Head(todo[t]) = "regs"
    <3>1. At(t, "regs") BY <2>0, <2>6 DEF At, Quiet
    <3> QED BY <1>0, <1>6, <3>1, RegsVolume
  <2>7. CASE Head(todo[t]) \notin VolumeSteps
    <3>1. \A u \in Threads \ {t} : todo'[u] = todo[u] BY <1>0, <1>6, OthersStay
    <3>2. /\ UNCHANGED <<ctl_volume, volume, overtaken, hmute>>
          /\ status' = status \/ Off' \/ At(t, "started")
      BY <1>6, <2>7, VolumeStays
    <3>3. ~Fading(t) BY <2>7 DEF Fading, At, VolumeSteps
    <3>4. ~At(t, "started")' BY <1>0, <1>6, <2>7, FlowsOn DEF VolumeSteps
    <3> QED BY <3>1, <3>2, <3>3, <3>4, VolumeKept
  <2> QED BY <2>2, <2>3, <2>4, <2>5, <2>6, <2>7 DEF VolumeSteps
<1> QED BY <1>3, <1>4, <1>5, <1>6 DEF Next

\* After codec_probe the amp is muted and nobody fades.
LEMMA InitVolume == Init => FadeInv /\ VolInv
BY DEF Init, FadeInv, VolInv, At

-----------------------------------------------------------------------------
(* The component keeps its promises.                                       *)

\* When nothing is under way the amp is as its controls and its status say.
LEMMA QuietAmp ==
    ASSUME StepsInv, AmpInv, VolInv
    PROVE  AsocInv
<1>0. TypeOK /\ PlacesInv BY DEF StepsInv
<1>1. AllQuiet => lock = Nobody
  BY <1>0, HolderRuns DEF AllQuiet, TypeOK
<1>2. AllQuiet /\ harm # "interrupted" => Rest /\ Light
  <2>1. AllQuiet => Light BY DEF AllQuiet, Light, Gentle, Threads
  <2> QED BY <1>1, <2>1 DEF AmpInv
<1>3. VolumeApplied
  <2>1. AllQuiet => ~\E t \in Threads : Fading(t) BY DEF AllQuiet, Fading, At, Quiet
  <2>2. status = "PW_ON" => ~Off BY DEF Off
  <2> QED BY <2>1, <2>2 DEF VolInv, VolumeApplied
<1>4. OffStaysQuiet BY <1>2 DEF OffStaysQuiet, Rest, Off, Still
<1>5. CalibRestores
  <2>1. SUFFICES ASSUME AllQuiet, status = "PW_ON", harm = "none" PROVE Good(set)
    BY DEF CalibRestores, Good
  <2>2. Restores({}) BY <1>2, <2>1 DEF Rest, Settled, Off
  <2>3. Good(Before({})) BY <2>1, <2>2 DEF Restores
  <2> QED BY <2>3 DEF Good, Before
<1> QED BY <1>0, <1>3, <1>4, <1>5 DEF AsocInv

\* Events, work and put handlers of soc-codecs/aw88399.c in any overlap and with
\* any failure: once nothing is under way an amp that is off is muted and
\* bypassed, the volume of an amp that plays is the one volume_get reports, and
\* a calibration has put its settings back, but for the two races and the failed
\* calibrations that the history variables name.
THEOREM AsocCorrect == Spec => []AsocInv
<1> DEFINE IInv == StepsInv /\ RunInv /\ AmpInv /\ FadeInv /\ VolInv
<1>1. Init => IInv BY InitSteps, InitAmp, InitVolume
<1>2. IInv /\ [Next]_vars => IInv'
  <2> SUFFICES ASSUME IInv, [Next]_vars PROVE IInv' OBVIOUS
  <2>1. DOMAIN todo = Threads /\ PlacesInv BY DEF StepsInv, TypeOK
  <2> QED BY <2>1, NextSteps, NextRunning, NextAmp, NextFade, NextVolume
<1>3. IInv => AsocInv BY QuietAmp
<1> QED BY <1>1, <1>2, <1>3, PTL DEF Spec

=============================================================================
