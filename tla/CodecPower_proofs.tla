-------------------------- MODULE CodecPower_proofs --------------------------
(***************************************************************************)
(* Proofs about CodecPower, for every machine that the assumption allows,  *)
(* any jacks and any order of suspends, resumes and lost power.            *)
(*                                                                         *)
(* A call of the driver is the list todo of register accesses it still has *)
(* to make, and the look at the jacks in its middle puts the accesses for  *)
(* the jacks it saw in front of the rest.  What the codec owes between two *)
(* calls is therefore true because of what such a list contains: the       *)
(* invariant PowerIInv says for each register which access is still to     *)
(* come (Leads), which has the last word on it (Lasts), and which is not   *)
(* there (Lacks), so that it holds in the middle of a call as well.        *)
(* The module first shows what each init hook, shutup and the accesses for *)
(* the jacks contain, variant by variant, then that each access, the look  *)
(* at the jacks, and the begin and end of a call keep the invariant.       *)
(***************************************************************************)
EXTENDS CodecPower, SequenceTheorems, TLAPS

-----------------------------------------------------------------------------
(* What a list of accesses contains.                                       *)

\* None of the accesses in S is left.
Lacks(q, S) == \A i \in 1..Len(q) : q[i] \notin S
\* One in A comes, and none in B before it.
Leads(q, A, B) == \E k \in 1..Len(q) : q[k] \in A /\ \A j \in 1..(k - 1) : q[j] \notin B
\* One in A comes, and none in B behind it.
Lasts(q, A, B) == \E k \in 1..Len(q) : q[k] \in A /\ \A j \in (k + 1)..Len(q) : q[j] \notin B
\* None in B comes behind one in A.
Never(q, A, B) ==
    \A i, j \in 1..Len(q) : i < j /\ q[i] \in A => q[j] \notin B

-----------------------------------------------------------------------------
(* Sequences.                                                              *)

\* An empty list lacks everything.
LEMMA EmptyLacks == \A S : Lacks(<<>>, S)
BY DEF Lacks

\* One access lacks what it is not,
LEMMA OneLacks == \A x, S : x \notin S => Lacks(<<x>>, S)
BY DEF Lacks

\* and is both the first and the last of what it is.
LEMMA OneLasts == \A x, A, B : x \in A => Lasts(<<x>>, A, B) /\ Leads(<<x>>, A, B)
BY DEF Lasts, Leads

\* What is in a list put together of two.
LEMMA ConcatParts ==
    ASSUME NEW X, NEW p \in Seq(X), NEW q \in Seq(X)
    PROVE  /\ p \o q \in Seq(X) /\ Len(p \o q) = Len(p) + Len(q)
           /\ \A i \in 1..Len(p) : (p \o q)[i] = p[i]
           /\ \A i \in 1..Len(q) : (p \o q)[Len(p) + i] = q[i]
           /\ Len(p) \in Nat /\ Len(q) \in Nat
BY ConcatProperties

\* What is in the rest of a list.
LEMMA TailParts ==
    ASSUME NEW X, NEW q \in Seq(X), q # <<>>
    PROVE  /\ Tail(q) \in Seq(X) /\ Len(Tail(q)) = Len(q) - 1 /\ Len(q) \in Nat /\ Len(q) >= 1
           /\ Head(q) = q[1] /\ Head(q) \in X
           /\ \A i \in 1..(Len(q) - 1) : Tail(q)[i] = q[i + 1]
BY HeadTailProperties

\* The rest of a list lacks what the list lacks.
LEMMA LacksTail ==
    ASSUME NEW X, NEW q \in Seq(X), q # <<>>, NEW S, Lacks(q, S)
    PROVE  Lacks(Tail(q), S) /\ Head(q) \notin S
<1>1. 1 \in 1..Len(q) /\ \A i \in 1..(Len(q) - 1) : i + 1 \in 1..Len(q) BY TailParts
<1> QED BY <1>1, TailParts DEF Lacks

\* Two lists that lack something lack it together.
LEMMA LacksConcat ==
    ASSUME NEW X, NEW p \in Seq(X), NEW q \in Seq(X), NEW S, Lacks(p, S), Lacks(q, S)
    PROVE  Lacks(p \o q, S)
<1> SUFFICES ASSUME NEW i \in 1..Len(p \o q) PROVE (p \o q)[i] \notin S BY DEF Lacks
<1>1. CASE i <= Len(p) BY <1>1, ConcatParts DEF Lacks
<1>2. CASE i > Len(p)
  <2>1. i - Len(p) \in 1..Len(q) /\ i = Len(p) + (i - Len(p)) BY <1>2, ConcatParts
  <2>2. (p \o q)[Len(p) + (i - Len(p))] = q[i - Len(p)] BY <2>1, ConcatParts
  <2> QED BY <2>1, <2>2 DEF Lacks
<1> QED BY <1>1, <1>2, ConcatParts

\* What comes first still does when another access is made before it.
LEMMA LeadsTail ==
    ASSUME NEW X, NEW q \in Seq(X), q # <<>>, NEW A, NEW B, Leads(q, A, B), Head(q) \notin A
    PROVE  Leads(Tail(q), A, B) /\ Head(q) \notin B
<1>1. PICK k \in 1..Len(q) : q[k] \in A /\ \A j \in 1..(k - 1) : q[j] \notin B BY DEF Leads
<1>2. k # 1 /\ Len(q) \in Nat BY <1>1, TailParts
<1>3. k - 1 \in 1..(Len(q) - 1) /\ k = (k - 1) + 1 /\ 1 \in 1..(k - 1) BY <1>2
<1>4. Tail(q)[k - 1] \in A BY <1>1, <1>3, TailParts
<1>5. ASSUME NEW j \in 1..(k - 2) PROVE Tail(q)[j] \notin B
  <2>1. j \in 1..(Len(q) - 1) /\ j + 1 \in 1..(k - 1) BY <1>3
  <2> QED BY <1>1, <2>1, TailParts
<1>6. k - 1 \in 1..Len(Tail(q)) /\ (k - 1) - 1 = k - 2 BY <1>3, TailParts
<1> QED BY <1>1, <1>3, <1>4, <1>5, <1>6, TailParts DEF Leads

\* What comes first in one part comes first in the whole if no part before it has the other.
LEMMA LeadsConcat ==
    ASSUME NEW X, NEW p \in Seq(X), NEW q \in Seq(X), NEW A, NEW B,
           Leads(p, A, B) \/ (Lacks(p, B) /\ Leads(q, A, B))
    PROVE  Leads(p \o q, A, B)
<1>1. CASE Leads(p, A, B)
  <2>1. PICK k \in 1..Len(p) : p[k] \in A /\ \A j \in 1..(k - 1) : p[j] \notin B
    BY <1>1 DEF Leads
  <2>2. k \in 1..Len(p \o q) /\ (p \o q)[k] \in A BY <2>1, ConcatParts
  <2>3. \A j \in 1..(k - 1) : j \in 1..Len(p) BY ConcatParts
  <2>4. \A j \in 1..(k - 1) : (p \o q)[j] \notin B BY <2>1, <2>3, ConcatParts
  <2> QED BY <2>2, <2>4 DEF Leads
<1>2. CASE Lacks(p, B) /\ Leads(q, A, B)
  <2>1. PICK k \in 1..Len(q) : q[k] \in A /\ \A j \in 1..(k - 1) : q[j] \notin B
    BY <1>2 DEF Leads
  <2>2. Len(p) + k \in 1..Len(p \o q) /\ (p \o q)[Len(p) + k] \in A BY <2>1, ConcatParts
  <2>0. PICK m \in 1..Len(p \o q) : m = Len(p) + k BY <2>2
  <2>3. ASSUME NEW j \in 1..(m - 1) PROVE (p \o q)[j] \notin B
    <3>1. CASE j <= Len(p) BY <1>2, <3>1, ConcatParts DEF Lacks
    <3>2. CASE j > Len(p)
      <4>1. j - Len(p) \in 1..(k - 1) /\ j - Len(p) \in 1..Len(q) /\ j = Len(p) + (j - Len(p))
        BY <2>0, <3>2, ConcatParts
      <4>2. (p \o q)[Len(p) + (j - Len(p))] = q[j - Len(p)] BY <4>1, ConcatParts
      <4> QED BY <2>1, <4>1, <4>2
    <3> QED BY <3>1, <3>2, ConcatParts
  <2> QED BY <2>0, <2>2, <2>3 DEF Leads
<1> QED BY <1>1, <1>2

\* What has the last word has it in the rest, unless it was said just now.
LEMMA LastsTail ==
    ASSUME NEW X, NEW q \in Seq(X), q # <<>>, NEW A, NEW B, Lasts(q, A, B)
    PROVE  Lasts(Tail(q), A, B) \/ (Head(q) \in A /\ Lacks(Tail(q), B))
<1>1. PICK k \in 1..Len(q) : q[k] \in A /\ \A j \in (k + 1)..Len(q) : q[j] \notin B BY DEF Lasts
<1>2. \A j \in 1..(Len(q) - 1) : j + 1 \in 1..Len(q) BY TailParts
<1>3. CASE k = 1
  <2>1. \A j \in 1..(Len(q) - 1) : j + 1 \in (k + 1)..Len(q) BY <1>3, TailParts
  <2>2. Lacks(Tail(q), B) BY <1>1, <2>1, TailParts DEF Lacks
  <2> QED BY <1>1, <1>3, <2>2, TailParts
<1>4. CASE k # 1
  <2>1. k - 1 \in 1..(Len(q) - 1) /\ k = (k - 1) + 1 BY <1>4, TailParts
  <2>2. Tail(q)[k - 1] \in A BY <1>1, <2>1, TailParts
  <2>3. \A j \in k..(Len(q) - 1) : j \in 1..(Len(q) - 1) /\ j + 1 \in (k + 1)..Len(q)
    BY <2>1, TailParts
  <2>4. \A j \in k..(Len(q) - 1) : Tail(q)[j] \notin B BY <1>1, <2>3, TailParts
  <2>5. k - 1 \in 1..Len(Tail(q)) /\ (k - 1) + 1 = k BY <2>1, TailParts
  <2> QED BY <2>2, <2>4, <2>5, TailParts DEF Lasts
<1> QED BY <1>3, <1>4

\* The last word of the second part is the last of the whole; that of the first part if
\* the second has nothing against it.
LEMMA LastsConcat ==
    ASSUME NEW X, NEW p \in Seq(X), NEW q \in Seq(X), NEW A, NEW B,
           Lasts(q, A, B) \/ (Lasts(p, A, B) /\ Lacks(q, B))
    PROVE  Lasts(p \o q, A, B)
<1>1. CASE Lasts(q, A, B)
  <2>1. PICK k \in 1..Len(q) : q[k] \in A /\ \A j \in (k + 1)..Len(q) : q[j] \notin B
    BY <1>1 DEF Lasts
  <2>2. Len(p) + k \in 1..Len(p \o q) /\ (p \o q)[Len(p) + k] \in A BY <2>1, ConcatParts
  <2>3. ASSUME NEW j \in (Len(p) + k + 1)..(Len(p) + Len(q)) PROVE (p \o q)[j] \notin B
    <3>1. j - Len(p) \in (k + 1)..Len(q) /\ j - Len(p) \in 1..Len(q) /\ j = Len(p) + (j - Len(p))
      BY ConcatParts
    <3>2. (p \o q)[Len(p) + (j - Len(p))] = q[j - Len(p)] BY <3>1, ConcatParts
    <3> QED BY <2>1, <3>1, <3>2
  <2> QED BY <2>2, <2>3, ConcatParts DEF Lasts
<1>2. CASE Lasts(p, A, B) /\ Lacks(q, B)
  <2>1. PICK k \in 1..Len(p) : p[k] \in A /\ \A j \in (k + 1)..Len(p) : p[j] \notin B
    BY <1>2 DEF Lasts
  <2>2. k \in 1..Len(p \o q) /\ (p \o q)[k] \in A BY <2>1, ConcatParts
  <2>3. ASSUME NEW j \in (k + 1)..(Len(p) + Len(q)) PROVE (p \o q)[j] \notin B
    <3>1. CASE j <= Len(p)
      <4>1. j \in (k + 1)..Len(p) /\ j \in 1..Len(p) BY <3>1, ConcatParts
      <4> QED BY <2>1, <4>1, ConcatParts
    <3>2. CASE j > Len(p)
      <4>1. j - Len(p) \in 1..Len(q) /\ j = Len(p) + (j - Len(p)) BY <3>2, ConcatParts
      <4>2. (p \o q)[Len(p) + (j - Len(p))] = q[j - Len(p)] BY <4>1, ConcatParts
      <4> QED BY <1>2, <4>1, <4>2 DEF Lacks
    <3> QED BY <3>1, <3>2, ConcatParts
  <2> QED BY <2>2, <2>3, ConcatParts DEF Lasts
<1> QED BY <1>1, <1>2

\* What never comes behind something does not in the rest either.
LEMMA NeverTail ==
    ASSUME NEW X, NEW q \in Seq(X), q # <<>>, NEW A, NEW B, Never(q, A, B)
    PROVE  Never(Tail(q), A, B) /\ (Head(q) \in A => Lacks(Tail(q), B))
<1>1. \A i \in 1..(Len(q) - 1) : i + 1 \in 1..Len(q) /\ 1 < i + 1 BY TailParts
<1>2. 1 \in 1..Len(q) BY TailParts
<1>3. Head(q) \in A => Lacks(Tail(q), B) BY <1>1, <1>2, TailParts DEF Never, Lacks
<1>4. Never(Tail(q), A, B) BY <1>1, TailParts DEF Never
<1> QED BY <1>3, <1>4

\* Nor in two lists put together, unless the first has the one and the second the other.
LEMMA NeverConcat ==
    ASSUME NEW X, NEW p \in Seq(X), NEW q \in Seq(X), NEW A, NEW B,
           Never(p, A, B), Never(q, A, B), Lacks(p, A) \/ Lacks(q, B)
    PROVE  Never(p \o q, A, B)
<1> SUFFICES ASSUME NEW i \in 1..Len(p \o q), NEW j \in 1..Len(p \o q), i < j,
                    (p \o q)[i] \in A
             PROVE  (p \o q)[j] \notin B
  BY DEF Never
<1>1. CASE j <= Len(p)
  <2>1. i \in 1..Len(p) /\ j \in 1..Len(p) BY <1>1, ConcatParts
  <2> QED BY <2>1, ConcatParts DEF Never
<1>2. CASE j > Len(p)
  <2>1. j - Len(p) \in 1..Len(q) /\ j = Len(p) + (j - Len(p)) BY <1>2, ConcatParts
  <2>2. (p \o q)[Len(p) + (j - Len(p))] = q[j - Len(p)] BY <2>1, ConcatParts
  <2>3. CASE i <= Len(p)
    <3>1. i \in 1..Len(p) BY <2>3, ConcatParts
    <3>2. p[i] \in A BY <3>1, ConcatParts
    <3>3. Lacks(q, B) BY <3>1, <3>2 DEF Lacks
    <3> QED BY <2>1, <2>2, <3>3 DEF Lacks
  <2>4. CASE i > Len(p)
    <3>1. i - Len(p) \in 1..Len(q) /\ i = Len(p) + (i - Len(p)) BY <2>4, ConcatParts
    <3>2. (p \o q)[Len(p) + (i - Len(p))] = q[i - Len(p)] BY <3>1, ConcatParts
    <3>3. i - Len(p) < j - Len(p) BY ConcatParts
    <3>4. q[i - Len(p)] \in A BY <3>1, <3>2
    <3>5. q[j - Len(p)] \notin B BY <2>1, <3>1, <3>3, <3>4 DEF Never
    <3> QED BY <2>1, <2>2, <3>5
  <2> QED BY <2>3, <2>4, ConcatParts
<1> QED BY <1>1, <1>2, ConcatParts

-----------------------------------------------------------------------------
(* Kinds of accesses, and the invariant.                                   *)

Kind(ops) == {x \in Accesses : x[1] \in ops}
Sets(b) == {<<"set", b>>}
Clears(b) == {<<"clear", b>>}
SenseOp == Kind({"sense"})
PollOp == Kind({"poll"})
Modes == Kind({"mode", "save", "restore"})
Saves == Kind({"save"})
Restores == Kind({"restore"})
Cuts == Kind({"cut", "shutup_pins"})
Loud == Kind({"drive", "unmute", "gen_init", "sync"})
Unmutes == Kind({"unmute", "sync"})
Opens == Kind({"drive", "gen_init", "sense"})
MuteOf(p) == {x \in Accesses : x[1] = "mute" /\ p \in x[2]}
DriveOf(p) == {x \in Accesses : x[1] = "gen_init" \/ (x[1] = "drive" /\ p \in x[2])}

\* A call that ends with the codec at work, and one that has yet to look at the jacks.
Boots == call \in {"boot", "resume"}
Sleeps == call = "suspend"
Coming == ~Lacks(todo, SenseOp)

\* The rest of the call leaves switch b on, or off.
WillSet(b) == Lasts(todo, Sets(b), Clears(b)) \/ (b \in bits /\ Lacks(todo, Clears(b)))
WillClear(b) == Lasts(todo, Clears(b), Sets(b)) \/ (b \notin bits /\ Lacks(todo, Sets(b)))

\* Variants whose shutup may leave the pull-down on, that doze, that look at the
\* jacks at shutup.
Pulls == alc_spec.variant \in Is256 \/ (alc_spec.variant = "ALC283" /\ alc_spec.hp_pin)
Dozes == alc_spec.ultra_low_power /\ alc_spec.variant \in Is256 \cup Is225
Looks == alc_spec.variant \in Is256 \cup Is225 \cup {"ALC623"} \/ alc_spec.hp_pin

\* Which calls run in which power state, and when a pin still clicks.
CallsFit ==
    /\ NoCall => todo = <<>>
    /\ Boots => power = "active"
    /\ Sleeps => power \in {"runtime", "s3", "s4"}
    /\ power = "off" => bits = {} /\ seen = {} /\ ~done_hp_init /\ (fresh => NeedsDepop)
    /\ power = "waking" /\ fresh =>
         \/ alc_spec.variant = "ALC225" /\ S3orS4
         \/ alc_spec.variant = "ALC294" /\ alc_spec.hp_pin /\ pm_event = "restore"
    /\ fresh => power \in {"off", "waking"} \/ Boots

\* A call looks at the jacks once, a shutup at its end.
LooksOnce ==
    /\ Coming => seen = {}
    /\ Boots => Never(todo, SenseOp, SenseOp \cup Cuts)
    /\ Boots /\ seen # {} => Lacks(todo, Cuts)
    /\ Sleeps => Never(todo, SenseOp, Accesses) /\ Lacks(todo, Loud)
    /\ Sleeps /\ Coming => Looks

PullInv ==
    /\ alc_spec.variant \in Is256 /\ ~alc_spec.en_3kpull_low =>
         "pull" \notin bits /\ Lacks(todo, Sets("pull"))
    /\ Pulls /\ Boots => Lacks(todo, Sets("pull")) /\ (Coming \/ WillClear("pull"))
    /\ Pulls /\ Awake => "pull" \notin bits
    /\ ~Pulls => WillClear("pull")
    /\ alc_spec.variant \in Is256 /\ alc_spec.en_3kpull_low /\ Sleeps =>
         /\ Lacks(todo, Clears("pull"))
         /\ "pull" \in bits \/ (seen = {} /\ Leads(todo, Sets("pull"), SenseOp))

SwitchInv ==
    /\ HasKeys /\ ~lost /\ power # "off" => WillSet("keys")
    /\ WillClear("jdReset") /\ WillClear("pathCut") /\ WillClear("manual")
    /\ Boots \/ Awake \/ ~Dozes => WillClear("low")
    /\ Boots \/ Awake =>
         /\ IsVB => WillSet("vbOutput")
         /\ alc_spec.gpio_data => WillSet("gpio")
         /\ alc_spec.variant \in {"ALC282", "ALC283"} => WillSet("coefs")
         /\ HasDsp /\ alc_spec.halt => WillClear("dspRuns")
         /\ HasDsp /\ ~alc_spec.halt => WillSet("dspRuns")
    /\ HasDsp /\ (Sleeps \/ power \in {"off", "runtime", "s3", "s4"}) => WillClear("dspRuns")

\* The power mode: most variants never touch it, ALC282 puts back what it found.
Target == IF alc_spec.variant = "ALC283" THEN "normal" ELSE "high"
ToTarget == {<<"mode", Target>>}
Targets == alc_spec.variant \in Is256 \cup Is225 \cup {"ALC283"}
ModeInv ==
    /\ Boots /\ Coming => Lacks(todo, Modes)
    /\ Targets /\ seen # {} /\ (Boots \/ Awake) =>
         Lasts(todo, ToTarget, Modes) \/ (mode = Target /\ Lacks(todo, Modes))
    /\ ~Targets /\ alc_spec.variant # "ALC282" => mode = "default" /\ Lacks(todo, Modes)
    /\ alc_spec.variant = "ALC282" /\ Sleeps /\ Coming => Lacks(todo, Modes)
    /\ alc_spec.variant = "ALC282" =>
         \/ mode = "default" /\ Lacks(todo, Modes)
         \/ /\ Lasts(todo, Restores, Modes)
            /\ \/ saved = "default" /\ Lacks(todo, Saves)
               \/ /\ mode = "default" /\ Leads(todo, Saves, Kind({"mode", "restore"}))
                  /\ Never(todo, Saves, Saves)

\* The order of the accesses to the pins.
PinInv ==
    /\ Sleeps => \A p \in seen : muted[p] \/ Leads(todo, MuteOf(p), Cuts)
    /\ Boots => \A p \in seen : pin[p] = "out" \/ Leads(todo, DriveOf(p), Unmutes)
    /\ Boots /\ fresh => Leads(todo, PollOp, Opens)
    /\ Honours /\ Sleeps => Lacks(todo, Kind({"cut"}))

PowerIInv == PowerTypeOK /\ CallsFit /\ LooksOnce /\ PullInv /\ SwitchInv /\ ModeInv /\ PinInv

-----------------------------------------------------------------------------
(* One access.                                                             *)

\* What an access but a look at the jacks does, or a poll that waits.
Plain == Switch \/ PowerMode \/ PinAccess \/ Generic \/ DepopPoll
Waits == Head(todo) \in PollOp /\ todo' = todo /\ UNCHANGED <<bits, mode, saved, pin, muted, fresh>>
Runs ==
    LET x == Head(todo) IN
    /\ todo' = Tail(todo)
    /\ bits' = CASE x[1] = "set" -> bits \cup {x[2]} [] x[1] = "clear" -> bits \ {x[2]} [] OTHER -> bits
    /\ mode' = CASE x[1] = "mode" -> x[2] [] x[1] = "restore" -> saved [] OTHER -> mode
    /\ saved' = IF x[1] = "save" THEN mode ELSE saved
    /\ pin' \in [OutPins -> {"off", "out"}] /\ muted' \in [OutPins -> BOOLEAN]
    /\ x[1] \notin {"drive", "cut", "gen_init", "shutup_pins"} => pin' = pin
    /\ x[1] = "shutup_pins" /\ alc_spec.no_shutup_pins => pin' = pin
    /\ \A p \in OutPins :
         /\ x[1] \notin {"cut", "shutup_pins"} /\ pin[p] = "out" => pin'[p] = "out"
         /\ x[1] \notin {"drive", "gen_init"} /\ pin[p] = "off" => pin'[p] = "off"
         /\ x \in DriveOf(p) => pin'[p] = "out"
         /\ x[1] \notin {"unmute", "sync"} /\ muted[p] => muted'[p]
         /\ x \in MuteOf(p) => muted'[p]
    /\ fresh' = (fresh /\ x[1] # "poll")

\* Every access but a look at the jacks is the first of those to make; it runs, or waits as
\* a poll does, and touches nothing but the registers.
LEMMA Effects ==
    ASSUME PowerTypeOK, Plain
    PROVE  /\ todo # <<>> /\ Head(todo) \in Accesses /\ Head(todo) \notin SenseOp
           /\ UNCHANGED <<alc_spec, pm_event, plugged, call, power, sleeps, lost, seen>>
           /\ Waits \/ Runs
<1> DEFINE x == Head(todo)
<1>0. todo # <<>> /\ x \in Accesses /\ todo \in Seq(Accesses)
  <2>1. todo \in Seq(Accesses) /\ todo # <<>>
    BY DEF PowerTypeOK, Plain, Switch, PowerMode, PinAccess, Generic, DepopPoll, Does
  <2> QED BY <2>1, TailParts
<1>1. Op = x[1] /\ Arg = x[2] BY DEF Op, Arg
<1>2. pin \in [OutPins -> {"off", "out"}] /\ muted \in [OutPins -> BOOLEAN] /\ fresh \in BOOLEAN
  BY DEF PowerTypeOK
<1> HIDE DEF x
<1>3. CASE Switch
  <2>1. /\ x[1] \in {"set", "clear"} /\ todo' = Tail(todo)
        /\ bits' = IF x[1] = "set" THEN bits \cup {x[2]} ELSE bits \ {x[2]}
        /\ UNCHANGED <<alc_spec, pm_event, plugged, call, power, sleeps, lost, seen>>
        /\ UNCHANGED <<pin, muted, mode, saved, fresh>>
    BY <1>1, <1>3 DEF Switch, Does, Rest, env
  <2>2. \A p \in OutPins : x \notin DriveOf(p) /\ x \notin MuteOf(p)
    BY <2>1 DEF DriveOf, MuteOf
  <2>3. x \notin SenseOp BY <2>1 DEF SenseOp, Kind
  <2>4. Runs BY <1>2, <2>1, <2>2 DEF Runs, x
  <2> QED BY <1>0, <2>1, <2>3, <2>4 DEF x
<1>4. CASE PowerMode
  <2>1. /\ x[1] \in {"mode", "save", "restore"} /\ todo' = Tail(todo)
        /\ mode' = CASE x[1] = "mode" -> x[2] [] x[1] = "restore" -> saved [] OTHER -> mode
        /\ saved' = IF x[1] = "save" THEN mode ELSE saved
        /\ UNCHANGED <<alc_spec, pm_event, plugged, call, power, sleeps, lost, seen>>
        /\ UNCHANGED <<pin, muted, bits, fresh>>
    BY <1>1, <1>4 DEF PowerMode, Does, Rest, env
  <2>2. \A p \in OutPins : x \notin DriveOf(p) /\ x \notin MuteOf(p)
    BY <2>1 DEF DriveOf, MuteOf
  <2>3. x \notin SenseOp BY <2>1 DEF SenseOp, Kind
  <2>4. Runs BY <1>2, <2>1, <2>2 DEF Runs, x
  <2> QED BY <1>0, <2>1, <2>3, <2>4 DEF x
<1>5. CASE PinAccess
  <2>1. /\ x[1] \in {"drive", "cut", "mute", "unmute"} /\ todo' = Tail(todo)
        /\ pin' = [p \in OutPins |-> IF p \notin x[2] \/ x[1] \in {"mute", "unmute"} THEN pin[p]
                              ELSE IF x[1] = "drive" THEN "out" ELSE "off"]
        /\ muted' = [p \in OutPins |-> IF p \notin x[2] \/ x[1] \in {"drive", "cut"} THEN muted[p]
                                ELSE x[1] = "mute"]
        /\ UNCHANGED <<alc_spec, pm_event, plugged, call, power, sleeps, lost, seen>>
        /\ UNCHANGED <<bits, mode, saved, fresh>>
    BY <1>1, <1>5 DEF PinAccess, Does, Rest, env
  <2>2. \A p \in OutPins : (x \in DriveOf(p) => x[1] = "drive" /\ p \in x[2])
                         /\ (x \in MuteOf(p) => x[1] = "mute" /\ p \in x[2])
    BY <2>1 DEF DriveOf, MuteOf
  <2>3. x \notin SenseOp BY <2>1 DEF SenseOp, Kind
  <2>4. x[1] \in {"mute", "unmute"} => pin' = pin BY <1>2, <2>1
  <2>5. pin' \in [OutPins -> {"off", "out"}] BY <1>2, <2>1
  <2>6. muted' \in [OutPins -> BOOLEAN] BY <1>2, <2>1
  <2>7. \A p \in OutPins :
         /\ x[1] \notin {"cut", "shutup_pins"} /\ pin[p] = "out" => pin'[p] = "out"
         /\ x[1] \notin {"drive", "gen_init"} /\ pin[p] = "off" => pin'[p] = "off"
         /\ x \in DriveOf(p) => pin'[p] = "out"
    BY <1>2, <2>1, <2>2
  <2>8. \A p \in OutPins :
         /\ x[1] \notin {"unmute", "sync"} /\ muted[p] => muted'[p]
         /\ x \in MuteOf(p) => muted'[p]
    BY <1>2, <2>1, <2>2
  <2>9. Runs BY <1>2, <2>1, <2>4, <2>5, <2>6, <2>7, <2>8 DEF Runs, x
  <2> QED BY <1>0, <2>1, <2>3, <2>9 DEF x
<1>6. CASE Generic
  <2>1. /\ x[1] \in {"shutup_pins", "gen_init", "sync"} /\ todo' = Tail(todo)
        /\ pin' = [p \in OutPins |-> CASE x[1] = "gen_init" -> "out"
                                [] x[1] = "shutup_pins" /\ ~alc_spec.no_shutup_pins -> "off"
                                [] OTHER -> pin[p]]
        /\ muted' = IF x[1] = "sync" THEN [p \in OutPins |-> FALSE] ELSE muted
        /\ UNCHANGED <<alc_spec, pm_event, plugged, call, power, sleeps, lost, seen>>
        /\ UNCHANGED <<bits, mode, saved, fresh>>
    BY <1>1, <1>6 DEF Generic, Does, Rest, env
  <2>2. \A p \in OutPins : (x \in DriveOf(p) => x[1] = "gen_init") /\ x \notin MuteOf(p)
    BY <2>1 DEF DriveOf, MuteOf
  <2>3. x \notin SenseOp BY <2>1 DEF SenseOp, Kind
  <2>4. x[1] = "sync" \/ (x[1] = "shutup_pins" /\ alc_spec.no_shutup_pins) => pin' = pin
    BY <1>2, <2>1
  <2>5. pin' \in [OutPins -> {"off", "out"}] BY <1>2, <2>1
  <2>6. muted' \in [OutPins -> BOOLEAN] BY <1>2, <2>1
  <2>7. \A p \in OutPins :
         /\ x[1] \notin {"cut", "shutup_pins"} /\ pin[p] = "out" => pin'[p] = "out"
         /\ x[1] \notin {"drive", "gen_init"} /\ pin[p] = "off" => pin'[p] = "off"
         /\ x \in DriveOf(p) => pin'[p] = "out"
    BY <1>2, <2>1, <2>2
  <2>8. \A p \in OutPins : x[1] \notin {"unmute", "sync"} /\ muted[p] => muted'[p]
    BY <2>1
  <2>9. Runs BY <1>2, <2>1, <2>2, <2>4, <2>5, <2>6, <2>7, <2>8 DEF Runs, x
  <2> QED BY <1>0, <2>1, <2>3, <2>9 DEF x
<1>7. CASE DepopPoll
  <2>1. x[1] = "poll" BY <1>1, <1>7 DEF DepopPoll, Does
  <2>2. x \notin SenseOp /\ x \in PollOp BY <1>0, <2>1 DEF SenseOp, PollOp, Kind, x
  <2>3. /\ UNCHANGED <<alc_spec, pm_event, plugged, call, power, sleeps, lost, seen>>
        /\ UNCHANGED <<pin, muted, mode, saved, bits>>
        /\ UNCHANGED <<todo, fresh>> \/ (todo' = Tail(todo) /\ fresh' = FALSE)
    BY <1>7 DEF DepopPoll, Rest, env, registers
  <2>4. \A p \in OutPins : x \notin DriveOf(p) /\ x \notin MuteOf(p)
    BY <2>1 DEF DriveOf, MuteOf
  <2>5. CASE UNCHANGED <<todo, fresh>> BY <1>0, <2>2, <2>3, <2>5 DEF Waits, x
  <2>6. CASE todo' = Tail(todo) /\ fresh' = FALSE
    <3>1. Runs BY <1>2, <2>1, <2>3, <2>4, <2>6 DEF Runs, x
    <3> QED BY <1>0, <2>2, <2>3, <3>1 DEF x
  <2> QED BY <2>3, <2>5, <2>6
<1> QED BY <1>3, <1>4, <1>5, <1>6, <1>7 DEF Plain

-----------------------------------------------------------------------------
(* What the procedures are made of.                                        *)

\* Sequences of accesses are put together from single ones.
LEMMA Pieces ==
    ASSUME NEW S
    PROVE  /\ <<>> \in Seq(S)
           /\ \A x \in S : <<x>> \in Seq(S)
           /\ \A p, q \in Seq(S) : p \o q \in Seq(S)
           /\ \A b, p : p \in Seq(S) => If(b, p) \in Seq(S)
<1>1. <<>> \in Seq(S) /\ \A x \in S : <<x>> \in Seq(S) OBVIOUS
<1>2. \A p, q \in Seq(S) : p \o q \in Seq(S) BY ConcatParts
<1>3. \A b, p : p \in Seq(S) => If(b, p) \in Seq(S) BY <1>1 DEF If
<1> QED BY <1>1, <1>2, <1>3

\* A list made of other accesses lacks them.
LEMMA Alphabet ==
    ASSUME NEW T, NEW q \in Seq(T), NEW S, T \cap S = {}
    PROVE  Lacks(q, S)
<1>1. \A i \in 1..Len(q) : q[i] \in T OBVIOUS
<1> QED BY <1>1 DEF Lacks

\* A list of some accesses is one of more accesses.
LEMMA Widen ==
    ASSUME NEW T, NEW S, T \subseteq S, NEW q \in Seq(T)
    PROVE  q \in Seq(S)
OBVIOUS

\* What the first part of init, up to the look at the jacks, is made of.
InitOps == ({"set", "clear"} \X {"dspRuns", "jdReset", "pathCut", "manual"})
           \cup {<<"set", "vbOutput">>, <<"set", "coefs">>, <<"clear", "low">>}
           \cup Kind({"mute", "cut", "poll", "sense"})
BootOps == InitOps \cup {<<"set", "eapd">>, <<"set", "gpio">>, <<"set", "keys">>,
                         <<"clear", "vbOutput">>} \cup Kind({"gen_init", "sync"})
\* What shutup is made of up to the look at the jacks.
SuspendOps == {<<"clear", "dspRuns">>, <<"clear", "vbOutput">>, <<"clear", "eapd">>,
               <<"set", "pull">>, <<"mode", "low">>} \cup Kind({"shutup_pins", "sense"})
InitSeenOps == Kind({"mode", "save", "restore", "mute", "drive", "unmute"}) \cup {<<"clear", "pull">>}
ShutupSeenOps == Kind({"mode", "save", "restore", "mute", "cut", "shutup_pins"})
                 \cup {<<"clear", "eapd">>, <<"set", "low">>}
                 \cup ({"set", "clear"} \X {"pull", "keys"})

\* They are accesses.
LEMMA OpsAre ==
    /\ InitOps \subseteq Accesses /\ BootOps \subseteq Accesses /\ SuspendOps \subseteq Accesses
    /\ InitSeenOps \subseteq Accesses /\ ShutupSeenOps \subseteq Accesses
BY DEF InitOps, BootOps, SuspendOps, InitSeenOps, ShutupSeenOps, Accesses, Kind, Switches

\* The accesses that take pins, or name the one thing they can do.
LEMMA PinOps ==
    /\ \A s \in SUBSET OutPins : s # {} => /\ <<"mute", s>> \in Kind({"mute"})
                                           /\ <<"unmute", s>> \in Kind({"unmute"})
                                           /\ <<"drive", s>> \in Kind({"drive"})
                                           /\ <<"cut", s>> \in Kind({"cut"})
    /\ <<"poll", "depop">> \in Kind({"poll"}) /\ <<"sense", "jacks">> \in Kind({"sense"})
    /\ <<"gen_init", "all">> \in Kind({"gen_init"}) /\ <<"sync", "all">> \in Kind({"sync"})
    /\ <<"shutup_pins", "all">> \in Kind({"shutup_pins"})
    /\ <<"save", "mode">> \in Kind({"save"}) /\ <<"restore", "mode">> \in Kind({"restore"})
    /\ \A m \in {"low", "high", "normal"} : <<"mode", m>> \in Kind({"mode"})
    /\ \A k, l : k \subseteq l => Kind(k) \subseteq Kind(l)
BY DEF Kind, Accesses

\* Every init hook is made of these.
LEMMA InitHookOps == init_hook \in Seq(InitOps)
<1> DEFINE S == InitOps
<1>1. /\ Set("dspRuns") \in Seq(S) /\ Clear("dspRuns") \in Seq(S) /\ Set("jdReset") \in Seq(S)
      /\ Clear("jdReset") \in Seq(S) /\ Set("pathCut") \in Seq(S) /\ Clear("pathCut") \in Seq(S)
      /\ Set("manual") \in Seq(S) /\ Clear("manual") \in Seq(S) /\ Set("vbOutput") \in Seq(S)
      /\ Set("coefs") \in Seq(S) /\ Clear("low") \in Seq(S)
  BY DEF InitOps, Set, Clear
<1>2. Kind({"mute", "cut", "poll", "sense"}) \subseteq S BY DEF InitOps
<1>3. /\ \A s \in SUBSET OutPins : Pin("mute", s) \in Seq(S) /\ Pin("cut", s) \in Seq(S)
      /\ Depop \in Seq(S) /\ Sense \in Seq(S)
  <2>1. Kind({"mute"}) \subseteq S /\ Kind({"cut"}) \subseteq S /\ Kind({"poll"}) \subseteq S
        /\ Kind({"sense"}) \subseteq S
    BY <1>2, PinOps
  <2>2. \A s \in SUBSET OutPins : s # {} => <<"mute", s>> \in S /\ <<"cut", s>> \in S
    BY <2>1, PinOps
  <2>3. <<"poll", "depop">> \in S /\ <<"sense", "jacks">> \in S BY <2>1, PinOps
  <2> HIDE DEF S
  <2>4. \A s \in SUBSET OutPins : Pin("mute", s) \in Seq(S) /\ Pin("cut", s) \in Seq(S)
    <3>1. ASSUME NEW s \in SUBSET OutPins PROVE Pin("mute", s) \in Seq(S) /\ Pin("cut", s) \in Seq(S)
      <4>1. CASE s = {} BY <4>1, Pieces DEF Pin, If
      <4>2. CASE s # {}
        <5>1. <<<<"mute", s>>>> \in Seq(S) /\ <<<<"cut", s>>>> \in Seq(S) BY <2>2, <4>2, Pieces
        <5> QED BY <4>2, <5>1 DEF Pin, If
      <4> QED BY <4>1, <4>2
    <3> QED BY <3>1
  <2> QED BY <2>3, <2>4, Pieces DEF Depop, Sense
<1>4. Cut({"hp"}) \in Seq(S) /\ {"hp"} \in SUBSET OutPins /\ {} \in SUBSET OutPins
  <2>1. {"hp"} \in SUBSET OutPins BY DEF OutPins
  <2>2. Pin("cut", {"hp"}) \in Seq(S) BY <1>3, <2>1
  <2> HIDE DEF S
  <2> QED BY <2>1, <2>2, Pieces DEF Cut
<1> HIDE DEF S
<1>5. <<>> \in Seq(S) /\ (\A p, q \in Seq(S) : p \o q \in Seq(S))
      /\ \A b, p : p \in Seq(S) => If(b, p) \in Seq(S)
  BY Pieces
<1>6. wake \in Seq(S) BY <1>1, <1>5 DEF wake
<1>7. alc5505_dsp_init \in Seq(S)
  BY <1>1, <1>5 DEF alc5505_dsp_init, alc5505_dsp_halt, alc5505_dsp_back_from_halt
<1>8. alc269_fill_coef \in Seq(S) BY <1>1, <1>5 DEF alc269_fill_coef
<1>9. alc282_init \in Seq(S) /\ alc283_init \in Seq(S)
  BY <1>1, <1>3, <1>5 DEF alc282_init, alc283_init, restore_default_value
<1>10. alc256_init \in Seq(S) BY <1>3, <1>5, <1>6 DEF alc256_init
<1>11. alc285_hp_init \in Seq(S)
  <2> DEFINE hp == IF alc_spec.hp_pin THEN {"hp"} ELSE {}
  <2>1. hp \in SUBSET OutPins BY <1>4
  <2>2. Pin("mute", hp) \in Seq(S) /\ Pin("cut", hp) \in Seq(S) BY <1>3, <2>1
  <2> HIDE DEF hp
  <2>3. Set("jdReset") \o Set("pathCut") \o Pin("mute", hp) \o Pin("cut", hp)
        \o Depop \o Clear("pathCut") \o Clear("jdReset") \in Seq(S)
    BY <1>1, <1>3, <1>5, <2>2
  <2> QED BY <2>3 DEF alc285_hp_init, hp
<1>12. alc225_init \in Seq(S) BY <1>3, <1>5, <1>6, <1>11 DEF alc225_init
<1>13. alc294_hp_init \in Seq(S) BY <1>1, <1>3, <1>4, <1>5 DEF alc294_hp_init
<1>14. alc294_init \in Seq(S) BY <1>3, <1>5, <1>13 DEF alc294_init
<1>15. If(alc_spec.hp_pin, Sense) \in Seq(S) BY <1>3, <1>5
<1>16. init_hook \in Seq(S)
  BY <1>5, <1>7, <1>8, <1>9, <1>10, <1>12, <1>14, <1>15 DEF init_hook
<1> QED BY <1>16 DEF S

\* What boot and resume are made of, once the first part of init is.
LEMMA BootHas == Boot \in Seq(BootOps) /\ alc269_resume \in Seq(BootOps)
<1> DEFINE S == BootOps
<1>1. init_hook \in Seq(S) BY InitHookOps, Widen DEF BootOps
<1>2. /\ Set("eapd") \in Seq(S) /\ Set("gpio") \in Seq(S) /\ Set("keys") \in Seq(S)
      /\ Clear("vbOutput") \in Seq(S)
  BY DEF BootOps, Set, Clear
<1>3. /\ Set("vbOutput") \in Seq(S) /\ Set("dspRuns") \in Seq(S)
  BY DEF BootOps, InitOps, Set, Clear
<1>4. <<<<"gen_init", "all">>>> \in Seq(S) /\ <<<<"sync", "all">>>> \in Seq(S)
  <2>1. Kind({"gen_init"}) \subseteq S /\ Kind({"sync"}) \subseteq S
    <3>1. Kind({"gen_init", "sync"}) \subseteq S BY DEF BootOps
    <3> QED BY <3>1, PinOps
  <2>2. <<"gen_init", "all">> \in S /\ <<"sync", "all">> \in S BY <2>1, PinOps
  <2> QED BY <2>2, Pieces
<1> HIDE DEF S
<1>5. <<>> \in Seq(S) /\ (\A p, q \in Seq(S) : p \o q \in Seq(S))
      /\ \A b, p : p \in Seq(S) => If(b, p) \in Seq(S)
  BY Pieces
<1>6. gen_init \in Seq(S) /\ alc_write_gpio_data \in Seq(S) /\ alc_fixup_headset_jack \in Seq(S)
  BY <1>2, <1>4, <1>5
  DEF gen_init, alc_write_gpio_data, alc_fixup_headset_jack, alc_enable_headset_jack_key
<1>7. /\ alc269vb_toggle_power_output(FALSE) \in Seq(S)
      /\ alc269vb_toggle_power_output(TRUE) \in Seq(S)
  <2>1. alc269vb_toggle_power_output(FALSE) = If(IsVB, Clear("vbOutput"))
    BY DEF alc269vb_toggle_power_output
  <2>2. alc269vb_toggle_power_output(TRUE) = If(IsVB, Set("vbOutput"))
    BY DEF alc269vb_toggle_power_output
  <2>3. If(IsVB, Clear("vbOutput")) \in Seq(S) BY <1>2, <1>5
  <2>4. If(IsVB, Set("vbOutput")) \in Seq(S) BY <1>3, <1>5
  <2> QED BY <2>1, <2>2, <2>3, <2>4
<1>8. If(HasDsp /\ ~alc_spec.halt, alc5505_dsp_back_from_halt) \in Seq(S)
  BY <1>3, <1>5 DEF alc5505_dsp_back_from_halt
<1>9. Boot \in Seq(S) BY <1>1, <1>5, <1>6 DEF Boot
<1>10. alc269_resume \in Seq(S) BY <1>1, <1>4, <1>5, <1>6, <1>7, <1>8 DEF alc269_resume
<1> QED BY <1>9, <1>10 DEF S

\* And suspend of those.
LEMMA SuspendHas == alc269_suspend \in Seq(SuspendOps)
<1> DEFINE S == SuspendOps
<1>1. /\ Clear("dspRuns") \in Seq(S) /\ Clear("vbOutput") \in Seq(S) /\ Clear("eapd") \in Seq(S)
      /\ Set("pull") \in Seq(S) /\ Mode("low") \in Seq(S)
  BY DEF SuspendOps, Set, Clear, Mode
<1>2. <<<<"shutup_pins", "all">>>> \in Seq(S) /\ Sense \in Seq(S)
  <2>1. Kind({"shutup_pins"}) \subseteq S /\ Kind({"sense"}) \subseteq S
    <3>1. Kind({"shutup_pins", "sense"}) \subseteq S BY DEF SuspendOps
    <3> QED BY <3>1, PinOps
  <2>2. <<"shutup_pins", "all">> \in S /\ <<"sense", "jacks">> \in S BY <2>1, PinOps
  <2> QED BY <2>2, Pieces DEF Sense
<1> HIDE DEF S
<1>5. <<>> \in Seq(S) /\ (\A p, q \in Seq(S) : p \o q \in Seq(S))
      /\ \A b, p : p \in Seq(S) => If(b, p) \in Seq(S)
  BY Pieces
<1>6. shutup_pins \in Seq(S) BY <1>1, <1>2, <1>5 DEF shutup_pins
<1>7. alc269vb_toggle_power_output(FALSE) = If(IsVB, Clear("vbOutput"))
  BY DEF alc269vb_toggle_power_output
<1>8. alc269_shutup \in Seq(S) BY <1>1, <1>5, <1>6, <1>7 DEF alc269_shutup
<1>9. alc256_3k \in Seq(S) BY <1>1, <1>2, <1>5 DEF alc256_3k
<1>10. shutup \in Seq(S) BY <1>2, <1>8, <1>9 DEF shutup
<1>11. alc269_suspend \in Seq(S) BY <1>1, <1>5, <1>10 DEF alc269_suspend, alc5505_dsp_halt
<1> QED BY <1>11 DEF S

\* The part of init that depends on the jacks which were seen.
LEMMA InitSeenHas == ASSUME NEW s \in SUBSET OutPins PROVE InitSeen(s) \in Seq(InitSeenOps)
<1> DEFINE S == InitSeenOps
<1>0. {"hp"} \in SUBSET OutPins BY DEF OutPins
<1>1. /\ <<"clear", "pull">> \in S
      /\ \A k \in {"mode", "save", "restore", "mute", "drive", "unmute"} : Kind({k}) \subseteq S
  <2>1. Kind({"mode", "save", "restore", "mute", "drive", "unmute"}) \subseteq S BY DEF InitSeenOps
  <2>2. \A k \in {"mode", "save", "restore", "mute", "drive", "unmute"} :
          Kind({k}) \subseteq Kind({"mode", "save", "restore", "mute", "drive", "unmute"})
    BY PinOps
  <2> QED BY <2>1, <2>2 DEF InitSeenOps
<1> HIDE DEF S
<1>2. \A m \in {"low", "high", "normal"} : Mode(m) \in Seq(S)
  <2>1. \A m \in {"low", "high", "normal"} : <<"mode", m>> \in S BY <1>1, PinOps
  <2> QED BY <2>1, Pieces DEF Mode
<1>3. <<<<"save", "mode">>>> \in Seq(S) /\ <<<<"restore", "mode">>>> \in Seq(S)
  <2>1. <<"save", "mode">> \in S /\ <<"restore", "mode">> \in S BY <1>1, PinOps
  <2> QED BY <2>1, Pieces
<1>4. ASSUME NEW t \in SUBSET OutPins, NEW k \in {"mute", "drive", "unmute"}
      PROVE  Pin(k, t) \in Seq(S)
  <2>1. CASE t = {} BY <2>1, Pieces DEF Pin, If
  <2>2. CASE t # {}
    <3>1. <<k, t>> \in S BY <1>1, <2>2, PinOps
    <3>2. <<<<k, t>>>> \in Seq(S) BY <3>1, Pieces
    <3> QED BY <2>2, <3>2 DEF Pin, If
  <2> QED BY <2>1, <2>2
<1>5. Clear("pull") \in Seq(S) BY <1>1, Pieces DEF Clear
<1>6. <<>> \in Seq(S) /\ (\A p, q \in Seq(S) : p \o q \in Seq(S))
      /\ \A b, p : p \in Seq(S) => If(b, p) \in Seq(S)
  BY Pieces
<1>7. /\ Pin("mute", {"hp"}) \in Seq(S) /\ Pin("drive", {"hp"}) \in Seq(S)
      /\ Drive(s) \in Seq(S)
  BY <1>0, <1>4, <1>6 DEF Drive
<1>8. alc282_init_seen \in Seq(S) BY <1>2, <1>3, <1>6, <1>7 DEF alc282_init_seen
<1>9. alc283_init_seen \in Seq(S) BY <1>2, <1>5, <1>6, <1>7 DEF alc283_init_seen
<1>10. alc256_init_seen(s) \in Seq(S)
  <2>1. Mode("low") \o Drive(s) \o Mode("high") \in Seq(S) BY <1>2, <1>6, <1>7
  <2>2. If(s # {}, Mode("low") \o Drive(s) \o Mode("high")) \in Seq(S) BY <1>6, <2>1
  <2> QED BY <1>5, <1>6, <2>2 DEF alc256_init_seen
<1>11. alc225_init_seen(s) \in Seq(S)
  <2>1. Mode("low") \o Drive(s) \o Clear("pull") \o Mode("high") \in Seq(S)
    BY <1>2, <1>5, <1>6, <1>7
  <2> QED BY <1>6, <2>1 DEF alc225_init_seen
<1> QED BY <1>7, <1>8, <1>9, <1>10, <1>11 DEF InitSeen, S

\* The part of shutup that depends on the jacks which were seen.
LEMMA ShutupSeenHas == ASSUME NEW s \in SUBSET OutPins PROVE ShutupSeen(s) \in Seq(ShutupSeenOps)
<1> DEFINE S == ShutupSeenOps
<1>0. {"hp"} \in SUBSET OutPins BY DEF OutPins
<1>1. \A k \in {"mode", "save", "restore", "mute", "cut", "shutup_pins"} : Kind({k}) \subseteq S
  <2>1. Kind({"mode", "save", "restore", "mute", "cut", "shutup_pins"}) \subseteq S
    BY DEF ShutupSeenOps
  <2>2. \A k \in {"mode", "save", "restore", "mute", "cut", "shutup_pins"} :
          Kind({k}) \subseteq Kind({"mode", "save", "restore", "mute", "cut", "shutup_pins"})
    BY PinOps
  <2> QED BY <2>1, <2>2
<1>2. /\ Clear("eapd") \in Seq(S) /\ Set("low") \in Seq(S) /\ Set("pull") \in Seq(S)
      /\ Clear("pull") \in Seq(S) /\ Set("keys") \in Seq(S) /\ Clear("keys") \in Seq(S)
  BY DEF ShutupSeenOps, Set, Clear
<1> HIDE DEF S
<1>3. \A m \in {"low", "high", "normal"} : Mode(m) \in Seq(S)
  <2>1. \A m \in {"low", "high", "normal"} : <<"mode", m>> \in S BY <1>1, PinOps
  <2> QED BY <2>1, Pieces DEF Mode
<1>4. /\ <<<<"save", "mode">>>> \in Seq(S) /\ <<<<"restore", "mode">>>> \in Seq(S)
      /\ <<<<"shutup_pins", "all">>>> \in Seq(S)
  <2>1. <<"save", "mode">> \in S /\ <<"restore", "mode">> \in S /\ <<"shutup_pins", "all">> \in S
    BY <1>1, PinOps
  <2> QED BY <2>1, Pieces
<1>5. ASSUME NEW t \in SUBSET OutPins, NEW k \in {"mute", "cut"}
      PROVE  Pin(k, t) \in Seq(S)
  <2>1. CASE t = {} BY <2>1, Pieces DEF Pin, If
  <2>2. CASE t # {}
    <3>1. <<k, t>> \in S BY <1>1, <2>2, PinOps
    <3>2. <<<<k, t>>>> \in Seq(S) BY <3>1, Pieces
    <3> QED BY <2>2, <3>2 DEF Pin, If
  <2> QED BY <2>1, <2>2
<1>6. <<>> \in Seq(S) /\ (\A p, q \in Seq(S) : p \o q \in Seq(S))
      /\ \A b, p : p \in Seq(S) => If(b, p) \in Seq(S)
  BY Pieces
<1>7. /\ \A t \in SUBSET OutPins : Cut(t) \in Seq(S)
      /\ shutup_pins \in Seq(S) /\ doze \in Seq(S)
      /\ alc_disable_headset_jack_key \in Seq(S) /\ alc_enable_headset_jack_key \in Seq(S)
  <2>1. \A t \in SUBSET OutPins : Cut(t) \in Seq(S) BY <1>5, <1>6 DEF Cut
  <2>2. shutup_pins \in Seq(S) BY <1>2, <1>4, <1>6 DEF shutup_pins
  <2>3. doze \in Seq(S) BY <1>2, <1>6 DEF doze
  <2>4. alc_disable_headset_jack_key \in Seq(S) /\ alc_enable_headset_jack_key \in Seq(S)
    BY <1>2, <1>6 DEF alc_disable_headset_jack_key, alc_enable_headset_jack_key
  <2> QED BY <2>1, <2>2, <2>3, <2>4
<1>8. alc282_shutup \in Seq(S) BY <1>0, <1>3, <1>4, <1>5, <1>6, <1>7 DEF alc282_shutup
<1>9. alc283_shutup \in Seq(S) BY <1>0, <1>2, <1>3, <1>5, <1>6, <1>7 DEF alc283_shutup
<1>10. alc256_shutup(s) \in Seq(S) BY <1>5, <1>6, <1>7 DEF alc256_shutup
<1>11. alc225_shutup(s) \in Seq(S)
  <2> DEFINE core == alc_disable_headset_jack_key \o Set("pull") \o Pin("mute", s)
               \o Pin("cut", s) \o Clear("pull") \o alc_enable_headset_jack_key
  <2>1. Pin("mute", s) \in Seq(S) /\ Pin("cut", s) \in Seq(S) BY <1>5
  <2>2. core \in Seq(S) BY <1>2, <1>6, <1>7, <2>1
  <2>3. alc225_shutup(s) = If(s # {}, core) \o shutup_pins \o doze BY DEF alc225_shutup
  <2> HIDE DEF core
  <2>4. If(s # {}, core) \in Seq(S) BY <1>6, <2>2
  <2> QED BY <1>6, <1>7, <2>3, <2>4
<1>12. alc222_shutup(s) \in Seq(S) BY <1>5, <1>6, <1>7 DEF alc222_shutup
<1>13. alc_default_shutup(s) \in Seq(S) BY <1>5, <1>6, <1>7 DEF alc_default_shutup
<1> QED BY <1>8, <1>9, <1>10, <1>11, <1>12, <1>13 DEF ShutupSeen, S

-----------------------------------------------------------------------------
(* How sequences are put together, and the small hooks.                    *)

\* How the rest of a call follows from its parts.
LEMMA Rules ==
    ASSUME NEW p \in Seq(Accesses), NEW q \in Seq(Accesses)
    PROVE  /\ p \o q \in Seq(Accesses)
           /\ \A S : Lacks(p, S) /\ Lacks(q, S) => Lacks(p \o q, S)
           /\ \A A, B : Lasts(q, A, B) \/ (Lasts(p, A, B) /\ Lacks(q, B)) => Lasts(p \o q, A, B)
           /\ \A A, B : Leads(p, A, B) \/ (Lacks(p, B) /\ Leads(q, A, B)) => Leads(p \o q, A, B)
           /\ \A A, B : Never(p, A, B) /\ Never(q, A, B) /\ (Lacks(p, A) \/ Lacks(q, B))
                        => Never(p \o q, A, B)
BY LacksConcat, LastsConcat, LeadsConcat, NeverConcat, ConcatParts

\* Setting a switch has the last word on it and leaves the others alone.
LEMMA SetAndClear ==
    /\ \A b \in Switches : Set(b) \in Seq(Accesses) /\ Clear(b) \in Seq(Accesses)
    /\ \A b, B : Lasts(Set(b), Sets(b), B) /\ Lasts(Clear(b), Clears(b), B)
    /\ \A b, B : Leads(Set(b), Sets(b), B) /\ Leads(Clear(b), Clears(b), B)
    /\ \A b, c : c # b => Lacks(Set(b), Sets(c)) /\ Lacks(Clear(b), Clears(c))
    /\ \A b, c : Lacks(Set(b), Clears(c)) /\ Lacks(Clear(b), Sets(c))
<1>1. \A b \in Switches : <<"set", b>> \in Accesses /\ <<"clear", b>> \in Accesses
  BY DEF Accesses
<1>2. \A b \in Switches : Set(b) \in Seq(Accesses) /\ Clear(b) \in Seq(Accesses)
  BY <1>1, Pieces DEF Set, Clear
<1>3. \A b : <<"set", b>> \in Sets(b) /\ <<"clear", b>> \in Clears(b) BY DEF Sets, Clears
<1>4. \A b, c : <<"set", b>> \notin Clears(c) /\ <<"clear", b>> \notin Sets(c)
  BY DEF Sets, Clears
<1>5. \A b, c : c # b => <<"set", b>> \notin Sets(c) /\ <<"clear", b>> \notin Clears(c)
  BY DEF Sets, Clears
<1> QED BY <1>2, <1>3, <1>4, <1>5, OneLacks, OneLasts DEF Set, Clear

\* A look at the jacks.
LEMMA SenseIs ==
    /\ Sense \in Seq(Accesses) /\ Len(Sense) = 1 /\ Sense[1] \in SenseOp
    /\ \A B : Lasts(Sense, SenseOp, B) /\ \A A : Never(Sense, A, B)
    /\ \A S : S \cap SenseOp = {} => Lacks(Sense, S)
<1>1. <<"sense", "jacks">> \in SenseOp /\ <<"sense", "jacks">> \in Accesses
  BY PinOps DEF SenseOp, Kind
<1>2. Sense \in Seq(Accesses) BY <1>1, Pieces DEF Sense
<1>3. \A B : Lasts(Sense, SenseOp, B) BY <1>1, OneLasts DEF Sense
<1>4. \A S : S \cap SenseOp = {} => <<"sense", "jacks">> \notin S BY <1>1
<1>5. \A S : S \cap SenseOp = {} => Lacks(Sense, S) BY <1>4, OneLacks DEF Sense
<1>6. Len(Sense) = 1 /\ Sense[1] = <<"sense", "jacks">> BY DEF Sense
<1>7. \A A, B : Never(Sense, A, B) BY <1>6 DEF Never
<1> QED BY <1>1, <1>2, <1>3, <1>5, <1>6, <1>7

\* The init hook of each variant.
LEMMA HookIs ==
    ASSUME alc_spec \in PowerMachines
    PROVE  /\ HasDsp => init_hook = alc5505_dsp_init /\ alc_spec.variant = "ALC280"
           /\ alc_spec.variant = "ALC269VB" => init_hook = alc269_fill_coef
           /\ alc_spec.variant = "ALC269VA" => init_hook = <<>>
           /\ alc_spec.variant = "ALC282" => init_hook = alc282_init
           /\ alc_spec.variant = "ALC283" => init_hook = alc283_init
           /\ alc_spec.variant \in Is256 => init_hook = alc256_init
           /\ alc_spec.variant \in Is225 => init_hook = alc225_init
           /\ alc_spec.variant = "ALC294" => init_hook = alc294_init
           /\ alc_spec.variant \in {"ALC280", "ALC623"} /\ ~HasDsp =>
                init_hook = If(alc_spec.hp_pin, Sense)
           /\ alc_spec.variant \in {"ALC269VA", "ALC269VB", "ALC280", "ALC282", "ALC283",
                                    "ALC623", "ALC294"} \cup Is256 \cup Is225
           /\ alc_spec.hp_pin \in BOOLEAN /\ alc_spec.halt \in BOOLEAN
           /\ alc_spec.ultra_low_power \in BOOLEAN /\ alc_spec.no_shutup_pins \in BOOLEAN
           /\ alc_spec.gpio_data \in BOOLEAN /\ alc_spec.en_3kpull_low \in BOOLEAN
           /\ alc_spec.has_hs_key \in BOOLEAN /\ alc_spec.has_alc5505_dsp \in BOOLEAN
<1>1. alc_spec \in PowerMachine BY CodecAssumption
<1>2. HasDsp => alc_spec.variant = "ALC280" BY CodecAssumption DEF HasDsp
<1>3. /\ alc_spec.hp_pin \in BOOLEAN /\ alc_spec.halt \in BOOLEAN
      /\ alc_spec.ultra_low_power \in BOOLEAN /\ alc_spec.no_shutup_pins \in BOOLEAN
      /\ alc_spec.gpio_data \in BOOLEAN /\ alc_spec.en_3kpull_low \in BOOLEAN
      /\ alc_spec.has_hs_key \in BOOLEAN /\ alc_spec.has_alc5505_dsp \in BOOLEAN
  BY <1>1 DEF PowerMachine
<1>4. alc_spec.variant \in {"ALC269VA", "ALC269VB", "ALC280", "ALC282", "ALC283",
                                    "ALC623", "ALC294"} \cup Is256 \cup Is225
  BY <1>1 DEF PowerMachine
<1>5. HasDsp \in BOOLEAN BY <1>3 DEF HasDsp
<1>6. HasDsp => init_hook = alc5505_dsp_init BY <1>2, <1>4, <1>5 DEF init_hook, Is256, Is225
<1>7. /\ alc_spec.variant = "ALC269VB" => init_hook = alc269_fill_coef
      /\ alc_spec.variant = "ALC269VA" => init_hook = <<>>
      /\ alc_spec.variant = "ALC282" => init_hook = alc282_init
      /\ alc_spec.variant = "ALC283" => init_hook = alc283_init
  BY <1>2, <1>5 DEF init_hook, Is256, Is225
<1>8. /\ alc_spec.variant \in Is256 => init_hook = alc256_init
      /\ alc_spec.variant \in Is225 => init_hook = alc225_init
      /\ alc_spec.variant = "ALC294" => init_hook = alc294_init
      /\ alc_spec.variant \in {"ALC280", "ALC623"} /\ ~HasDsp =>
           init_hook = If(alc_spec.hp_pin, Sense)
  BY <1>2, <1>5 DEF init_hook, Is256, Is225
<1> QED BY <1>2, <1>3, <1>4, <1>6, <1>7, <1>8

\* The hook of ALC5505 leaves its DSP as the quirk wants it.
LEMMA DspHook ==
    /\ alc5505_dsp_init \in Seq(Accesses) /\ Lacks(alc5505_dsp_init, SenseOp)
    /\ alc_spec.halt => Lasts(alc5505_dsp_init, Clears("dspRuns"), Sets("dspRuns"))
    /\ ~alc_spec.halt => Lasts(alc5505_dsp_init, Sets("dspRuns"), Clears("dspRuns"))
<1> DEFINE off == Clear("dspRuns")  on == Set("dspRuns")
<1>1. /\ off \in Seq(Accesses) /\ on \in Seq(Accesses)
      /\ Lasts(off, Clears("dspRuns"), Sets("dspRuns")) /\ Lasts(on, Sets("dspRuns"), Clears("dspRuns"))
  BY SetAndClear DEF Switches
<1>2. Lacks(off, SenseOp) /\ Lacks(on, SenseOp)
  <2>1. <<"set", "dspRuns">> \notin SenseOp /\ <<"clear", "dspRuns">> \notin SenseOp
    BY DEF SenseOp, Kind
  <2> QED BY <2>1, OneLacks DEF Set, Clear
<1>3. <<>> \in Seq(Accesses) BY Pieces
<1>4. \A S : Lacks(<<>>, S) BY EmptyLacks
<1>5. alc5505_dsp_init = (off \o on) \o If(alc_spec.halt, off)
  BY DEF alc5505_dsp_init, alc5505_dsp_halt, alc5505_dsp_back_from_halt
<1> HIDE DEF off, on
<1>6. /\ off \o on \in Seq(Accesses) /\ Lacks(off \o on, SenseOp)
      /\ Lasts(off \o on, Sets("dspRuns"), Clears("dspRuns"))
  BY <1>1, <1>2, Rules
<1>7. CASE alc_spec.halt
  <2>1. If(alc_spec.halt, off) = off BY <1>7 DEF If
  <2> QED BY <1>1, <1>2, <1>5, <1>6, <1>7, <2>1, Rules
<1>8. CASE ~alc_spec.halt
  <2>1. If(alc_spec.halt, off) = <<>> BY <1>8 DEF If
  <2> QED BY <1>3, <1>4, <1>5, <1>6, <1>8, <2>1, Rules
<1> QED BY <1>7, <1>8

\* Waking from ultra low power opens no pin.
LEMMA WakeIs ==
    /\ wake \in Seq(Accesses) /\ Lacks(wake, SenseOp) /\ Lacks(wake, Opens)
    /\ alc_spec.ultra_low_power => Lasts(wake, Clears("low"), Sets("low"))
<1>1. Clear("low") \in Seq(Accesses) /\ Lasts(Clear("low"), Clears("low"), Sets("low"))
  BY SetAndClear DEF Switches
<1>2. Lacks(Clear("low"), SenseOp) /\ Lacks(Clear("low"), Opens)
  <2>1. <<"clear", "low">> \notin SenseOp /\ <<"clear", "low">> \notin Opens
    BY DEF SenseOp, Opens, Kind
  <2> QED BY <2>1, OneLacks DEF Clear
<1>3. CASE alc_spec.ultra_low_power
  <2>1. wake = Clear("low") BY <1>3 DEF wake, If
  <2> QED BY <1>1, <1>2, <2>1
<1>4. CASE ~alc_spec.ultra_low_power
  <2>1. wake = <<>> BY <1>4 DEF wake, If
  <2> QED BY <1>4, <2>1, Pieces, EmptyLacks
<1> QED BY <1>3, <1>4

\* The end of a hook that looks at the jacks, and nothing behind it.
LEMMA ThenSense ==
    ASSUME NEW p \in Seq(Accesses), Lacks(p, SenseOp)
    PROVE  /\ p \o Sense \in Seq(Accesses)
           /\ Lasts(p \o Sense, SenseOp, {}) /\ Never(p \o Sense, SenseOp, Accesses)
           /\ \A b \in Switches :
                /\ Lasts(p, Sets(b), Clears(b)) => Lasts(p \o Sense, Sets(b), Clears(b))
                /\ Lasts(p, Clears(b), Sets(b)) => Lasts(p \o Sense, Clears(b), Sets(b))
           /\ \A A, B : Leads(p, A, B) => Leads(p \o Sense, A, B)
<1>1. Lasts(Sense, SenseOp, {}) BY SenseIs
<1>2. Never(p, SenseOp, Accesses) BY DEF Never, Lacks
<1>3. Never(p \o Sense, SenseOp, Accesses) BY <1>2, SenseIs, Rules
<1>4. Lasts(p \o Sense, SenseOp, {}) BY <1>1, SenseIs, Rules
<1>5. \A b : Sets(b) \cap SenseOp = {} /\ Clears(b) \cap SenseOp = {}
  BY DEF Sets, Clears, SenseOp, Kind
<1>6. \A b : Lacks(Sense, Sets(b)) /\ Lacks(Sense, Clears(b)) BY <1>5, SenseIs
<1> QED BY <1>3, <1>4, <1>6, SenseIs, Rules

\* The hooks of ALC282 and ALC283 fill in the coefficients and look at the jacks last.
LEMMA CoefsHook ==
    /\ alc282_init \in Seq(Accesses) /\ alc283_init \in Seq(Accesses)
    /\ Lasts(alc282_init, Sets("coefs"), Clears("coefs"))
    /\ Lasts(alc283_init, Sets("coefs"), Clears("coefs"))
    /\ Never(alc282_init, SenseOp, Accesses) /\ Never(alc283_init, SenseOp, Accesses)
    /\ alc_spec.hp_pin => Lasts(alc283_init, SenseOp, {})
    /\ ~alc_spec.hp_pin => Lacks(alc282_init, SenseOp) /\ Lacks(alc283_init, SenseOp)
<1>1. /\ restore_default_value \in Seq(Accesses) /\ Lacks(restore_default_value, SenseOp)
      /\ Lasts(restore_default_value, Sets("coefs"), Clears("coefs"))
      /\ Never(restore_default_value, SenseOp, Accesses)
  <2>1. Set("coefs") \in Seq(Accesses) /\ Lasts(Set("coefs"), Sets("coefs"), Clears("coefs"))
    BY SetAndClear DEF Switches
  <2>2. <<"set", "coefs">> \notin SenseOp BY DEF SenseOp, Kind
  <2>3. Lacks(Set("coefs"), SenseOp) BY <2>2, OneLacks DEF Set
  <2>4. Never(Set("coefs"), SenseOp, Accesses) BY <2>3 DEF Never, Lacks
  <2> QED BY <2>1, <2>3, <2>4 DEF restore_default_value
<1>2. alc283_init = alc282_init BY DEF alc282_init, alc283_init
<1>3. CASE alc_spec.hp_pin
  <2>1. alc282_init = restore_default_value \o Sense BY <1>3 DEF alc282_init, If
  <2>2. "coefs" \in Switches BY DEF Switches
  <2> QED BY <1>1, <1>2, <1>3, <2>1, <2>2, ThenSense
<1>4. CASE ~alc_spec.hp_pin
  <2>1. alc282_init = restore_default_value \o <<>> BY <1>4 DEF alc282_init, If
  <2>2. restore_default_value \o <<>> = restore_default_value BY <1>1
  <2> QED BY <1>1, <1>2, <1>4, <2>1, <2>2
<1> QED BY <1>3, <1>4

\* The hook of ALC256 wakes the codec and looks at the jacks last.
LEMMA Hook256 ==
    /\ alc256_init \in Seq(Accesses) /\ Never(alc256_init, SenseOp, Accesses)
    /\ Lasts(alc256_init, SenseOp, {})
    /\ alc_spec.ultra_low_power => Lasts(alc256_init, Clears("low"), Sets("low"))
<1>1. "low" \in Switches BY DEF Switches
<1> QED BY <1>1, WakeIs, ThenSense DEF alc256_init

\* The depop procedure: what it switches it switches back, and no pin is driven in it.
LEMMA Depop285 ==
    /\ alc285_hp_init \in Seq(Accesses) /\ Lacks(alc285_hp_init, SenseOp)
    /\ Leads(alc285_hp_init, PollOp, Opens)
    /\ Lasts(alc285_hp_init, Clears("jdReset"), Sets("jdReset"))
    /\ Lasts(alc285_hp_init, Clears("pathCut"), Sets("pathCut"))
    /\ Lacks(alc285_hp_init, Sets("low"))
<1> DEFINE hp == IF alc_spec.hp_pin THEN {"hp"} ELSE {}
           jd == Set("jdReset")  cut == Set("pathCut")
           front == jd \o cut \o Pin("mute", hp) \o Pin("cut", hp)
           S == ({"set"} \X {"jdReset", "pathCut"}) \cup Kind({"mute", "cut"})
<1>1. front \in Seq(S) /\ S \subseteq Accesses
  <2>1. hp \in SUBSET OutPins BY DEF OutPins
  <2>2. Kind({"mute"}) \subseteq Kind({"mute", "cut"}) /\ Kind({"cut"}) \subseteq Kind({"mute", "cut"})
    BY PinOps
  <2>3. hp # {} => <<"mute", hp>> \in S /\ <<"cut", hp>> \in S BY <2>1, <2>2, PinOps
  <2>4. Set("jdReset") \in Seq(S) /\ Set("pathCut") \in Seq(S) BY DEF Set
  <2>5. S \subseteq Accesses BY DEF Kind, Accesses, Switches
  <2> HIDE DEF S, hp
  <2>6. Pin("mute", hp) \in Seq(S) /\ Pin("cut", hp) \in Seq(S)
    <3>1. CASE hp = {} BY <3>1, Pieces DEF Pin, If
    <3>2. CASE hp # {}
      <4>1. <<<<"mute", hp>>>> \in Seq(S) /\ <<<<"cut", hp>>>> \in Seq(S) BY <2>3, <3>2, Pieces
      <4> QED BY <3>2, <4>1 DEF Pin, If
    <3> QED BY <3>1, <3>2
  <2> QED BY <2>4, <2>5, <2>6, Pieces
<1>2. /\ S \cap SenseOp = {} /\ S \cap Opens = {} /\ S \cap Sets("low") = {}
  BY DEF SenseOp, Opens, Sets, Kind
<1>3. Lacks(front, SenseOp) /\ Lacks(front, Opens) /\ Lacks(front, Sets("low"))
  BY <1>1, <1>2, Alphabet
<1>4. front \in Seq(Accesses) BY <1>1, Widen
<1>5. /\ Depop \in Seq(Accesses) /\ Lacks(Depop, SenseOp) /\ Lacks(Depop, Sets("low"))
      /\ Leads(Depop, PollOp, Opens)
  <2>1. <<"poll", "depop">> \in Accesses /\ <<"poll", "depop">> \in PollOp
    BY PinOps DEF PollOp, Kind
  <2>2. <<"poll", "depop">> \notin SenseOp /\ <<"poll", "depop">> \notin Sets("low")
    BY DEF SenseOp, Sets, Kind
  <2> QED BY <2>1, <2>2, Pieces, OneLacks, OneLasts DEF Depop
<1>6. /\ Clear("pathCut") \in Seq(Accesses) /\ Clear("jdReset") \in Seq(Accesses)
      /\ Lasts(Clear("pathCut"), Clears("pathCut"), Sets("pathCut"))
      /\ Lasts(Clear("jdReset"), Clears("jdReset"), Sets("jdReset"))
      /\ Lacks(Clear("jdReset"), Sets("pathCut"))
      /\ Lacks(Clear("pathCut"), Sets("low")) /\ Lacks(Clear("jdReset"), Sets("low"))
  BY SetAndClear DEF Switches
<1>7. Lacks(Clear("pathCut"), SenseOp) /\ Lacks(Clear("jdReset"), SenseOp)
  <2>1. <<"clear", "pathCut">> \notin SenseOp /\ <<"clear", "jdReset">> \notin SenseOp
    BY DEF SenseOp, Kind
  <2> QED BY <2>1, OneLacks DEF Clear
<1>8. alc285_hp_init = ((front \o Depop) \o Clear("pathCut")) \o Clear("jdReset")
  BY DEF alc285_hp_init
<1> HIDE DEF front
<1>9. /\ front \o Depop \in Seq(Accesses) /\ Lacks(front \o Depop, SenseOp)
      /\ Lacks(front \o Depop, Sets("low")) /\ Leads(front \o Depop, PollOp, Opens)
  BY <1>3, <1>4, <1>5, Rules
<1> DEFINE m == (front \o Depop) \o Clear("pathCut")
<1>10. /\ m \in Seq(Accesses) /\ Lacks(m, SenseOp) /\ Lacks(m, Sets("low"))
       /\ Leads(m, PollOp, Opens) /\ Lasts(m, Clears("pathCut"), Sets("pathCut"))
  BY <1>6, <1>7, <1>9, Rules
<1> HIDE DEF m
<1> QED BY <1>6, <1>7, <1>8, <1>10, Rules DEF m

-----------------------------------------------------------------------------
(* The hooks that depop.                                                   *)

\* What only the depop procedures switch on.
HeldSets == {"set"} \X {"jdReset", "pathCut", "manual"}

\* They are no looks at the jacks.
LEMMA HeldAre ==
    /\ \A b \in {"jdReset", "pathCut", "manual"} : Sets(b) \subseteq HeldSets
    /\ HeldSets \cap SenseOp = {}
BY DEF HeldSets, Sets, SenseOp, Kind

\* What lacks a set lacks what is in it.
LEMMA LacksLess ==
    ASSUME NEW q, NEW S, NEW T, S \subseteq T, Lacks(q, T)
    PROVE  Lacks(q, S)
BY DEF Lacks

\* No procedure but depop has them.
LEMMA OthersHold ==
    /\ Lacks(wake, HeldSets) /\ Lacks(Sense, HeldSets)
    /\ Lacks(alc5505_dsp_init, HeldSets) /\ Lacks(alc269_fill_coef, HeldSets)
    /\ Lacks(alc282_init, HeldSets) /\ Lacks(alc283_init, HeldSets)
    /\ Lacks(alc256_init, HeldSets) /\ Lacks(If(alc_spec.hp_pin, Sense), HeldSets)
<1> DEFINE T == {<<"clear", "low">>, <<"set", "coefs">>, <<"set", "vbOutput">>,
                 <<"set", "dspRuns">>, <<"clear", "dspRuns">>} \cup SenseOp
<1>1. T \cap HeldSets = {} BY HeldAre DEF HeldSets
<1>2. <<"sense", "jacks">> \in T BY PinOps DEF SenseOp
<1>3. /\ <<"clear", "low">> \in T /\ <<"set", "coefs">> \in T /\ <<"set", "vbOutput">> \in T
      /\ <<"set", "dspRuns">> \in T /\ <<"clear", "dspRuns">> \in T
  OBVIOUS
<1> HIDE DEF T
<1>4. <<>> \in Seq(T) /\ (\A p, q \in Seq(T) : p \o q \in Seq(T))
      /\ \A b, p : p \in Seq(T) => If(b, p) \in Seq(T)
  BY Pieces
<1>5. /\ Clear("low") \in Seq(T) /\ Set("coefs") \in Seq(T) /\ Set("vbOutput") \in Seq(T)
      /\ Set("dspRuns") \in Seq(T) /\ Clear("dspRuns") \in Seq(T) /\ Sense \in Seq(T)
  BY <1>2, <1>3, Pieces DEF Set, Clear, Sense
<1>6. wake \in Seq(T) /\ If(alc_spec.hp_pin, Sense) \in Seq(T) BY <1>4, <1>5 DEF wake
<1>7. alc5505_dsp_init \in Seq(T)
  BY <1>4, <1>5 DEF alc5505_dsp_init, alc5505_dsp_halt, alc5505_dsp_back_from_halt
<1>8. alc269_fill_coef \in Seq(T) BY <1>4, <1>5 DEF alc269_fill_coef
<1>9. alc282_init \in Seq(T) /\ alc283_init \in Seq(T)
  BY <1>4, <1>5, <1>6 DEF alc282_init, alc283_init, restore_default_value
<1>10. alc256_init \in Seq(T) BY <1>4, <1>5, <1>6 DEF alc256_init
<1> QED BY <1>1, <1>5, <1>6, <1>7, <1>8, <1>9, <1>10, Alphabet

Depops == \/ alc_spec.variant = "ALC225" /\ (~done_hp_init \/ S3orS4)
          \/ alc_spec.variant = "ALC294" /\ alc_spec.hp_pin
             /\ (~done_hp_init \/ pm_event = "restore")

\* The hook of ALC225 depops before it looks, and switches back what it held.
LEMMA Hook225 ==
    ASSUME alc_spec.variant \in Is225
    PROVE  /\ alc225_init \in Seq(Accesses) /\ Never(alc225_init, SenseOp, Accesses)
           /\ Lasts(alc225_init, SenseOp, {})
           /\ alc_spec.ultra_low_power => Lasts(alc225_init, Clears("low"), Sets("low"))
           /\ Depops => /\ Leads(alc225_init, PollOp, Opens)
                        /\ Lasts(alc225_init, Clears("jdReset"), Sets("jdReset"))
                        /\ Lasts(alc225_init, Clears("pathCut"), Sets("pathCut"))
           /\ ~Depops => Lacks(alc225_init, Sets("jdReset")) /\ Lacks(alc225_init, Sets("pathCut"))
           /\ Lacks(alc225_init, Sets("manual"))
<1>0. /\ "low" \in Switches /\ "jdReset" \in Switches /\ "pathCut" \in Switches
  BY DEF Switches
<1>1. Depops <=> alc_spec.variant = "ALC225" /\ (~done_hp_init \/ S3orS4)
  BY DEF Depops, Is225
<1>2. Lacks(alc285_hp_init, Sets("manual"))
  <2>1. Lacks(alc285_hp_init, Sets("manual"))
    <3> DEFINE hp == IF alc_spec.hp_pin THEN {"hp"} ELSE {}
               S == ({"set", "clear"} \X {"jdReset", "pathCut"}) \cup Kind({"mute", "cut", "poll"})
    <3>1. hp \in SUBSET OutPins BY DEF OutPins
    <3>2. /\ Kind({"mute"}) \subseteq Kind({"mute", "cut", "poll"})
          /\ Kind({"cut"}) \subseteq Kind({"mute", "cut", "poll"})
          /\ Kind({"poll"}) \subseteq Kind({"mute", "cut", "poll"})
      BY PinOps
    <3>3. /\ hp # {} => <<"mute", hp>> \in S /\ <<"cut", hp>> \in S
          /\ <<"poll", "depop">> \in S
      BY <3>1, <3>2, PinOps
    <3>4. /\ Set("jdReset") \in Seq(S) /\ Set("pathCut") \in Seq(S)
          /\ Clear("jdReset") \in Seq(S) /\ Clear("pathCut") \in Seq(S)
      BY DEF Set, Clear
    <3>5. S \cap Sets("manual") = {} BY DEF Sets, Kind
    <3> HIDE DEF S, hp
    <3>6. Pin("mute", hp) \in Seq(S) /\ Pin("cut", hp) \in Seq(S) /\ Depop \in Seq(S)
      <4>1. CASE hp = {} BY <3>3, <4>1, Pieces DEF Pin, If, Depop
      <4>2. CASE hp # {}
        <5>1. /\ <<<<"mute", hp>>>> \in Seq(S) /\ <<<<"cut", hp>>>> \in Seq(S)
              /\ <<<<"poll", "depop">>>> \in Seq(S)
          BY <3>3, <4>2, Pieces
        <5> QED BY <4>2, <5>1 DEF Pin, If, Depop
      <4> QED BY <4>1, <4>2
    <3>7. Set("jdReset") \o Set("pathCut") \o Pin("mute", hp) \o Pin("cut", hp)
          \o Depop \o Clear("pathCut") \o Clear("jdReset") \in Seq(S)
      BY <3>4, <3>6, Pieces
    <3>8. alc285_hp_init \in Seq(S) BY <3>7 DEF alc285_hp_init, hp
    <3> QED BY <3>5, <3>8, Alphabet
  <2> QED BY <2>1
<1>3. \A b \in {"jdReset", "pathCut", "manual"} : Lacks(wake, Sets(b)) /\ Lacks(Sense, Sets(b))
  BY OthersHold, HeldAre, LacksLess
<1>4. CASE Depops
  <2>1. alc225_init = (wake \o alc285_hp_init) \o Sense BY <1>1, <1>4 DEF alc225_init, If
  <2> DEFINE front == wake \o alc285_hp_init
  <2>2. /\ front \in Seq(Accesses) /\ Lacks(front, SenseOp)
        /\ Leads(front, PollOp, Opens)
        /\ Lasts(front, Clears("jdReset"), Sets("jdReset"))
        /\ Lasts(front, Clears("pathCut"), Sets("pathCut"))
        /\ alc_spec.ultra_low_power => Lasts(front, Clears("low"), Sets("low"))
        /\ Lacks(front, Sets("manual"))
    BY <1>2, <1>3, WakeIs, Depop285, Rules
  <2> HIDE DEF front
  <2>3. Lacks(front \o Sense, Sets("manual")) BY <1>3, <2>2, SenseIs, Rules
  <2> QED BY <1>0, <1>4, <2>1, <2>2, <2>3, ThenSense DEF front
<1>5. CASE ~Depops
  <2>1. alc225_init = (wake \o <<>>) \o Sense BY <1>1, <1>5 DEF alc225_init, If
  <2>2. wake \o <<>> = wake BY WakeIs
  <2>3. \A b \in {"jdReset", "pathCut", "manual"} : Lacks(wake \o Sense, Sets(b))
    BY <1>3, WakeIs, SenseIs, Rules
  <2> QED BY <1>0, <1>5, <2>1, <2>2, <2>3, WakeIs, ThenSense
<1> QED BY <1>4, <1>5

\* So does that of ALC294.
LEMMA Hook294 ==
    ASSUME alc_spec.variant = "ALC294"
    PROVE  /\ alc294_init \in Seq(Accesses) /\ Never(alc294_init, SenseOp, Accesses)
           /\ ~alc_spec.hp_pin => Lacks(alc294_init, SenseOp)
           /\ Depops => /\ Leads(alc294_init, PollOp, Opens)
                        /\ Lasts(alc294_init, Clears("manual"), Sets("manual"))
           /\ ~Depops => Lacks(alc294_init, Sets("manual"))
           /\ Lacks(alc294_init, Sets("jdReset")) /\ Lacks(alc294_init, Sets("pathCut"))
<1>0. "manual" \in Switches BY DEF Switches
<1>1. Depops <=> alc_spec.hp_pin /\ (~done_hp_init \/ pm_event = "restore") BY DEF Depops
<1> DEFINE T == {<<"set", "manual">>} \cup Kind({"mute", "cut"})
           front == Pin("mute", {"hp"}) \o Cut({"hp"}) \o Set("manual")
<1>2. /\ front \in Seq(T) /\ T \subseteq Accesses
  <2>1. {"hp"} \in SUBSET OutPins /\ {"hp"} # {} BY DEF OutPins
  <2>2. Kind({"mute"}) \subseteq Kind({"mute", "cut"}) /\ Kind({"cut"}) \subseteq Kind({"mute", "cut"})
    BY PinOps
  <2>3. <<"mute", {"hp"}>> \in T /\ <<"cut", {"hp"}>> \in T BY <2>1, <2>2, PinOps
  <2>4. Set("manual") \in Seq(T) BY DEF Set
  <2>5. T \subseteq Accesses BY DEF Kind, Accesses, Switches
  <2> HIDE DEF T
  <2>6. Pin("mute", {"hp"}) \in Seq(T) /\ Pin("cut", {"hp"}) \in Seq(T)
    <3>1. <<<<"mute", {"hp"}>>>> \in Seq(T) /\ <<<<"cut", {"hp"}>>>> \in Seq(T) BY <2>3, Pieces
    <3> QED BY <3>1 DEF Pin, If
  <2>7. Cut({"hp"}) \in Seq(T) BY <2>6, Pieces DEF Cut
  <2> QED BY <2>4, <2>5, <2>6, <2>7, Pieces
<1>3. /\ T \cap SenseOp = {} /\ T \cap Opens = {}
      /\ T \cap Sets("jdReset") = {} /\ T \cap Sets("pathCut") = {}
  BY DEF SenseOp, Opens, Sets, Kind
<1>4. /\ Lacks(front, SenseOp) /\ Lacks(front, Opens)
      /\ Lacks(front, Sets("jdReset")) /\ Lacks(front, Sets("pathCut"))
  BY <1>2, <1>3, Alphabet
<1>5. front \in Seq(Accesses) BY <1>2, Widen
<1>6. /\ Depop \in Seq(Accesses) /\ Lacks(Depop, SenseOp)
      /\ Lacks(Depop, Sets("jdReset")) /\ Lacks(Depop, Sets("pathCut"))
      /\ Leads(Depop, PollOp, Opens)
  <2>1. <<"poll", "depop">> \in Accesses /\ <<"poll", "depop">> \in PollOp
    BY PinOps DEF PollOp, Kind
  <2>2. <<"poll", "depop">> \notin SenseOp /\ \A b : <<"poll", "depop">> \notin Sets(b)
    BY DEF SenseOp, Sets, Kind
  <2> QED BY <2>1, <2>2, Pieces, OneLacks, OneLasts DEF Depop
<1>7. /\ Clear("manual") \in Seq(Accesses)
      /\ Lasts(Clear("manual"), Clears("manual"), Sets("manual"))
      /\ \A b : Lacks(Clear("manual"), Sets(b))
  BY SetAndClear DEF Switches
<1>8. Lacks(Clear("manual"), SenseOp)
  <2>1. <<"clear", "manual">> \notin SenseOp BY DEF SenseOp, Kind
  <2> QED BY <2>1, OneLacks DEF Clear
<1>9. \A b \in {"jdReset", "pathCut", "manual"} : Lacks(Sense, Sets(b))
  BY OthersHold, HeldAre, LacksLess
<1>10. CASE Depops
  <2>1. alc294_init = ((front \o Depop) \o Clear("manual")) \o Sense
    BY <1>1, <1>10 DEF alc294_init, alc294_hp_init, If
  <2> HIDE DEF front
  <2>2. /\ front \o Depop \in Seq(Accesses) /\ Lacks(front \o Depop, SenseOp)
        /\ Leads(front \o Depop, PollOp, Opens)
        /\ Lacks(front \o Depop, Sets("jdReset")) /\ Lacks(front \o Depop, Sets("pathCut"))
    BY <1>4, <1>5, <1>6, Rules
  <2> DEFINE m == (front \o Depop) \o Clear("manual")
  <2>3. /\ m \in Seq(Accesses) /\ Lacks(m, SenseOp) /\ Leads(m, PollOp, Opens)
        /\ Lacks(m, Sets("jdReset")) /\ Lacks(m, Sets("pathCut"))
        /\ Lasts(m, Clears("manual"), Sets("manual"))
    BY <1>7, <1>8, <2>2, Rules
  <2> HIDE DEF m
  <2>4. Lacks(m \o Sense, Sets("jdReset")) /\ Lacks(m \o Sense, Sets("pathCut"))
    BY <1>9, <2>3, SenseIs, Rules
  <2>5. alc294_init = m \o Sense BY <2>1 DEF m
  <2> QED BY <1>0, <1>1, <1>10, <2>3, <2>4, <2>5, ThenSense
<1>11. CASE ~Depops
  <2>1. If(~done_hp_init \/ pm_event = "restore", alc294_hp_init) = <<>>
    BY <1>1, <1>11 DEF If, alc294_hp_init
  <2>2. CASE alc_spec.hp_pin
    <3>1. alc294_init = <<>> \o Sense BY <2>1, <2>2 DEF alc294_init, If
    <3>2. <<>> \o Sense = Sense BY SenseIs
    <3> QED BY <1>9, <1>11, <2>2, <3>1, <3>2, SenseIs
  <2>3. CASE ~alc_spec.hp_pin
    <3>1. alc294_init = <<>> \o <<>> BY <2>1, <2>3 DEF alc294_init, If
    <3>2. <<>> \o <<>> = <<>> OBVIOUS
    <3>3. Never(<<>>, SenseOp, Accesses) BY DEF Never
    <3> QED BY <1>11, <2>3, <3>1, <3>2, <3>3, Pieces, EmptyLacks
  <2> QED BY <2>2, <2>3
<1> QED BY <1>10, <1>11

-----------------------------------------------------------------------------
(* What every init hook does.                                              *)

\* Nothing comes behind what is not there.
LEMMA NeverEmpty == \A q, A, B : Lacks(q, A) => Never(q, A, B)
BY DEF Lacks, Never

\* What has the last word is there.
LEMMA LastsFound == ASSUME NEW q, NEW A, NEW B, Lasts(q, A, B) PROVE ~Lacks(q, A)
BY DEF Lasts, Lacks

\* The hooks that do little: the output power of ALC269VB, a look at the jacks.
LEMMA SmallHooks ==
    /\ alc269_fill_coef \in Seq(Accesses) /\ Lacks(alc269_fill_coef, SenseOp)
    /\ IsVB => Lasts(alc269_fill_coef, Sets("vbOutput"), Clears("vbOutput"))
    /\ If(alc_spec.hp_pin, Sense) \in Seq(Accesses)
    /\ Never(If(alc_spec.hp_pin, Sense), SenseOp, Accesses)
<1>1. Set("vbOutput") \in Seq(Accesses) /\ Lasts(Set("vbOutput"), Sets("vbOutput"), Clears("vbOutput"))
  BY SetAndClear DEF Switches
<1>2. Lacks(Set("vbOutput"), SenseOp)
  <2>1. <<"set", "vbOutput">> \notin SenseOp BY DEF SenseOp, Kind
  <2> QED BY <2>1, OneLacks DEF Set
<1>3. <<>> \in Seq(Accesses) /\ Lacks(<<>>, SenseOp) BY Pieces, EmptyLacks
<1>4. CASE IsVB
  <2>1. alc269_fill_coef = Set("vbOutput") BY <1>4 DEF alc269_fill_coef, If
  <2>2. CASE alc_spec.hp_pin
    <3>1. If(alc_spec.hp_pin, Sense) = Sense BY <2>2 DEF If
    <3> QED BY <1>1, <1>2, <2>1, <3>1, SenseIs
  <2>3. CASE ~alc_spec.hp_pin
    <3>1. If(alc_spec.hp_pin, Sense) = <<>> BY <2>3 DEF If
    <3> QED BY <1>1, <1>2, <1>3, <2>1, <3>1, NeverEmpty
  <2> QED BY <2>2, <2>3
<1>5. CASE ~IsVB
  <2>1. alc269_fill_coef = <<>> BY <1>5 DEF alc269_fill_coef, If
  <2>2. CASE alc_spec.hp_pin
    <3>1. If(alc_spec.hp_pin, Sense) = Sense BY <2>2 DEF If
    <3> QED BY <1>3, <1>5, <2>1, <3>1, SenseIs
  <2>3. CASE ~alc_spec.hp_pin
    <3>1. If(alc_spec.hp_pin, Sense) = <<>> BY <2>3 DEF If
    <3> QED BY <1>3, <1>5, <2>1, <3>1, NeverEmpty
  <2> QED BY <2>2, <2>3
<1> QED BY <1>4, <1>5

Held == {"jdReset", "pathCut", "manual"}

\* What every init hook does, up to the look at the jacks.
HookDoes(q) ==
    /\ Never(q, SenseOp, Accesses)
    /\ Pulls => ~Lacks(q, SenseOp)
    /\ HasDsp /\ alc_spec.halt => Lasts(q, Clears("dspRuns"), Sets("dspRuns"))
    /\ HasDsp /\ ~alc_spec.halt => Lasts(q, Sets("dspRuns"), Clears("dspRuns"))
    /\ alc_spec.variant \in {"ALC282", "ALC283"} => Lasts(q, Sets("coefs"), Clears("coefs"))
    /\ Dozes => Lasts(q, Clears("low"), Sets("low"))
    /\ IsVB => Lasts(q, Sets("vbOutput"), Clears("vbOutput"))
    /\ \A b \in Held : Lasts(q, Clears(b), Sets(b)) \/ Lacks(q, Sets(b))
    /\ Depops => Leads(q, PollOp, Opens)

\* Every init hook does this.
LEMMA HookFacts == ASSUME alc_spec \in PowerMachines PROVE HookDoes(init_hook)
<1> DEFINE v == alc_spec.variant
<1>1. \A q : Lacks(q, HeldSets) => \A b \in Held : Lacks(q, Sets(b))
  BY HeldAre, LacksLess DEF Held
<1>2. CASE HasDsp
  <2>1. init_hook = alc5505_dsp_init /\ v = "ALC280" BY <1>2, HookIs
  <2>2. ~Pulls /\ ~Dozes /\ ~IsVB /\ ~Depops BY <2>1 DEF Pulls, Dozes, IsVB, Depops, Is256, Is225
  <2>3. Never(init_hook, SenseOp, Accesses) BY <2>1, DspHook, NeverEmpty
  <2> QED BY <1>1, <2>1, <2>2, <2>3, DspHook, OthersHold DEF HookDoes
<1>3. CASE v = "ALC269VB"
  <2>1. init_hook = alc269_fill_coef /\ ~HasDsp BY <1>3, HookIs
  <2>2. ~Pulls /\ ~Dozes /\ ~Depops BY <1>3 DEF Pulls, Dozes, Depops, Is256, Is225
  <2>3. Never(init_hook, SenseOp, Accesses) BY <2>1, SmallHooks, NeverEmpty
  <2> QED BY <1>1, <1>3, <2>1, <2>2, <2>3, SmallHooks, OthersHold DEF HookDoes
<1>4. CASE v = "ALC269VA"
  <2>1. init_hook = <<>> /\ ~HasDsp BY <1>4, HookIs
  <2>2. ~Pulls /\ ~Dozes /\ ~IsVB /\ ~Depops BY <1>4 DEF Pulls, Dozes, IsVB, Depops, Is256, Is225
  <2>3. Never(init_hook, SenseOp, Accesses) BY <2>1, EmptyLacks, NeverEmpty
  <2> QED BY <1>4, <2>1, <2>2, <2>3, EmptyLacks DEF HookDoes
<1>5. CASE v = "ALC282"
  <2>1. init_hook = alc282_init /\ ~HasDsp BY <1>5, HookIs
  <2>2. ~Pulls /\ ~Dozes /\ ~IsVB /\ ~Depops BY <1>5 DEF Pulls, Dozes, IsVB, Depops, Is256, Is225
  <2> QED BY <1>1, <1>5, <2>1, <2>2, CoefsHook, OthersHold DEF HookDoes
<1>6. CASE v = "ALC283"
  <2>1. init_hook = alc283_init /\ ~HasDsp BY <1>6, HookIs
  <2>2. /\ Pulls => alc_spec.hp_pin
        /\ ~Dozes /\ ~IsVB /\ ~Depops
    BY <1>6 DEF Pulls, Dozes, IsVB, Depops, Is256, Is225
  <2>3. Pulls => ~Lacks(init_hook, SenseOp) BY <2>1, <2>2, CoefsHook, LastsFound
  <2> QED BY <1>1, <1>6, <2>1, <2>2, <2>3, CoefsHook, OthersHold DEF HookDoes
<1>7. CASE v \in Is256
  <2>1. init_hook = alc256_init /\ ~HasDsp BY <1>7, HookIs DEF Is256
  <2>2. /\ Dozes => alc_spec.ultra_low_power
        /\ ~IsVB /\ ~Depops /\ v \notin {"ALC282", "ALC283"}
    BY <1>7 DEF Dozes, IsVB, Depops, Is256, Is225
  <2>3. ~Lacks(init_hook, SenseOp) BY <2>1, Hook256, LastsFound
  <2> QED BY <1>1, <1>7, <2>1, <2>2, <2>3, Hook256, OthersHold DEF HookDoes
<1>8. CASE v \in Is225
  <2>1. init_hook = alc225_init /\ ~HasDsp BY <1>8, HookIs DEF Is225
  <2>2. /\ Dozes => alc_spec.ultra_low_power
        /\ ~IsVB /\ ~Pulls /\ v \notin {"ALC282", "ALC283"}
    BY <1>8 DEF Dozes, IsVB, Pulls, Is256, Is225
  <2>3. \A b \in Held : Lasts(init_hook, Clears(b), Sets(b)) \/ Lacks(init_hook, Sets(b))
    BY <1>8, <2>1, Hook225 DEF Held
  <2> QED BY <1>8, <2>1, <2>2, <2>3, Hook225 DEF HookDoes
<1>9. CASE v = "ALC294"
  <2>1. init_hook = alc294_init /\ ~HasDsp BY <1>9, HookIs
  <2>2. ~Pulls /\ ~Dozes /\ ~IsVB BY <1>9 DEF Pulls, Dozes, IsVB, Is256, Is225
  <2>3. \A b \in Held : Lasts(init_hook, Clears(b), Sets(b)) \/ Lacks(init_hook, Sets(b))
    BY <1>9, <2>1, Hook294 DEF Held
  <2> QED BY <1>9, <2>1, <2>2, <2>3, Hook294 DEF HookDoes
<1>10. CASE v \in {"ALC280", "ALC623"} /\ ~HasDsp
  <2>1. init_hook = If(alc_spec.hp_pin, Sense) BY <1>10, HookIs
  <2>2. ~Pulls /\ ~Dozes /\ ~IsVB /\ ~Depops BY <1>10 DEF Pulls, Dozes, IsVB, Depops, Is256, Is225
  <2>3. Lacks(init_hook, HeldSets) BY <2>1, OthersHold
  <2>4. Never(init_hook, SenseOp, Accesses) BY <2>1, SmallHooks
  <2> QED BY <1>1, <1>10, <2>2, <2>3, <2>4 DEF HookDoes
<1> QED BY <1>2, <1>3, <1>4, <1>5, <1>6, <1>7, <1>8, <1>9, <1>10, HookIs

-----------------------------------------------------------------------------
(* Boot and resume.                                                        *)

\* What follows a hook in boot and resume undoes nothing of it.
More == {<<"set", "eapd">>, <<"set", "gpio">>, <<"set", "keys">>, <<"set", "vbOutput">>}
        \cup Kind({"gen_init", "sync"})
Undoes == SenseOp \cup Cuts \cup Clears("dspRuns") \cup Sets("dspRuns") \cup Clears("coefs")
          \cup Sets("low") \cup Clears("vbOutput") \cup HeldSets \cup Clears("gpio")
          \cup Clears("keys")

\* What boot and resume do as far as they have been put together.
PartDoes(q) ==
    /\ Never(q, SenseOp, SenseOp \cup Cuts)
    /\ Pulls => ~Lacks(q, SenseOp)
    /\ HasDsp /\ alc_spec.halt => Lasts(q, Clears("dspRuns"), Sets("dspRuns"))
    /\ HasDsp /\ ~alc_spec.halt => Lasts(q, Sets("dspRuns"), Clears("dspRuns"))
    /\ alc_spec.variant \in {"ALC282", "ALC283"} => Lasts(q, Sets("coefs"), Clears("coefs"))
    /\ Dozes => Lasts(q, Clears("low"), Sets("low"))
    /\ IsVB => Lasts(q, Sets("vbOutput"), Clears("vbOutput"))
    /\ \A b \in Held : Lasts(q, Clears(b), Sets(b)) \/ Lacks(q, Sets(b))
    /\ Depops => Leads(q, PollOp, Opens)

\* They undo nothing.
LEMMA MoreUndoes == More \cap Undoes = {} /\ More \subseteq Accesses
BY DEF More, Undoes, SenseOp, Cuts, Clears, Sets, HeldSets, Kind, Accesses, Switches

\* What never comes behind something comes there in no smaller set either.
LEMMA NeverLess ==
    ASSUME NEW q, NEW A, NEW B, NEW C, C \subseteq B, Never(q, A, B)
    PROVE  Never(q, A, C)
BY DEF Never

\* A part that has something gives it to the whole.
LEMMA LacksConcatBack ==
    ASSUME NEW p \in Seq(Accesses), NEW q \in Seq(Accesses), NEW S,
           ~Lacks(p, S) \/ ~Lacks(q, S)
    PROVE  ~Lacks(p \o q, S)
<1>1. CASE ~Lacks(p, S)
  <2>1. PICK i \in 1..Len(p) : p[i] \in S BY <1>1 DEF Lacks
  <2>2. i \in 1..Len(p \o q) /\ (p \o q)[i] \in S BY <2>1, ConcatParts
  <2> QED BY <2>2 DEF Lacks
<1>2. CASE ~Lacks(q, S)
  <2>1. PICK i \in 1..Len(q) : q[i] \in S BY <1>2 DEF Lacks
  <2>2. Len(p) + i \in 1..Len(p \o q) /\ (p \o q)[Len(p) + i] \in S BY <2>1, ConcatParts
  <2> QED BY <2>2 DEF Lacks
<1> QED BY <1>1, <1>2

\* The hook begins it,
LEMMA PartStarts ==
    ASSUME alc_spec \in PowerMachines
    PROVE  init_hook \in Seq(Accesses) /\ PartDoes(init_hook)
<1>1. SenseOp \cup Cuts \subseteq Accesses BY DEF SenseOp, Cuts, Kind
<1>2. HookDoes(init_hook) BY HookFacts
<1>3. Never(init_hook, SenseOp, SenseOp \cup Cuts) BY <1>1, <1>2, NeverLess DEF HookDoes
<1>4. init_hook \in Seq(Accesses) BY InitHookOps, OpsAre, Widen
<1> QED BY <1>2, <1>3, <1>4 DEF HookDoes, PartDoes

\* and what follows the hook keeps it.
LEMMA PartGoesOn ==
    ASSUME NEW p \in Seq(Accesses), NEW q \in Seq(Accesses), PartDoes(p), Lacks(q, Undoes)
    PROVE  p \o q \in Seq(Accesses) /\ PartDoes(p \o q)
<1>1. \A b \in Held : Sets(b) \subseteq Undoes BY HeldAre DEF Undoes, Held
<1>2. /\ Lacks(q, SenseOp \cup Cuts) /\ Lacks(q, SenseOp) /\ Lacks(q, Clears("dspRuns"))
      /\ Lacks(q, Sets("dspRuns")) /\ Lacks(q, Clears("coefs"))
      /\ Lacks(q, Sets("low")) /\ Lacks(q, Clears("vbOutput"))
  BY DEF Lacks, Undoes
<1>3. \A b \in Held : Lacks(q, Sets(b)) BY <1>1, LacksLess
<1>4. Never(q, SenseOp, SenseOp \cup Cuts) BY <1>2, NeverEmpty
<1>5. Never(p \o q, SenseOp, SenseOp \cup Cuts) BY <1>2, <1>4, Rules DEF PartDoes
<1>6. Pulls => ~Lacks(p \o q, SenseOp) BY LacksConcatBack DEF PartDoes
<1>7. /\ HasDsp /\ alc_spec.halt => Lasts(p \o q, Clears("dspRuns"), Sets("dspRuns"))
      /\ HasDsp /\ ~alc_spec.halt => Lasts(p \o q, Sets("dspRuns"), Clears("dspRuns"))
  BY <1>2, Rules DEF PartDoes
<1>8. alc_spec.variant \in {"ALC282", "ALC283"} => Lasts(p \o q, Sets("coefs"), Clears("coefs"))
  BY <1>2, Rules DEF PartDoes
<1>9. /\ Dozes => Lasts(p \o q, Clears("low"), Sets("low"))
      /\ IsVB => Lasts(p \o q, Sets("vbOutput"), Clears("vbOutput"))
  BY <1>2, Rules DEF PartDoes
<1>10. \A b \in Held : Lasts(p \o q, Clears(b), Sets(b)) \/ Lacks(p \o q, Sets(b))
  BY <1>3, Rules DEF PartDoes
<1>11. Depops => Leads(p \o q, PollOp, Opens) BY Rules DEF PartDoes
<1> QED BY <1>5, <1>6, <1>7, <1>8, <1>9, <1>10, <1>11, Rules DEF PartDoes

\* The parts of boot and resume that follow the hook.
LEMMA Followers ==
    /\ \A q \in {gen_init, alc_write_gpio_data, alc_fixup_headset_jack,
                 alc269vb_toggle_power_output(TRUE), <<<<"sync", "all">>>>} :
         q \in Seq(Accesses) /\ Lacks(q, Undoes)
    /\ alc_spec.gpio_data => Lasts(alc_write_gpio_data, Sets("gpio"), Clears("gpio"))
    /\ HasKeys => Lasts(alc_fixup_headset_jack, Sets("keys"), Clears("keys"))
<1>1. /\ Set("eapd") \in Seq(More) /\ Set("gpio") \in Seq(More) /\ Set("keys") \in Seq(More)
      /\ Set("vbOutput") \in Seq(More)
  BY DEF More, Set
<1>2. <<"gen_init", "all">> \in More /\ <<"sync", "all">> \in More
  <2>1. /\ Kind({"gen_init"}) \subseteq Kind({"gen_init", "sync"})
        /\ Kind({"sync"}) \subseteq Kind({"gen_init", "sync"})
    BY PinOps
  <2> QED BY <2>1, PinOps DEF More
<1>3. <<<<"gen_init", "all">>>> \in Seq(More) /\ <<<<"sync", "all">>>> \in Seq(More)
  BY <1>2, Pieces
<1>4. gen_init \in Seq(More) BY <1>1, <1>3, Pieces DEF gen_init
<1>5. alc_write_gpio_data \in Seq(More) BY <1>1, Pieces DEF alc_write_gpio_data
<1>6. alc_fixup_headset_jack \in Seq(More)
  BY <1>1, Pieces DEF alc_fixup_headset_jack, alc_enable_headset_jack_key
<1>7. alc269vb_toggle_power_output(TRUE) \in Seq(More)
  <2>1. alc269vb_toggle_power_output(TRUE) = If(IsVB, Set("vbOutput"))
    BY DEF alc269vb_toggle_power_output
  <2>2. If(IsVB, Set("vbOutput")) \in Seq(More) BY <1>1, Pieces
  <2> QED BY <2>1, <2>2
<1>8. \A q \in Seq(More) : q \in Seq(Accesses) /\ Lacks(q, Undoes)
  BY MoreUndoes, Alphabet, Widen
<1>9. alc_spec.gpio_data => alc_write_gpio_data = Set("gpio") BY DEF alc_write_gpio_data, If
<1>10. HasKeys => alc_fixup_headset_jack = Set("keys")
  BY DEF alc_fixup_headset_jack, alc_enable_headset_jack_key, If
<1> QED BY <1>3, <1>4, <1>5, <1>6, <1>7, <1>8, <1>9, <1>10, SetAndClear

\* A prefix that undoes nothing and opens nothing.
LEMMA PartAfter ==
    ASSUME NEW p \in Seq(Accesses), NEW q \in Seq(Accesses), PartDoes(q),
           Lacks(p, SenseOp), Lacks(p, Opens), Lacks(p, HeldSets)
    PROVE  p \o q \in Seq(Accesses) /\ PartDoes(p \o q)
<1>1. \A b \in Held : Lacks(p, Sets(b)) BY HeldAre, LacksLess DEF Held
<1>2. Never(p, SenseOp, SenseOp \cup Cuts) BY NeverEmpty
<1>3. Never(p \o q, SenseOp, SenseOp \cup Cuts) BY <1>2, Rules DEF PartDoes
<1>4. Pulls => ~Lacks(p \o q, SenseOp) BY LacksConcatBack DEF PartDoes
<1>5. /\ HasDsp /\ alc_spec.halt => Lasts(p \o q, Clears("dspRuns"), Sets("dspRuns"))
      /\ HasDsp /\ ~alc_spec.halt => Lasts(p \o q, Sets("dspRuns"), Clears("dspRuns"))
  BY Rules DEF PartDoes
<1>6. alc_spec.variant \in {"ALC282", "ALC283"} => Lasts(p \o q, Sets("coefs"), Clears("coefs"))
  BY Rules DEF PartDoes
<1>7. /\ Dozes => Lasts(p \o q, Clears("low"), Sets("low"))
      /\ IsVB => Lasts(p \o q, Sets("vbOutput"), Clears("vbOutput"))
  BY Rules DEF PartDoes
<1>8. \A b \in Held : Lasts(p \o q, Clears(b), Sets(b)) \/ Lacks(p \o q, Sets(b))
  BY <1>1, Rules DEF PartDoes
<1>9. Depops => Leads(p \o q, PollOp, Opens) BY Rules DEF PartDoes
<1> QED BY <1>3, <1>4, <1>5, <1>6, <1>7, <1>8, <1>9, Rules DEF PartDoes

\* What a whole boot or resume does.
CallDoes(q) ==
    /\ q \in Seq(Accesses) /\ PartDoes(q)
    /\ alc_spec.gpio_data => Lasts(q, Sets("gpio"), Clears("gpio"))
    /\ Lacks(q, Modes) /\ Lacks(q, Sets("pull")) /\ Lacks(q, Clears("keys")) /\ Lacks(q, Sets("low"))

\* What neither boot nor resume has up to the look at the jacks.
LEMMA BootLacks ==
    ASSUME NEW q \in Seq(BootOps)
    PROVE  Lacks(q, Modes) /\ Lacks(q, Sets("pull")) /\ Lacks(q, Clears("keys")) /\ Lacks(q, Sets("low"))
<1>1. /\ BootOps \cap Modes = {} /\ BootOps \cap Sets("pull") = {}
      /\ BootOps \cap Clears("keys") = {} /\ BootOps \cap Sets("low") = {}
  BY DEF BootOps, InitOps, Modes, Sets, Clears, Kind
<1> QED BY <1>1, Alphabet

\* Boot does it, and arms the headset keys.
LEMMA BootFacts ==
    ASSUME alc_spec \in PowerMachines
    PROVE  CallDoes(Boot) /\ (HasKeys => Lasts(Boot, Sets("keys"), Clears("keys")))
<1> DEFINE b1 == init_hook \o gen_init
           b2 == b1 \o alc_write_gpio_data
           b3 == b2 \o alc_fixup_headset_jack
<1>1. b1 \in Seq(Accesses) /\ PartDoes(b1) BY PartStarts, PartGoesOn, Followers
<1> HIDE DEF b1
<1>2. b2 \in Seq(Accesses) /\ PartDoes(b2) BY <1>1, PartGoesOn, Followers
<1>3. alc_spec.gpio_data => Lasts(b2, Sets("gpio"), Clears("gpio")) BY <1>1, Followers, Rules
<1> HIDE DEF b2
<1>4. b3 \in Seq(Accesses) /\ PartDoes(b3) BY <1>2, PartGoesOn, Followers
<1>5. Lacks(alc_fixup_headset_jack, Clears("gpio"))
  BY Followers, LacksLess DEF Undoes
<1>6. alc_spec.gpio_data => Lasts(b3, Sets("gpio"), Clears("gpio"))
  BY <1>2, <1>3, <1>5, Followers, Rules
<1>7. HasKeys => Lasts(b3, Sets("keys"), Clears("keys")) BY <1>2, Followers, Rules
<1>8. Boot = b3 BY DEF Boot, b1, b2, b3
<1> HIDE DEF b3
<1> QED BY <1>4, <1>6, <1>7, <1>8, BootHas, BootLacks DEF CallDoes

\* Resume does it too.
LEMMA ResumeFacts ==
    ASSUME alc_spec \in PowerMachines
    PROVE  CallDoes(alc269_resume)
<1> DEFINE off == alc269vb_toggle_power_output(FALSE)
           r1 == off \o init_hook
           r2 == r1 \o gen_init
           r3 == r2 \o alc269vb_toggle_power_output(TRUE)
           r4 == r3 \o <<<<"sync", "all">>>>
           r5 == r4 \o alc_write_gpio_data
           dsp == If(HasDsp /\ ~alc_spec.halt, alc5505_dsp_back_from_halt)
           r6 == r5 \o dsp
<1>1. /\ off \in Seq(Accesses) /\ Lacks(off, SenseOp) /\ Lacks(off, Opens)
      /\ Lacks(off, HeldSets)
  <2>1. off = If(IsVB, Clear("vbOutput")) BY DEF alc269vb_toggle_power_output
  <2>2. Clear("vbOutput") \in Seq(Accesses) BY SetAndClear DEF Switches
  <2>3. /\ Lacks(Clear("vbOutput"), SenseOp) /\ Lacks(Clear("vbOutput"), Opens)
        /\ Lacks(Clear("vbOutput"), HeldSets)
    <3>1. /\ <<"clear", "vbOutput">> \notin SenseOp /\ <<"clear", "vbOutput">> \notin Opens
          /\ <<"clear", "vbOutput">> \notin HeldSets
      BY DEF SenseOp, Opens, HeldSets, Kind
    <3> QED BY <3>1, OneLacks DEF Clear
  <2>4. CASE IsVB
    <3>1. off = Clear("vbOutput") BY <2>1, <2>4 DEF If
    <3> QED BY <2>2, <2>3, <3>1
  <2>5. CASE ~IsVB
    <3>1. off = <<>> BY <2>1, <2>5 DEF If
    <3> QED BY <3>1, Pieces, EmptyLacks
  <2> QED BY <2>4, <2>5
<1> HIDE DEF off
<1>2. r1 \in Seq(Accesses) /\ PartDoes(r1) BY <1>1, PartStarts, PartAfter
<1> HIDE DEF r1
<1>3. r2 \in Seq(Accesses) /\ PartDoes(r2) BY <1>2, PartGoesOn, Followers
<1> HIDE DEF r2
<1>4. r3 \in Seq(Accesses) /\ PartDoes(r3)
  <2> DEFINE on == alc269vb_toggle_power_output(TRUE)
  <2>1. on \in Seq(Accesses) /\ Lacks(on, Undoes) BY Followers
  <2> HIDE DEF on
  <2>2. r2 \o on \in Seq(Accesses) /\ PartDoes(r2 \o on) BY <1>3, <2>1, PartGoesOn
  <2> QED BY <2>2 DEF on
<1> HIDE DEF r3
<1>5. r4 \in Seq(Accesses) /\ PartDoes(r4)
  <2> DEFINE sync == <<<<"sync", "all">>>>
  <2>1. sync \in Seq(Accesses) /\ Lacks(sync, Undoes) BY Followers
  <2> HIDE DEF sync
  <2>2. r3 \o sync \in Seq(Accesses) /\ PartDoes(r3 \o sync) BY <1>4, <2>1, PartGoesOn
  <2> QED BY <2>2 DEF sync
<1> HIDE DEF r4
<1>6. r5 \in Seq(Accesses) /\ PartDoes(r5) BY <1>5, PartGoesOn, Followers
<1>7. alc_spec.gpio_data => Lasts(r5, Sets("gpio"), Clears("gpio")) BY <1>5, Followers, Rules
<1> HIDE DEF r5
<1>8. /\ r6 \in Seq(Accesses) /\ PartDoes(r6)
      /\ alc_spec.gpio_data => Lasts(r6, Sets("gpio"), Clears("gpio"))
  <2>1. CASE HasDsp /\ ~alc_spec.halt
    <3>1. dsp = Set("dspRuns") BY <2>1 DEF If, alc5505_dsp_back_from_halt
    <3>2. /\ Set("dspRuns") \in Seq(Accesses)
          /\ Lasts(Set("dspRuns"), Sets("dspRuns"), Clears("dspRuns"))
      BY SetAndClear DEF Switches
    <3>3. /\ Lacks(dsp, SenseOp \cup Cuts) /\ Lacks(dsp, SenseOp) /\ Lacks(dsp, Clears("coefs"))
          /\ Lacks(dsp, Sets("low")) /\ Lacks(dsp, Clears("vbOutput")) /\ Lacks(dsp, HeldSets)
          /\ Lacks(dsp, Clears("gpio"))
      <4>1. /\ <<"set", "dspRuns">> \notin SenseOp \cup Cuts /\ <<"set", "dspRuns">> \notin SenseOp
            /\ <<"set", "dspRuns">> \notin Sets("low") /\ <<"set", "dspRuns">> \notin HeldSets
            /\ \A b : <<"set", "dspRuns">> \notin Clears(b)
        BY DEF SenseOp, Cuts, Sets, Clears, HeldSets, Kind
      <4> QED BY <3>1, <4>1, OneLacks DEF Set
    <3>4. \A b \in Held : Lacks(dsp, Sets(b)) BY <3>3, HeldAre, LacksLess DEF Held
    <3>5. Never(dsp, SenseOp, SenseOp \cup Cuts) BY <3>3, NeverEmpty
    <3>6. dsp \in Seq(Accesses) /\ Lasts(dsp, Sets("dspRuns"), Clears("dspRuns")) BY <3>1, <3>2
    <3> HIDE DEF dsp
    <3>7. Never(r5 \o dsp, SenseOp, SenseOp \cup Cuts) BY <1>6, <3>3, <3>5, <3>6, Rules DEF PartDoes
    <3>8. Pulls => ~Lacks(r5 \o dsp, SenseOp) BY <1>6, <3>6, LacksConcatBack DEF PartDoes
    <3>9. HasDsp /\ ~alc_spec.halt => Lasts(r5 \o dsp, Sets("dspRuns"), Clears("dspRuns"))
      BY <1>6, <3>6, Rules
    <3>10. alc_spec.variant \in {"ALC282", "ALC283"} => Lasts(r5 \o dsp, Sets("coefs"), Clears("coefs"))
      BY <1>6, <3>3, <3>6, Rules DEF PartDoes
    <3>11. /\ Dozes => Lasts(r5 \o dsp, Clears("low"), Sets("low"))
           /\ IsVB => Lasts(r5 \o dsp, Sets("vbOutput"), Clears("vbOutput"))
      BY <1>6, <3>3, <3>6, Rules DEF PartDoes
    <3>12. \A b \in Held : Lasts(r5 \o dsp, Clears(b), Sets(b)) \/ Lacks(r5 \o dsp, Sets(b))
      BY <1>6, <3>4, <3>6, Rules DEF PartDoes
    <3>13. Depops => Leads(r5 \o dsp, PollOp, Opens) BY <1>6, <3>6, Rules DEF PartDoes
    <3>14. alc_spec.gpio_data => Lasts(r5 \o dsp, Sets("gpio"), Clears("gpio"))
      BY <1>6, <1>7, <3>3, <3>6, Rules
    <3>15. r5 \o dsp \in Seq(Accesses) BY <1>6, <3>6, Rules
    <3> QED BY <2>1, <3>7, <3>8, <3>9, <3>10, <3>11, <3>12, <3>13, <3>14, <3>15 DEF PartDoes
  <2>2. CASE ~(HasDsp /\ ~alc_spec.halt)
    <3>1. dsp = <<>> BY <2>2 DEF If
    <3>2. r6 = r5 BY <1>6, <3>1
    <3> QED BY <1>6, <1>7, <3>2
  <2> QED BY <2>1, <2>2
<1>9. alc269_resume = r6 BY DEF alc269_resume, off, r1, r2, r3, r4, r5
<1> HIDE DEF r6
<1> QED BY <1>8, <1>9, BootHas, BootLacks DEF CallDoes

-----------------------------------------------------------------------------
(* Suspend.                                                                *)

\* A single access.
LEMMA OneIs ==
    ASSUME NEW x \in Accesses
    PROVE  /\ <<x>> \in Seq(Accesses)
           /\ \A S : x \notin S => Lacks(<<x>>, S)
           /\ \A A, B : x \in A => Lasts(<<x>>, A, B) /\ Leads(<<x>>, A, B)
           /\ \A A, B : Never(<<x>>, A, B)
<1>1. \A A, B : Never(<<x>>, A, B) BY DEF Never
<1> QED BY <1>1, OneLacks, OneLasts, Pieces

\* What suspend does up to the look at the jacks.
SuspendDoes(q) ==
    /\ q \in Seq(Accesses) /\ Never(q, SenseOp, Accesses)
    /\ ~Lacks(q, SenseOp) => Looks
    /\ Lacks(q, Loud) /\ Lacks(q, Kind({"cut"})) /\ Lacks(q, Clears("keys"))
    /\ Lacks(q, Sets("low")) /\ Lacks(q, Clears("pull")) /\ Lacks(q, Sets("dspRuns"))
    /\ \A b \in Held : Lacks(q, Sets(b))
    /\ alc_spec.variant \notin Is256 => Lacks(q, Modes)
    /\ ~(alc_spec.variant \in Is256 /\ alc_spec.en_3kpull_low) => Lacks(q, Sets("pull"))
    /\ alc_spec.variant \in Is256 /\ alc_spec.en_3kpull_low => Leads(q, Sets("pull"), SenseOp)
    /\ HasDsp /\ ~alc_spec.halt => Lasts(q, Clears("dspRuns"), Sets("dspRuns"))

\* What suspend never has before the look at the jacks.
LEMMA SuspendLacks ==
    ASSUME NEW q \in Seq(SuspendOps)
    PROVE  /\ Lacks(q, Loud) /\ Lacks(q, Kind({"cut"})) /\ Lacks(q, Clears("keys"))
           /\ Lacks(q, Sets("low")) /\ Lacks(q, Clears("pull")) /\ Lacks(q, Sets("dspRuns"))
           /\ \A b \in Held : Lacks(q, Sets(b))
<1>1. /\ SuspendOps \cap Loud = {} /\ SuspendOps \cap Kind({"cut"}) = {}
      /\ SuspendOps \cap Clears("keys") = {} /\ SuspendOps \cap Sets("low") = {}
      /\ SuspendOps \cap Clears("pull") = {} /\ SuspendOps \cap Sets("dspRuns") = {}
      /\ \A b \in Held : SuspendOps \cap Sets(b) = {}
  BY DEF SuspendOps, Loud, Kind, Clears, Sets, Held
<1> QED BY <1>1, Alphabet

\* The plain shutup changes neither power mode nor pull-down.
LEMMA PlainShutup ==
    /\ alc269_shutup \in Seq(Accesses) /\ Lacks(alc269_shutup, SenseOp)
    /\ Lacks(alc269_shutup, Modes) /\ Lacks(alc269_shutup, Sets("pull"))
<1> DEFINE T == {<<"clear", "vbOutput">>, <<"clear", "eapd">>, <<"shutup_pins", "all">>}
<1>1. T \subseteq Accesses BY DEF Accesses, Switches
<1>2. T \cap SenseOp = {} /\ T \cap Modes = {} /\ T \cap Sets("pull") = {}
  BY DEF SenseOp, Modes, Sets, Kind
<1>3. Clear("vbOutput") \in Seq(T) /\ Clear("eapd") \in Seq(T) /\ <<<<"shutup_pins", "all">>>> \in Seq(T)
  BY DEF Clear
<1> HIDE DEF T
<1>4. shutup_pins \in Seq(T) BY <1>3, Pieces DEF shutup_pins
<1>5. alc269vb_toggle_power_output(FALSE) = If(IsVB, Clear("vbOutput"))
  BY DEF alc269vb_toggle_power_output
<1>6. alc269_shutup \in Seq(T) BY <1>3, <1>4, <1>5, Pieces DEF alc269_shutup
<1> QED BY <1>1, <1>2, <1>6, Alphabet, Widen

\* The first part of the shutup of ALC256 pulls down before it looks, where the quirk lets it.
LEMMA Shutup256 ==
    /\ alc256_3k \in Seq(Accesses) /\ Never(alc256_3k, SenseOp, Accesses)
    /\ alc_spec.en_3kpull_low => Leads(alc256_3k, Sets("pull"), SenseOp)
    /\ ~alc_spec.en_3kpull_low => Lacks(alc256_3k, Sets("pull"))
<1> DEFINE p == Mode("low")
<1>1. p \in Seq(Accesses) /\ Lacks(p, SenseOp) /\ Lacks(p, Sets("pull"))
  <2>1. <<"mode", "low">> \in Accesses /\ <<"mode", "low">> \notin SenseOp \cup Sets("pull")
    BY DEF Accesses, SenseOp, Sets, Kind
  <2> QED BY <2>1, OneIs DEF Mode
<1> HIDE DEF p
<1>2. /\ Set("pull") \in Seq(Accesses) /\ Leads(Set("pull"), Sets("pull"), SenseOp)
      /\ Lacks(Set("pull"), SenseOp)
  <2>1. <<"set", "pull">> \in Accesses \cap Sets("pull") /\ <<"set", "pull">> \notin SenseOp
    BY DEF Accesses, Switches, SenseOp, Sets, Kind
  <2> QED BY <2>1, OneIs DEF Set
<1>3. Lacks(Sense, Sets("pull"))
  <2>1. Sets("pull") \cap SenseOp = {} BY DEF Sets, SenseOp, Kind
  <2> QED BY <2>1, SenseIs
<1>4. CASE alc_spec.en_3kpull_low
  <2>1. alc256_3k = (p \o Set("pull")) \o Sense BY <1>4 DEF alc256_3k, If, p
  <2>2. /\ p \o Set("pull") \in Seq(Accesses) /\ Lacks(p \o Set("pull"), SenseOp)
        /\ Leads(p \o Set("pull"), Sets("pull"), SenseOp)
    BY <1>1, <1>2, Rules
  <2> QED BY <1>4, <2>1, <2>2, ThenSense
<1>5. CASE ~alc_spec.en_3kpull_low
  <2>1. alc256_3k = (p \o <<>>) \o Sense BY <1>5 DEF alc256_3k, If, p
  <2>2. p \o <<>> = p BY <1>1
  <2>3. Lacks(p \o Sense, Sets("pull")) BY <1>1, <1>3, SenseIs, Rules
  <2> QED BY <1>1, <1>5, <2>1, <2>2, <2>3, ThenSense
<1> QED BY <1>4, <1>5

\* Suspend does this, whatever the variant.
LEMMA SuspendFacts ==
    ASSUME alc_spec \in PowerMachines
    PROVE  SuspendDoes(alc269_suspend)
<1> DEFINE d == If(HasDsp /\ ~alc_spec.halt, alc5505_dsp_halt)
           v == alc_spec.variant
<1>1. /\ d \in Seq(Accesses) /\ Lacks(d, SenseOp) /\ Lacks(d, Modes) /\ Lacks(d, Sets("pull"))
      /\ HasDsp /\ ~alc_spec.halt => Lasts(d, Clears("dspRuns"), Sets("dspRuns"))
  <2>1. <<"clear", "dspRuns">> \in Accesses \cap Clears("dspRuns")
        /\ <<"clear", "dspRuns">> \notin SenseOp \cup Modes \cup Sets("pull")
    BY DEF Accesses, Switches, SenseOp, Modes, Sets, Clears, Kind
  <2>2. CASE HasDsp /\ ~alc_spec.halt
    <3>1. d = <<<<"clear", "dspRuns">>>> BY <2>2 DEF If, alc5505_dsp_halt, Clear
    <3> QED BY <2>1, <3>1, OneIs
  <2>3. CASE ~(HasDsp /\ ~alc_spec.halt)
    <3>1. d = <<>> BY <2>3 DEF If
    <3>2. <<>> \in Seq(Accesses) BY Pieces
    <3> QED BY <2>3, <3>1, <3>2, EmptyLacks
  <2> QED BY <2>2, <2>3
<1> HIDE DEF d
<1>2. Never(d, SenseOp, Accesses) BY <1>1, NeverEmpty
<1>3. alc269_suspend = d \o shutup BY DEF alc269_suspend, d
<1>4. /\ shutup \in Seq(Accesses) /\ Never(shutup, SenseOp, Accesses)
      /\ ~Lacks(shutup, SenseOp) => Looks
      /\ v \notin Is256 => Lacks(shutup, Modes)
      /\ ~(v \in Is256 /\ alc_spec.en_3kpull_low) => Lacks(shutup, Sets("pull"))
      /\ v \in Is256 /\ alc_spec.en_3kpull_low => Leads(shutup, Sets("pull"), SenseOp)
  <2>1. CASE v \in Is256
    <3>1. shutup = alc256_3k /\ Looks BY <2>1 DEF shutup, Looks
    <3> QED BY <2>1, <3>1, Shutup256
  <2>2. CASE v \notin Is256 /\ LooksFirst
    <3>1. shutup = Sense /\ Looks BY <2>2 DEF shutup, Looks, LooksFirst
    <3>2. Modes \cap SenseOp = {} /\ Sets("pull") \cap SenseOp = {} BY DEF Modes, Sets, SenseOp, Kind
    <3> QED BY <2>2, <3>1, <3>2, SenseIs
  <2>3. CASE v \notin Is256 /\ ~LooksFirst
    <3>1. shutup = alc269_shutup BY <2>3 DEF shutup
    <3>2. Never(shutup, SenseOp, Accesses) BY <3>1, PlainShutup, NeverEmpty
    <3> QED BY <2>3, <3>1, <3>2, PlainShutup
  <2> QED BY <2>1, <2>2, <2>3
<1> HIDE DEF v
<1>5. /\ d \o shutup \in Seq(Accesses) /\ Never(d \o shutup, SenseOp, Accesses)
      /\ v \notin Is256 => Lacks(d \o shutup, Modes)
      /\ ~(v \in Is256 /\ alc_spec.en_3kpull_low) => Lacks(d \o shutup, Sets("pull"))
      /\ v \in Is256 /\ alc_spec.en_3kpull_low => Leads(d \o shutup, Sets("pull"), SenseOp)
  BY <1>1, <1>2, <1>4, Rules
<1>6. ~Lacks(d \o shutup, SenseOp) => Looks
  <2>1. CASE Lacks(shutup, SenseOp) BY <1>1, <1>4, <2>1, Rules
  <2>2. CASE ~Lacks(shutup, SenseOp) BY <1>4, <2>2
  <2> QED BY <2>1, <2>2
<1>7. /\ Lacks(d \o shutup, Loud) /\ Lacks(d \o shutup, Kind({"cut"}))
      /\ Lacks(d \o shutup, Clears("keys"))
      /\ Lacks(d \o shutup, Sets("low")) /\ Lacks(d \o shutup, Clears("pull"))
      /\ Lacks(d \o shutup, Sets("dspRuns"))
      /\ \A b \in Held : Lacks(d \o shutup, Sets(b))
  BY <1>3, SuspendHas, SuspendLacks
<1>8. HasDsp /\ ~alc_spec.halt => Lasts(d \o shutup, Clears("dspRuns"), Sets("dspRuns"))
  <2>1. Lacks(shutup, Sets("dspRuns"))
    <3>1. ASSUME ~Lacks(shutup, Sets("dspRuns")) PROVE FALSE
      BY <1>1, <1>4, <1>7, <3>1, LacksConcatBack
    <3> QED BY <3>1
  <2> QED BY <1>1, <1>4, <2>1, Rules
<1>9. SuspendDoes(d \o shutup) BY <1>5, <1>6, <1>7, <1>8 DEF SuspendDoes, v
<1> QED BY <1>3, <1>9

-----------------------------------------------------------------------------
(* What init does with the jacks it sees.                                  *)

\* Putting one access behind what is there: how it is done, or undone.
LEMMA ThenOne ==
    ASSUME NEW p \in Seq(Accesses), NEW x \in Accesses
    PROVE  /\ p \o <<x>> \in Seq(Accesses)
           /\ \A S : Lacks(p, S) /\ x \notin S => Lacks(p \o <<x>>, S)
           /\ \A A, B : x \in A \/ (Lasts(p, A, B) /\ x \notin B) => Lasts(p \o <<x>>, A, B)
           /\ \A A, B : Leads(p, A, B) \/ (Lacks(p, B) /\ x \in A) => Leads(p \o <<x>>, A, B)
           /\ \A A, B : Never(p, A, B) /\ (Lacks(p, A) \/ x \notin B) => Never(p \o <<x>>, A, B)
<1>1. /\ <<x>> \in Seq(Accesses)
      /\ \A S : x \notin S => Lacks(<<x>>, S)
      /\ \A A, B : x \in A => Lasts(<<x>>, A, B) /\ Leads(<<x>>, A, B)
      /\ \A A, B : Never(<<x>>, A, B)
  BY OneIs
<1> QED BY <1>1, Rules

\* The accesses by name.
LEMMA Named ==
    /\ \A m \in {"low", "high", "normal"} :
         <<"mode", m>> \in Accesses /\ <<"mode", m>> \in Modes /\ <<"mode", m>> \in Kind({"mode", "restore"})
         /\ <<"mode", m>> \notin Saves /\ <<"mode", m>> \notin Restores
    /\ <<"save", "mode">> \in Accesses /\ <<"save", "mode">> \in Modes /\ <<"save", "mode">> \in Saves
    /\ <<"save", "mode">> \notin Restores /\ <<"save", "mode">> \notin Kind({"mode", "restore"})
    /\ <<"restore", "mode">> \in Accesses /\ <<"restore", "mode">> \in Restores
    /\ <<"restore", "mode">> \notin Saves
    /\ \A s \in SUBSET OutPins : s # {} =>
         /\ \A k \in {"mute", "unmute", "drive", "cut"} :
              <<k, s>> \in Accesses /\ <<k, s>> \notin Modes /\ <<k, s>> \notin Saves
              /\ <<k, s>> \notin Sets("pull") /\ <<k, s>> \notin Clears("pull")
              /\ <<k, s>> \notin Clears("keys") /\ <<k, s>> \notin Sets("keys")
              /\ <<k, s>> \notin Sets("low")
         /\ <<"mute", s>> \notin Unmutes /\ <<"drive", s>> \notin Unmutes
         /\ <<"mute", s>> \notin Cuts
         /\ \A p \in s : <<"drive", s>> \in DriveOf(p) /\ <<"mute", s>> \in MuteOf(p)
    /\ \A b \in {"pull", "keys", "low", "eapd"} : \A k \in {"set", "clear"} :
         <<k, b>> \in Accesses /\ <<k, b>> \notin Modes /\ <<k, b>> \notin Unmutes /\ <<k, b>> \notin Cuts
         /\ <<k, b>> \notin Saves
    /\ \A m \in {"low", "high", "normal", "mode"} : \A k \in {"mode", "save", "restore"} :
         <<k, m>> \notin Unmutes /\ <<k, m>> \notin Cuts /\ <<k, m>> \notin Sets("pull")
         /\ <<k, m>> \notin Clears("keys") /\ <<k, m>> \notin Sets("low")
    /\ Target \in {"normal", "high"} /\ <<"mode", Target>> \in ToTarget
BY DEF Accesses, Modes, Saves, Restores, Kind, Sets, Clears, Unmutes, Cuts, DriveOf, MuteOf,
       Switches, Target, ToTarget

\* What init does once it has seen the jacks in s.
SeenDoes(q, s) ==
    /\ q \in Seq(Accesses)
    /\ Lacks(q, SenseOp) /\ Lacks(q, Cuts) /\ Lacks(q, Sets("pull"))
    /\ \A b \in Switches \ {"pull"} : Lacks(q, Sets(b)) /\ Lacks(q, Clears(b))
    /\ Pulls => Lasts(q, Clears("pull"), Sets("pull"))
    /\ Targets /\ s # {} => Lasts(q, ToTarget, Modes)
    /\ ~Targets /\ alc_spec.variant # "ALC282" => Lacks(q, Modes)
    /\ alc_spec.variant = "ALC282" =>
         /\ Lasts(q, Restores, Modes) /\ Leads(q, Saves, Kind({"mode", "restore"}))
         /\ Never(q, Saves, Saves)
    /\ \A p \in s : Leads(q, DriveOf(p), Unmutes)

\* What the accesses for the jacks never have.
LEMMA SeenLacks ==
    ASSUME NEW q \in Seq(InitSeenOps)
    PROVE  /\ q \in Seq(Accesses) /\ Lacks(q, SenseOp) /\ Lacks(q, Cuts) /\ Lacks(q, Sets("pull"))
           /\ \A b \in Switches \ {"pull"} : Lacks(q, Sets(b)) /\ Lacks(q, Clears(b))
<1>1. /\ InitSeenOps \cap SenseOp = {} /\ InitSeenOps \cap Cuts = {}
      /\ InitSeenOps \cap Sets("pull") = {}
      /\ \A b \in Switches \ {"pull"} : InitSeenOps \cap Sets(b) = {} /\ InitSeenOps \cap Clears(b) = {}
  BY DEF InitSeenOps, SenseOp, Cuts, Kind, Clears, Sets
<1> QED BY <1>1, Alphabet, OpsAre, Widen

\* Driving pins and unmuting them.
LEMMA DriveIs ==
    ASSUME NEW s \in SUBSET OutPins
    PROVE  /\ Drive(s) \in Seq(Accesses) /\ Lacks(Drive(s), Modes) /\ Lacks(Drive(s), Sets("pull"))
           /\ \A p \in s : Leads(Drive(s), DriveOf(p), Unmutes)
<1>1. CASE s = {}
  <2>1. Drive(s) = <<>> \o <<>> BY <1>1 DEF Drive, Pin, If
  <2>2. <<>> \o <<>> = <<>> /\ <<>> \in Seq(Accesses) OBVIOUS
  <2> QED BY <1>1, <2>1, <2>2, EmptyLacks
<1>2. CASE s # {}
  <2>1. Drive(s) = <<<<"drive", s>>>> \o <<<<"unmute", s>>>> BY <1>2 DEF Drive, Pin, If
  <2> DEFINE x == <<"drive", s>>  y == <<"unmute", s>>
  <2>2. /\ x \in Accesses /\ y \in Accesses /\ x \notin Modes /\ y \notin Modes
        /\ x \notin Sets("pull") /\ y \notin Sets("pull")
        /\ \A p \in s : x \in DriveOf(p)
    BY <1>2, Named
  <2> HIDE DEF x, y
  <2>3. <<x>> \in Seq(Accesses) /\ Lacks(<<x>>, Modes) /\ Lacks(<<x>>, Sets("pull"))
        /\ \A p \in s : Leads(<<x>>, DriveOf(p), Unmutes)
    BY <2>2, OneIs
  <2> DEFINE f == <<x>>
  <2> HIDE DEF f
  <2>4. f \in Seq(Accesses) /\ Lacks(f, Modes) /\ Lacks(f, Sets("pull"))
        /\ \A p \in s : Leads(f, DriveOf(p), Unmutes)
    BY <2>3 DEF f
  <2>5. /\ f \o <<y>> \in Seq(Accesses) /\ Lacks(f \o <<y>>, Modes)
        /\ Lacks(f \o <<y>>, Sets("pull"))
        /\ \A p \in s : Leads(f \o <<y>>, DriveOf(p), Unmutes)
    BY <2>2, <2>4, ThenOne
  <2>6. Drive(s) = f \o <<y>> BY <2>1 DEF f, x, y
  <2> QED BY <2>5, <2>6
<1> QED BY <1>1, <1>2

\* ALC282 saves its power mode, drives the pins it unmutes and puts the mode back.
LEMMA Seen282 ==
    /\ Lasts(alc282_init_seen, Restores, Modes)
    /\ Leads(alc282_init_seen, Saves, Kind({"mode", "restore"}))
    /\ Never(alc282_init_seen, Saves, Saves)
    /\ Leads(alc282_init_seen, DriveOf("hp"), Unmutes)
<1> DEFINE h == {"hp"}
           q1 == <<<<"save", "mode">>>>
           q2 == q1 \o <<<<"mode", "high">>>>
           q3 == q2 \o <<<<"mute", h>>>>
           q4 == q3 \o <<<<"drive", h>>>>
           q5 == q4 \o <<<<"restore", "mode">>>>
<1>0. h \in SUBSET OutPins /\ h # {} /\ "hp" \in h BY DEF OutPins
<1>1. alc282_init_seen = q5 BY DEF alc282_init_seen, Mode, Pin, If
<1>2. /\ <<"mute", h>> \in Accesses /\ <<"mute", h>> \notin Saves /\ <<"mute", h>> \notin Unmutes
      /\ <<"drive", h>> \in Accesses /\ <<"drive", h>> \notin Saves
      /\ <<"drive", h>> \in DriveOf("hp")
  BY <1>0, Named
<1> HIDE DEF h
<1>3. /\ q1 \in Seq(Accesses) /\ Leads(q1, Saves, Kind({"mode", "restore"}))
      /\ Never(q1, Saves, Saves) /\ Lacks(q1, Unmutes)
  BY Named, OneIs
<1> HIDE DEF q1
<1>4. /\ q2 \in Seq(Accesses) /\ Leads(q2, Saves, Kind({"mode", "restore"}))
      /\ Never(q2, Saves, Saves) /\ Lacks(q2, Unmutes)
  BY <1>3, Named, ThenOne
<1> HIDE DEF q2
<1>5. /\ q3 \in Seq(Accesses) /\ Leads(q3, Saves, Kind({"mode", "restore"}))
      /\ Never(q3, Saves, Saves) /\ Lacks(q3, Unmutes)
  BY <1>2, <1>4, ThenOne
<1> HIDE DEF q3
<1>6. /\ q4 \in Seq(Accesses) /\ Leads(q4, Saves, Kind({"mode", "restore"}))
      /\ Never(q4, Saves, Saves) /\ Leads(q4, DriveOf("hp"), Unmutes)
  BY <1>2, <1>5, ThenOne
<1> HIDE DEF q4
<1>7. /\ Leads(q5, Saves, Kind({"mode", "restore"})) /\ Never(q5, Saves, Saves)
      /\ Leads(q5, DriveOf("hp"), Unmutes) /\ Lasts(q5, Restores, Modes)
  BY <1>6, Named, ThenOne
<1> QED BY <1>1, <1>7

\* ALC283 ends in normal power and with the pull-down off.
LEMMA Seen283 ==
    ASSUME alc_spec.variant = "ALC283"
    PROVE  /\ Lasts(alc283_init_seen, ToTarget, Modes)
           /\ Lasts(alc283_init_seen, Clears("pull"), Sets("pull"))
           /\ Leads(alc283_init_seen, DriveOf("hp"), Unmutes)
<1> DEFINE h == {"hp"}
           q1 == <<<<"mode", "high">>>>
           q2 == q1 \o <<<<"mute", h>>>>
           q3 == q2 \o <<<<"drive", h>>>>
           q4 == q3 \o <<<<"clear", "pull">>>>
           q5 == q4 \o <<<<"mode", "normal">>>>
<1>0. h \in SUBSET OutPins /\ h # {} /\ "hp" \in h BY DEF OutPins
<1>1. alc283_init_seen = q5 BY DEF alc283_init_seen, Mode, Pin, If, Clear
<1>2. /\ <<"mute", h>> \in Accesses /\ <<"mute", h>> \notin Unmutes
      /\ <<"drive", h>> \in Accesses
      /\ <<"drive", h>> \in DriveOf("hp")
  BY <1>0, Named
<1> HIDE DEF h
<1>3. q1 \in Seq(Accesses) /\ Lacks(q1, Unmutes) BY Named, OneIs
<1> HIDE DEF q1
<1>4. q2 \in Seq(Accesses) /\ Lacks(q2, Unmutes) BY <1>2, <1>3, ThenOne
<1> HIDE DEF q2
<1>5. q3 \in Seq(Accesses) /\ Leads(q3, DriveOf("hp"), Unmutes) BY <1>2, <1>4, ThenOne
<1> HIDE DEF q3
<1>6. /\ q4 \in Seq(Accesses) /\ Leads(q4, DriveOf("hp"), Unmutes)
      /\ Lasts(q4, Clears("pull"), Sets("pull"))
  <2>1. <<"clear", "pull">> \in Accesses /\ <<"clear", "pull">> \in Clears("pull")
    BY DEF Accesses, Switches, Clears
  <2> QED BY <1>5, <2>1, ThenOne
<1> HIDE DEF q4
<1>7. /\ Leads(q5, DriveOf("hp"), Unmutes) /\ Lasts(q5, ToTarget, Modes)
      /\ Lasts(q5, Clears("pull"), Sets("pull"))
  <2>1. <<"mode", "normal">> \in ToTarget BY DEF ToTarget, Target
  <2>2. <<"mode", "normal">> \in Accesses /\ <<"mode", "normal">> \notin Sets("pull") BY Named
  <2> QED BY <1>6, <2>1, <2>2, ThenOne
<1> QED BY <1>1, <1>7

\* ALC256 ends in high power and with the pull-down off.
LEMMA Seen256 ==
    ASSUME alc_spec.variant \in Is256, NEW s \in SUBSET OutPins
    PROVE  /\ Lasts(alc256_init_seen(s), Clears("pull"), Sets("pull"))
           /\ s # {} => Lasts(alc256_init_seen(s), ToTarget, Modes)
           /\ \A p \in s : Leads(alc256_init_seen(s), DriveOf(p), Unmutes)
<1> DEFINE q1 == <<<<"mode", "low">>>>
           q2 == q1 \o Drive(s)
           q3 == q2 \o <<<<"mode", "high">>>>
           q4 == q3 \o <<<<"clear", "pull">>>>
<1>0. <<"clear", "pull">> \in Accesses /\ <<"clear", "pull">> \in Clears("pull")
      /\ <<"clear", "pull">> \notin Modes
  BY DEF Accesses, Switches, Clears, Modes, Kind
<1>1. CASE s = {}
  <2>1. alc256_init_seen(s) = <<>> \o <<<<"clear", "pull">>>>
    BY <1>1 DEF alc256_init_seen, If, Clear
  <2>2. <<>> \in Seq(Accesses) BY Pieces
  <2> QED BY <1>0, <1>1, <2>1, <2>2, ThenOne
<1>2. CASE s # {}
  <2>1. alc256_init_seen(s) = q4 BY <1>2 DEF alc256_init_seen, If, Clear, Mode
  <2>2. q1 \in Seq(Accesses) /\ Lacks(q1, Unmutes) BY Named, OneIs
  <2> HIDE DEF q1
  <2>3. q2 \in Seq(Accesses) /\ \A p \in s : Leads(q2, DriveOf(p), Unmutes) BY <2>2, DriveIs, Rules
  <2> HIDE DEF q2
  <2>4. <<"mode", "high">> \in ToTarget BY DEF ToTarget, Target, Is256
  <2>5. /\ q3 \in Seq(Accesses) /\ \A p \in s : Leads(q3, DriveOf(p), Unmutes)
        /\ Lasts(q3, ToTarget, Modes)
    BY <2>3, <2>4, Named, ThenOne
  <2> HIDE DEF q3
  <2>6. /\ \A p \in s : Leads(q4, DriveOf(p), Unmutes)
        /\ Lasts(q4, ToTarget, Modes) /\ Lasts(q4, Clears("pull"), Sets("pull"))
    BY <1>0, <2>5, ThenOne
  <2> QED BY <2>1, <2>6
<1> QED BY <1>1, <1>2

\* ALC225 ends in high power, with both pins driven before they are unmuted.
LEMMA Seen225 ==
    ASSUME alc_spec.variant \in Is225, NEW s \in SUBSET OutPins
    PROVE  /\ s # {} => Lasts(alc225_init_seen(s), ToTarget, Modes)
           /\ \A p \in s : Leads(alc225_init_seen(s), DriveOf(p), Unmutes)
<1> DEFINE q1 == <<<<"mode", "low">>>>
           q2 == q1 \o Drive(s)
           q3 == q2 \o <<<<"clear", "pull">>>>
           q4 == q3 \o <<<<"mode", "high">>>>
<1>1. CASE s = {} BY <1>1
<1>2. CASE s # {}
  <2>1. alc225_init_seen(s) = q4 BY <1>2 DEF alc225_init_seen, If, Clear, Mode
  <2>2. q1 \in Seq(Accesses) /\ Lacks(q1, Unmutes) BY Named, OneIs
  <2> HIDE DEF q1
  <2>3. q2 \in Seq(Accesses) /\ \A p \in s : Leads(q2, DriveOf(p), Unmutes) BY <2>2, DriveIs, Rules
  <2> HIDE DEF q2
  <2>4. q3 \in Seq(Accesses) /\ \A p \in s : Leads(q3, DriveOf(p), Unmutes)
    <3>1. <<"clear", "pull">> \in Accesses BY DEF Accesses, Switches
    <3> QED BY <2>3, <3>1, ThenOne
  <2> HIDE DEF q3
  <2>5. <<"mode", "high">> \in ToTarget BY DEF ToTarget, Target, Is225
  <2>6. (\A p \in s : Leads(q4, DriveOf(p), Unmutes)) /\ Lasts(q4, ToTarget, Modes)
    BY <2>4, <2>5, Named, ThenOne
  <2> QED BY <2>1, <2>6
<1> QED BY <1>1, <1>2

\* Init does this for the jacks it sees, whatever the variant.
LEMMA SeenFacts ==
    ASSUME alc_spec \in PowerMachines, NEW s \in SUBSET Sensed
    PROVE  SeenDoes(InitSeen(s), s)
<1> DEFINE v == alc_spec.variant
<1>0. s \in SUBSET OutPins /\ (v \notin Is225 \cup {"ALC623"} => s \subseteq {"hp"})
  BY DEF Sensed, OutPins
<1>1. /\ InitSeen(s) \in Seq(Accesses) /\ Lacks(InitSeen(s), SenseOp) /\ Lacks(InitSeen(s), Cuts)
      /\ Lacks(InitSeen(s), Sets("pull"))
      /\ \A b \in Switches \ {"pull"} : Lacks(InitSeen(s), Sets(b)) /\ Lacks(InitSeen(s), Clears(b))
  BY <1>0, InitSeenHas, SeenLacks
<1>2. CASE v = "ALC282"
  <2>1. InitSeen(s) = alc282_init_seen /\ ~Pulls /\ ~Targets /\ s \subseteq {"hp"}
    BY <1>0, <1>2 DEF InitSeen, Pulls, Targets, Is256, Is225
  <2> QED BY <1>1, <1>2, <2>1, Seen282 DEF SeenDoes
<1>3. CASE v = "ALC283"
  <2>1. InitSeen(s) = alc283_init_seen /\ Targets /\ v # "ALC282" /\ s \subseteq {"hp"}
    BY <1>0, <1>3 DEF InitSeen, Targets, Is256, Is225
  <2> QED BY <1>1, <1>3, <2>1, Seen283 DEF SeenDoes
<1>4. CASE v \in Is256
  <2>1. InitSeen(s) = alc256_init_seen(s) /\ Targets /\ v # "ALC282"
    BY <1>4 DEF InitSeen, Targets, Is256, Is225
  <2> QED BY <1>0, <1>1, <1>4, <2>1, Seen256 DEF SeenDoes
<1>5. CASE v \in Is225
  <2>1. InitSeen(s) = alc225_init_seen(s) /\ Targets /\ ~Pulls /\ v # "ALC282"
    BY <1>5 DEF InitSeen, Targets, Pulls, Is256, Is225
  <2> QED BY <1>0, <1>1, <1>5, <2>1, Seen225 DEF SeenDoes
<1>6. CASE v \notin {"ALC282", "ALC283"} \cup Is256 \cup Is225
  <2>1. InitSeen(s) = Drive(s) /\ ~Targets /\ ~Pulls /\ v # "ALC282"
    BY <1>6 DEF InitSeen, Targets, Pulls, Is256, Is225
  <2> QED BY <1>0, <1>1, <2>1, DriveIs DEF SeenDoes
<1> QED BY <1>2, <1>3, <1>4, <1>5, <1>6

-----------------------------------------------------------------------------
(* What shutup does with the jacks it sees.                                *)

\* What shutup does once it has seen the jacks in s.
ShutDoes(q, s) ==
    /\ q \in Seq(Accesses) /\ Lacks(q, SenseOp) /\ Lacks(q, Loud) /\ Lacks(q, Sets("dspRuns"))
    /\ \A b \in Held : Lacks(q, Sets(b))
    /\ alc_spec.variant \in Is256 => Lacks(q, Sets("pull")) /\ Lacks(q, Clears("pull"))
    /\ alc_spec.variant \notin Is256 \cup {"ALC283"} =>
         Lasts(q, Clears("pull"), Sets("pull")) \/ Lacks(q, Sets("pull"))
    /\ Lasts(q, Sets("keys"), Clears("keys")) \/ Lacks(q, Clears("keys"))
    /\ ~Dozes => Lacks(q, Sets("low"))
    /\ ~Targets /\ alc_spec.variant # "ALC282" => Lacks(q, Modes)
    /\ alc_spec.variant = "ALC282" =>
         /\ Lasts(q, Restores, Modes) /\ Leads(q, Saves, Kind({"mode", "restore"}))
         /\ Never(q, Saves, Saves)
    /\ \A p \in s : Leads(q, MuteOf(p), Cuts)
    /\ Honours => Lacks(q, Kind({"cut"}))

\* What the accesses of a shutup never have.
LEMMA ShutLacks ==
    ASSUME NEW q \in Seq(ShutupSeenOps)
    PROVE  /\ q \in Seq(Accesses) /\ Lacks(q, SenseOp) /\ Lacks(q, Loud) /\ Lacks(q, Sets("dspRuns"))
           /\ \A b \in Held : Lacks(q, Sets(b))
<1>1. /\ ShutupSeenOps \cap SenseOp = {} /\ ShutupSeenOps \cap Loud = {}
      /\ ShutupSeenOps \cap Sets("dspRuns") = {}
      /\ \A b \in Held : ShutupSeenOps \cap Sets(b) = {}
  BY DEF ShutupSeenOps, SenseOp, Loud, Kind, Sets, Held
<1> QED BY <1>1, Alphabet, OpsAre, Widen

\* What cuts, clears, and dozes: the end of every shutup.
Back == {<<"clear", "eapd">>, <<"shutup_pins", "all">>} \cup Kind({"cut"})
Elsewhere == Sets("pull") \cup Clears("pull") \cup Sets("keys") \cup Clears("keys")
             \cup Sets("low") \cup Modes

\* Cutting pins is none of what is kept elsewhere, and no_shutup_pins cuts none.
LEMMA BackIs ==
    /\ \A t \in SUBSET OutPins : Cut(t) \in Seq(Accesses) /\ Lacks(Cut(t), Elsewhere)
                                 /\ Pin("cut", t) \in Seq(Accesses) /\ Lacks(Pin("cut", t), Elsewhere)
    /\ shutup_pins \in Seq(Accesses) /\ Lacks(shutup_pins, Elsewhere)
    /\ Lacks(shutup_pins, Kind({"cut"}))
    /\ alc_spec.no_shutup_pins => \A t : Cut(t) = <<>>
<1>1. Back \cap Elsewhere = {} /\ Back \subseteq Accesses
  BY DEF Back, Elsewhere, Sets, Clears, Modes, Kind, Accesses, Switches
<1>2. \A t \in SUBSET OutPins : Pin("cut", t) \in Seq(Back)
  <2>1. ASSUME NEW t \in SUBSET OutPins PROVE Pin("cut", t) \in Seq(Back)
    <3>1. CASE t = {} BY <3>1, Pieces DEF Pin, If
    <3>2. CASE t # {}
      <4>1. <<"cut", t>> \in Back BY <3>2, PinOps DEF Back
      <4>2. <<<<"cut", t>>>> \in Seq(Back) BY <4>1, Pieces
      <4> QED BY <3>2, <4>2 DEF Pin, If
    <3> QED BY <3>1, <3>2
  <2> QED BY <2>1
<1>3. \A t \in SUBSET OutPins : Cut(t) \in Seq(Back) BY <1>2, Pieces DEF Cut
<1>4. shutup_pins \in Seq(Back)
  <2>1. Clear("eapd") \in Seq(Back) /\ <<<<"shutup_pins", "all">>>> \in Seq(Back)
    BY DEF Back, Clear
  <2> QED BY <2>1, Pieces DEF shutup_pins
<1>5. Lacks(shutup_pins, Kind({"cut"}))
  <2> DEFINE T == {<<"clear", "eapd">>, <<"shutup_pins", "all">>}
  <2>1. Clear("eapd") \in Seq(T) /\ <<<<"shutup_pins", "all">>>> \in Seq(T) BY DEF Clear
  <2>2. T \cap Kind({"cut"}) = {} BY DEF Kind
  <2> HIDE DEF T
  <2>3. shutup_pins \in Seq(T) BY <2>1, Pieces DEF shutup_pins
  <2> QED BY <2>2, <2>3, Alphabet
<1>6. alc_spec.no_shutup_pins => \A t : Cut(t) = <<>> BY DEF Cut, If
<1> QED BY <1>1, <1>2, <1>3, <1>4, <1>5, <1>6, Alphabet, Widen

\* Falling into ultra low power is a single switch.
LEMMA DozeIs ==
    /\ doze \in Seq(Accesses) /\ Lacks(doze, Elsewhere \ Sets("low")) /\ Lacks(doze, Kind({"cut"}))
    /\ ~alc_spec.ultra_low_power => doze = <<>>
<1>1. <<"set", "low">> \in Accesses /\ <<"set", "low">> \notin Elsewhere \ Sets("low")
      /\ <<"set", "low">> \notin Kind({"cut"})
  BY DEF Accesses, Switches, Elsewhere, Sets, Clears, Modes, Kind
<1>2. CASE alc_spec.ultra_low_power
  <2>1. doze = <<<<"set", "low">>>> BY <1>2 DEF doze, If, Set
  <2> QED BY <1>1, <1>2, <2>1, OneIs
<1>3. CASE ~alc_spec.ultra_low_power
  <2>1. doze = <<>> BY <1>3 DEF doze, If
  <2> QED BY <2>1, Pieces, EmptyLacks
<1> QED BY <1>2, <1>3

\* The pins are muted first.
LEMMA MuteIs ==
    ASSUME NEW s \in SUBSET OutPins
    PROVE  /\ Pin("mute", s) \in Seq(Accesses) /\ Lacks(Pin("mute", s), Elsewhere)
           /\ Lacks(Pin("mute", s), Kind({"cut"})) /\ Lacks(Pin("mute", s), Cuts)
           /\ \A p \in s : Leads(Pin("mute", s), MuteOf(p), Cuts)
<1>1. CASE s = {}
  <2>1. Pin("mute", s) = <<>> BY <1>1 DEF Pin, If
  <2> QED BY <1>1, <2>1, Pieces, EmptyLacks
<1>2. CASE s # {}
  <2>1. Pin("mute", s) = <<<<"mute", s>>>> BY <1>2 DEF Pin, If
  <2>2. /\ <<"mute", s>> \in Accesses /\ <<"mute", s>> \notin Cuts
        /\ \A p \in s : <<"mute", s>> \in MuteOf(p)
    BY <1>2, Named
  <2>3. <<"mute", s>> \notin Elsewhere /\ <<"mute", s>> \notin Kind({"cut"})
    BY DEF Elsewhere, Sets, Clears, Modes, Kind
  <2> QED BY <2>1, <2>2, <2>3, OneIs
<1> QED BY <1>1, <1>2

\* Mutes, cuts and clears, as alc_default_shutup does.
LEMMA Quiet ==
    ASSUME NEW s \in SUBSET OutPins
    PROVE  /\ alc_default_shutup(s) \in Seq(Accesses) /\ Lacks(alc_default_shutup(s), Elsewhere)
           /\ \A p \in s : Leads(alc_default_shutup(s), MuteOf(p), Cuts)
           /\ alc_spec.no_shutup_pins => Lacks(alc_default_shutup(s), Kind({"cut"}))
<1> DEFINE m == Pin("mute", s)  c == Cut(s)
<1>1. /\ m \in Seq(Accesses) /\ Lacks(m, Elsewhere) /\ Lacks(m, Kind({"cut"}))
      /\ \A p \in s : Leads(m, MuteOf(p), Cuts)
  BY MuteIs
<1>2. /\ c \in Seq(Accesses) /\ Lacks(c, Elsewhere)
      /\ alc_spec.no_shutup_pins => Lacks(c, Kind({"cut"}))
  BY BackIs, EmptyLacks
<1>3. alc_default_shutup(s) = (m \o c) \o shutup_pins BY DEF alc_default_shutup
<1> HIDE DEF m, c
<1> DEFINE mc == m \o c
<1>4. /\ mc \in Seq(Accesses) /\ Lacks(mc, Elsewhere)
      /\ \A p \in s : Leads(mc, MuteOf(p), Cuts)
      /\ alc_spec.no_shutup_pins => Lacks(mc, Kind({"cut"}))
  BY <1>1, <1>2, Rules
<1> HIDE DEF mc
<1>5. /\ mc \o shutup_pins \in Seq(Accesses) /\ Lacks(mc \o shutup_pins, Elsewhere)
      /\ \A p \in s : Leads(mc \o shutup_pins, MuteOf(p), Cuts)
      /\ alc_spec.no_shutup_pins => Lacks(mc \o shutup_pins, Kind({"cut"}))
  BY <1>4, BackIs, Rules
<1> QED BY <1>3, <1>5 DEF mc

\* What lacks all that is kept elsewhere lacks each of it.
LEMMA ElsewhereHas ==
    ASSUME NEW q, Lacks(q, Elsewhere)
    PROVE  /\ Lacks(q, Sets("pull")) /\ Lacks(q, Clears("pull")) /\ Lacks(q, Clears("keys"))
           /\ Lacks(q, Sets("keys")) /\ Lacks(q, Sets("low")) /\ Lacks(q, Modes)
BY DEF Elsewhere, Lacks

\* The shutup of ALC256 mutes the pins it saw before it cuts any.
LEMMA Shut256 ==
    ASSUME NEW s \in SUBSET OutPins
    PROVE  /\ Lacks(alc256_shutup(s), Elsewhere \ Sets("low"))
           /\ ~alc_spec.ultra_low_power => Lacks(alc256_shutup(s), Sets("low"))
           /\ \A p \in s : Leads(alc256_shutup(s), MuteOf(p), Cuts)
           /\ alc_spec.no_shutup_pins => Lacks(alc256_shutup(s), Kind({"cut"}))
<1> DEFINE q == alc_default_shutup(s)
<1>1. alc256_shutup(s) = q \o doze BY DEF alc256_shutup, alc_default_shutup
<1>2. /\ q \in Seq(Accesses) /\ Lacks(q, Elsewhere)
      /\ \A p \in s : Leads(q, MuteOf(p), Cuts)
      /\ alc_spec.no_shutup_pins => Lacks(q, Kind({"cut"}))
  BY Quiet
<1>3. Lacks(q, Elsewhere \ Sets("low")) BY <1>2, LacksLess
<1> HIDE DEF q
<1>4. /\ q \o doze \in Seq(Accesses) /\ Lacks(q \o doze, Elsewhere \ Sets("low"))
      /\ \A p \in s : Leads(q \o doze, MuteOf(p), Cuts)
      /\ alc_spec.no_shutup_pins => Lacks(q \o doze, Kind({"cut"}))
  BY <1>2, <1>3, DozeIs, Rules
<1>5. ASSUME ~alc_spec.ultra_low_power PROVE Lacks(q \o doze, Sets("low"))
  <2>1. q \o doze = q BY <1>2, <1>5, DozeIs
  <2> QED BY <1>2, <2>1, ElsewhereHas
<1> QED BY <1>1, <1>4, <1>5

\* So does that of ALC222,
LEMMA Shut222 ==
    ASSUME NEW s \in SUBSET OutPins
    PROVE  /\ Lacks(alc222_shutup(s), Elsewhere)
           /\ \A p \in s : Leads(alc222_shutup(s), MuteOf(p), Cuts)
<1> DEFINE m == Pin("mute", s)  c == Pin("cut", s)
<1>1. /\ m \in Seq(Accesses) /\ Lacks(m, Elsewhere)
      /\ \A p \in s : Leads(m, MuteOf(p), Cuts)
  BY MuteIs
<1>2. c \in Seq(Accesses) /\ Lacks(c, Elsewhere) BY BackIs
<1>3. alc222_shutup(s) = (m \o c) \o shutup_pins BY DEF alc222_shutup
<1> HIDE DEF m, c
<1> DEFINE mc == m \o c
<1>4. /\ mc \in Seq(Accesses) /\ Lacks(mc, Elsewhere)
      /\ \A p \in s : Leads(mc, MuteOf(p), Cuts)
  BY <1>1, <1>2, Rules
<1> HIDE DEF mc
<1>5. /\ Lacks(mc \o shutup_pins, Elsewhere)
      /\ \A p \in s : Leads(mc \o shutup_pins, MuteOf(p), Cuts)
  BY <1>4, BackIs, Rules
<1> QED BY <1>3, <1>5 DEF mc

\* that of ALC282, which puts its power mode back,
LEMMA Shut282 ==
    /\ Lasts(alc282_shutup, Restores, Modes)
    /\ Leads(alc282_shutup, Saves, Kind({"mode", "restore"}))
    /\ Never(alc282_shutup, Saves, Saves)
    /\ Leads(alc282_shutup, MuteOf("hp"), Cuts)
    /\ Lacks(alc282_shutup, Elsewhere \ Modes)
    /\ alc_spec.no_shutup_pins => Lacks(alc282_shutup, Kind({"cut"}))
<1> DEFINE h == {"hp"}  K == Kind({"mode", "restore"})
           N == (Elsewhere \ Modes) \cup (IF alc_spec.no_shutup_pins THEN Kind({"cut"}) ELSE {})
           q1 == <<<<"save", "mode">>>>
           q2 == q1 \o <<<<"mode", "high">>>>
           q3 == q2 \o <<<<"mute", h>>>>
           q4 == q3 \o Cut(h)
           q5 == q4 \o shutup_pins
           q6 == q5 \o <<<<"restore", "mode">>>>
<1>0. h \in SUBSET OutPins /\ h # {} /\ "hp" \in h BY DEF OutPins
<1>1. alc282_shutup = q6 BY DEF alc282_shutup, Mode, Pin, If
<1>2. /\ <<"mute", h>> \in Accesses /\ <<"mute", h>> \notin Saves
      /\ <<"mute", h>> \in MuteOf("hp")
  BY <1>0, Named
<1>3. /\ <<"mute", h>> \notin N /\ <<"save", "mode">> \notin N /\ <<"mode", "high">> \notin N
      /\ <<"restore", "mode">> \notin N
  BY DEF Elsewhere, Sets, Clears, Modes, Kind, Accesses
<1>4. Cut(h) \in Seq(Accesses) /\ Lacks(Cut(h), N) /\ Lacks(Cut(h), Saves)
  <2>1. Lacks(Cut(h), Elsewhere) /\ Cut(h) \in Seq(Accesses) BY <1>0, BackIs
  <2>2. Saves \subseteq Elsewhere /\ Elsewhere \ Modes \subseteq Elsewhere
    BY DEF Saves, Elsewhere, Modes, Kind
  <2>3. CASE alc_spec.no_shutup_pins BY <2>1, <2>2, <2>3, BackIs, EmptyLacks, LacksLess
  <2>4. CASE ~alc_spec.no_shutup_pins
    <3>1. N \subseteq Elsewhere BY <2>4
    <3> QED BY <2>1, <2>2, <3>1, LacksLess
  <2> QED BY <2>3, <2>4
<1>5. shutup_pins \in Seq(Accesses) /\ Lacks(shutup_pins, N) /\ Lacks(shutup_pins, Saves)
  <2>1. Saves \subseteq Elsewhere /\ N \subseteq Elsewhere \cup Kind({"cut"})
    BY DEF Saves, Elsewhere, Modes, Kind
  <2>2. Lacks(shutup_pins, Elsewhere \cup Kind({"cut"})) BY BackIs DEF Lacks
  <2> QED BY <2>1, <2>2, LacksLess, BackIs
<1>6. Never(Cut(h), Saves, Saves) /\ Never(shutup_pins, Saves, Saves) BY <1>4, <1>5, NeverEmpty
<1>13. /\ Elsewhere \ Modes \subseteq N
       /\ alc_spec.no_shutup_pins => Kind({"cut"}) \subseteq N
  OBVIOUS
<1> HIDE DEF h, K, N
<1>7. /\ q1 \in Seq(Accesses) /\ Leads(q1, Saves, K) /\ Never(q1, Saves, Saves)
      /\ Lacks(q1, Cuts) /\ Lacks(q1, N)
  BY <1>3, Named, OneIs
<1> HIDE DEF q1
<1>8. /\ q2 \in Seq(Accesses) /\ Leads(q2, Saves, K) /\ Never(q2, Saves, Saves)
      /\ Lacks(q2, Cuts) /\ Lacks(q2, N)
  BY <1>3, <1>7, Named, ThenOne
<1> HIDE DEF q2
<1>9. /\ q3 \in Seq(Accesses) /\ Leads(q3, Saves, K) /\ Never(q3, Saves, Saves)
      /\ Leads(q3, MuteOf("hp"), Cuts) /\ Lacks(q3, N)
  BY <1>2, <1>3, <1>8, ThenOne
<1> HIDE DEF q3
<1>10. /\ q4 \in Seq(Accesses) /\ Leads(q4, Saves, K) /\ Never(q4, Saves, Saves)
       /\ Leads(q4, MuteOf("hp"), Cuts) /\ Lacks(q4, N)
  BY <1>4, <1>6, <1>9, Rules
<1> HIDE DEF q4
<1>11. /\ q5 \in Seq(Accesses) /\ Leads(q5, Saves, K) /\ Never(q5, Saves, Saves)
       /\ Leads(q5, MuteOf("hp"), Cuts) /\ Lacks(q5, N)
  BY <1>5, <1>6, <1>10, Rules
<1> HIDE DEF q5
<1>12. /\ Leads(q6, Saves, K) /\ Never(q6, Saves, Saves) /\ Lasts(q6, Restores, Modes)
       /\ Leads(q6, MuteOf("hp"), Cuts) /\ Lacks(q6, N)
  BY <1>3, <1>11, Named, ThenOne
<1> HIDE DEF q6
<1>14. /\ Lacks(q6, Elsewhere \ Modes)
       /\ alc_spec.no_shutup_pins => Lacks(q6, Kind({"cut"}))
  BY <1>12, <1>13, LacksLess
<1> QED BY <1>1, <1>12, <1>14 DEF K

\* that of ALC283,
LEMMA Shut283 ==
    /\ Leads(alc283_shutup, MuteOf("hp"), Cuts)
    /\ Lacks(alc283_shutup, Clears("keys")) /\ Lacks(alc283_shutup, Sets("low"))
    /\ alc_spec.no_shutup_pins => Lacks(alc283_shutup, Kind({"cut"}))
<1> DEFINE h == {"hp"}
           N == Clears("keys") \cup Sets("low")
                \cup (IF alc_spec.no_shutup_pins THEN Kind({"cut"}) ELSE {})
           q1 == <<<<"mode", "high">>>>
           q2 == q1 \o <<<<"mute", h>>>>
           q3 == q2 \o Cut(h)
           q4 == q3 \o <<<<"set", "pull">>>>
           q5 == q4 \o shutup_pins
           q6 == q5 \o <<<<"mode", "normal">>>>
<1>0. h \in SUBSET OutPins /\ h # {} /\ "hp" \in h BY DEF OutPins
<1>1. alc283_shutup = q6 BY DEF alc283_shutup, Mode, Pin, If, Set
<1>2. <<"mute", h>> \in Accesses /\ <<"mute", h>> \in MuteOf("hp") BY <1>0, Named
<1>3. /\ <<"mute", h>> \notin N /\ <<"mode", "high">> \notin N /\ <<"mode", "normal">> \notin N
      /\ <<"set", "pull">> \notin N /\ <<"set", "pull">> \in Accesses
  BY DEF Sets, Clears, Kind, Accesses, Switches
<1>4. Cut(h) \in Seq(Accesses) /\ Lacks(Cut(h), N)
  <2>1. Lacks(Cut(h), Elsewhere) /\ Cut(h) \in Seq(Accesses) BY <1>0, BackIs
  <2>2. CASE alc_spec.no_shutup_pins BY <2>1, <2>2, BackIs, EmptyLacks
  <2>3. CASE ~alc_spec.no_shutup_pins
    <3>1. N \subseteq Elsewhere BY <2>3 DEF Elsewhere
    <3> QED BY <2>1, <3>1, LacksLess
  <2> QED BY <2>2, <2>3
<1>5. shutup_pins \in Seq(Accesses) /\ Lacks(shutup_pins, N)
  <2>1. N \subseteq Elsewhere \cup Kind({"cut"}) BY DEF Elsewhere
  <2>2. Lacks(shutup_pins, Elsewhere \cup Kind({"cut"})) BY BackIs DEF Lacks
  <2> QED BY <2>1, <2>2, LacksLess, BackIs
<1>6. /\ Clears("keys") \subseteq N /\ Sets("low") \subseteq N
      /\ alc_spec.no_shutup_pins => Kind({"cut"}) \subseteq N
  OBVIOUS
<1> HIDE DEF h, N
<1>7. q1 \in Seq(Accesses) /\ Lacks(q1, Cuts) /\ Lacks(q1, N) BY <1>3, Named, OneIs
<1> HIDE DEF q1
<1>8. q2 \in Seq(Accesses) /\ Leads(q2, MuteOf("hp"), Cuts) /\ Lacks(q2, N)
  BY <1>2, <1>3, <1>7, ThenOne
<1> HIDE DEF q2
<1>9. q3 \in Seq(Accesses) /\ Leads(q3, MuteOf("hp"), Cuts) /\ Lacks(q3, N)
  BY <1>4, <1>8, Rules
<1> HIDE DEF q3
<1>10. q4 \in Seq(Accesses) /\ Leads(q4, MuteOf("hp"), Cuts) /\ Lacks(q4, N)
  BY <1>3, <1>9, ThenOne
<1> HIDE DEF q4
<1>11. q5 \in Seq(Accesses) /\ Leads(q5, MuteOf("hp"), Cuts) /\ Lacks(q5, N)
  BY <1>5, <1>10, Rules
<1> HIDE DEF q5
<1>12. Leads(q6, MuteOf("hp"), Cuts) /\ Lacks(q6, N) BY <1>3, <1>11, Named, ThenOne
<1> HIDE DEF q6
<1>13. /\ Lacks(q6, Clears("keys")) /\ Lacks(q6, Sets("low"))
       /\ alc_spec.no_shutup_pins => Lacks(q6, Kind({"cut"}))
  BY <1>6, <1>12, LacksLess
<1> QED BY <1>1, <1>12, <1>13

\* and that of ALC225, which arms the headset keys again.
LEMMA Shut225 ==
    ASSUME NEW s \in SUBSET OutPins
    PROVE  /\ Lasts(alc225_shutup(s), Clears("pull"), Sets("pull"))
              \/ Lacks(alc225_shutup(s), Sets("pull"))
           /\ Lasts(alc225_shutup(s), Sets("keys"), Clears("keys"))
              \/ Lacks(alc225_shutup(s), Clears("keys"))
           /\ ~alc_spec.ultra_low_power => Lacks(alc225_shutup(s), Sets("low"))
           /\ \A p \in s : Leads(alc225_shutup(s), MuteOf(p), Cuts)
<1> DEFINE off == alc_disable_headset_jack_key  on == alc_enable_headset_jack_key
           L == IF alc_spec.ultra_low_power THEN {} ELSE Sets("low")
           SP == Sets("pull")  CP == Clears("pull")  SK == Sets("keys")  CK == Clears("keys")
           q1 == off \o Set("pull")
           q2 == q1 \o Pin("mute", s)
           q3 == q2 \o Pin("cut", s)
           q4 == q3 \o Clear("pull")
           q5 == q4 \o on
           c  == If(s # {}, q5)
           q6 == c \o shutup_pins
           q7 == q6 \o doze
<1>1. alc225_shutup(s) = q7 BY DEF alc225_shutup
<1>2. /\ off \in Seq(Accesses) /\ on \in Seq(Accesses)
      /\ Lacks(off, L) /\ Lacks(off, Cuts) /\ Lacks(on, L) /\ Lacks(on, SP)
      /\ Lasts(on, SK, CK) \/ (Lacks(off, CK) /\ Lacks(on, CK))
  <2>1. /\ <<"set", "keys">> \in Accesses /\ <<"clear", "keys">> \in Accesses
        /\ <<"set", "keys">> \in SK /\ <<"set", "keys">> \notin L /\ <<"set", "keys">> \notin SP
        /\ <<"clear", "keys">> \notin L /\ <<"clear", "keys">> \notin Cuts
    BY DEF Accesses, Switches, Sets, Cuts, Kind
  <2>2. CASE HasKeys
    <3>1. off = <<<<"clear", "keys">>>> /\ on = <<<<"set", "keys">>>>
      BY <2>2 DEF alc_disable_headset_jack_key, alc_enable_headset_jack_key, If, Set, Clear
    <3> QED BY <2>1, <3>1, OneIs
  <2>3. CASE ~HasKeys
    <3>1. off = <<>> /\ on = <<>>
      BY <2>3 DEF alc_disable_headset_jack_key, alc_enable_headset_jack_key, If
    <3>2. <<>> \in Seq(Accesses) BY Pieces
    <3> QED BY <3>1, <3>2, EmptyLacks
  <2> QED BY <2>2, <2>3
<1>3. /\ <<"set", "pull">> \in Accesses /\ <<"set", "pull">> \notin L /\ <<"set", "pull">> \notin Cuts
      /\ <<"set", "pull">> \notin CK
      /\ <<"clear", "pull">> \in Accesses /\ <<"clear", "pull">> \in CP /\ <<"clear", "pull">> \notin L
      /\ <<"clear", "pull">> \notin CK
  BY DEF Accesses, Switches, Sets, Clears, Cuts, Kind
<1>4. Set("pull") = <<<<"set", "pull">>>> /\ Clear("pull") = <<<<"clear", "pull">>>>
  BY DEF Set, Clear
<1>5. /\ L \subseteq Elsewhere /\ SP \subseteq Elsewhere /\ CK \subseteq Elsewhere BY DEF Elsewhere
<1>6. /\ Pin("mute", s) \in Seq(Accesses) /\ Lacks(Pin("mute", s), L) /\ Lacks(Pin("mute", s), CK)
      /\ Lacks(Pin("mute", s), Cuts) /\ \A p \in s : Leads(Pin("mute", s), MuteOf(p), Cuts)
  BY <1>5, MuteIs, LacksLess
<1>7. Pin("cut", s) \in Seq(Accesses) /\ Lacks(Pin("cut", s), L) /\ Lacks(Pin("cut", s), CK)
  BY <1>5, BackIs, LacksLess
<1>8. /\ shutup_pins \in Seq(Accesses) /\ Lacks(shutup_pins, L) /\ Lacks(shutup_pins, SP)
      /\ Lacks(shutup_pins, CK)
  BY <1>5, BackIs, LacksLess
<1>9. doze \in Seq(Accesses) /\ Lacks(doze, L) /\ Lacks(doze, SP) /\ Lacks(doze, CK)
  <2>1. SP \subseteq Elsewhere \ Sets("low") /\ CK \subseteq Elsewhere \ Sets("low")
    BY DEF Elsewhere, Sets, Clears
  <2>2. CASE alc_spec.ultra_low_power
    <3>1. L \subseteq Elsewhere \ Sets("low") BY <2>2
    <3> QED BY <2>1, <3>1, DozeIs, LacksLess
  <2>3. CASE ~alc_spec.ultra_low_power BY <2>3, DozeIs, EmptyLacks
  <2> QED BY <2>2, <2>3
<1>10. ~alc_spec.ultra_low_power => L = Sets("low") OBVIOUS
<1> HIDE DEF off, on, L, SP, CP, SK, CK
<1>11. /\ q1 \in Seq(Accesses) /\ Lacks(q1, L) /\ Lacks(q1, Cuts) /\ (Lacks(off, CK) => Lacks(q1, CK))
  BY <1>2, <1>3, <1>4, ThenOne
<1> HIDE DEF q1
<1>12. /\ q2 \in Seq(Accesses) /\ Lacks(q2, L) /\ (Lacks(off, CK) => Lacks(q2, CK))
       /\ \A p \in s : Leads(q2, MuteOf(p), Cuts)
  BY <1>6, <1>11, Rules
<1> HIDE DEF q2
<1>13. /\ q3 \in Seq(Accesses) /\ Lacks(q3, L) /\ (Lacks(off, CK) => Lacks(q3, CK))
       /\ \A p \in s : Leads(q3, MuteOf(p), Cuts)
  BY <1>7, <1>12, Rules
<1> HIDE DEF q3
<1>14. /\ q4 \in Seq(Accesses) /\ Lacks(q4, L) /\ (Lacks(off, CK) => Lacks(q4, CK))
       /\ \A p \in s : Leads(q4, MuteOf(p), Cuts)
       /\ Lasts(q4, CP, SP)
  BY <1>3, <1>4, <1>13, ThenOne
<1> HIDE DEF q4
<1>15. /\ q5 \in Seq(Accesses) /\ Lacks(q5, L) /\ Lasts(q5, CP, SP)
       /\ \A p \in s : Leads(q5, MuteOf(p), Cuts)
       /\ Lasts(q5, SK, CK) \/ Lacks(q5, CK)
  BY <1>2, <1>14, Rules
<1> HIDE DEF q5
<1>16. /\ c \in Seq(Accesses) /\ Lacks(c, L) /\ (Lasts(c, CP, SP) \/ Lacks(c, SP))
       /\ \A p \in s : Leads(c, MuteOf(p), Cuts)
       /\ Lasts(c, SK, CK) \/ Lacks(c, CK)
  <2>1. CASE s = {}
    <3>1. c = <<>> BY <2>1 DEF If
    <3>2. <<>> \in Seq(Accesses) BY Pieces
    <3> QED BY <2>1, <3>1, <3>2, EmptyLacks
  <2>2. CASE s # {}
    <3>1. c = q5 BY <2>2 DEF If
    <3> QED BY <1>15, <3>1
  <2> QED BY <2>1, <2>2
<1> HIDE DEF c
<1>17. /\ q6 \in Seq(Accesses) /\ Lacks(q6, L) /\ (Lasts(q6, CP, SP) \/ Lacks(q6, SP))
       /\ \A p \in s : Leads(q6, MuteOf(p), Cuts)
       /\ Lasts(q6, SK, CK) \/ Lacks(q6, CK)
  BY <1>8, <1>16, Rules
<1> HIDE DEF q6
<1>18. /\ Lacks(q7, L) /\ (Lasts(q7, CP, SP) \/ Lacks(q7, SP))
       /\ \A p \in s : Leads(q7, MuteOf(p), Cuts)
       /\ Lasts(q7, SK, CK) \/ Lacks(q7, CK)
  BY <1>9, <1>17, Rules
<1> HIDE DEF q7
<1> QED BY <1>1, <1>10, <1>18 DEF CP, SP, SK, CK

\* Shutup does this for the jacks it sees, whatever the variant.
LEMMA ShutFacts ==
    ASSUME alc_spec \in PowerMachines, NEW s \in SUBSET Sensed
    PROVE  ShutDoes(ShutupSeen(s), s)
<1> DEFINE v == alc_spec.variant  q == ShutupSeen(s)
<1>0. s \in SUBSET OutPins /\ (v \notin Is225 \cup {"ALC623"} => s \subseteq {"hp"})
  BY DEF Sensed, OutPins
<1>1. /\ q \in Seq(Accesses) /\ Lacks(q, SenseOp) /\ Lacks(q, Loud) /\ Lacks(q, Sets("dspRuns"))
      /\ \A b \in Held : Lacks(q, Sets(b))
  BY <1>0, ShutupSeenHas, ShutLacks
<1>2. CASE v = "ALC282"
  <2>1. q = alc282_shutup /\ ~Targets /\ v \notin Is256 /\ s \subseteq {"hp"}
    BY <1>0, <1>2 DEF ShutupSeen, Targets, Is256, Is225
  <2>2. /\ Lacks(q, Sets("pull")) /\ Lacks(q, Clears("keys")) /\ Lacks(q, Sets("low"))
    <3>1. /\ Sets("pull") \subseteq Elsewhere \ Modes /\ Clears("keys") \subseteq Elsewhere \ Modes
          /\ Sets("low") \subseteq Elsewhere \ Modes
      BY DEF Elsewhere, Sets, Clears, Modes, Kind
    <3> QED BY <2>1, <3>1, Shut282, LacksLess
  <2>3. Honours => Lacks(q, Kind({"cut"})) BY <2>1, Shut282 DEF Honours
  <2> QED BY <1>1, <1>2, <2>1, <2>2, <2>3, Shut282 DEF ShutDoes
<1>3. CASE v = "ALC283"
  <2>1. q = alc283_shutup /\ Targets /\ v \notin Is256 /\ v # "ALC282" /\ s \subseteq {"hp"}
    BY <1>0, <1>3 DEF ShutupSeen, Targets, Is256, Is225
  <2>2. Honours => Lacks(q, Kind({"cut"})) BY <2>1, Shut283 DEF Honours
  <2> QED BY <1>1, <1>3, <2>1, <2>2, Shut283 DEF ShutDoes
<1>4. CASE v \in Is256
  <2>1. q = alc256_shutup(s) /\ Targets /\ v # "ALC282" /\ (~Dozes => ~alc_spec.ultra_low_power)
    BY <1>4 DEF ShutupSeen, Targets, Is256, Is225, Dozes
  <2>2. Lacks(q, Sets("pull")) /\ Lacks(q, Clears("pull")) /\ Lacks(q, Clears("keys"))
    <3>1. /\ Sets("pull") \subseteq Elsewhere \ Sets("low")
          /\ Clears("pull") \subseteq Elsewhere \ Sets("low")
          /\ Clears("keys") \subseteq Elsewhere \ Sets("low")
      BY DEF Elsewhere, Sets, Clears
    <3> QED BY <1>0, <2>1, <3>1, Shut256, LacksLess
  <2>3. Honours => Lacks(q, Kind({"cut"})) BY <1>0, <2>1, Shut256 DEF Honours
  <2>4. /\ ~Dozes => Lacks(q, Sets("low"))
        /\ \A p \in s : Leads(q, MuteOf(p), Cuts)
    BY <1>0, <2>1, Shut256
  <2> HIDE DEF q
  <2>9. ShutDoes(q, s) BY <1>1, <1>4, <2>1, <2>2, <2>3, <2>4 DEF ShutDoes
  <2> QED BY <2>9 DEF q
<1>5. CASE v \in Is225
  <2>1. /\ q = alc225_shutup(s) /\ Targets /\ v # "ALC282" /\ v \notin Is256 /\ ~Honours
        /\ ~Dozes => ~alc_spec.ultra_low_power
    BY <1>5 DEF ShutupSeen, Targets, Is256, Is225, Dozes, Honours
  <2>2. /\ Lasts(q, Clears("pull"), Sets("pull")) \/ Lacks(q, Sets("pull"))
        /\ Lasts(q, Sets("keys"), Clears("keys")) \/ Lacks(q, Clears("keys"))
        /\ ~Dozes => Lacks(q, Sets("low"))
        /\ \A p \in s : Leads(q, MuteOf(p), Cuts)
    BY <1>0, <2>1, Shut225
  <2> HIDE DEF q
  <2>9. ShutDoes(q, s) BY <1>1, <1>5, <2>1, <2>2 DEF ShutDoes
  <2> QED BY <2>9 DEF q
<1>6. CASE v = "ALC623"
  <2>1. q = alc222_shutup(s) /\ v # "ALC282" /\ v \notin Is256 /\ ~Honours
    BY <1>6 DEF ShutupSeen, Is256, Is225, Honours
  <2>2. /\ Lacks(q, Elsewhere) /\ \A p \in s : Leads(q, MuteOf(p), Cuts) BY <1>0, <2>1, Shut222
  <2>3. /\ Lacks(q, Sets("pull")) /\ Lacks(q, Clears("keys")) /\ Lacks(q, Sets("low"))
        /\ Lacks(q, Modes)
    BY <2>2, ElsewhereHas
  <2> HIDE DEF q
  <2>9. ShutDoes(q, s) BY <1>1, <2>1, <2>2, <2>3 DEF ShutDoes
  <2> QED BY <2>9 DEF q
<1>7. CASE v \notin {"ALC282", "ALC283", "ALC623"} \cup Is256 \cup Is225
  <2>1. q = alc_default_shutup(s) /\ v # "ALC282" /\ v \notin Is256
    BY <1>7 DEF ShutupSeen, Is256, Is225
  <2>2. /\ Lacks(q, Elsewhere) /\ \A p \in s : Leads(q, MuteOf(p), Cuts) BY <1>0, <2>1, Quiet
  <2>3. Honours => Lacks(q, Kind({"cut"})) BY <1>0, <2>1, Quiet DEF Honours
  <2>4. /\ Lacks(q, Sets("pull")) /\ Lacks(q, Clears("keys")) /\ Lacks(q, Sets("low"))
        /\ Lacks(q, Modes)
    BY <2>2, ElsewhereHas
  <2> HIDE DEF q
  <2>9. ShutDoes(q, s) BY <1>1, <2>1, <2>2, <2>3, <2>4 DEF ShutDoes
  <2> QED BY <2>9 DEF q
<1> QED BY <1>2, <1>3, <1>4, <1>5, <1>6, <1>7

-----------------------------------------------------------------------------
(* An access keeps the invariant.                                          *)

\* What the rest of a call lacks or leads to, it still does after one access.
LEMMA Rest1 ==
    ASSUME NEW q \in Seq(Accesses), q # <<>>
    PROVE  /\ Tail(q) \in Seq(Accesses) /\ Head(q) \in Accesses
           /\ \A S : Lacks(q, S) => Lacks(Tail(q), S) /\ Head(q) \notin S
           /\ \A A, B : Leads(q, A, B) /\ Head(q) \notin A => Leads(Tail(q), A, B) /\ Head(q) \notin B
           /\ \A A, B : Lasts(q, A, B) => Lasts(Tail(q), A, B) \/ (Head(q) \in A /\ Lacks(Tail(q), B))
           /\ \A A, B : Never(q, A, B) => Never(Tail(q), A, B) /\ (Head(q) \in A => Lacks(Tail(q), B))
BY TailParts, LacksTail, LeadsTail, LastsTail, NeverTail

\* What kind an access is, read off it.
LEMMA KindIs ==
    ASSUME NEW x \in Accesses
    PROVE  /\ \A ops : x \in Kind(ops) <=> x[1] \in ops
           /\ \A b : x \in Sets(b) <=> x[1] = "set" /\ x[2] = b
           /\ \A b : x \in Clears(b) <=> x[1] = "clear" /\ x[2] = b
           /\ x \in ToTarget <=> x[1] = "mode" /\ x[2] = Target
           /\ x[1] = "mode" => x[2] \in {"low", "high", "normal"}
           /\ x[1] \in {"set", "clear"} => x[2] \in Switches
<1>1. x = <<x[1], x[2]>> BY DEF Accesses
<1>2. x[1] = "mode" => x[2] \in {"low", "high", "normal"} BY DEF Accesses
<1>3. x[1] \in {"set", "clear"} => x[2] \in Switches BY DEF Accesses
<1>4. \A ops : x \in Kind(ops) <=> x[1] \in ops BY DEF Kind
<1>5. \A b : x \in Sets(b) <=> x[1] = "set" /\ x[2] = b BY <1>1 DEF Sets
<1>6. \A b : x \in Clears(b) <=> x[1] = "clear" /\ x[2] = b BY <1>1 DEF Clears
<1>7. x \in ToTarget <=> x[1] = "mode" /\ x[2] = Target BY <1>1 DEF ToTarget
<1> QED BY <1>2, <1>3, <1>4, <1>5, <1>6, <1>7

\* A switch the call will set or clear: an access only brings that nearer.
LEMMA SwitchNears ==
    ASSUME PowerTypeOK, todo # <<>>, Runs, NEW b
    PROVE  (WillSet(b) => WillSet(b)') /\ (WillClear(b) => WillClear(b)')
<1> DEFINE x == Head(todo)
<1>0. todo \in Seq(Accesses) BY DEF PowerTypeOK
<1>1. /\ x \in Accesses
      /\ Lacks(todo, Sets(b)) => Lacks(Tail(todo), Sets(b)) /\ x \notin Sets(b)
      /\ Lacks(todo, Clears(b)) => Lacks(Tail(todo), Clears(b)) /\ x \notin Clears(b)
      /\ Lasts(todo, Sets(b), Clears(b)) =>
           Lasts(Tail(todo), Sets(b), Clears(b)) \/ (x \in Sets(b) /\ Lacks(Tail(todo), Clears(b)))
      /\ Lasts(todo, Clears(b), Sets(b)) =>
           Lasts(Tail(todo), Clears(b), Sets(b)) \/ (x \in Clears(b) /\ Lacks(Tail(todo), Sets(b)))
  BY <1>0, Rest1
<1>2. /\ x \in Sets(b) <=> x[1] = "set" /\ x[2] = b
      /\ x \in Clears(b) <=> x[1] = "clear" /\ x[2] = b
  BY <1>1, KindIs
<1>3. /\ todo' = Tail(todo)
      /\ bits' = CASE x[1] = "set" -> bits \cup {x[2]} [] x[1] = "clear" -> bits \ {x[2]} [] OTHER -> bits
  BY DEF Runs
<1> HIDE DEF x
<1>4. x \in Sets(b) => b \in bits' BY <1>2, <1>3
<1>5. x \in Clears(b) => b \notin bits' BY <1>2, <1>3
<1>6. x \notin Clears(b) /\ b \in bits => b \in bits' BY <1>2, <1>3
<1>7. x \notin Sets(b) /\ b \notin bits => b \notin bits' BY <1>2, <1>3
<1>8. WillSet(b) => WillSet(b)' BY <1>1, <1>3, <1>4, <1>6 DEF WillSet
<1>9. WillClear(b) => WillClear(b)' BY <1>1, <1>3, <1>5, <1>7 DEF WillClear
<1> QED BY <1>8, <1>9

\* What an access leaves alone.
Same == UNCHANGED <<alc_spec, pm_event, plugged, call, power, sleeps, lost, seen>>

\* An access keeps the types.
LEMMA TypeKept == ASSUME PowerTypeOK, Plain PROVE PowerTypeOK'
<1>1. /\ todo # <<>> /\ Head(todo) \in Accesses /\ todo \in Seq(Accesses) /\ Same
      /\ Waits \/ Runs
  BY Effects DEF Same, PowerTypeOK
<1>2. /\ alc_spec' \in PowerMachines /\ pm_event' \in {"on", "resume", "restore"}
      /\ plugged' \subseteq OutPins /\ seen' \subseteq Sensed'
      /\ call' \in {"none", "boot", "suspend", "resume"}
      /\ power' \in {"off", "active", "runtime", "s3", "s4", "waking"} /\ sleeps' \in 0..MaxSleeps
      /\ lost' \in BOOLEAN
  BY <1>1 DEF Same, PowerTypeOK, Sensed
<1>3. /\ todo' \in Seq(Accesses) /\ bits' \subseteq Switches
      /\ mode' \in {"default", "low", "high", "normal"}
      /\ saved' \in {"default", "low", "high", "normal"}
      /\ pin' \in [OutPins -> {"off", "out"}] /\ muted' \in [OutPins -> BOOLEAN]
      /\ fresh' \in BOOLEAN
  <2>1. CASE Waits BY <1>1, <2>1 DEF Waits, PowerTypeOK
  <2>2. CASE Runs
    <3> DEFINE x == Head(todo)
    <3>1. Tail(todo) \in Seq(Accesses) BY <1>1, Rest1
    <3>2. /\ x[1] = "mode" => x[2] \in {"low", "high", "normal"}
          /\ x[1] \in {"set", "clear"} => x[2] \in Switches
      BY <1>1, KindIs
    <3>3. /\ bits' = CASE x[1] = "set" -> bits \cup {x[2]} [] x[1] = "clear" -> bits \ {x[2]} [] OTHER -> bits
          /\ mode' = CASE x[1] = "mode" -> x[2] [] x[1] = "restore" -> saved [] OTHER -> mode
          /\ saved' = IF x[1] = "save" THEN mode ELSE saved
          /\ pin' \in [OutPins -> {"off", "out"}] /\ muted' \in [OutPins -> BOOLEAN]
          /\ todo' = Tail(todo) /\ fresh' = (fresh /\ x[1] # "poll")
      BY <2>2 DEF Runs
    <3>4. /\ bits \subseteq Switches /\ mode \in {"default", "low", "high", "normal"}
          /\ saved \in {"default", "low", "high", "normal"} /\ fresh \in BOOLEAN
      BY DEF PowerTypeOK
    <3> HIDE DEF x
    <3> QED BY <3>1, <3>2, <3>3, <3>4
  <2> QED BY <1>1, <2>1, <2>2
<1>4. done_hp_init' \in BOOLEAN /\ polls' \in 0..Polls
  <2>1. done_hp_init \in BOOLEAN /\ polls \in 0..Polls /\ Polls \in Nat BY CodecAssumption DEF PowerTypeOK
  <2>2. CASE DepopPoll
    <3>1. \/ polls < Polls /\ polls' = polls + 1 /\ done_hp_init' = done_hp_init
          \/ polls' = 0 /\ done_hp_init' = TRUE
      BY <2>2 DEF DepopPoll
    <3>2. polls' \in 0..Polls BY <2>1, <3>1
    <3>3. done_hp_init' \in BOOLEAN BY <2>1, <3>1
    <3> QED BY <3>2, <3>3
  <2>3. CASE Switch BY <2>1, <2>3 DEF Switch
  <2>4. CASE PowerMode BY <2>1, <2>4 DEF PowerMode
  <2>5. CASE PinAccess BY <2>1, <2>5 DEF PinAccess
  <2>6. CASE Generic BY <2>1, <2>6 DEF Generic
  <2> QED BY <2>2, <2>3, <2>4, <2>5, <2>6 DEF Plain
<1> QED BY <1>2, <1>3, <1>4 DEF PowerTypeOK

\* An access is one of a call under way.
LEMMA InCall == ASSUME PowerTypeOK, CallsFit, todo # <<>> PROVE Boots \/ Sleeps
BY DEF CallsFit, PowerTypeOK, NoCall, Boots, Sleeps

\* A poll that waits changes nothing that the invariant speaks of.
LEMMA WaitKeeps ==
    ASSUME PowerIInv, todo # <<>>, Waits, Same
    PROVE  CallsFit' /\ LooksOnce' /\ PullInv' /\ SwitchInv' /\ ModeInv' /\ PinInv'
<1>1. UNCHANGED <<alc_spec, pm_event, plugged, call, power, sleeps, lost, seen, todo, bits, mode,
                  saved, pin, muted, fresh>>
  BY DEF Waits, Same
<1>2. Boots \/ Sleeps BY InCall DEF PowerIInv
<1>3. power # "off" BY <1>2 DEF PowerIInv, CallsFit
<1>4. CallsFit' BY <1>1, <1>3 DEF PowerIInv, CallsFit, NoCall, Boots, Sleeps, NeedsDepop, S3orS4
<1>5. LooksOnce' BY <1>1 DEF PowerIInv, LooksOnce, Coming, Boots, Sleeps, Looks
<1>6. PullInv' BY <1>1 DEF PowerIInv, PullInv, Coming, Boots, Sleeps, Pulls, WillClear, Awake, NoCall
<1>7. SwitchInv' BY <1>1 DEF PowerIInv, SwitchInv, Boots, Sleeps, WillClear, WillSet, Awake, NoCall,
                             HasKeys, Dozes, IsVB, HasDsp
<1>8. ModeInv' BY <1>1 DEF PowerIInv, ModeInv, Coming, Boots, Sleeps, Awake, NoCall, Target, ToTarget, Targets
<1>9. PinInv' BY <1>1 DEF PowerIInv, PinInv, Boots, Sleeps, Honours
<1> QED BY <1>4, <1>5, <1>6, <1>7, <1>8, <1>9

\* An access does not change which call runs, nor add a look at the jacks.
LEMMA RunKeepsCalls == ASSUME PowerIInv, todo # <<>>, Runs, Same PROVE CallsFit' /\ LooksOnce'
<1>0. /\ todo \in Seq(Accesses) /\ (Boots \/ Sleeps) /\ (Boots <=> Boots') /\ (Sleeps <=> Sleeps')
  BY InCall DEF PowerIInv, PowerTypeOK, Boots, Sleeps, Same
<1>1. UNCHANGED <<alc_spec, pm_event, call, power, seen>> BY DEF Same
<1>2. todo' = Tail(todo) /\ (fresh' => fresh) BY DEF Runs
<1>3. power # "off" /\ call # "none" BY <1>0 DEF PowerIInv, CallsFit, Boots, Sleeps
<1>4. CallsFit'
  BY <1>0, <1>1, <1>2, <1>3 DEF PowerIInv, CallsFit, NoCall, Boots, Sleeps, S3orS4
<1>5. Coming' => Coming BY <1>0, <1>2, Rest1 DEF Coming
<1>6. LooksOnce' BY <1>0, <1>1, <1>2, <1>5, Rest1 DEF PowerIInv, LooksOnce, Looks
<1> QED BY <1>4, <1>6

\* An access keeps what is said of the pull-down,
LEMMA RunKeepsPull ==
    ASSUME PowerIInv, todo # <<>>, Head(todo) \notin SenseOp, Runs, Same
    PROVE  PullInv'
<1> DEFINE x == Head(todo)
<1>0. /\ PowerTypeOK /\ PullInv /\ CallsFit /\ LooksOnce /\ todo \in Seq(Accesses) /\ x \in Accesses
      /\ (Boots \/ Sleeps) /\ (Boots <=> Boots') /\ (Sleeps <=> Sleeps') /\ ~Awake' /\ (Pulls <=> Pulls')
      /\ UNCHANGED <<alc_spec, call, power, seen>>
  BY InCall, Rest1 DEF PowerIInv, PowerTypeOK, Boots, Sleeps, Same, Awake, NoCall, Pulls
<1>1. /\ todo' = Tail(todo)
      /\ bits' = CASE x[1] = "set" -> bits \cup {x[2]} [] x[1] = "clear" -> bits \ {x[2]} [] OTHER -> bits
  BY DEF Runs
<1>2. WillClear("pull") => WillClear("pull")' BY <1>0, SwitchNears
<1>3. /\ x \in Sets("pull") <=> x[1] = "set" /\ x[2] = "pull"
      /\ x \in Clears("pull") <=> x[1] = "clear" /\ x[2] = "pull"
  BY <1>0, KindIs
<1>4. Coming <=> Coming'
  <2>1. Lacks(Tail(todo), SenseOp) => Lacks(todo, SenseOp)
    <3>1. SUFFICES ASSUME Lacks(Tail(todo), SenseOp), NEW i \in 1..Len(todo)
                   PROVE todo[i] \notin SenseOp
      BY DEF Lacks
    <3>2. CASE i = 1 BY <1>0, <3>2, TailParts
    <3>3. CASE i # 1
      <4>1. i - 1 \in 1..Len(Tail(todo)) /\ i - 1 \in 1..(Len(todo) - 1) /\ i = (i - 1) + 1
        BY <1>0, <3>3, TailParts
      <4>2. Tail(todo)[i - 1] = todo[(i - 1) + 1] BY <1>0, <4>1, TailParts
      <4> QED BY <3>1, <4>1, <4>2 DEF Lacks
    <3> QED BY <3>2, <3>3
  <2> QED BY <1>0, <1>1, <2>1, Rest1 DEF Coming
<1>5. Lacks(todo, Sets("pull")) =>
        Lacks(todo', Sets("pull")) /\ ("pull" \notin bits => "pull" \notin bits')
  BY <1>0, <1>1, <1>3, Rest1
<1>6. Lacks(todo, Clears("pull")) =>
        Lacks(todo', Clears("pull")) /\ ("pull" \in bits => "pull" \in bits')
  BY <1>0, <1>1, <1>3, Rest1
<1>7. Leads(todo, Sets("pull"), SenseOp) => Leads(todo', Sets("pull"), SenseOp) \/ "pull" \in bits'
  BY <1>0, <1>1, <1>3, Rest1
<1> HIDE DEF x
<1>8. alc_spec.variant \in Is256 /\ ~alc_spec.en_3kpull_low =>
         "pull" \notin bits' /\ Lacks(todo', Sets("pull"))
  BY <1>0, <1>5 DEF PullInv
<1>9. Pulls /\ Boots => Lacks(todo', Sets("pull")) /\ (Coming' \/ WillClear("pull")')
  BY <1>0, <1>2, <1>4, <1>5 DEF PullInv
<1>10. ~Pulls => WillClear("pull")' BY <1>0, <1>2 DEF PullInv
<1>11. alc_spec.variant \in Is256 /\ alc_spec.en_3kpull_low /\ Sleeps =>
         /\ Lacks(todo', Clears("pull"))
         /\ "pull" \in bits' \/ (seen' = {} /\ Leads(todo', Sets("pull"), SenseOp))
  BY <1>0, <1>6, <1>7 DEF PullInv
<1> QED BY <1>0, <1>8, <1>9, <1>10, <1>11 DEF PullInv

\* of the other switches,
LEMMA RunKeepsSwitches ==
    ASSUME PowerIInv, todo # <<>>, Runs, Same
    PROVE  SwitchInv'
<1>0. /\ PowerTypeOK /\ SwitchInv /\ CallsFit /\ UNCHANGED <<alc_spec, call, power, lost>>
  BY DEF PowerIInv, Same
<1>1. \A b : (WillSet(b) => WillSet(b)') /\ (WillClear(b) => WillClear(b)') BY <1>0, SwitchNears
<1>2. /\ (Boots <=> Boots') /\ (Sleeps <=> Sleeps') /\ (Awake <=> Awake') /\ (HasKeys <=> HasKeys')
      /\ (Dozes <=> Dozes') /\ (IsVB <=> IsVB') /\ (HasDsp <=> HasDsp')
  BY <1>0 DEF Boots, Sleeps, Awake, NoCall, HasKeys, Dozes, IsVB, HasDsp
<1> QED BY <1>0, <1>1, <1>2 DEF SwitchInv

\* of the power mode,
LEMMA RunKeepsMode ==
    ASSUME PowerIInv, todo # <<>>, Runs, Same
    PROVE  ModeInv'
<1> DEFINE x == Head(todo)
<1>0. /\ PowerTypeOK /\ ModeInv /\ todo \in Seq(Accesses) /\ x \in Accesses
      /\ UNCHANGED <<alc_spec, call, power, seen>>
  BY Rest1 DEF PowerIInv, PowerTypeOK, Same
<1>1. /\ todo' = Tail(todo)
      /\ mode' = CASE x[1] = "mode" -> x[2] [] x[1] = "restore" -> saved [] OTHER -> mode
      /\ saved' = IF x[1] = "save" THEN mode ELSE saved
  BY DEF Runs
<1>2. /\ x \in Modes <=> x[1] \in {"mode", "save", "restore"}
      /\ x \in Saves <=> x[1] = "save"
      /\ x \in Restores <=> x[1] = "restore"
      /\ x \in Kind({"mode", "restore"}) <=> x[1] \in {"mode", "restore"}
      /\ x \in ToTarget <=> x[1] = "mode" /\ x[2] = Target
  BY <1>0, KindIs DEF Modes, Saves, Restores
<1>3. /\ (Boots <=> Boots') /\ (Sleeps <=> Sleeps') /\ (Awake <=> Awake') /\ (Targets <=> Targets')
      /\ Target' = Target /\ ToTarget' = ToTarget /\ (Coming' => Coming)
  <2>1. Coming' => Coming BY <1>0, <1>1, Rest1 DEF Coming
  <2> QED BY <1>0, <2>1 DEF Boots, Sleeps, Awake, NoCall, Targets, Target, ToTarget
<1>4. Lacks(todo, Modes) => Lacks(todo', Modes) /\ mode' = mode
  BY <1>0, <1>1, <1>2, Rest1
<1>5. Lasts(todo, ToTarget, Modes) =>
        Lasts(todo', ToTarget, Modes) \/ (mode' = Target /\ Lacks(todo', Modes))
  BY <1>0, <1>1, <1>2, Rest1
<1>6. Lasts(todo, Restores, Modes) =>
        \/ Lasts(todo', Restores, Modes)
        \/ mode' = saved /\ saved' = saved /\ Lacks(todo', Modes) /\ x \in Restores
  BY <1>0, <1>1, <1>2, Rest1
<1>7. Lacks(todo, Saves) => Lacks(todo', Saves) /\ saved' = saved BY <1>0, <1>1, <1>2, Rest1
<1>8. /\ mode = "default" /\ Leads(todo, Saves, Kind({"mode", "restore"})) /\ Never(todo, Saves, Saves) =>
           /\ x \notin Restores
           /\ \/ saved' = "default" /\ Lacks(todo', Saves)
              \/ /\ mode' = "default" /\ Leads(todo', Saves, Kind({"mode", "restore"}))
                 /\ Never(todo', Saves, Saves)
  <2>1. CASE x \in Saves
    <3>1. x[1] = "save" BY <1>2, <2>1
    <3>2. Never(todo, Saves, Saves) => Lacks(todo', Saves) BY <1>0, <1>1, <2>1, Rest1
    <3> QED BY <1>1, <1>2, <3>1, <3>2
  <2>2. CASE x \notin Saves
    <3>1. Leads(todo, Saves, Kind({"mode", "restore"})) =>
            Leads(todo', Saves, Kind({"mode", "restore"})) /\ x \notin Kind({"mode", "restore"})
      BY <1>0, <1>1, <2>2, Rest1
    <3>2. Never(todo, Saves, Saves) => Never(todo', Saves, Saves) BY <1>0, <1>1, Rest1
    <3> QED BY <1>1, <1>2, <3>1, <3>2
  <2> QED BY <2>1, <2>2
<1> HIDE DEF x
<1>9. Boots /\ Coming' => Lacks(todo', Modes) BY <1>0, <1>3, <1>4 DEF ModeInv
<1>10. Targets /\ seen' # {} /\ (Boots \/ Awake) =>
         Lasts(todo', ToTarget, Modes) \/ (mode' = Target /\ Lacks(todo', Modes))
  BY <1>0, <1>4, <1>5 DEF ModeInv
<1>11. ~Targets /\ alc_spec.variant # "ALC282" => mode' = "default" /\ Lacks(todo', Modes)
  BY <1>0, <1>4 DEF ModeInv
<1>12. alc_spec.variant = "ALC282" /\ Sleeps /\ Coming' => Lacks(todo', Modes)
  BY <1>0, <1>3, <1>4 DEF ModeInv
<1>13. alc_spec.variant = "ALC282" =>
         \/ mode' = "default" /\ Lacks(todo', Modes)
         \/ /\ Lasts(todo', Restores, Modes)
            /\ \/ saved' = "default" /\ Lacks(todo', Saves)
               \/ /\ mode' = "default" /\ Leads(todo', Saves, Kind({"mode", "restore"}))
                  /\ Never(todo', Saves, Saves)
  BY <1>0, <1>4, <1>6, <1>7, <1>8 DEF ModeInv
<1> QED BY <1>0, <1>3, <1>9, <1>10, <1>11, <1>12, <1>13 DEF ModeInv

\* and of the pins.
LEMMA RunKeepsPins ==
    ASSUME PowerIInv, todo # <<>>, Runs, Same
    PROVE  PinInv'
<1> DEFINE x == Head(todo)
<1>0. /\ PowerTypeOK /\ PinInv /\ LooksOnce /\ todo \in Seq(Accesses) /\ x \in Accesses
      /\ UNCHANGED <<alc_spec, call, seen>> /\ todo' = Tail(todo)
  BY Rest1 DEF PowerIInv, PowerTypeOK, Same, Runs
<1>1. /\ (Boots <=> Boots') /\ (Sleeps <=> Sleeps') /\ (Honours <=> Honours')
      /\ seen \subseteq OutPins
  BY <1>0 DEF Boots, Sleeps, Honours, PowerTypeOK, Sensed, OutPins
<1>2. /\ \A p \in OutPins :
         /\ x[1] \notin {"cut", "shutup_pins"} /\ pin[p] = "out" => pin'[p] = "out"
         /\ x \in DriveOf(p) => pin'[p] = "out"
         /\ x[1] \notin {"unmute", "sync"} /\ muted[p] => muted'[p]
         /\ x \in MuteOf(p) => muted'[p]
      /\ fresh' = (fresh /\ x[1] # "poll")
  BY DEF Runs
<1>3. /\ x \in Cuts <=> x[1] \in {"cut", "shutup_pins"}
      /\ x \in Loud <=> x[1] \in {"drive", "unmute", "gen_init", "sync"}
      /\ x \in PollOp <=> x[1] = "poll"
  BY <1>0, KindIs DEF Cuts, Loud, PollOp
<1>4. ASSUME Sleeps, NEW p \in seen PROVE muted'[p] \/ Leads(todo', MuteOf(p), Cuts)
  <2>1. x \notin Loud BY <1>0, <1>4, Rest1 DEF LooksOnce
  <2>2. muted[p] => muted'[p] BY <1>1, <1>2, <1>3, <2>1
  <2>3. Leads(todo, MuteOf(p), Cuts) => Leads(todo', MuteOf(p), Cuts) \/ x \in MuteOf(p)
    BY <1>0, Rest1
  <2>4. x \in MuteOf(p) => muted'[p] BY <1>1, <1>2
  <2>5. muted[p] \/ Leads(todo, MuteOf(p), Cuts) BY <1>0, <1>4 DEF PinInv
  <2> QED BY <2>2, <2>3, <2>4, <2>5
<1>5. ASSUME Boots, NEW p \in seen PROVE pin'[p] = "out" \/ Leads(todo', DriveOf(p), Unmutes)
  <2>1. x \notin Cuts
    <3>1. seen # {} BY <1>5
    <3> QED BY <1>0, <1>5, <3>1, Rest1 DEF LooksOnce
  <2>2. pin[p] = "out" => pin'[p] = "out" BY <1>1, <1>2, <1>3, <2>1
  <2>3. Leads(todo, DriveOf(p), Unmutes) => Leads(todo', DriveOf(p), Unmutes) \/ x \in DriveOf(p)
    BY <1>0, Rest1
  <2>4. x \in DriveOf(p) => pin'[p] = "out" BY <1>1, <1>2
  <2>5. pin[p] = "out" \/ Leads(todo, DriveOf(p), Unmutes) BY <1>0, <1>5 DEF PinInv
  <2> QED BY <2>2, <2>3, <2>4, <2>5
<1>6. Boots /\ fresh' => Leads(todo', PollOp, Opens)
  <2>1. Leads(todo, PollOp, Opens) => Leads(todo', PollOp, Opens) \/ x \in PollOp BY <1>0, Rest1
  <2> QED BY <1>0, <1>2, <1>3, <2>1 DEF PinInv
<1>7. Honours /\ Sleeps => Lacks(todo', Kind({"cut"})) BY <1>0, Rest1 DEF PinInv
<1> QED BY <1>0, <1>1, <1>4, <1>5, <1>6, <1>7 DEF PinInv

\* Every access but a look at the jacks keeps the invariant.
LEMMA PlainKeeps == ASSUME PowerIInv, Plain PROVE PowerIInv'
<1>0. PowerTypeOK BY DEF PowerIInv
<1>1. /\ todo # <<>> /\ Head(todo) \notin SenseOp /\ Same /\ (Waits \/ Runs)
  BY <1>0, Effects DEF Same
<1>2. PowerTypeOK' BY <1>0, TypeKept
<1>3. CASE Waits
  <2>1. CallsFit' /\ LooksOnce' /\ PullInv' /\ SwitchInv' /\ ModeInv' /\ PinInv'
    BY <1>1, <1>3, WaitKeeps
  <2> QED BY <1>2, <2>1 DEF PowerIInv
<1>4. CASE Runs
  <2>1. CallsFit' /\ LooksOnce' BY <1>1, <1>4, RunKeepsCalls
  <2>2. PullInv' BY <1>1, <1>4, RunKeepsPull
  <2>3. SwitchInv' BY <1>1, <1>4, RunKeepsSwitches
  <2>4. ModeInv' BY <1>1, <1>4, RunKeepsMode
  <2>5. PinInv' BY <1>1, <1>4, RunKeepsPins
  <2> QED BY <1>2, <2>1, <2>2, <2>3, <2>4, <2>5 DEF PowerIInv
<1> QED BY <1>1, <1>3, <1>4

-----------------------------------------------------------------------------
(* The look at the jacks keeps the invariant.                              *)

\* The look at the jacks.
LEMMA LookDoes ==
    ASSUME PowerIInv, LookAtJacks
    PROVE  /\ todo # <<>> /\ Head(todo) \in SenseOp /\ Head(todo) \in Accesses
           /\ todo \in Seq(Accesses) /\ Tail(todo) \in Seq(Accesses)
           /\ seen' \in SUBSET Sensed /\ seen' = plugged \cap Sensed
           /\ Boots \/ Sleeps
           /\ Boots => todo' = InitSeen(seen') \o Tail(todo)
           /\ Sleeps => todo' = ShutupSeen(seen') \o Tail(todo)
           /\ UNCHANGED <<alc_spec, pm_event, plugged, call, power, sleeps, lost, pin, muted, mode,
                          saved, bits, done_hp_init, polls, fresh>>
<1>1. /\ todo # <<>> /\ Head(todo)[1] = "sense" /\ todo \in Seq(Accesses) /\ PowerTypeOK
  BY DEF LookAtJacks, Does, Op, PowerIInv, PowerTypeOK
<1>2. Head(todo) \in SenseOp /\ Head(todo) \in Accesses /\ Tail(todo) \in Seq(Accesses)
  BY <1>1, Rest1 DEF SenseOp, Kind
<1>3. Boots \/ Sleeps BY <1>1, InCall DEF PowerIInv
<1> QED BY <1>1, <1>2, <1>3 DEF LookAtJacks, env, registers, Boots, Sleeps

\* In boot and resume the look puts the accesses of init in front.
LEMMA LookAwake ==
    ASSUME PowerIInv, LookAtJacks, Boots
    PROVE  CallsFit' /\ LooksOnce' /\ PullInv' /\ SwitchInv' /\ ModeInv' /\ PinInv'
<1> DEFINE q == InitSeen(seen')  T == Tail(todo)
<1>0. /\ todo # <<>> /\ Head(todo) \in SenseOp /\ Head(todo) \in Accesses
      /\ todo \in Seq(Accesses) /\ T \in Seq(Accesses)
      /\ seen' \in SUBSET Sensed /\ todo' = q \o T
      /\ UNCHANGED <<alc_spec, pm_event, plugged, call, power, sleeps, lost, pin, muted, mode,
                          saved, bits, done_hp_init, polls, fresh>>
      /\ alc_spec \in PowerMachines
  BY LookDoes DEF PowerIInv, PowerTypeOK
<1>1. SeenDoes(q, seen') BY <1>0, SeenFacts
<1>2. CallsFit /\ LooksOnce /\ PullInv /\ SwitchInv /\ ModeInv /\ PinInv BY DEF PowerIInv
<1>3. Lacks(T, SenseOp \cup Cuts) BY <1>0, <1>2, Rest1 DEF LooksOnce
<1>4. Lacks(T, SenseOp) /\ Lacks(T, Cuts) BY <1>3, LacksLess
<1>5. q \in Seq(Accesses) BY <1>1 DEF SeenDoes
<1>6. \A b : Head(todo) \notin Sets(b) /\ Head(todo) \notin Clears(b)
  BY <1>0 DEF SenseOp, Kind, Sets, Clears
<1>7. /\ (Boots <=> Boots') /\ (Sleeps <=> Sleeps') /\ ~Sleeps /\ Boots' /\ ~Awake' /\ ~Awake
      /\ power = "active"
  BY <1>0, <1>2 DEF Boots, Sleeps, Awake, NoCall, CallsFit
<1>8. ~Lacks(todo, SenseOp) BY <1>0, Rest1
<1>9. Coming BY <1>8 DEF Coming
<1> HIDE DEF q, T
<1>10. Lacks(todo', SenseOp) /\ Lacks(todo', Cuts)
  BY <1>0, <1>1, <1>4, <1>5, Rules DEF SeenDoes
<1>11. ~Coming' BY <1>10 DEF Coming
<1>12. CallsFit' BY <1>0, <1>2, <1>7 DEF CallsFit, NoCall, Boots, Sleeps
<1>13. Never(todo', SenseOp, SenseOp \cup Cuts) BY <1>10, NeverEmpty
<1>14. LooksOnce' BY <1>7, <1>10, <1>11, <1>13 DEF LooksOnce
<1>15. ASSUME NEW b, Lacks(q, Sets(b)), Lacks(q, Clears(b))
       PROVE  (WillSet(b) => WillSet(b)') /\ (WillClear(b) => WillClear(b)')
  <2>1. /\ Lacks(todo, Sets(b)) => Lacks(T, Sets(b))
        /\ Lacks(todo, Clears(b)) => Lacks(T, Clears(b))
        /\ Lasts(todo, Sets(b), Clears(b)) => Lasts(T, Sets(b), Clears(b))
        /\ Lasts(todo, Clears(b), Sets(b)) => Lasts(T, Clears(b), Sets(b))
    BY <1>0, <1>6, Rest1 DEF T
  <2>2. /\ Lacks(todo, Sets(b)) => Lacks(todo', Sets(b))
        /\ Lacks(todo, Clears(b)) => Lacks(todo', Clears(b))
        /\ Lasts(todo, Sets(b), Clears(b)) => Lasts(todo', Sets(b), Clears(b))
        /\ Lasts(todo, Clears(b), Sets(b)) => Lasts(todo', Clears(b), Sets(b))
    BY <1>0, <1>5, <1>15, <2>1, Rules
  <2> QED BY <1>0, <2>2 DEF WillSet, WillClear
<1>16. /\ Pulls <=> Pulls'
       /\ (Pulls \/ ~Pulls) /\ (alc_spec.variant \in Is256 => Pulls)
  BY <1>0 DEF Pulls
<1>17. PullInv'
  <2>1. Lacks(todo, Sets("pull")) => Lacks(todo', Sets("pull"))
    <3>1. Lacks(todo, Sets("pull")) => Lacks(T, Sets("pull")) BY <1>0, Rest1 DEF T
    <3> QED BY <1>0, <1>1, <1>5, <3>1, Rules DEF SeenDoes
  <2>2. ASSUME Pulls PROVE WillClear("pull")'
    <3>1. Lacks(T, Sets("pull"))
      <4>1. Lacks(todo, Sets("pull")) BY <1>2, <2>2 DEF PullInv
      <4> QED BY <1>0, <4>1, Rest1 DEF T
    <3>2. Lasts(q, Clears("pull"), Sets("pull")) BY <1>1, <2>2 DEF SeenDoes
    <3>3. Lasts(todo', Clears("pull"), Sets("pull")) BY <1>0, <1>5, <3>1, <3>2, Rules
    <3> QED BY <3>3 DEF WillClear
  <2>3. ASSUME ~Pulls PROVE WillClear("pull")'
    <3>1. WillClear("pull") BY <1>2, <2>3 DEF PullInv
    <3>2. CASE "pull" \notin bits /\ Lacks(todo, Sets("pull"))
      BY <1>0, <2>1, <3>2 DEF WillClear
    <3>3. CASE Lasts(todo, Clears("pull"), Sets("pull"))
      <4>1. Lasts(T, Clears("pull"), Sets("pull")) BY <1>0, <1>6, <3>3, Rest1 DEF T
      <4>2. Lasts(todo', Clears("pull"), Sets("pull")) BY <1>0, <1>5, <4>1, Rules
      <4> QED BY <4>2 DEF WillClear
    <3> QED BY <3>1, <3>2, <3>3 DEF WillClear
  <2> QED BY <1>0, <1>2, <1>7, <1>16, <2>1, <2>2, <2>3 DEF PullInv
<1>18. SwitchInv'
  <2>1. \A b \in Switches \ {"pull"} : (WillSet(b) => WillSet(b)') /\ (WillClear(b) => WillClear(b)')
    BY <1>1, <1>15 DEF SeenDoes
  <2>2. \A b \in {"keys", "jdReset", "pathCut", "manual", "low", "vbOutput", "gpio", "coefs", "dspRuns"} :
          (WillSet(b) => WillSet(b)') /\ (WillClear(b) => WillClear(b)')
    BY <2>1 DEF Switches
  <2>3. /\ (HasKeys <=> HasKeys') /\ (Dozes <=> Dozes') /\ (IsVB <=> IsVB') /\ (HasDsp <=> HasDsp')
    BY <1>0 DEF HasKeys, Dozes, IsVB, HasDsp
  <2> HIDE <1>1
  <2> QED BY <1>0, <1>2, <1>7, <2>2, <2>3 DEF SwitchInv
<1>19. ModeInv'
  <2>0. /\ (Targets <=> Targets') /\ Target' = Target /\ ToTarget' = ToTarget
        /\ alc_spec.variant = "ALC282" => ~Targets
    BY <1>0 DEF Targets, Target, ToTarget, Is256, Is225
  <2>1. Lacks(todo, Modes) BY <1>2, <1>9 DEF ModeInv
  <2>2. Lacks(T, Modes) BY <1>0, <2>1, Rest1 DEF T
  <2>3. Targets /\ seen' # {} => Lasts(todo', ToTarget, Modes)
    BY <1>0, <1>1, <1>5, <2>2, Rules DEF SeenDoes
  <2>4. ~Targets /\ alc_spec.variant # "ALC282" => mode' = "default" /\ Lacks(todo', Modes)
    BY <1>0, <1>1, <1>2, <1>5, <2>2, Rules DEF SeenDoes, ModeInv
  <2>5. ASSUME alc_spec.variant = "ALC282"
        PROVE  /\ Lasts(todo', Restores, Modes)
               /\ mode' = "default" /\ Leads(todo', Saves, Kind({"mode", "restore"}))
               /\ Never(todo', Saves, Saves)
    <3>1. /\ Lasts(q, Restores, Modes) /\ Leads(q, Saves, Kind({"mode", "restore"}))
          /\ Never(q, Saves, Saves)
      BY <1>1, <2>5 DEF SeenDoes
    <3>2. Restores \subseteq Modes /\ Saves \subseteq Modes BY DEF Restores, Saves, Modes, Kind
    <3>3. Lacks(T, Saves) BY <2>2, <3>2, LacksLess
    <3>4. Never(T, Saves, Saves) BY <3>3, NeverEmpty
    <3>5. ~Lasts(todo, Restores, Modes)
      <4>1. Lacks(todo, Restores) BY <2>1, <3>2, LacksLess
      <4> QED BY <4>1, LastsFound
    <3>6. mode = "default" BY <1>2, <2>5, <3>5 DEF ModeInv
    <3> QED BY <1>0, <1>5, <2>2, <3>1, <3>3, <3>4, <3>6, Rules
  <2> QED BY <1>0, <1>7, <1>11, <2>0, <2>3, <2>4, <2>5 DEF ModeInv
<1>20. PinInv'
  <2>1. \A p \in seen' : Leads(todo', DriveOf(p), Unmutes)
    BY <1>0, <1>1, <1>5, Rules DEF SeenDoes
  <2>2. ~fresh
    <3>1. ASSUME fresh PROVE FALSE
      <4>1. Leads(todo, PollOp, Opens) BY <1>2, <3>1 DEF PinInv
      <4>2. Head(todo) \notin PollOp /\ Head(todo) \in Opens
        BY <1>0 DEF SenseOp, PollOp, Opens, Kind
      <4> QED BY <1>0, <4>1, <4>2, Rest1
    <3> QED BY <3>1
  <2> QED BY <1>0, <1>7, <2>1, <2>2 DEF PinInv
<1> QED BY <1>12, <1>14, <1>17, <1>18, <1>19, <1>20

\* In suspend it puts those of shutup in front.
LEMMA LookAsleep ==
    ASSUME PowerIInv, LookAtJacks, Sleeps
    PROVE  CallsFit' /\ LooksOnce' /\ PullInv' /\ SwitchInv' /\ ModeInv' /\ PinInv'
<1> DEFINE q == ShutupSeen(seen')  T == Tail(todo)
<1>0. /\ todo # <<>> /\ Head(todo) \in SenseOp /\ Head(todo) \in Accesses
      /\ todo \in Seq(Accesses) /\ T \in Seq(Accesses)
      /\ seen' \in SUBSET Sensed /\ todo' = q \o T
      /\ UNCHANGED <<alc_spec, pm_event, plugged, call, power, sleeps, lost, pin, muted, mode,
                          saved, bits, done_hp_init, polls, fresh>>
      /\ alc_spec \in PowerMachines
  BY LookDoes DEF PowerIInv, PowerTypeOK
<1>1. ShutDoes(q, seen') BY <1>0, ShutFacts
<1>2. CallsFit /\ LooksOnce /\ PullInv /\ SwitchInv /\ ModeInv /\ PinInv BY DEF PowerIInv
<1>3. Lacks(T, Accesses) BY <1>0, <1>2, Rest1 DEF LooksOnce
<1> HIDE DEF T
<1>4. T = <<>>
  <2>1. Len(T) \in Nat /\ \A i \in 1..Len(T) : T[i] \in Accesses BY <1>0
  <2>2. Len(T) = 0
    <3>1. ASSUME Len(T) # 0 PROVE FALSE
      <4>1. 1 \in 1..Len(T) BY <2>1, <3>1
      <4> QED BY <1>3, <2>1, <4>1 DEF Lacks
    <3> QED BY <3>1
  <2> QED BY <1>0, <2>2, EmptySeq
<1>5. q \in Seq(Accesses) BY <1>1 DEF ShutDoes
<1> HIDE DEF q
<1>6. todo' = q BY <1>0, <1>4, <1>5
<1>7. \A b : Head(todo) \notin Sets(b) /\ Head(todo) \notin Clears(b)
  BY <1>0 DEF SenseOp, Kind, Sets, Clears
<1>8. /\ Sleeps' /\ ~Boots' /\ ~Awake' /\ ~Boots /\ ~Awake
  BY <1>0, <1>2 DEF Boots, Sleeps, Awake, NoCall
<1>9. ~Lacks(todo, SenseOp) BY <1>0, Rest1
<1>10. Coming /\ Looks BY <1>2, <1>9 DEF Coming, LooksOnce
<1>11. \A A, B : Head(todo) \notin A => ~Lasts(todo, A, B)
  <2>1. SUFFICES ASSUME NEW A, NEW B, Head(todo) \notin A, Lasts(todo, A, B) PROVE FALSE
    OBVIOUS
  <2>2. Lasts(T, A, B) BY <1>0, <2>1, Rest1 DEF T
  <2> QED BY <1>4, <2>2 DEF Lasts
<1>12. /\ \A b : WillSet(b) => b \in bits
       /\ \A b : WillClear(b) => b \notin bits
  BY <1>7, <1>11 DEF WillSet, WillClear
<1>13. ~Coming' BY <1>1, <1>6 DEF Coming, ShutDoes
<1>14. CallsFit' BY <1>0, <1>2, <1>8 DEF CallsFit, NoCall, Boots, Sleeps
<1>15. LooksOnce'
  <2>1. Lacks(todo', SenseOp) /\ Lacks(todo', Loud) BY <1>1, <1>6 DEF ShutDoes
  <2>2. Never(todo', SenseOp, Accesses) BY <2>1, NeverEmpty
  <2> QED BY <1>8, <1>13, <2>1, <2>2 DEF LooksOnce
<1>16. PullInv'
  <2>0. /\ (Pulls <=> Pulls') /\ (alc_spec.variant \in Is256 => Pulls)
        /\ ~Pulls => alc_spec.variant \notin Is256 \cup {"ALC283"}
    <3>1. alc_spec.variant = "ALC283" => alc_spec.hp_pin BY <1>10 DEF Looks, Is256, Is225
    <3> QED BY <1>0, <3>1 DEF Pulls
  <2>1. ASSUME ~Pulls PROVE WillClear("pull")'
    <3>1. "pull" \notin bits BY <1>2, <1>12, <2>1 DEF PullInv
    <3>2. Lasts(q, Clears("pull"), Sets("pull")) \/ Lacks(q, Sets("pull"))
      BY <1>1, <2>0, <2>1 DEF ShutDoes
    <3> QED BY <1>0, <1>6, <3>1, <3>2 DEF WillClear
  <2>2. alc_spec.variant \in Is256 => Lacks(todo', Sets("pull")) /\ Lacks(todo', Clears("pull"))
    BY <1>1, <1>6 DEF ShutDoes
  <2>3. alc_spec.variant \in Is256 /\ alc_spec.en_3kpull_low => "pull" \in bits
    <3>1. SUFFICES ASSUME alc_spec.variant \in Is256, alc_spec.en_3kpull_low,
                          Leads(todo, Sets("pull"), SenseOp)
                   PROVE  FALSE
      BY <1>2 DEF PullInv
    <3> QED BY <1>0, <1>7, <3>1, Rest1
  <2>4. alc_spec.variant \in Is256 /\ ~alc_spec.en_3kpull_low => "pull" \notin bits
    BY <1>2 DEF PullInv
  <2> QED BY <1>0, <1>8, <2>0, <2>1, <2>2, <2>3, <2>4 DEF PullInv
<1>17. SwitchInv'
  <2>0. /\ (HasKeys <=> HasKeys') /\ (Dozes <=> Dozes') /\ (HasDsp <=> HasDsp')
    BY <1>0 DEF HasKeys, Dozes, HasDsp
  <2>1. WillSet("keys") => WillSet("keys")'
    BY <1>0, <1>1, <1>6, <1>12 DEF WillSet, ShutDoes
  <2>2. \A b \in {"jdReset", "pathCut", "manual"} : WillClear(b) => WillClear(b)'
    <3>1. SUFFICES ASSUME NEW b \in {"jdReset", "pathCut", "manual"}, WillClear(b)
                   PROVE  WillClear(b)'
      OBVIOUS
    <3>2. Lacks(todo', Sets(b)) BY <1>1, <1>6, <3>1 DEF ShutDoes, Held
    <3> QED BY <1>0, <1>12, <3>1, <3>2 DEF WillClear
  <2>3. ~Dozes /\ WillClear("low") => WillClear("low")'
    BY <1>0, <1>1, <1>6, <1>12 DEF WillClear, ShutDoes
  <2>4. WillClear("dspRuns") => WillClear("dspRuns")'
    BY <1>0, <1>1, <1>6, <1>12 DEF WillClear, ShutDoes
  <2> QED BY <1>0, <1>2, <1>8, <2>0, <2>1, <2>2, <2>3, <2>4 DEF SwitchInv
<1>18. ModeInv'
  <2>0. (Targets <=> Targets') /\ (alc_spec.variant = "ALC282" => ~Targets)
    BY <1>0 DEF Targets, Is256, Is225
  <2>1. ~Targets /\ alc_spec.variant # "ALC282" => mode' = "default" /\ Lacks(todo', Modes)
    BY <1>0, <1>1, <1>2, <1>6 DEF ShutDoes, ModeInv
  <2>2. alc_spec.variant = "ALC282" =>
          /\ Lasts(todo', Restores, Modes)
          /\ mode' = "default" /\ Leads(todo', Saves, Kind({"mode", "restore"}))
          /\ Never(todo', Saves, Saves)
    <3>1. Head(todo) \notin Restores BY <1>0 DEF SenseOp, Restores, Kind
    <3>2. ~Lasts(todo, Restores, Modes) BY <1>11, <3>1
    <3>3. alc_spec.variant = "ALC282" => mode = "default" BY <1>2, <3>2 DEF ModeInv
    <3> QED BY <1>0, <1>1, <1>6, <3>3 DEF ShutDoes
  <2> QED BY <1>0, <1>8, <1>13, <2>0, <2>1, <2>2 DEF ModeInv
<1>19. PinInv'
  <2>1. \A p \in seen' : Leads(todo', MuteOf(p), Cuts) BY <1>1, <1>6 DEF ShutDoes
  <2>2. Honours => Lacks(todo', Kind({"cut"})) BY <1>1, <1>6 DEF ShutDoes
  <2>3. Honours <=> Honours' BY <1>0 DEF Honours
  <2> QED BY <1>8, <2>1, <2>2, <2>3 DEF PinInv
<1> QED BY <1>14, <1>15, <1>16, <1>17, <1>18, <1>19

\* Either way it keeps the invariant.
LEMMA LookKeeps == ASSUME PowerIInv, LookAtJacks PROVE PowerIInv'
<1>1. /\ Boots \/ Sleeps
      /\ seen' \in SUBSET Sensed /\ Tail(todo) \in Seq(Accesses)
      /\ Boots => todo' = InitSeen(seen') \o Tail(todo)
      /\ Sleeps => todo' = ShutupSeen(seen') \o Tail(todo)
      /\ UNCHANGED <<alc_spec, pm_event, plugged, call, power, sleeps, lost, pin, muted, mode,
                          saved, bits, done_hp_init, polls, fresh>>
      /\ PowerTypeOK
  BY LookDoes DEF PowerIInv
<1>2. InitSeen(seen') \in Seq(Accesses) /\ ShutupSeen(seen') \in Seq(Accesses)
  BY <1>1, SeenFacts, ShutFacts DEF PowerTypeOK, SeenDoes, ShutDoes
<1>3. todo' \in Seq(Accesses) BY <1>1, <1>2, Rules
<1>4. Sensed' = Sensed BY <1>1 DEF Sensed
<1>5. PowerTypeOK' BY <1>1, <1>3, <1>4 DEF PowerTypeOK
<1>6. CallsFit' /\ LooksOnce' /\ PullInv' /\ SwitchInv' /\ ModeInv' /\ PinInv'
  BY <1>1, LookAwake, LookAsleep
<1> QED BY <1>5, <1>6 DEF PowerIInv

-----------------------------------------------------------------------------
(* The other steps keep the invariant.                                     *)

\* A switch that is as it has to be before a call, or that the call makes so.
LEMMA Wills ==
    ASSUME NEW b
    PROVE  /\ todo = <<>> => (WillSet(b) <=> b \in bits) /\ (WillClear(b) <=> b \notin bits)
           /\ Lasts(todo', Sets(b), Clears(b)) => WillSet(b)'
           /\ Lasts(todo', Clears(b), Sets(b)) => WillClear(b)'
           /\ b \in bits' /\ Lacks(todo', Clears(b)) => WillSet(b)'
           /\ b \notin bits' /\ Lacks(todo', Sets(b)) => WillClear(b)'
<1>1. \A A, B : ~Lasts(<<>>, A, B) BY DEF Lasts
<1>2. todo = <<>> => (WillSet(b) <=> b \in bits) /\ (WillClear(b) <=> b \notin bits)
  BY <1>1, EmptyLacks DEF WillSet, WillClear
<1>3. /\ Lasts(todo', Sets(b), Clears(b)) => WillSet(b)'
      /\ Lasts(todo', Clears(b), Sets(b)) => WillClear(b)'
      /\ b \in bits' /\ Lacks(todo', Clears(b)) => WillSet(b)'
      /\ b \notin bits' /\ Lacks(todo', Sets(b)) => WillClear(b)'
  BY DEF WillSet, WillClear
<1> QED BY <1>2, <1>3

\* An empty list has no first and no last.
LEMMA EmptyNot == \A A, B : ~Leads(<<>>, A, B) /\ ~Lasts(<<>>, A, B) /\ Never(<<>>, A, B)
BY DEF Leads, Lasts, Never

\* Between calls: nothing to do is left, and the codec is in one of its power states.
LEMMA Idle ==
    ASSUME PowerIInv, NoCall
    PROVE  /\ todo = <<>> /\ ~Boots /\ ~Sleeps /\ ~Coming
           /\ fresh => power \in {"off", "waking"}
           /\ \A b : (WillSet(b) <=> b \in bits) /\ (WillClear(b) <=> b \notin bits)
           /\ "jdReset" \notin bits /\ "pathCut" \notin bits /\ "manual" \notin bits
           /\ ~Dozes => "low" \notin bits
           /\ ~Pulls => "pull" \notin bits
           /\ alc_spec.variant \in Is256 /\ ~alc_spec.en_3kpull_low => "pull" \notin bits
           /\ HasKeys /\ ~lost /\ power # "off" => "keys" \in bits
           /\ ~Targets => mode = "default"
           /\ HasDsp /\ power \in {"off", "runtime", "s3", "s4"} => "dspRuns" \notin bits
           /\ Awake => /\ Pulls => "pull" \notin bits
                       /\ "low" \notin bits
                       /\ IsVB => "vbOutput" \in bits
                       /\ alc_spec.gpio_data => "gpio" \in bits
                       /\ alc_spec.variant \in {"ALC282", "ALC283"} => "coefs" \in bits
                       /\ HasDsp /\ alc_spec.halt => "dspRuns" \notin bits
                       /\ HasDsp /\ ~alc_spec.halt => "dspRuns" \in bits
                       /\ Targets /\ seen # {} => mode = Target
<1>1. todo = <<>> /\ ~Boots /\ ~Sleeps BY DEF PowerIInv, CallsFit, NoCall, Boots, Sleeps
<1>2. ~Coming BY <1>1, EmptyLacks DEF Coming
<1>3. \A b : (WillSet(b) <=> b \in bits) /\ (WillClear(b) <=> b \notin bits) BY <1>1, Wills
<1>4. fresh => power \in {"off", "waking"} BY <1>1 DEF PowerIInv, CallsFit
<1>5. SwitchInv /\ PullInv /\ ModeInv BY DEF PowerIInv
<1>6. /\ "jdReset" \notin bits /\ "pathCut" \notin bits /\ "manual" \notin bits
      /\ ~Dozes => "low" \notin bits
      /\ HasKeys /\ ~lost /\ power # "off" => "keys" \in bits
      /\ HasDsp /\ power \in {"off", "runtime", "s3", "s4"} => "dspRuns" \notin bits
      /\ Awake => /\ "low" \notin bits
                  /\ IsVB => "vbOutput" \in bits
                  /\ alc_spec.gpio_data => "gpio" \in bits
                  /\ alc_spec.variant \in {"ALC282", "ALC283"} => "coefs" \in bits
                  /\ HasDsp /\ alc_spec.halt => "dspRuns" \notin bits
                  /\ HasDsp /\ ~alc_spec.halt => "dspRuns" \in bits
  BY <1>3, <1>5 DEF SwitchInv
<1>7. /\ ~Pulls => "pull" \notin bits
      /\ alc_spec.variant \in Is256 /\ ~alc_spec.en_3kpull_low => "pull" \notin bits
      /\ Awake /\ Pulls => "pull" \notin bits
  BY <1>3, <1>5 DEF PullInv
<1>8. /\ ~Targets => mode = "default"
      /\ Awake /\ Targets /\ seen # {} => mode = Target
  BY <1>1, <1>5, EmptyNot DEF ModeInv
<1> QED BY <1>1, <1>2, <1>3, <1>4, <1>6, <1>7, <1>8

\* How the rest of the invariant follows where no call is under way.
LEMMA IdleNext ==
    ASSUME PowerTypeOK', NoCall', todo' = <<>>,
           (power' = "off" => bits' = {} /\ seen' = {} /\ ~done_hp_init' /\ (fresh' => NeedsDepop')),
           (power' = "waking" /\ fresh' =>
              \/ alc_spec'.variant = "ALC225" /\ S3orS4'
              \/ alc_spec'.variant = "ALC294" /\ alc_spec'.hp_pin /\ pm_event' = "restore"),
           (fresh' => power' \in {"off", "waking"}),
           "jdReset" \notin bits', "pathCut" \notin bits', "manual" \notin bits',
           (~Dozes' => "low" \notin bits'), (~Pulls' => "pull" \notin bits'),
           (alc_spec'.variant \in Is256 /\ ~alc_spec'.en_3kpull_low => "pull" \notin bits'),
           (HasKeys' /\ ~lost' /\ power' # "off" => "keys" \in bits'),
           (~Targets' => mode' = "default"),
           (HasDsp' /\ power' \in {"off", "runtime", "s3", "s4"} => "dspRuns" \notin bits'),
           (Awake' => /\ Pulls' => "pull" \notin bits'
                      /\ "low" \notin bits'
                      /\ IsVB' => "vbOutput" \in bits'
                      /\ alc_spec'.gpio_data => "gpio" \in bits'
                      /\ alc_spec'.variant \in {"ALC282", "ALC283"} => "coefs" \in bits'
                      /\ HasDsp' /\ alc_spec'.halt => "dspRuns" \notin bits'
                      /\ HasDsp' /\ ~alc_spec'.halt => "dspRuns" \in bits'
                      /\ Targets' /\ seen' # {} => mode' = Target')
    PROVE  PowerIInv'
<1>1. ~Boots' /\ ~Sleeps' BY DEF NoCall, Boots, Sleeps
<1>2. \A S : Lacks(todo', S) BY EmptyLacks
<1>3. ~Coming' BY <1>2 DEF Coming
<1>4. \A b : (b \in bits' => WillSet(b)') /\ (b \notin bits' => WillClear(b)') BY <1>2, Wills
<1>5. CallsFit' BY <1>1 DEF CallsFit
<1>6. LooksOnce' BY <1>1, <1>3 DEF LooksOnce
<1>7. PullInv' BY <1>1, <1>2, <1>4 DEF PullInv
<1>8. SwitchInv' BY <1>1, <1>4 DEF SwitchInv
<1>9. ModeInv'
  <2>1. alc_spec'.variant = "ALC282" => ~Targets' BY DEF Targets, Is256, Is225
  <2> QED BY <1>1, <1>2, <1>3, <2>1 DEF ModeInv
<1>10. PinInv' BY <1>1 DEF PinInv
<1> QED BY <1>5, <1>6, <1>7, <1>8, <1>9, <1>10 DEF PowerIInv

\* The codec starts within the invariant.
LEMMA InitIs == PowerInit => PowerIInv
<1> SUFFICES ASSUME PowerInit PROVE PowerIInv OBVIOUS
<1>1. PowerTypeOK
  <2>1. /\ MaxSleeps \in Nat /\ Polls \in Nat BY CodecAssumption
  <2>2. <<>> \in Seq(Accesses) BY Pieces
  <2>3. pin \in [OutPins -> {"off", "out"}] /\ muted \in [OutPins -> BOOLEAN] BY DEF PowerInit
  <2>4. 0 \in 0..MaxSleeps /\ 0 \in 0..Polls BY <2>1
  <2>5. fresh \in BOOLEAN BY DEF PowerInit, NeedsDepop
  <2> QED BY <2>2, <2>3, <2>4, <2>5 DEF PowerInit, PowerTypeOK
<1>2. /\ NoCall /\ ~Boots /\ ~Sleeps /\ ~Awake /\ todo = <<>> /\ power = "off" /\ bits = {}
      /\ seen = {} /\ mode = "default" /\ ~done_hp_init /\ fresh = NeedsDepop
  BY DEF PowerInit, NoCall, Boots, Sleeps, Awake
<1>3. \A S : Lacks(todo, S) BY <1>2, EmptyLacks
<1>4. ~Coming BY <1>3 DEF Coming
<1>5. \A b : WillClear(b) BY <1>2, <1>3 DEF WillClear
<1>6. CallsFit BY <1>2 DEF CallsFit
<1>7. LooksOnce BY <1>2, <1>4 DEF LooksOnce
<1>8. PullInv BY <1>2, <1>3, <1>5 DEF PullInv
<1>9. SwitchInv BY <1>2, <1>5 DEF SwitchInv
<1>10. ModeInv BY <1>2, <1>3, <1>4 DEF ModeInv
<1>11. PinInv BY <1>2 DEF PinInv
<1> QED BY <1>1, <1>6, <1>7, <1>8, <1>9, <1>10, <1>11 DEF PowerIInv

\* A call that returns has made all it owed.
LEMMA ReturnsKeeps == ASSUME PowerIInv, Returns PROVE PowerIInv'
<1>1. /\ call # "none" /\ todo = <<>> /\ call' = "none"
      /\ UNCHANGED <<alc_spec, pin, muted, mode, saved, bits, done_hp_init, pm_event, plugged, seen,
                     todo, polls, power, sleeps, fresh, lost>>
  BY DEF Returns, registers
<1>2. PowerTypeOK /\ CallsFit /\ SwitchInv /\ PullInv /\ ModeInv /\ PinInv BY DEF PowerIInv
<1>3. /\ PowerTypeOK' BY <1>1, <1>2 DEF PowerTypeOK, Sensed
<1>4. NoCall' /\ todo' = <<>> /\ (Boots \/ Sleeps) /\ power \notin {"off", "waking"}
  BY <1>1, <1>2 DEF NoCall, CallsFit, PowerTypeOK, Boots, Sleeps
<1>5. ~fresh
  <2>1. Boots /\ fresh => FALSE BY <1>1, <1>2, EmptyNot DEF PinInv
  <2> QED BY <1>2, <1>4, <2>1 DEF CallsFit
<1>6. \A b : (WillSet(b) <=> b \in bits) /\ (WillClear(b) <=> b \notin bits) BY <1>1, Wills
<1>7. Awake' => Boots BY <1>1, <1>2, <1>4 DEF Awake, CallsFit, Sleeps
<1>8. ~Coming BY <1>1, EmptyLacks DEF Coming
<1>9. power \in {"runtime", "s3", "s4"} => Sleeps BY <1>2, <1>4 DEF CallsFit
<1>10. UNCHANGED <<Dozes, Pulls, HasKeys, Targets, HasDsp, IsVB, Target>>
  BY <1>1 DEF Dozes, Pulls, HasKeys, Targets, HasDsp, IsVB, Target
<1>11. /\ "jdReset" \notin bits /\ "pathCut" \notin bits /\ "manual" \notin bits
       /\ (~Dozes => "low" \notin bits)
       /\ (HasKeys /\ ~lost /\ power # "off" => "keys" \in bits)
       /\ (HasDsp /\ power \in {"off", "runtime", "s3", "s4"} => "dspRuns" \notin bits)
       /\ Boots => /\ "low" \notin bits
                   /\ IsVB => "vbOutput" \in bits
                   /\ alc_spec.gpio_data => "gpio" \in bits
                   /\ alc_spec.variant \in {"ALC282", "ALC283"} => "coefs" \in bits
                   /\ HasDsp /\ alc_spec.halt => "dspRuns" \notin bits
                   /\ HasDsp /\ ~alc_spec.halt => "dspRuns" \in bits
  BY <1>2, <1>6, <1>9 DEF SwitchInv
<1>12. /\ ~Pulls => "pull" \notin bits
       /\ alc_spec.variant \in Is256 /\ ~alc_spec.en_3kpull_low => "pull" \notin bits
       /\ Boots /\ Pulls => "pull" \notin bits
  BY <1>2, <1>6, <1>8 DEF PullInv
<1>13. /\ ~Targets => mode = "default"
       /\ Boots /\ Targets /\ seen # {} => mode = Target
  BY <1>1, <1>2, EmptyNot DEF ModeInv
<1> QED BY <1>1, <1>3, <1>4, <1>5, <1>7, <1>10, <1>11, <1>12, <1>13, IdleNext

\* Plugging changes nothing but what the next look sees.
LEMMA JackKeeps == ASSUME PowerIInv, NEW p \in OutPins, Jack(p) PROVE PowerIInv'
<1>1. /\ plugged' \subseteq OutPins
      /\ UNCHANGED <<alc_spec, pin, muted, mode, saved, bits, done_hp_init, pm_event, seen, call, todo,
                     polls, power, sleeps, fresh, lost>>
  BY DEF PowerIInv, PowerTypeOK, Jack, registers
<1>2. PowerTypeOK' BY <1>1 DEF PowerIInv, PowerTypeOK, Sensed
<1>3. CallsFit' BY <1>1 DEF PowerIInv, CallsFit, NoCall, Boots, Sleeps, NeedsDepop, S3orS4
<1>4. LooksOnce' BY <1>1 DEF PowerIInv, LooksOnce, Coming, Boots, Sleeps, Looks
<1>5. PullInv' BY <1>1 DEF PowerIInv, PullInv, Coming, Boots, Sleeps, Pulls, WillClear, Awake, NoCall
<1>6. SwitchInv' BY <1>1 DEF PowerIInv, SwitchInv, Boots, Sleeps, WillClear, WillSet, Awake, NoCall,
                             HasKeys, Dozes, IsVB, HasDsp
<1>7. ModeInv' BY <1>1 DEF PowerIInv, ModeInv, Coming, Boots, Sleeps, Awake, NoCall, Target, ToTarget, Targets
<1>8. PinInv' BY <1>1 DEF PowerIInv, PinInv, Boots, Sleeps, Honours
<1> QED BY <1>2, <1>3, <1>4, <1>5, <1>6, <1>7, <1>8 DEF PowerIInv

\* A step of something else changes nothing.
LEMMA StutterKeeps == ASSUME PowerIInv, UNCHANGED powerVars PROVE PowerIInv'
<1>1. UNCHANGED <<alc_spec, pin, muted, mode, saved, bits, done_hp_init, pm_event, plugged, seen, call,
                  todo, polls, power, sleeps, fresh, lost>>
  BY DEF powerVars, registers
<1>2. PowerTypeOK' BY <1>1 DEF PowerIInv, PowerTypeOK, Sensed
<1>3. CallsFit' BY <1>1 DEF PowerIInv, CallsFit, NoCall, Boots, Sleeps, NeedsDepop, S3orS4
<1>4. LooksOnce' BY <1>1 DEF PowerIInv, LooksOnce, Coming, Boots, Sleeps, Looks
<1>5. PullInv' BY <1>1 DEF PowerIInv, PullInv, Coming, Boots, Sleeps, Pulls, WillClear, Awake, NoCall
<1>6. SwitchInv' BY <1>1 DEF PowerIInv, SwitchInv, Boots, Sleeps, WillClear, WillSet, Awake, NoCall,
                             HasKeys, Dozes, IsVB, HasDsp
<1>7. ModeInv' BY <1>1 DEF PowerIInv, ModeInv, Coming, Boots, Sleeps, Awake, NoCall, Target, ToTarget, Targets
<1>8. PinInv' BY <1>1 DEF PowerIInv, PinInv, Boots, Sleeps, Honours
<1> QED BY <1>2, <1>3, <1>4, <1>5, <1>6, <1>7, <1>8 DEF PowerIInv

\* A stream that opens unmutes the pins of a codec at rest.
LEMMA ListenKeeps == ASSUME PowerIInv, Listen PROVE PowerIInv'
<1>1. /\ NoCall /\ muted' = [p \in OutPins |-> FALSE]
      /\ UNCHANGED <<alc_spec, pin, mode, saved, bits, done_hp_init, pm_event, plugged, seen, call,
                     todo, polls, power, sleeps, fresh, lost>>
  BY DEF Listen, env
<1>2. PowerTypeOK' BY <1>1 DEF PowerIInv, PowerTypeOK, Sensed
<1>3. UNCHANGED <<Dozes, Pulls, HasKeys, Targets, HasDsp, IsVB, Target, NoCall, Awake, S3orS4, NeedsDepop>>
  BY <1>1 DEF Dozes, Pulls, HasKeys, Targets, HasDsp, IsVB, Target, NoCall, Awake, S3orS4, NeedsDepop
<1>4. CallsFit BY DEF PowerIInv
<1> QED BY <1>1, <1>2, <1>3, <1>4, Idle, IdleNext DEF CallsFit

\* Waking may lose the power, and with it every register.
LEMMA WakeKeeps == ASSUME PowerIInv, Wake PROVE PowerIInv'
<1>1. /\ NoCall /\ power \in {"runtime", "s3", "s4"} /\ power' = "waking"
      /\ UNCHANGED <<alc_spec, saved, done_hp_init, plugged, seen, call, todo, polls, sleeps>>
      /\ pm_event' \in CASE power = "s3" -> {"resume"} [] power = "s4" -> {"restore"}
                         [] power = "runtime" -> {pm_event, "on"}
      /\ \/ bits' \in {bits, bits \ {"gpio"}} /\ UNCHANGED <<pin, muted, mode, fresh, lost>>
         \/ /\ power # "runtime" /\ lost' = TRUE /\ bits' = {} /\ mode' = "default"
            /\ pin' = [p \in OutPins |-> "off"] /\ muted' = [p \in OutPins |-> TRUE]
            /\ fresh' = (alc_spec.variant = "ALC225" \/ (NeedsDepop /\ power = "s4"))
  BY DEF Wake
<1>2. PowerTypeOK BY DEF PowerIInv
<1>3. /\ power = "s3" => pm_event' = "resume"
      /\ power = "s4" => pm_event' = "restore"
      /\ power = "runtime" => pm_event' \in {pm_event, "on"}
  BY <1>1
<1>4. PowerTypeOK'
  <2>1. /\ bits' \subseteq Switches /\ mode' \in {"default", "low", "high", "normal"}
        /\ pin' \in [OutPins -> {"off", "out"}] /\ muted' \in [OutPins -> BOOLEAN]
        /\ fresh' \in BOOLEAN /\ lost' \in BOOLEAN
    BY <1>1, <1>2 DEF PowerTypeOK
  <2>2. pm_event' \in {"on", "resume", "restore"} BY <1>1, <1>2, <1>3 DEF PowerTypeOK
  <2> QED BY <1>1, <1>2, <2>1, <2>2 DEF PowerTypeOK, Sensed
<1>5. UNCHANGED <<Dozes, Pulls, HasKeys, Targets, HasDsp, IsVB, Target, NoCall>> /\ ~Awake'
  BY <1>1 DEF Dozes, Pulls, HasKeys, Targets, HasDsp, IsVB, Target, NoCall, Awake
<1>6. fresh' =>
        \/ alc_spec'.variant = "ALC225" /\ S3orS4'
        \/ alc_spec'.variant = "ALC294" /\ alc_spec'.hp_pin /\ pm_event' = "restore"
  <2>1. ~fresh BY <1>1, Idle
  <2>2. CASE UNCHANGED fresh BY <2>1, <2>2
  <2>3. CASE power # "runtime" /\ fresh' = (alc_spec.variant = "ALC225" \/ (NeedsDepop /\ power = "s4"))
    <3>1. power \in {"s3", "s4"} BY <1>1, <2>3
    <3> QED BY <1>1, <1>3, <2>3, <3>1 DEF NeedsDepop, S3orS4
  <2> QED BY <1>1, <2>2, <2>3
<1>7. /\ \A b : b \notin bits => b \notin bits'
      /\ ~lost' => ~lost /\ ("keys" \in bits => "keys" \in bits')
      /\ mode = "default" => mode' = "default"
      /\ todo' = <<>> /\ NoCall'
  BY <1>1, <1>5, Idle
<1> QED BY <1>1, <1>4, <1>5, <1>6, <1>7, Idle, IdleNext

\* What a boot or resume leaves to be done, once it has begun.
LEMMA Begins ==
    ASSUME PowerTypeOK', Boots', power' = "active", seen' = {}, CallDoes(todo'),
           alc_spec' = alc_spec, UNCHANGED <<bits, mode, done_hp_init, pm_event, fresh>>,
           \A b \in Held : b \notin bits,
           ~Dozes => "low" \notin bits, ~Pulls => "pull" \notin bits,
           alc_spec.variant \in Is256 /\ ~alc_spec.en_3kpull_low => "pull" \notin bits,
           ~Targets => mode = "default", fresh => Depops,
           HasKeys /\ ~lost' => Lasts(todo', Sets("keys"), Clears("keys")) \/ "keys" \in bits
    PROVE  PowerIInv'
<1>1. /\ todo' \in Seq(Accesses) /\ PartDoes(todo')
      /\ alc_spec.gpio_data => Lasts(todo', Sets("gpio"), Clears("gpio"))
      /\ Lacks(todo', Modes) /\ Lacks(todo', Sets("pull")) /\ Lacks(todo', Clears("keys"))
      /\ Lacks(todo', Sets("low"))
  BY DEF CallDoes
<1>2. ~Sleeps' /\ ~Awake' /\ ~NoCall' BY DEF Boots, Sleeps, Awake, NoCall
<1>3. UNCHANGED <<Dozes, Pulls, HasKeys, Targets, HasDsp, IsVB>>
  BY DEF Dozes, Pulls, HasKeys, Targets, HasDsp, IsVB
<1>4. CallsFit' BY <1>2 DEF CallsFit
<1>5. LooksOnce' BY <1>1, <1>2 DEF LooksOnce, PartDoes
<1>6. PullInv'
  <2>1. Pulls => Coming' BY <1>1 DEF PartDoes, Coming
  <2>2. ~Pulls => WillClear("pull")' BY <1>1, Wills
  <2> QED BY <1>1, <1>2, <1>3, <2>1, <2>2 DEF PullInv
<1>7. SwitchInv'
  <2>1. HasKeys /\ ~lost' => WillSet("keys")' BY <1>1, Wills
  <2>2. \A b \in {"jdReset", "pathCut", "manual"} : WillClear(b)'
    <3>1. SUFFICES ASSUME NEW b \in {"jdReset", "pathCut", "manual"} PROVE WillClear(b)'
      OBVIOUS
    <3>2. b \notin bits' /\ (Lasts(todo', Clears(b), Sets(b)) \/ Lacks(todo', Sets(b)))
      BY <1>1, <3>1 DEF Held, PartDoes
    <3> QED BY <3>2, Wills
  <2>3. WillClear("low")' BY <1>1, Wills DEF PartDoes
  <2>4. /\ IsVB => WillSet("vbOutput")'
        /\ alc_spec.gpio_data => WillSet("gpio")'
        /\ alc_spec.variant \in {"ALC282", "ALC283"} => WillSet("coefs")'
    BY <1>1, Wills DEF PartDoes
  <2>5. /\ HasDsp /\ alc_spec.halt => WillClear("dspRuns")'
        /\ HasDsp /\ ~alc_spec.halt => WillSet("dspRuns")'
    BY <1>1, Wills DEF PartDoes
  <2> QED BY <1>2, <1>3, <2>1, <2>2, <2>3, <2>4, <2>5 DEF SwitchInv
<1>8. ModeInv'
  <2>1. alc_spec.variant = "ALC282" => ~Targets BY DEF Targets, Is256, Is225
  <2> QED BY <1>1, <1>2, <1>3, <2>1 DEF ModeInv
<1>9. PinInv' BY <1>1, <1>2 DEF PinInv, PartDoes
<1> QED BY <1>4, <1>5, <1>6, <1>7, <1>8, <1>9 DEF PowerIInv

\* Boot begins with the codec as it was powered up.
LEMMA StartKeeps == ASSUME PowerIInv, Start PROVE PowerIInv'
<1>1. /\ power = "off" /\ power' = "active" /\ call' = "boot" /\ todo' = Boot
      /\ UNCHANGED <<alc_spec, pin, muted, mode, saved, bits, done_hp_init, pm_event, plugged, seen,
                     polls, sleeps, fresh, lost>>
  BY DEF Start, registers
<1>2. /\ NoCall /\ bits = {} /\ seen = {} /\ ~done_hp_init /\ (fresh => NeedsDepop)
      /\ alc_spec \in PowerMachines
  BY <1>1 DEF PowerIInv, CallsFit, NoCall, Boots, Sleeps, PowerTypeOK
<1>3. CallDoes(Boot) /\ (HasKeys => Lasts(Boot, Sets("keys"), Clears("keys"))) BY <1>2, BootFacts
<1>4. Boot \in Seq(Accesses) BY <1>3 DEF CallDoes
<1>5. PowerTypeOK' BY <1>1, <1>4 DEF PowerIInv, PowerTypeOK, Sensed
<1>6. Boots' BY <1>1 DEF Boots
<1>7. fresh => Depops BY <1>2 DEF NeedsDepop, Depops
<1>8. ~Targets => mode = "default" BY <1>2, Idle
<1> QED BY <1>1, <1>2, <1>3, <1>5, <1>6, <1>7, <1>8, Begins

\* Resume begins with the registers lost or kept.
LEMMA ResumeKeeps == ASSUME PowerIInv, Resume PROVE PowerIInv'
<1>1. /\ power = "waking" /\ power' = "active" /\ call' = "resume" /\ todo' = alc269_resume
      /\ seen' = {}
      /\ UNCHANGED <<alc_spec, pin, muted, mode, saved, bits, done_hp_init, pm_event, plugged,
                     polls, sleeps, fresh, lost>>
  BY DEF Resume, registers
<1>2. /\ NoCall /\ alc_spec \in PowerMachines
      /\ fresh => \/ alc_spec.variant = "ALC225" /\ S3orS4
                  \/ alc_spec.variant = "ALC294" /\ alc_spec.hp_pin /\ pm_event = "restore"
  BY <1>1 DEF PowerIInv, CallsFit, NoCall, Boots, Sleeps, PowerTypeOK
<1>3. CallDoes(alc269_resume) BY <1>2, ResumeFacts
<1>4. alc269_resume \in Seq(Accesses) BY <1>3 DEF CallDoes
<1>5. PowerTypeOK' BY <1>1, <1>4 DEF PowerIInv, PowerTypeOK, Sensed
<1>6. Boots' BY <1>1 DEF Boots
<1>7. fresh => Depops BY <1>2 DEF Depops
<1>8. /\ \A b \in Held : b \notin bits
      /\ ~Dozes => "low" \notin bits
      /\ ~Pulls => "pull" \notin bits
      /\ alc_spec.variant \in Is256 /\ ~alc_spec.en_3kpull_low => "pull" \notin bits
      /\ ~Targets => mode = "default"
      /\ HasKeys /\ ~lost => "keys" \in bits
  BY <1>1, <1>2, Idle DEF Held
<1> QED BY <1>1, <1>2, <1>3, <1>5, <1>6, <1>7, <1>8, Begins

\* Suspend begins with a codec at work.
LEMMA SuspendKeeps ==
    ASSUME PowerIInv, NEW how \in {"runtime", "s3", "s4"}, Suspend(how)
    PROVE  PowerIInv'
<1>1. /\ NoCall /\ power = "active" /\ sleeps < MaxSleeps /\ sleeps' = sleeps + 1
      /\ power' = how /\ call' = "suspend" /\ todo' = alc269_suspend /\ seen' = {}
      /\ UNCHANGED <<alc_spec, pin, muted, mode, saved, bits, done_hp_init, pm_event, plugged,
                     polls, fresh, lost>>
  BY DEF Suspend, registers
<1>2. PowerTypeOK /\ alc_spec \in PowerMachines /\ Awake
  BY <1>1 DEF PowerIInv, PowerTypeOK, Awake
<1>3. SuspendDoes(todo') BY <1>1, <1>2, SuspendFacts
<1>4. PowerTypeOK'
  <2>1. sleeps' \in 0..MaxSleeps BY <1>1, <1>2, CodecAssumption DEF PowerTypeOK
  <2>2. todo' \in Seq(Accesses) BY <1>3 DEF SuspendDoes
  <2> QED BY <1>1, <1>2, <2>1, <2>2 DEF PowerTypeOK, Sensed
<1>5. Sleeps' /\ ~Boots' /\ ~NoCall' /\ ~Awake' BY <1>1 DEF Boots, Sleeps, NoCall, Awake
<1>6. UNCHANGED <<Dozes, Pulls, HasKeys, Targets, HasDsp, IsVB, Looks, Honours>>
  BY <1>1 DEF Dozes, Pulls, HasKeys, Targets, HasDsp, IsVB, Looks, Honours
<1>7. CallsFit' BY <1>1, <1>5, Idle DEF CallsFit
<1>8. LooksOnce' BY <1>1, <1>3, <1>5, <1>6 DEF LooksOnce, SuspendDoes, Coming
<1>9. PullInv'
  <2>1. ~Pulls => alc_spec.variant \notin Is256 BY DEF Pulls
  <2>2. ~Pulls => WillClear("pull")' BY <1>1, <1>3, <2>1, Idle, Wills DEF SuspendDoes
  <2> QED BY <1>1, <1>3, <1>5, <1>6, <2>2, Idle DEF PullInv, SuspendDoes
<1>10. SwitchInv'
  <2>1. HasKeys /\ ~lost => WillSet("keys")' BY <1>1, <1>3, Idle, Wills DEF SuspendDoes
  <2>2. WillClear("jdReset")' /\ WillClear("pathCut")' /\ WillClear("manual")'
    BY <1>1, <1>3, Idle, Wills DEF SuspendDoes, Held
  <2>3. WillClear("low")' BY <1>1, <1>2, <1>3, Idle, Wills DEF SuspendDoes
  <2>4. HasDsp => WillClear("dspRuns")' BY <1>1, <1>2, <1>3, Idle, Wills DEF SuspendDoes
  <2> QED BY <1>1, <1>5, <1>6, <2>1, <2>2, <2>3, <2>4 DEF SwitchInv
<1>11. ModeInv'
  <2>1. alc_spec.variant = "ALC282" => ~Targets /\ alc_spec.variant \notin Is256
    BY DEF Targets, Is256, Is225
  <2>2. ~Targets => alc_spec.variant \notin Is256 BY DEF Targets
  <2>3. ~Targets => mode' = "default" /\ Lacks(todo', Modes)
    BY <1>1, <1>3, <2>2, Idle DEF SuspendDoes
  <2> QED BY <1>1, <1>5, <1>6, <2>1, <2>3 DEF ModeInv
<1>12. PinInv' BY <1>1, <1>3, <1>5 DEF PinInv, SuspendDoes
<1> QED BY <1>4, <1>7, <1>8, <1>9, <1>10, <1>11, <1>12 DEF PowerIInv

\* Every step keeps the invariant.
LEMMA StepKeeps == ASSUME PowerIInv, [PowerNext]_powerVars PROVE PowerIInv'
<1>1. CASE Plain BY <1>1, PlainKeeps
<1>2. CASE LookAtJacks BY <1>2, LookKeeps
<1>3. CASE Returns BY <1>3, ReturnsKeeps
<1>4. CASE Start BY <1>4, StartKeeps
<1>5. CASE Listen BY <1>5, ListenKeeps
<1>6. CASE Wake BY <1>6, WakeKeeps
<1>7. CASE Resume BY <1>7, ResumeKeeps
<1>8. CASE \E p \in OutPins : Jack(p) BY <1>8, JackKeeps
<1>9. CASE \E how \in {"runtime", "s3", "s4"} : Suspend(how) BY <1>9, SuspendKeeps
<1>10. CASE UNCHANGED powerVars BY <1>10, StutterKeeps
<1> QED BY <1>1, <1>2, <1>3, <1>4, <1>5, <1>6, <1>7, <1>8, <1>9, <1>10 DEF PowerNext, Access, Plain

-----------------------------------------------------------------------------
(* The theorems.                                                           *)

\* The invariant says what the codec owes between calls.
LEMMA OwedHolds == ASSUME PowerIInv PROVE PowerInv
<1>1. PowerTypeOK BY DEF PowerIInv
<1>2. NoPull BY DEF PowerIInv, PullInv, NoPull
<1>3. ModeSettled
  <2>1. SUFFICES ASSUME Awake, seen # {}
                 PROVE  mode \in CASE alc_spec.variant = "ALC282" -> {"default"}
                                   [] alc_spec.variant = "ALC283" -> {"normal"}
                                   [] alc_spec.variant \in Is256 \cup Is225 -> {"high"}
                                   [] OTHER -> {"default"}
    BY DEF ModeSettled
  <2>2. (Targets => mode = Target) /\ (~Targets => mode = "default") BY <2>1, Idle DEF Awake
  <2>3. CASE alc_spec.variant = "ALC282" BY <2>2, <2>3 DEF Targets, Is256, Is225
  <2>4. CASE alc_spec.variant = "ALC283" BY <2>2, <2>4 DEF Targets, Target, Is256, Is225
  <2>5. CASE alc_spec.variant \in Is256 \cup Is225
    BY <2>2, <2>5 DEF Targets, Target, Is256, Is225
  <2>6. CASE alc_spec.variant \notin {"ALC282", "ALC283"} \cup Is256 \cup Is225
    BY <2>2, <2>6 DEF Targets
  <2> QED BY <2>3, <2>4, <2>5, <2>6
<1>4. PullReleased BY Idle DEF PullReleased, Awake
<1>5. KeysOn BY Idle DEF KeysOn
<1>6. AwakeRegisters
  <2>1. SUFFICES ASSUME Awake PROVE AwakeRegisters BY DEF AwakeRegisters
  <2>2. /\ "jdReset" \notin bits /\ "pathCut" \notin bits /\ "manual" \notin bits
        /\ "low" \notin bits
        /\ IsVB => "vbOutput" \in bits
        /\ alc_spec.gpio_data => "gpio" \in bits
        /\ alc_spec.variant \in {"ALC282", "ALC283"} => "coefs" \in bits
    BY <2>1, Idle DEF Awake
  <2> QED BY <2>2 DEF AwakeRegisters
<1>7. DspAtRest
  <2>1. SUFFICES ASSUME NoCall, HasDsp, power # "waking"
                 PROVE  "dspRuns" \in bits <=> ~alc_spec.halt /\ power = "active"
    BY DEF DspAtRest
  <2>2. CASE power = "active"
    <3>1. Awake BY <2>1, <2>2 DEF Awake
    <3>2. /\ alc_spec.halt => "dspRuns" \notin bits
          /\ ~alc_spec.halt => "dspRuns" \in bits
      BY <2>1, <3>1, Idle
    <3> QED BY <2>2, <3>2
  <2>3. CASE power # "active"
    <3>1. power \in {"off", "runtime", "s3", "s4"} BY <1>1, <2>1, <2>3 DEF PowerTypeOK
    <3>2. "dspRuns" \notin bits BY <2>1, <3>1, Idle
    <3> QED BY <2>3, <3>2
  <2> QED BY <2>2, <2>3
<1> QED BY <1>1, <1>2, <1>3, <1>4, <1>5, <1>6, <1>7 DEF PowerInv

\* Steps that are no access do not touch the pins of a call under way.
LEMMA PinsAtRest ==
    ASSUME PowerIInv, [PowerNext]_powerVars, ~Plain
    PROVE  (pin' = pin /\ muted' = muted) \/ call = "none"
<1>1. CASE LookAtJacks BY <1>1, LookDoes
<1>2. CASE Returns BY <1>2 DEF Returns, registers
<1>3. CASE Start BY <1>3 DEF Start, registers
<1>4. CASE Listen \/ Wake BY <1>4 DEF Listen, Wake, NoCall
<1>5. CASE Resume BY <1>5 DEF Resume, registers
<1>6. CASE \E p \in OutPins : Jack(p) BY <1>6 DEF Jack, registers
<1>7. CASE \E how \in {"runtime", "s3", "s4"} : Suspend(how) BY <1>7 DEF Suspend, registers
<1>8. CASE UNCHANGED powerVars BY <1>8 DEF powerVars, registers
<1> QED BY <1>1, <1>2, <1>3, <1>4, <1>5, <1>6, <1>7, <1>8 DEF PowerNext, Access, Plain

\* The order of the accesses, one access at a time.
LEMMA PlainOrder ==
    ASSUME PowerIInv, Plain
    PROVE  NoClick /\ PullBeforeCut /\ DepopFirst /\ PinsKept
<1> DEFINE x == Head(todo)
<1>0. /\ PowerTypeOK /\ CallsFit /\ LooksOnce /\ PullInv /\ PinInv BY DEF PowerIInv
<1>1. todo # <<>> /\ x \in Accesses /\ Same /\ (Waits \/ Runs) /\ todo \in Seq(Accesses)
  BY <1>0, Effects DEF Same, PowerTypeOK
<1>2. Boots \/ Sleeps BY <1>0, <1>1, InCall
<1>3. seen \subseteq OutPins /\ pin \in [OutPins -> {"off", "out"}] /\ muted \in [OutPins -> BOOLEAN]
      /\ call' = call
  BY <1>0, <1>1 DEF PowerTypeOK, Sensed, OutPins, Same
<1>4. CASE Waits
  <2>1. pin' = pin /\ muted' = muted BY <1>4 DEF Waits
  <2> QED BY <1>3, <2>1 DEF NoClick, PullBeforeCut, DepopFirst, PinsKept
<1>5. CASE Runs
  <2>1. /\ pin' \in [OutPins -> {"off", "out"}]
        /\ x[1] \notin {"drive", "cut", "gen_init", "shutup_pins"} => pin' = pin
        /\ x[1] = "shutup_pins" /\ alc_spec.no_shutup_pins => pin' = pin
        /\ \A p \in OutPins :
             /\ x[1] \notin {"cut", "shutup_pins"} /\ pin[p] = "out" => pin'[p] = "out"
             /\ x[1] \notin {"drive", "gen_init"} /\ pin[p] = "off" => pin'[p] = "off"
             /\ x \in DriveOf(p) => pin'[p] = "out"
             /\ x[1] \notin {"unmute", "sync"} /\ muted[p] => muted'[p]
             /\ x \in MuteOf(p) => muted'[p]
    BY <1>5 DEF Runs
  <2>2. /\ x \in Cuts <=> x[1] \in {"cut", "shutup_pins"}
        /\ x \in Loud <=> x[1] \in {"drive", "unmute", "gen_init", "sync"}
        /\ x \in Unmutes <=> x[1] \in {"unmute", "sync"}
        /\ x \in Opens <=> x[1] \in {"drive", "gen_init", "sense"}
        /\ x \in PollOp <=> x[1] = "poll"
        /\ x \in Kind({"cut"}) <=> x[1] = "cut"
    BY <1>1, KindIs DEF Cuts, Loud, Unmutes, Opens, PollOp
  <2>3. /\ Sleeps => x \notin Loud
        /\ Boots /\ seen # {} => x \notin Cuts
    BY <1>0, <1>1, Rest1 DEF LooksOnce
  <2>4. \A p \in seen : Sleeps /\ x \in Cuts => muted[p]
    <3>1. SUFFICES ASSUME NEW p \in seen, Sleeps, x \in Cuts, ~muted[p] PROVE FALSE
      BY <1>3
    <3>2. Leads(todo, MuteOf(p), Cuts) BY <1>0, <3>1 DEF PinInv
    <3>3. x \notin MuteOf(p) BY <2>2, <3>1 DEF MuteOf
    <3> QED BY <1>1, <3>1, <3>2, <3>3, Rest1
  <2>5. \A p \in seen : Boots /\ x \in Unmutes => pin'[p] = "out"
    <3>1. SUFFICES ASSUME NEW p \in seen, Boots, x \in Unmutes PROVE pin'[p] = "out"
      OBVIOUS
    <3>2. x \notin DriveOf(p) BY <2>2, <3>1 DEF DriveOf
    <3>3. ~Leads(todo, DriveOf(p), Unmutes) BY <1>1, <3>1, <3>2, Rest1
    <3>4. pin[p] = "out" BY <1>0, <3>1, <3>3 DEF PinInv
    <3> QED BY <1>3, <2>1, <2>2, <3>1, <3>4
  <2>6. NoClick
    <3>1. SUFFICES ASSUME NEW p \in seen
                   PROVE  /\ pin[p] = "out" /\ pin'[p] = "off" => muted[p] \/ call = "none"
                          /\ muted[p] /\ ~muted'[p] => pin'[p] = "out" \/ call = "none"
      BY DEF NoClick
    <3>2. pin[p] = "out" /\ pin'[p] = "off" => x \in Cuts BY <1>3, <2>1, <2>2, <3>1
    <3>3. muted[p] /\ ~muted'[p] => x \in Unmutes BY <1>3, <2>1, <2>2, <3>1
    <3>4. x \in Unmutes => x \in Loud BY <2>2
    <3> QED BY <1>2, <2>3, <2>4, <2>5, <3>1, <3>2, <3>3, <3>4
  <2>7. PullBeforeCut
    <3>1. SUFFICES ASSUME NEW p \in seen, Sleeps, alc_spec.variant \in Is256, alc_spec.en_3kpull_low
                   PROVE  "pull" \in bits
      BY DEF PullBeforeCut, Sleeps
    <3> QED BY <1>0, <3>1 DEF PullInv
  <2>8. DepopFirst
    <3>1. SUFFICES ASSUME NEW p \in OutPins, pin[p] = "off", pin'[p] = "out", fresh PROVE FALSE
      BY DEF DepopFirst
    <3>2. x \in Opens /\ x \in Loud /\ x \notin PollOp BY <2>1, <2>2, <3>1
    <3>3. Boots BY <1>2, <2>3, <3>2
    <3>4. Leads(todo, PollOp, Opens) BY <1>0, <3>1, <3>3 DEF PinInv
    <3> QED BY <1>1, <3>2, <3>4, Rest1
  <2>9. PinsKept
    <3>1. SUFFICES ASSUME Honours, Sleeps PROVE pin' = pin BY DEF PinsKept, Sleeps
    <3>2. x \notin Kind({"cut"}) BY <1>0, <1>1, <3>1, Rest1 DEF PinInv
    <3>3. x[1] \notin {"drive", "gen_init", "cut"} BY <2>2, <2>3, <3>1, <3>2
    <3> QED BY <2>1, <3>1, <3>3 DEF Honours
  <2> QED BY <2>6, <2>7, <2>8, <2>9
<1> QED BY <1>1, <1>4, <1>5

\* And one step at a time.
LEMMA StepOrder ==
    ASSUME PowerIInv, [PowerNext]_powerVars
    PROVE  [NoClick /\ PullBeforeCut /\ DepopFirst /\ PinsKept]_powerVars
<1>1. CASE Plain BY <1>1, PlainOrder
<1>2. CASE ~Plain /\ pin' = pin /\ muted' = muted
  BY <1>2 DEF NoClick, PullBeforeCut, DepopFirst, PinsKept
<1>3. CASE ~Plain /\ call = "none" /\ ~(pin' = pin /\ muted' = muted)
  <2>1. NoClick /\ PullBeforeCut /\ PinsKept BY <1>3 DEF NoClick, PullBeforeCut, PinsKept
  <2>2. Listen \/ Wake
    <3>1. CASE LookAtJacks BY <1>3, <3>1, LookDoes
    <3>2. CASE Returns BY <1>3, <3>2 DEF Returns
    <3>3. CASE Start BY <1>3, <3>3 DEF Start, registers
    <3>4. CASE Resume BY <1>3, <3>4 DEF Resume, registers
    <3>5. CASE \E p \in OutPins : Jack(p) BY <1>3, <3>5 DEF Jack, registers
    <3>6. CASE \E how \in {"runtime", "s3", "s4"} : Suspend(how) BY <1>3, <3>6 DEF Suspend, registers
    <3>7. CASE UNCHANGED powerVars BY <1>3, <3>7 DEF powerVars, registers
    <3> QED BY <1>3, <3>1, <3>2, <3>3, <3>4, <3>5, <3>6, <3>7 DEF PowerNext, Access, Plain
  <2>3. \A p \in OutPins : pin'[p] = pin[p] \/ pin'[p] = "off"
    <3>1. CASE Listen BY <3>1 DEF Listen
    <3>2. CASE Wake BY <3>2 DEF Wake
    <3> QED BY <2>2, <3>1, <3>2
  <2>4. DepopFirst BY <2>3 DEF DepopFirst
  <2> QED BY <2>1, <2>4
<1> QED BY <1>1, <1>2, <1>3, PinsAtRest

\* Whatever the machine, however often it sleeps and whatever is plugged meanwhile: between
\* calls the codec has the power mode, switches and DSP state of the power state it is in
\* (realtek/alc269.c: what the init, shutup, suspend and resume functions write).
THEOREM PowerCorrect == PowerSpec => []PowerInv
<1>1. PowerInit => PowerIInv BY InitIs
<1>2. PowerIInv /\ [PowerNext]_powerVars => PowerIInv' BY StepKeeps
<1>3. PowerIInv => PowerInv BY OwedHolds
<1> QED BY <1>1, <1>2, <1>3, PTL DEF PowerSpec

\* And every call writes in the order that avoids clicks and stalls: seen headphones are muted
\* before their pin is cut and driven before they are unmuted, ALC256 pulls down first, a pin
\* that lost its power waits for the depop procedure, no_shutup_pins leaves the pins alone.
THEOREM PowerOrderCorrect == PowerSpec => PowerRight
<1>1. PowerInit => PowerIInv BY InitIs
<1>2. PowerIInv /\ [PowerNext]_powerVars => PowerIInv' BY StepKeeps
<1>3. PowerIInv /\ [PowerNext]_powerVars => [NoClick /\ PullBeforeCut /\ DepopFirst /\ PinsKept]_powerVars
  BY StepOrder
<1> QED BY <1>1, <1>2, <1>3, PTL DEF PowerSpec, PowerRight

=============================================================================
