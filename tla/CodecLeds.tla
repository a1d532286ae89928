------------------------------ MODULE CodecLeds ------------------------------
(***************************************************************************)
(* The mute and microphone LEDs of laptops that wired them to the codec    *)
(* (realtek/alc269.c): to the reference voltage of a microphone pin, to a  *)
(* GPIO or to bits of a coefficient.  The LED core sets them at any time,  *)
(* in runtime suspend too, whose shutup clears every pin before the power  *)
(* filter sees the widgets.                                                *)
(***************************************************************************)
EXTENDS Naturals

CONSTANT LedMachines    \* pairs of fixup functions: mute LED and microphone LED

BothLeds == {"mute", "mic"}
VrefPins == {"0x18", "0x19", "0x1a", "0x1b"}
Coefs == {"0x07", "0x0b", "0x19", "0x34", "0x35"}

VrefPin(nid) == [kind |-> "vref", at |-> nid, mask |-> {}, on |-> {}, off |-> {}]
Gpio(bit) == [kind |-> "gpio", at |-> "gpio", mask |-> {bit}, on |-> {bit}, off |-> {}]
Coef(idx, mask, on, off) ==
    [kind |-> "coef", at |-> idx, mask |-> mask, on |-> on, off |-> off]
None == [kind |-> "none", at |-> "", mask |-> {}, on |-> {}, off |-> {}]

\* What each fixup function sets up, bits by their numbers.
MutePin ==
    [alc269_fixup_hp_mute_led_mic1           |-> VrefPin("0x18"),
     alc269_fixup_hp_mute_led_mic2           |-> VrefPin("0x19"),
     alc269_fixup_hp_mute_led_mic3           |-> VrefPin("0x1b"),
     alc269_fixup_hp_line1_mic1_led          |-> VrefPin("0x1a"),
     alc236_fixup_hp_gpio_led                |-> Gpio(1),
     alc269_fixup_hp_gpio_led                |-> Gpio(3),
     alc269_fixup_hp_gpio_mic1_led           |-> Gpio(3),
     alc280_fixup_hp_gpio4                   |-> Gpio(3),
     alc285_fixup_hp_gpio_led                |-> Gpio(2),
     alc286_fixup_hp_gpio_led                |-> Gpio(1),
     alc287_fixup_hp_gpio_led                |-> Gpio(4),
     none                                    |-> None]
MuteCoef ==
    [alc285_fixup_hp_mute_led_coefbit        |-> Coef("0x0b", {3}, {3}, {}),
     alc236_fixup_hp_mute_led_coefbit        |-> Coef("0x34", {5}, {}, {5}),
     alc236_fixup_hp_mute_led_coefbit2       |-> Coef("0x07", {0}, {0}, {}),
     alc245_fixup_hp_mute_led_coefbit        |-> Coef("0x0b", {2, 3}, {3}, {2}),
     alc245_fixup_hp_mute_led_v1_coefbit     |-> Coef("0x0b", {2, 3}, {3}, {}),
     alc295_fixup_hp_mute_led_coefbit11      |-> Coef("0x0b", {3, 4}, {3}, {4})]
MicPin ==
    [alc269_fixup_hp_line1_mic1_led          |-> VrefPin("0x18"),
     alc269_fixup_hp_gpio_mic1_led           |-> VrefPin("0x18"),
     alc280_fixup_hp_gpio4                   |-> VrefPin("0x18"),
     alc236_fixup_hp_gpio_led                |-> Gpio(0),
     alc269_fixup_hp_gpio_led                |-> Gpio(4),
     alc285_fixup_hp_gpio_led                |-> Gpio(0),
     alc286_fixup_hp_gpio_led                |-> Gpio(5),
     alc245_fixup_hp_gpio_led                |-> Gpio(2),
     none                                    |-> None]
MicCoef ==
    [alc285_fixup_hp_gpio_micmute_led        |-> Gpio(2),
     alc285_fixup_hp_coef_micmute_led        |-> Coef("0x19", {13}, {13}, {}),
     alc236_fixup_hp_coef_micmute_led        |-> Coef("0x35", {2, 3}, {3}, {2}),
     alc236_fixup_hp_micmute_led_vref        |-> VrefPin("0x1a")]
MuteLed == [f \in DOMAIN MutePin \cup DOMAIN MuteCoef |->
               IF f \in DOMAIN MutePin THEN MutePin[f] ELSE MuteCoef[f]]
MicLed == [f \in DOMAIN MicPin \cup DOMAIN MicCoef |->
               IF f \in DOMAIN MicPin THEN MicPin[f] ELSE MicCoef[f]]
\* micmute_led_polarity = 1.
Inverted == {"alc245_fixup_hp_gpio_led", "alc285_fixup_hp_gpio_micmute_led"}

LedMachine == [mute : DOMAIN MuteLed, mic : DOMAIN MicLed, inverted : BOOLEAN]
\* No machine has both LEDs on one pin or on the same bits.
Apart(mute, mic) ==
    \/ mute.kind # mic.kind \/ mute.at # mic.at
    \/ mute.kind # "vref" /\ mute.mask \cap mic.mask = {}
ASSUME LedAssumption ==
    /\ LedMachines \subseteq LedMachine
    /\ \A m \in LedMachines : Apart(MuteLed[m.mute], MicLed[m.mic])

VARIABLES
    led_machine,
    asked, led_todo,    \* what the LED core wants; LEDs it has still to set
    led_call, arg,      \* the set function under way and its brightness
    led_power,          \* runtime power of the codec
    target, led_pin,    \* pin control: as the driver noted it, as the codec has it
    coef, gpio_data     \* bits set in the coefficients and in the GPIO data

regs == <<target, led_pin, coef, gpio_data>>
ledVars == <<led_machine, asked, led_todo, led_call, arg, led_power, regs>>

Led(l) == IF l = "mute" THEN MuteLed[led_machine.mute] ELSE MicLed[led_machine.mic]
Has(l) == Led(l).kind # "none"
\* HP's firmware tells the polarity of the mute LED (HP_Mute_LED_%d_%x).
Polarity(l) == IF l = "mute" THEN led_machine.inverted ELSE led_machine.mic \in Inverted
Brightness == {"hiz", "vref80"}

LedTypeOK ==
    /\ led_machine \in LedMachines /\ asked \in [BothLeds -> BOOLEAN]
    /\ led_todo \subseteq BothLeds
    /\ led_call \in BothLeds \cup {"none"} /\ arg \in BOOLEAN
    /\ led_power \in {"active", "shutup", "suspended"}
    /\ target \in [VrefPins -> Brightness] /\ led_pin \in [VrefPins -> Brightness \cup {"off"}]
    /\ coef \in [Coefs -> SUBSET (0..15)] /\ gpio_data \in SUBSET (0..7)

LedInit ==
    /\ led_machine \in LedMachines /\ asked = [l \in BothLeds |-> FALSE]
    /\ led_todo = {l \in BothLeds : Has(l)}
    /\ led_call = "none" /\ arg = FALSE /\ led_power = "active"
    /\ target = [p \in VrefPins |-> "hiz"] /\ led_pin = target
    /\ coef \in {[i \in Coefs |-> {}], [i \in Coefs |-> 0..15]} /\ gpio_data \in {{}, {6, 7}}

-----------------------------------------------------------------------------
(* The LED core and the set functions.                                     *)

Ask(l) ==
    /\ Has(l) /\ asked' = [asked EXCEPT ![l] = ~@] /\ led_todo' = led_todo \cup {l}
    /\ UNCHANGED <<led_machine, led_call, arg, led_power, regs>>

\* snd_hda_power_up_pm: a suspend under way ends first, a suspended codec is
\* resumed, which drives the pins as the driver noted them.
PowerUp ==
    /\ led_power # "shutup" /\ led_power' = "active"
    /\ led_pin' = IF led_power = "suspended" THEN target ELSE led_pin

SetLed(l) ==
    /\ led_call = "none" /\ l \in led_todo /\ PowerUp
    /\ led_call' = l /\ arg' = asked[l] /\ led_todo' = led_todo \ {l}
    /\ UNCHANGED <<led_machine, asked, target, coef, gpio_data>>

Lights == arg # Polarity(led_call)

alc_update_vref_led ==
    LET nid == Led(led_call).at IN
    /\ target' = [target EXCEPT ![nid] = IF Lights THEN "vref80" ELSE "hiz"]
    /\ led_pin' = [led_pin EXCEPT ![nid] = target'[nid]]
    /\ UNCHANGED <<coef, gpio_data>>

\* Mutant: the other bits of the coefficient are lost.
alc_update_coef_led_blind ==
    LET led == Led(led_call) IN
    /\ coef' = [coef EXCEPT ![led.at] = IF Lights THEN led.on ELSE led.off]
    /\ UNCHANGED <<target, led_pin, gpio_data>>
alc_update_coef_led ==
    LET led == Led(led_call) IN
    /\ coef' = [coef EXCEPT ![led.at] =
                    (@ \ led.mask) \cup (IF Lights THEN led.on ELSE led.off)]
    /\ UNCHANGED <<target, led_pin, gpio_data>>

\* alc_update_gpio_led(mask, polarity, !brightness): muted is high.
alc_update_gpio_led ==
    /\ gpio_data' = IF Lights THEN gpio_data \cup Led(led_call).on
                    ELSE gpio_data \ Led(led_call).mask
    /\ UNCHANGED <<target, led_pin, coef>>

LedWrite ==
    /\ led_call # "none" /\ led_call' = "none"
    /\ CASE Led(led_call).kind = "vref" -> alc_update_vref_led
         [] Led(led_call).kind = "coef" -> alc_update_coef_led
         [] OTHER                   -> alc_update_gpio_led
    /\ UNCHANGED <<led_machine, asked, led_todo, arg, led_power>>

-----------------------------------------------------------------------------
(* Runtime power of the codec.                                             *)

LedSuspend ==
    /\ led_power = "active" /\ led_call = "none" /\ led_power' = "shutup"
    /\ led_pin' = [p \in VrefPins |-> "off"]
    /\ UNCHANGED <<led_machine, asked, led_todo, led_call, arg, target, coef, gpio_data>>

LedPins == {Led(l).at : l \in {k \in BothLeds : Led(k).kind = "vref"}}

\* "Set pin ctl again, it might have just been set to 0."
led_power_filter ==
    led_pin' = [p \in VrefPins |-> IF p \in LedPins THEN target[p] ELSE led_pin[p]]

\* Every widget goes to D3 through the power filter.
PowerDown ==
    /\ led_power = "shutup" /\ led_power' = "suspended" /\ led_power_filter
    /\ UNCHANGED <<led_machine, asked, led_todo, led_call, arg, target, coef, gpio_data>>

LedResume ==
    /\ led_power = "suspended" /\ PowerUp
    /\ UNCHANGED <<led_machine, asked, led_todo, led_call, arg, target, coef, gpio_data>>

LedNext == \/ \E l \in BothLeds : Ask(l) \/ SetLed(l)
           \/ LedWrite \/ LedSuspend \/ PowerDown \/ LedResume
LedSpec == LedInit /\ [][LedNext]_ledVars

-----------------------------------------------------------------------------
(* Properties.                                                             *)

Lit(l) ==
    CASE Led(l).kind = "vref" -> led_pin[Led(l).at] = "vref80"
      [] Led(l).kind = "coef" -> coef[Led(l).at] \cap Led(l).mask = Led(l).on
      [] OTHER                -> Led(l).on \subseteq gpio_data

\* "Make sure the led works even in runtime suspend": a LED that has been set
\* shows what was asked for, whatever the other LED and the power did since.
Shown ==
    \A l \in BothLeds : Has(l) /\ l \notin led_todo /\ led_call # l /\ led_power # "shutup" =>
        (Lit(l) # Polarity(l)) = asked[l]

\* A LED write changes no bit that is not a LED's, of a coefficient or GPIO.
OtherBitsKept ==
    LET own(at) == UNION {Led(l).mask : l \in {k \in BothLeds : Led(k).at = at}} IN
    /\ \A i \in Coefs : coef'[i] \ own(i) = coef[i] \ own(i)
    /\ gpio_data' \ own("gpio") = gpio_data \ own("gpio")

\* LEDs show what was asked for, and setting them disturbs nothing else.
LedInv == LedTypeOK /\ Shown
LedsRight == [][OtherBitsKept /\ LedInv']_ledVars

=============================================================================
