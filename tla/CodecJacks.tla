------------------------------ MODULE CodecJacks ------------------------------
(***************************************************************************)
(* The jack hooks of laptops whose outputs need more than generic          *)
(* automute (realtek/alc269.c): a reference voltage, a GPIO, a coefficient *)
(* or a dock's speaker that has to follow the headphone jack.  A hook runs *)
(* in the work of an unsolicited event and in codec init, at boot and on   *)
(* runtime resume; two of the hooks sleep most of a second between sensing *)
(* the jack and driving the pin.                                           *)
(***************************************************************************)
EXTENDS Naturals, Sequences

CONSTANTS JackMachines,  \* the hooks of the laptops looked at
          MaxJackMoves   \* bound on how often jacks are plugged and unplugged

\* A hook: its steps and the line it drives with and without headphones.
Hook(steps, on, off) == [steps |-> steps, on |-> on, off |-> off]

alc269_x101_hp_automute_hook ==
    Hook(<<"automute", "vref", "write", "write">>, "vref80", "0")
alc283_hp_automute_hook == Hook(<<"automute", "vref", "write">>, "vref80", "0")
alc288_update_headset_jack_cb == Hook(<<"automute", "gpio">>, "0x40", "0")
alc280_hp_gpio4_automute_hook == Hook(<<"automute", "gpio">>, "0x10", "0")
alc294_gx502_toggle_output == Hook(<<"toggle">>, "0x8a20", "0x0a20")
alc294_gu502_toggle_output == Hook(<<"toggle">>, "0x8420", "0x0a20")
asus_tx300_automute == Hook(<<"automute", "outputs", "dock">>, "muted", "open")
alc269_quanta_automute == Hook(<<"automute", "pulse", "write">>, "0x480", "0x480")

Hooks ==
    [x101          |-> alc269_x101_hp_automute_hook,
     sense_combo   |-> alc283_hp_automute_hook,
     dell_alc288   |-> alc288_update_headset_jack_cb,
     hp_9480m      |-> alc280_hp_gpio4_automute_hook,
     gx502         |-> alc294_gx502_toggle_output,
     gu502         |-> alc294_gu502_toggle_output,
     tx300         |-> asus_tx300_automute,
     quanta        |-> alc269_quanta_automute]
Sleeping == {"x101", "sense_combo"}    \* hooks with msleep

ASSUME JackAssumption == JackMachines \subseteq DOMAIN Hooks /\ MaxJackMoves \in Nat

Jacks == {"hp", "dock"}    \* pins 0x21 or the like, and 0x1b of the TX300
Threads == {"work", "init"}

VARIABLES
    jack_machine,
    jacks_in, jack_moves,  \* jacks in, and how often they changed
    pending,               \* jacks whose unsolicited event is queued
    jack_power,            \* runtime power of the codec
    hp_jack_present,       \* of the generic parser
    hook_pc, vref,         \* next step of the hook in each thread; its local vref
    first,                 \* of two threads in the hook, the one that came first
    line                   \* what the hook drives

jackVars == <<jack_machine, jacks_in, jack_moves, pending, jack_power, hp_jack_present,
              hook_pc, vref, first, line>>

Steps == Hooks[jack_machine].steps
LastStep == Len(Steps)
Wired == IF jack_machine = "tx300" THEN Jacks ELSE {"hp"}
Value(on) == IF on THEN Hooks[jack_machine].on ELSE Hooks[jack_machine].off
Lines == {Value(TRUE), Value(FALSE), "other"}
Idle(t) == hook_pc[t] = 0

JackTypeOK ==
    /\ jack_machine \in JackMachines /\ jacks_in \subseteq Wired /\ pending \subseteq Wired
    /\ jack_moves \in 0..MaxJackMoves /\ jack_power \in {"active", "suspended"}
    /\ hp_jack_present \in BOOLEAN /\ vref \in [Threads -> BOOLEAN] /\ first \in Threads
    /\ hook_pc \in [Threads -> 0..LastStep] /\ line \in Lines

\* Codec init is about to run; another system may have left any value.
JackInit ==
    /\ jack_machine \in JackMachines /\ jacks_in \in SUBSET Wired /\ jack_moves = 0
    /\ pending = {} /\ jack_power = "suspended" /\ hp_jack_present = FALSE
    /\ hook_pc = [t \in Threads |-> 0] /\ vref = [t \in Threads |-> FALSE]
    /\ first = "init" /\ line \in Lines

\* A jack moves.  A suspended codec may not notice.
Move(j) ==
    /\ j \in Wired /\ jack_moves < MaxJackMoves /\ jack_moves' = jack_moves + 1
    /\ jacks_in' = IF j \in jacks_in THEN jacks_in \ {j} ELSE jacks_in \cup {j}
    /\ \/ pending' = pending \cup {j}
       \/ jack_power = "suspended" /\ UNCHANGED pending
    /\ UNCHANGED <<jack_machine, jack_power, hp_jack_present, hook_pc, vref, first, line>>

Enter(t) ==
    /\ Idle(t) /\ hook_pc' = [hook_pc EXCEPT ![t] = 1]
    /\ first' = IF \A u \in Threads : Idle(u) THEN t ELSE first

\* Mutant: the hook does not run in init, only for events.
HookWake_quiet ==
    jack_power = "suspended" /\ jack_power' = "active" /\ UNCHANGED <<hook_pc, first>>
\* Power up: the fixups' INIT action and generic init both run the hook.
HookWake == jack_power = "suspended" /\ jack_power' = "active" /\ Enter("init")

\* The autosuspend delay, a second or more, outlasts the sleeps of a hook.
Power ==
    /\ \/ HookWake
       \/ /\ jack_power = "active" /\ \A t \in Threads : Idle(t)
          /\ jack_power' = "suspended" /\ UNCHANGED <<hook_pc, first>>
    /\ UNCHANGED <<jack_machine, jacks_in, jack_moves, pending, hp_jack_present, vref, line>>

Event(j) ==
    /\ jack_power = "active" /\ j \in pending /\ pending' = pending \ {j} /\ Enter("work")
    /\ UNCHANGED <<jack_machine, jacks_in, jack_moves, jack_power, hp_jack_present, vref, line>>

Other(t) == CHOOSE u \in Threads : u # t
\* Two sleeping hooks sleep equally long: the later one does not overtake.
InTurn(t) ==
    jack_machine \in Sleeping /\ first # t /\ ~Idle(first) => hook_pc[t] < hook_pc[first]

Do(t, step) ==
    CASE step = "automute" ->
            hp_jack_present' = ("hp" \in jacks_in) /\ UNCHANGED <<vref, line>>
      [] step = "vref" ->
            vref' = [vref EXCEPT ![t] = hp_jack_present] /\ UNCHANGED <<hp_jack_present, line>>
      [] step = "write" -> line' = Value(vref[t]) /\ UNCHANGED <<hp_jack_present, vref>>
      [] step = "gpio" -> line' = Value(hp_jack_present) /\ UNCHANGED <<hp_jack_present, vref>>
      [] step = "toggle" -> line' = Value("hp" \in jacks_in) /\ UNCHANGED <<hp_jack_present, vref>>
      [] step = "outputs" -> line' = Value(hp_jack_present) /\ UNCHANGED <<hp_jack_present, vref>>
      [] step = "dock" ->
            /\ line' = IF "dock" \in jacks_in THEN Value(TRUE) ELSE line
            /\ UNCHANGED <<hp_jack_present, vref>>
      [] step = "pulse" -> line' = "other" /\ UNCHANGED <<hp_jack_present, vref>>

HookStep(t) ==
    /\ ~Idle(t) /\ InTurn(t) /\ Do(t, Steps[hook_pc[t]])
    /\ hook_pc' = [hook_pc EXCEPT ![t] = IF @ = LastStep THEN 0 ELSE @ + 1]
    /\ first' = IF Idle(Other(t)) \/ first # t THEN first
                ELSE IF hook_pc'[t] = 0 THEN Other(t) ELSE t
    /\ UNCHANGED <<jack_machine, jacks_in, jack_moves, pending, jack_power>>

JackNext == \/ \E j \in Jacks : Move(j) \/ Event(j)
            \/ Power
            \/ \E t \in Threads : HookStep(t)

\* The thread in the hook goes on, the event work runs.
JackFairness == /\ \A t \in Threads : WF_jackVars(HookStep(t))
                /\ WF_jackVars(\E j \in Jacks : Event(j))
JackSpec == JackInit /\ [][JackNext]_jackVars /\ JackFairness

-----------------------------------------------------------------------------
(* Properties.                                                             *)

Follows == line = Value(jacks_in # {})
AtRest == jack_power = "active" /\ pending = {} /\ \A t \in Threads : Idle(t)

\* With no event left to handle, the line is what the jacks call for: at boot
\* with headphones in ("Make sure to start in a correct state"), after a jack
\* that moved in a hook's sleep and after one that moved in runtime suspend.
InStep == AtRest => Follows

\* Once the jacks rest and the codec stays up, the line comes to follow them.
Settles == <>[](jack_power = "active") => <>[]Follows

\* The line is right whenever no event is pending.
JackInv == JackTypeOK /\ InStep

=============================================================================
