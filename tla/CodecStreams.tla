----------------------------- MODULE CodecStreams -----------------------------
(***************************************************************************)
(* The playback hooks that switch speaker amplifiers with the PCM stream   *)
(* (realtek/alc269.c): Samsung's two or four smart amps behind the codec's *)
(* coefficients, the ALC1318 of ThinkPads on GPIO3, HP Envy's GPIO2.  What *)
(* the amplifiers see is a sequence of single register writes.             *)
(***************************************************************************)
EXTENDS Naturals, Sequences

CONSTANT StreamMachines

\* Speaker amplifiers of each machine.
alc298_samsung_v2_amp_desc_tbl == [samsung_v2_2 |-> 2, samsung_v2_4 |-> 4]
SpeakerAmps == [alc1318 |-> 1, envy |-> 1, samsung_v2_2 |-> 2, samsung_v2_4 |-> 4]
ASSUME StreamAssumption == StreamMachines \subseteq DOMAIN SpeakerAmps

VARIABLES
    stream_machine,
    num_speaker_amps,
    writes,    \* register writes of the call under way
    reg,       \* registers of each amplifier: set or clear
    harmed,    \* an amplifier was initialised while it was enabled
    probed, stream,
    dozed      \* hibernated with the stream open

streamVars == <<stream_machine, num_speaker_amps, writes, reg, harmed, probed, stream, dozed>>

Samsung == stream_machine \in DOMAIN alc298_samsung_v2_amp_desc_tbl
Regs == {"0x203a", "0x23ff", "init", "gpio"}
AmpsOf(m) == 1..SpeakerAmps[m]
WriteTo(amp, r, on) == [amp |-> amp, reg |-> r, on |-> on]

StreamTypeOK ==
    /\ stream_machine \in StreamMachines /\ num_speaker_amps \in {0, SpeakerAmps[stream_machine]}
    /\ writes \in Seq([amp : AmpsOf(stream_machine), reg : Regs, on : BOOLEAN])
    /\ reg \in [AmpsOf(stream_machine) -> [Regs -> BOOLEAN]]
    /\ harmed \in BOOLEAN /\ probed \in BOOLEAN /\ dozed \in BOOLEAN
    /\ stream \in {"closed", "open", "prepared"}

\* Nobody knows in what state another system left Samsung's amplifiers.
StreamInit ==
    /\ stream_machine \in StreamMachines /\ num_speaker_amps = 0 /\ writes = <<>>
    /\ \E on \in SUBSET AmpsOf(stream_machine) :
         reg = [a \in AmpsOf(stream_machine) |->
                  [r \in Regs |-> Samsung /\ a \in on /\ r \in {"0x203a", "0x23ff"}]]
    /\ harmed = FALSE /\ probed = FALSE /\ stream = "closed" /\ dozed = FALSE

-----------------------------------------------------------------------------
(* The write sequences of the hooks and fixups.                            *)

\* For each amplifier a first and a second register.
EachAmp(n, first, second, on) ==
    [k \in 1..(2 * n) |-> WriteTo((k + 1) \div 2, IF k % 2 = 1 THEN first ELSE second, on)]
alc298_samsung_v2_enable_amps(n) == EachAmp(n, "0x203a", "0x23ff", TRUE)
\* Mutant: the order of enable_seq.
alc298_samsung_v2_disable_amps_swapped(n) == EachAmp(n, "0x203a", "0x23ff", FALSE)
alc298_samsung_v2_disable_amps(n) == EachAmp(n, "0x23ff", "0x203a", FALSE)
alc298_samsung_v2_init_seq(n) == [k \in 1..n |-> WriteTo(k, "init", TRUE)]

set_gpio(on) == <<WriteTo(1, "gpio", on)>>

alc298_samsung_v2_playback_hook(action) ==
    CASE action = "OPEN" -> alc298_samsung_v2_enable_amps(num_speaker_amps)
      [] action = "CLOSE" -> alc298_samsung_v2_disable_amps(num_speaker_amps)
      [] OTHER -> <<>>
alc287_alc1318_playback_pcm_hook(action) ==
    CASE action = "OPEN" -> set_gpio(TRUE)
      [] action = "CLOSE" -> set_gpio(FALSE)
      [] OTHER -> <<>>
alc274_hp_envy_pcm_hook(action) ==
    CASE action = "PREPARE" -> set_gpio(TRUE)
      [] action = "CLEANUP" -> set_gpio(FALSE)
      [] OTHER -> <<>>

pcm_playback_hook(action) ==
    CASE Samsung -> alc298_samsung_v2_playback_hook(action)
      [] stream_machine = "alc1318" -> alc287_alc1318_playback_pcm_hook(action)
      [] stream_machine = "envy" -> alc274_hp_envy_pcm_hook(action)

-----------------------------------------------------------------------------
(* Actions.                                                                *)

alc298_samsung_v2_init_amps(n) ==
    /\ num_speaker_amps' = n
    /\ writes' = alc298_samsung_v2_disable_amps(num_speaker_amps')
                \o alc298_samsung_v2_init_seq(num_speaker_amps')

Probe ==
    /\ ~probed /\ probed' = TRUE
    /\ IF Samsung THEN alc298_samsung_v2_init_amps(SpeakerAmps[stream_machine])
                  ELSE UNCHANGED <<num_speaker_amps, writes>>
    /\ UNCHANGED <<stream_machine, reg, harmed, stream, dozed>>

On(a) == reg[a]["0x23ff"]

StreamWrite ==
    /\ writes # <<>> /\ writes' = Tail(writes)
    /\ LET w == Head(writes) IN
       /\ reg' = [reg EXCEPT ![w.amp][w.reg] = w.on]
       /\ harmed' = (harmed \/ (w.reg = "init" /\ On(w.amp)))
    /\ UNCHANGED <<stream_machine, num_speaker_amps, probed, stream, dozed>>

\* The PCM calls the hook: one call at a time, under the generic parser's mutex.
Pcm(from, action, to) ==
    /\ probed /\ writes = <<>> /\ stream = from /\ stream' = to
    /\ writes' = pcm_playback_hook(action)
    /\ dozed' = IF action = "OPEN" THEN FALSE ELSE dozed
    /\ UNCHANGED <<stream_machine, num_speaker_amps, reg, harmed, probed>>
Stream == \/ Pcm("closed", "OPEN", "open") \/ Pcm("open", "PREPARE", "prepared")
          \/ Pcm("prepared", "PREPARE", "prepared")
          \/ Pcm("prepared", "CLEANUP", "open") \/ Pcm("open", "CLOSE", "closed")

\* power_hook in a suspend: only before hibernation.
alc287_s4_power_gpio3_default(s4) ==
    /\ stream_machine = "alc1318" /\ probed /\ writes = <<>>
    /\ reg' = IF s4 THEN [reg EXCEPT ![1].gpio = FALSE] ELSE reg
    /\ dozed' = (dozed \/ (s4 /\ stream # "closed"))
    /\ UNCHANGED <<stream_machine, num_speaker_amps, writes, harmed, probed, stream>>

StreamNext == \/ Probe \/ StreamWrite \/ Stream
              \/ \E s4 \in BOOLEAN : alc287_s4_power_gpio3_default(s4)
StreamSpec == StreamInit /\ [][StreamNext]_streamVars

-----------------------------------------------------------------------------
(* Properties.                                                             *)

\* "Disable speaker amps before init to prevent any physical damage": no
\* amplifier is initialised while enabled, whatever another system left on.
InitWhileOff == ~harmed

\* An amplifier's output is enabled only while its supply register is set, at
\* every single write of enable, disable and init.
SupplyFirst ==
    \A a \in AmpsOf(stream_machine) : Samsung /\ On(a) => reg[a]["0x203a"]

Loud == IF stream_machine = "envy" THEN stream = "prepared" ELSE stream # "closed"

\* The amplifiers are on exactly while the stream needs them; hibernation with
\* an open ALC1318 stream is left out, nothing turns GPIO3 on again after it.
OnlyWhenNeeded ==
    probed /\ writes = <<>> /\ ~dozed =>
        \A a \in AmpsOf(stream_machine) :
            (IF Samsung THEN On(a) ELSE reg[a].gpio) = Loud

\* The amplifiers are initialised, supplied and enabled in the order their
\* makers ask for, and on only with a stream.
SpeakersSafe == StreamTypeOK /\ InitWhileOff /\ SupplyFirst /\ OnlyWhenNeeded

=============================================================================
