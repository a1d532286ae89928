----------------------------- MODULE MCAmpAsoc ------------------------------
(* Model values for the amp driven by the ASoC component: a profile with the *)
(* DSP at work and one that bypasses it, both with a PLL in bypass mode, so  *)
(* that the fallback to the divided clock is taken.                          *)
EXTENDS Aw88399Amp

CONSTANTS music, bypass

MCRegData ==
    [p \in {music, bypass} |->
        [f \in Fields |-> IF f \in {"memclk", "cco"} \/ (f = "dspby" /\ p = bypass)
                          THEN 1 ELSE 0]]
MCResetRegs ==
    [f \in Fields |-> IF f \in {"pwdn", "amppd", "hmute", "dspby", "cco"} THEN 1 ELSE 0]
=============================================================================
