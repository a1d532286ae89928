------------------------------ MODULE MCAmpHda ------------------------------
(* Model values for the amp driven by the HDA side codec: one profile with   *)
(* the register values of firmware/aw88399_acf.bin.                          *)
EXTENDS Aw88399Amp

CONSTANT music

Shipped == [f \in Fields |-> IF f = "memclk" THEN 1 ELSE 0]
MCRegData == [p \in {music} |-> [Shipped EXCEPT !["txen"] = 1]]
MCResetRegs == [f \in Fields |-> IF f \in {"pwdn", "amppd", "hmute", "dspby"} THEN 1 ELSE 0]
=============================================================================
