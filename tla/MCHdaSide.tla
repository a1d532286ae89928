----------------------------- MODULE MCHdaSide ------------------------------
(* The two amplifiers of the supported laptops. *)
EXTENDS HdaSideCodec

CONSTANTS left, right
=============================================================================
