------------------------------- MODULE MCAsoc -------------------------------
(* Two profiles, two or three volumes (0 is the loudest). *)
EXTENDS AsocCodec

CONSTANTS music, speech
=============================================================================
