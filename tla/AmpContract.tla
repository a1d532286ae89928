----------------------------- MODULE AmpContract -----------------------------
(* What the core driver promises the HDA and ASoC layers about one amp: it is *)
(* off, starting, on or stopping; it makes a sound only as the last act of a  *)
(* start that will report success, and none once a stop has returned; no call *)
(* lasts for ever.                                                            *)
VARIABLES power, sound

TypeOK == power \in {"Off", "Starting", "On", "Stopping"} /\ sound \in BOOLEAN

Init == power = "Off" /\ sound = FALSE

BeginStart == power = "Off" /\ power' = "Starting" /\ UNCHANGED sound
Unmute     == power = "Starting" /\ sound' = TRUE /\ UNCHANGED power
StartOk    == power = "Starting" /\ power' = "On" /\ UNCHANGED sound
StartFails == power = "Starting" /\ ~sound /\ power' = "Off" /\ UNCHANGED sound
BeginStop  == power = "On" /\ power' = "Stopping" /\ UNCHANGED sound
Silence    == power = "Stopping" /\ sound' = FALSE /\ UNCHANGED power
StopDone   == power = "Stopping" /\ power' = "Off" /\ sound' = FALSE

Next == BeginStart \/ Unmute \/ StartOk \/ StartFails \/ BeginStop \/ Silence \/ StopDone

vars == <<power, sound>>

\* A call that began ends; nobody has to start or stop the amp.
Fairness == WF_vars(StartOk \/ StartFails) /\ WF_vars(StopDone)
Spec == Init /\ [][Next]_vars /\ Fairness
=============================================================================
