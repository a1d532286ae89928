------------------------------ MODULE MCBringUp ------------------------------
(***************************************************************************)
(* How the amps come into being: the clients of the ACPI node and the      *)
(* place each amp takes in the codec's aggregate.  The two share no state  *)
(* but the number and addresses of the amps, so a behaviour follows one of *)
(* them while the other rests.                                             *)
(***************************************************************************)
EXTENDS ClientSetup, AmpPlacement, TLC

VARIABLE part
all == <<vars, placeVars, part>>

\* A node with up to three resources of either kind, or an error of counting.
Addresses == (0 :> 52) @@ (1 :> 53) @@ (2 :> 54)
Counts == -1..3

\* The two amps of the board, with numbers in range, out of range or none.
MCAddr == <<52, 53>>
NoCompanion(p) ==
    [companion |-> FALSE, dev_index |-> Missing, uid |-> Missing, speaker_pos |-> p]
MCFirmware ==
    {[companion |-> TRUE, dev_index |-> d, uid |-> u, speaker_pos |-> p] :
        d \in {Missing, 0, 1, 2}, u \in {0, 1, 2}, p \in {Missing, 0, 1}}
    \cup {NoCompanion(p) : p \in {Missing, 0, 1, 2}}

PlacementRests == fw = [k \in Amps |-> NoCompanion(Missing)] /\ swapped = FALSE /\ PlaceInit
ClientsRest == count = -1 /\ scount = -1 /\ probes = 0 /\ reset = FALSE /\ Init

BringUpInit == \/ part = "clients" /\ PlacementRests /\ Init
               \/ part = "placement" /\ ClientsRest /\ PlaceInit

InClients(A) == part = "clients" /\ A /\ UNCHANGED <<placeVars, part>>
InPlacement(A) == part = "placement" /\ A /\ UNCHANGED <<vars, part>>

BringUpNext == InClients(Next) \/ InPlacement(PlaceNext)

\* The fairness of ClientSetup.
BringUpSpec ==
    /\ BringUpInit /\ [][BringUpNext]_all
    /\ WF_all(InClients(SetupSteps)) /\ WF_all(InClients(SmiSteps /\ UNCHANGED set))
    /\ WF_all(InClients(Load)) /\ WF_all(InClients(SmiStart /\ UNCHANGED set))
=============================================================================
