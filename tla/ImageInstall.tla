----------------------------- MODULE ImageInstall -----------------------------
(***************************************************************************)
(* What a firmware update promises: sectors that hold the image keep it,   *)
(* and "installed" is recorded only when all of them do.  An update that   *)
(* gave up promises nothing more.                                          *)
(***************************************************************************)
CONSTANT Sectors

VARIABLES have, recorded, gaveUp

vars == <<have, recorded, gaveUp>>

Init ==
    /\ have \in SUBSET Sectors
    /\ recorded \in BOOLEAN
    /\ recorded => have = Sectors
    /\ gaveUp = FALSE

Install ==
    /\ \E s \in Sectors : have' = have \cup {s}
    /\ UNCHANGED <<recorded, gaveUp>>

Record ==
    /\ have = Sectors
    /\ recorded' = TRUE
    /\ UNCHANGED <<have, gaveUp>>

Forget ==
    /\ recorded' = FALSE
    /\ UNCHANGED <<have, gaveUp>>

GiveUp ==
    /\ gaveUp' = TRUE
    /\ have' \in SUBSET Sectors
    /\ recorded' \in BOOLEAN

Next == Install \/ Record \/ Forget \/ GiveUp

Spec == Init /\ [][Next]_vars
=============================================================================
