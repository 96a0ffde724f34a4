---------------------------- MODULE FirmwareTrial ----------------------------
(***************************************************************************)
(* What the firmware update promises (main/ota_update.h), without slots,   *)
(* locks or tasks: an installed image starts at the next restart, on       *)
(* trial; it is then confirmed, or the next restart goes back to the image *)
(* that installed it.  Nothing else changes the firmware that runs.        *)
(***************************************************************************)
CONSTANTS Builds, NoBuild

VARIABLES
    current,   \* the image that runs
    next,      \* the image the next restart starts (NoBuild: the same one)
    onTrial,   \* the image that runs is not confirmed yet
    fallback   \* the image a restart during the trial goes back to

vars == <<current, next, onTrial, fallback>>

Init ==
    /\ current \in Builds
    /\ next = NoBuild
    /\ onTrial = FALSE
    /\ fallback = NoBuild

Install(b) ==
    /\ ~onTrial /\ next = NoBuild
    /\ next' = b
    /\ UNCHANGED <<current, onTrial, fallback>>

Restart ==
    /\ ~onTrial /\ next # NoBuild
    /\ current' = next
    /\ fallback' = current
    /\ onTrial' = TRUE
    /\ next' = NoBuild

Confirm ==
    /\ onTrial
    /\ onTrial' = FALSE
    /\ fallback' = NoBuild
    /\ UNCHANGED <<current, next>>

Annul ==
    /\ onTrial
    /\ current' = fallback
    /\ onTrial' = FALSE
    /\ fallback' = NoBuild
    /\ UNCHANGED next

Next == (\E b \in Builds : Install(b)) \/ Restart \/ Confirm \/ Annul

Spec == Init /\ [][Next]_vars

=============================================================================
