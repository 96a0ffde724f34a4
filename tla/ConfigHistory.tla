---------------------------- MODULE ConfigHistory ----------------------------
(***************************************************************************)
(* ConfigBackup with the user's last word: a factory reset from the button *)
(* that set its flag, or a configuration.  The history only observes.      *)
(***************************************************************************)
EXTENDS ConfigBackup

VARIABLE button    \* a factory reset, flag included, was the user's last word

hvars == <<vars, button>>

HInit == Init /\ button = FALSE

Observe ==
    button' = \/ reset = "erased" /\ reset' = "flagged"
              \/ button /\ ~(save = NoSave /\ save' # NoSave)

HSpec == HInit /\ [][Next /\ Observe]_hvars

-----------------------------------------------------------------------------
(* After a factory reset from the button that was not cut short, nothing   *)
(* but the user brings a configuration back (reset_button.c: "la copia     *)
(* della configurazione sulla microSD non va ripristinata").               *)
ButtonResetHolds ==
    [][button /\ nvs = None /\ nvs' # None => NvsLocked]_hvars
=============================================================================
