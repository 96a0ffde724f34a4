CONSTANTS
    Builds   = {1, 2}
    Numbered = {1, 2}
    Actors   = {"sd", "online"}
    Links    = {FALSE, TRUE}
SPECIFICATION HFairSpec
INVARIANT RollbackRemembered
PROPERTIES ImplementsTrial TrialEnds AutoSkipsAnnulled ConfirmedOnline
CHECK_DEADLOCK TRUE
