CONSTANTS
    Builds   = {1, 2}
    Numbered = {2}
    Actors   = {"httpd", "sd", "online"}
    Links    = {FALSE, TRUE}
SPECIFICATION Spec
INVARIANTS TypeOK AlwaysBootable OneUpdater
CHECK_DEADLOCK TRUE
