CONSTANTS
    Configs       = {"a"}
    Bad           = {}
    Requests      = {"save", "import", "reset", "good"}
    CardFaults    = {"out", "pulled", "full", "foreign"}
    Resets        = {"power", "restart"}
    FactorySerial = FALSE
SPECIFICATION Spec
INVARIANT OnlyOwn
PROPERTY CopySurvivesACut
CHECK_DEADLOCK TRUE
