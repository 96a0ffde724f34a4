CONSTANTS
    Configs       = {"a"}
    Bad           = {}
    Requests      = {"save", "reset"}
    CardFaults    = {}
    Resets        = {"power", "restart"}
    FactorySerial = FALSE
SPECIFICATION HSpec
PROPERTIES ButtonResetHolds
CHECK_DEADLOCK TRUE
