CONSTANTS
    Configs       = {"a", "b"}
    Bad           = {"b"}
    Requests      = {"save"}
    CardFaults    = {"out"}
    Resets        = {"fault"}
    FactorySerial = FALSE
SPECIFICATION FairSpec
INVARIANTS TypeOK
PROPERTIES ChainBroken CopyFollows
CHECK_DEADLOCK TRUE
