CONSTANTS
    Wifis = {home, spare}
    NoNet = NoNet
    Modes = {"wifi", "cellular", "both", "cellular_first", "ethernet_only"}
    Changes = {"air", "sim", "cable", "server", "modem", "jam", "serial", "lost", "panel"}
    MaxChanges = 2
    Wait <- MCWait
    ProbeFails = 2
    DialFails = 3
    DeadCalls = 2
    BadPings = 2
SPECIFICATION Spec
INVARIANT TypeOK
PROPERTIES LinksHeal SimKept
