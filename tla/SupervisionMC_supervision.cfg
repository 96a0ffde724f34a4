CONSTANTS
    Beaters = {"gnss", "ntrip"}
    HbLimit <- MCHbLimit
    Silent = 2
    CasterDown = 3
    NoNet = 4
    Roles = {"base", "rover"}
    Ublox = {TRUE, FALSE}
    Mishaps = {"power", "panic", "hang", "stuck", "mute", "net", "caster", "user", "late"}
    MaxMishaps = 2
SPECIFICATION SvFairSpec
INVARIANTS CutBootTold RestartsEarned
PROPERTY HangEnds
CHECK_DEADLOCK FALSE
