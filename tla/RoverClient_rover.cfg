CONSTANTS
    Bases = {"a", "b", "c"}
    Places = {"near", "far"}
    Dist <- Kilometres
    Hysteresis = 5
    Sessions = 2
    BanTime = 5
    BanMax = 10
    Slots = 2
    Check = 4
    Rejections = 2
    Hold = 2
    Kinds = {"sends", "mute", "errs"}
    Tables <- Listings
    Skies = {"single", "rtk"}
    Settings <- Panel
    Changes = {"kind", "place", "sky", "table", "net", "route", "drop", "save"}
    MaxChanges = 1
SPECIFICATION FairSpec
INVARIANTS TypeOK
PROPERTIES Served BaseKept PanelObeyed
