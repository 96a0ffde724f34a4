CONSTANTS
    Ssids = {"a", "b", "c"} Serials = {"s1"} Pins = {"1", "2"}
    FormFields = {"ssid", "mode", "place", "sda", "link"} GivenFields = 1 KnownMax = 2 MaxChanges = 3
    PjMaxFailures = 1
    Grace = 2 Term = 4 Ahead = 4 LastDay = 4 MaxLicCuts = 1 MaxWrong = 1 LcRequests = 1
    Threshold = 1 FirstThreshold = 2 AlMaxFaults = 2 AlMaxSwitches = 1 AlMaxRestarts = 1
    MaxLost = 5 MaxHangs = 2
    Indexes = {1, 2, 3, 4, 5, 6, 7, 8} RekeyAge = 1 RejectAge = 2 Window = 2 MaxData = 2 MaxFlight = 1
    Addresses = {"x"} DownMinutes = 1 VpMaxFaults = 1
SPECIFICATION RemoteSpec
INVARIANTS NothingLost DeliveredOnce
PROPERTIES PanelFrees OutageIsTold TunnelComesBack ModemStaysOn
CHECK_DEADLOCK FALSE
