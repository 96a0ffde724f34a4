CONSTANTS
    Indexes = {1,2,3,4,5,6,7,8} RekeyAge = 1 RejectAge = 2 Window = 2 MaxData = 2 MaxFlight = 2
    Addresses = {"x"} DownMinutes = 1 VpMaxFaults = 1
SPECIFICATION VpSpec
INVARIANT NoDuplicate
CHECK_DEADLOCK FALSE
