CONSTANTS
    FixedTarget = 2 FixedMin = 1 FloatMin = 2 Timeout = 3 NoCaster = 2 Warmup = 1 SaveEvery = 2
    NoData = 2 MinGood = 2 Hours = 4 MaxRequests = 2 MaxCuts = 1
    Parts = {1, 2} QueueMax = 2 EphMaxAge = 3 Window = 2 MinSamples = 2 AlarmWindows = 2
    MaxIssues = 2 MaxMoves = 2 MaxSkies = 1
    Period = 2 Tries = 1 PendingMax = 8 RelaxAfter = 2 MaxAge = 5 Faults = {"lost", "mute"}
    MaxBad = 1 MaxBoots = 1
    CcFrames = 2 CcRoom = 3 CcRetryMax = 1 CcMaxSaves = 1 CcMaxMoves = 1 CcMaxFaults = 1
    CsFrames = 3 CsRoom = 3 Slots = {1, 2} CsMaxFaults = 2 CsMaxCalls = 4
    Months = 3 Every = 2 PlanAhead = 4 Notice1 = 1 Notice2 = 0 MaxTraffic = 1 MaxSimCuts = 1 MaxPlans = 1
    Sims = {"A", "B"} FirstSim = "A" StRequests = 1 MaxStEvents = 2
SPECIFICATION StationSpec
INVARIANTS AlarmEarned WholeFrames SimAccounted
PROPERTIES MeasureKept MovedIsTold CorrectionsFlow BaseServes
CHECK_DEADLOCK FALSE
