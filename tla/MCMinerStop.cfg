SPECIFICATION FairSpec
CONSTANTS
    NumDevices = 1
    NewWorkCap = 1
    WorkDoneCap = 1
    MaxFailures = 2
    Throttled <- FirstThrottled
    Events <- BlockEvents
    MaxTemplate = 1
    MaxEarlyTemplate = 1
    MaxPerLaunch = 2
    MaxSent = 2
INVARIANTS TypeOK EveryBlockAccounted CleanReturnMeansInterrupted
PROPERTIES KeepsContract StopEndsRun NodeExitEndsRun
CHECK_DEADLOCK FALSE
