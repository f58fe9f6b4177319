SPECIFICATION FairSpec
CONSTANTS
    NumDevices = 1
    NewWorkCap = 5
    WorkDoneCap = 10
    MaxFailures = 3
    Throttled <- NoThrottle
    Events <- NodeExitEvents
    MaxTemplate = 1
    MaxEarlyTemplate = 1
    MaxPerLaunch = 0
    MaxSent = 0
PROPERTIES NodeExitEnds
CHECK_DEADLOCK FALSE
