SPECIFICATION FairSpec
CONSTANTS
    NumDevices = 1
    NewWorkCap = 5
    WorkDoneCap = 10
    MaxFailures = 3
    Throttled <- NoThrottle
    Events <- InterruptEvents
    MaxTemplate = 1
    MaxEarlyTemplate = 1
    MaxPerLaunch = 12
    MaxSent = 12
PROPERTIES InterruptEndsRun
CHECK_DEADLOCK FALSE
