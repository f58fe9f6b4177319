SPECIFICATION FairSpec
CONSTANTS
    NumDevices = 1
    NewWorkCap = 1
    WorkDoneCap = 1
    MaxFailures = 1
    Throttled <- NoThrottle
    Events <- AgeEvents
    MaxTemplate = 3
    MaxEarlyTemplate = 1
    MaxPerLaunch = 3
    MaxSent = 3
PROPERTIES FreshWorkReaches BlocksAreSubmitted DeadlockLasts
CHECK_DEADLOCK FALSE
