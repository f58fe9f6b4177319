SPECIFICATION Spec
CONSTANTS
    NumDevices = 1
    NewWorkCap = 5
    WorkDoneCap = 10
    MaxFailures = 3
    Throttled <- NoThrottle
    Events <- AgeEvents
    MaxTemplate = 3
    MaxEarlyTemplate = 1
    MaxPerLaunch = 0
    MaxSent = 0
INVARIANTS CurrentWorkIsNewest
CHECK_DEADLOCK FALSE
