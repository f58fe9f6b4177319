SPECIFICATION FairSpec
CONSTANTS
    NumDevices = 2
    NewWorkCap = 1
    WorkDoneCap = 1
    MaxFailures = 1
    Throttled <- NoThrottle
    Events <- FeedEvents
    MaxTemplate = 3
    MaxEarlyTemplate = 2
    MaxPerLaunch = 0
    MaxSent = 0
INVARIANTS DevicesAgree
PROPERTIES FreshWorkReaches StartupEnds
CHECK_DEADLOCK FALSE
