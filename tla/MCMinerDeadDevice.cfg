SPECIFICATION Spec
CONSTANTS
    NumDevices = 2
    NewWorkCap = 5
    WorkDoneCap = 10
    MaxFailures = 3
    Throttled <- NoThrottle
    Events <- DeadDeviceEvents
    MaxTemplate = 6
    MaxEarlyTemplate = 1
    MaxPerLaunch = 0
    MaxSent = 0
INVARIANTS PollsFailOnlyWhenNodeDown
CHECK_DEADLOCK FALSE
