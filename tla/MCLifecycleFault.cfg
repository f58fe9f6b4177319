SPECIFICATION Spec
CONSTANTS
    MaxDevices = 2
    DeviceFlags <- Flags
    Addr <- Addresses
    Valid <- ValidAddresses
    NoAddress = "none"
    Windows = FALSE
    MaxRuns = 1
INVARIANTS FaultExitsOne
CHECK_DEADLOCK FALSE
