SPECIFICATION FairSpec
CONSTANTS
    MaxDevices = 2
    DeviceFlags <- Flags
    Addr <- Addresses
    Valid <- ValidAddresses
    NoAddress = "none"
    Windows = FALSE
    MaxRuns = 2
INVARIANTS TypeOK ExitCodeTellsInterrupt SavedDevicesWereBuilt NodeStoppedOnReturn NodePaysSavedAddress
PROPERTIES SavedAnswersStay InterruptExits DeadlineEnds
CHECK_DEADLOCK FALSE
