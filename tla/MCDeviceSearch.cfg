SPECIFICATION MCSpec
CONSTANTS
    Word = 4096
    Granule = 16
    CalStart = 32
    CalCap = 1024
    MinIntensity = 4
    MaxIntensity = 11
    Dev <- TwoDevices
    Byte = 2
    Low = 2
    Slots = 2
    Settings <- SearchSettings
    Costs = {1}
    Overheads = {3}
    Offsets = {1}
    ExtraNonces = {0}
    LowNonces = {1}
    Times = {0}
    Garbage = {0}
    AboveLimit = {2}
    MaxNonce = 2
    MaxSolved = 3
    MaxWork = 2
    MaxLaunches = 2
    CalCosts <- SampleCosts
    CalOverheads <- SampleOverheads
    CalTargets <- SampleTargets
    LaunchTimes <- SampleElapsed
    HeaderData <- SampleHeaders
INVARIANTS TypeOK NoMismatch CandidatesDistinct SomeSolutionKept SpacesDisjoint RangeBeforeRepeat WorkSizeUsable CalibrationHitsTarget DutyCycleHeld HostHashIsBlake3 KernelAgreesWithHost
PROPERTY KeepsLaunchContract
CHECK_DEADLOCK FALSE
