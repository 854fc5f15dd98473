SPECIFICATION Spec
CONSTANTS
    Configs <- MCConfigs
    MaxOpen = 2
    MaxErrors = 2
    MaxAttempts = 2
INVARIANTS TypeOK HaltStopsEntries
PROPERTIES SquaredOffStaysFlat StopIsHonoured StallIsNoticed NeverFailsForever
CHECK_DEADLOCK FALSE
