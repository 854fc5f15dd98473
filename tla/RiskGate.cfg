SPECIFICATION Spec
CONSTANTS
    Equities <- MCEquities
    Level2Pct = 4
    Level3Pct = 7
    Level4Pct = 10
    MaxDailyLossPct = 3
    MaxConsecutiveLosses = 2
    MaxTradesPerDay = 2
    CooldownMinutes = 1
    CounterBound = 3
    MaxOpenPositions = 2
    MaxDropped = 1
INVARIANTS TypeOK EntriesBounded
PROPERTIES  EntryRespectsLadder GateEasesAfterRecovery
