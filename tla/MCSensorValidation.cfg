CONSTANTS
    Values = {10, 11, 13, 20}
    MinValue = 10
    MaxValue = 13
    MaxRate = 1
    Timeout = 3
    TimestampRange = 6
    TripleValues <- Triples
    Tolerance = 4
    SensorTimeout = 1
    MaxTime = 8
    MaxReadings = 4
    MaxResets = 1
SPECIFICATION Spec
INVARIANTS
    TypeOK
    StatisticsOfReadings
    VoteNearMedian
    TimeoutLastsUntilReset
CHECK_DEADLOCK FALSE
