CONSTANTS
    Threads = {t1, t2}
    Monitor = m
    MaxRecoveryAttempts = 3
    MaxCheckpoints = 1
    LogCapacity = 2
    MaxFaults = 1
    ErrorTypes = {sensor, ble}
    Recoverable = {sensor}
    OutOfRange = {ble}
    MaxRetries = 3
    KnownEvents = {collision}
    UnknownEvent = other
    MaxEmergencyRetries = 2
    NoThread = none
    CheckpointValues = {0, 1}
SPECIFICATION Spec
SYMMETRY ThreadSymmetry
INVARIANTS
    TypeOK
    RecoveryAccounted
    OutputsCutBeforeNotice
    BudgetRespected
    EmergencyConsistent
PROPERTIES
    SafeStopLostOnlyToRecovery
    EscalationNeedsFailure
    ImplementsSafeStop
