CONSTANTS
    Threads = {t1, t2}
    Monitor = m
    MaxRecoveryAttempts = 3
    MaxCheckpoints = 1
    LogCapacity = 1
    MaxFaults = 1
    ErrorTypes = {sensor}
    Recoverable = {sensor}
    OutOfRange = {}
    MaxRetries = 1
    KnownEvents = {collision}
    UnknownEvent = other
    MaxEmergencyRetries = 1
    NoThread = none
    CheckpointValues = {1}
SPECIFICATION FairSpec
PROPERTIES
    NonzeroCheckpointStopsMonitor
    EmergencyConcludes
    HaltingIsLive
