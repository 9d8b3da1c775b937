CONSTANTS
    Testers = {t1, t2}
    SecurityLevels = {1}
    Routines = {self_test}
    UnknownRoutine = other
    MaxSecurityAttempts = 2
    LockoutTime = 2
    TimeRange = 16
    MaxTime = 5
    MaxRequests = 5
SPECIFICATION Spec
SYMMETRY TesterSymmetry
INVARIANTS
    TypeOK
    WrongKeysLimited
    RunningIsActive
PROPERTIES
    ForbiddenOnlyIfOvertaken
CHECK_DEADLOCK FALSE
