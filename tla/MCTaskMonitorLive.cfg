CONSTANTS
    Callers = {c1, c2}
    Registrars = {c1}
    Monitor = m
    NoThread = none
    Configs <- TwoConfigs
    MaxTasks = 2
    MaxMissedDeadlines = 1
    FreeStack = {1}
    MaxCalls = 1
SPECIFICATION FairSpec
PROPERTIES
    CallsReturn
    CriticalOverdueStops
    StopEndsSupervision
