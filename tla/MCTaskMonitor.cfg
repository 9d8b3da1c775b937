CONSTANTS
    Callers = {c1, c2}
    Registrars = {c1}
    Monitor = m
    NoThread = none
    Configs <- TwoConfigs
    MaxTasks = 2
    MaxMissedDeadlines = 2
    FreeStack = {1, 3}
    MaxCalls = 2
SPECIFICATION Spec
INVARIANTS
    TypeOK
    EscalatesAtLimit
    ErrorsShownWhileHandled
