CONSTANTS
    GoalCandidates <- TwoGoals
    GoalRegistrars = {g1, g2}
    MaxSafetyGoals = 1
    GoalTimeRange = 6
    MaxGoalTime = 7
    ShortNames = {short}
    LongNames = {long}
    MaxTasks = 2
    HistorySize = 2
    MovingAvgWindow = 2
    HistoryPeriod = 2
    StatsMax = 3
    MaxUptime = 5
    MaxStatsCalls = 6
    SignalIds = {0, 1}
    Receivers = {r}
    CallbackRegistrars = {t1, t2}
    NoSignal = none
    MaxSignals = 2
    MaxCallbacks = 1
    MaxEventQueue = 4
    MaxSent = 3
    MaxPublished = 5
    MessageLengths = {3, 8, 300}
    BufferLengths = {2, 8}
    MaxMessages = 2
    MaxFrames = 2
    Reporters = {p1, p2}
    SegmentIds = {0, 1, 2}
    ZeroLight = "RED"
    MaxRoadSegments = 1
    Distances = {50, 400}
    NoObstacle = none
    MaxOnBus = 1
    MaxUnacked = 1
    Chars = {c}
    Nul = nul
    MaxLen = 3
SPECIFICATION Spec
INVARIANTS
    TypeOK
    LateGoalsStayLate
    
    NotificationsAccounted
    ShortMessagesWhole
    WarningsFollowReports
PROPERTIES
    LossIsFinal
    
\* Several services really stop: a thread is stopped, a bound is reached.
CHECK_DEADLOCK FALSE
