SPECIFICATION Spec
CONSTANTS
    TicksPerHour = 2
    HoursPerDay = 2
    SeriesKeep = 1
    HeatmapWeeks = 1
    PageLimit = 1
    Calls <- MCCalls
    CallOf <- MCCallOf
    LineSize <- MCLineSize
    QueueMax = 1
    BatchMax = 2
    MaxFile = 4
    Quota = 5
    Policy <- MCPolicy
    Filters <- MCFilters
    FirstTick = 15
    LastTick = 17
    MaxEvents = 2
CHECK_DEADLOCK FALSE
INVARIANTS NothingVanishes  ViewsTellHistory
PROPERTIES QuotaKeepsNewest AcceptedIsSettled
