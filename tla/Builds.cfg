SPECIFICATION MCSpec
CONSTANTS
    Callers = {c1, c2, c3}
    Errors = {gatewayTimeout, notFound}
    OpeningErrors = {gatewayTimeout}
    Nil = Nil
    RetryAfter = 2
    MaxTime = 5
    LastBuild = 3
    PageSize = 2
    Attempts = 2
    RetryDelay = 1
    MaxJitter = 1
    MaxFetchTime = 14
INVARIANTS
    FetchesPeriod
PROPERTIES
    AllReportBeforeClose
    FetchEnds
    
    RefinesGate
CHECK_DEADLOCK FALSE
