SPECIFICATION Spec
CONSTANTS
    p1 = p1
    p2 = p2
    Pulls <- MCPulls
    Tests = {"t1", "t2"}
    PullLanes = {"pull"}
    PeriodicLanes = {"periodic"}
    Outcomes <- MCOutcomes
    Kinds = {"rolling", "daily", "weekly"}
    WeekDays = 2
    SkipBeforeStart = FALSE
    MaxLinks = 1
    MaxTime = 5
    MaxFlakeBuilds = 2
    MaxReports = 1
    MaxDisturbances = 1
    RequiredLanes = {"pull"}
    DaysInThePast = 1
    MaxTestsToQuarantine = 1
    ClusterSize = 2
    TestJobs = {"compute-1", "compute-2"}
    TestCases = {"t1", "t2"}
    RecordIds = {"t", "t2"}
    Matching <- MCMatching
    DontRun <- MCDontRun
    JobsForTestNames = {"compute-1", "compute-2"}
    Group <- MCGroup
    Version <- MCVersion
    Sig <- MCSig
    MinimumPassedRuns = 2
    MaxRuns = 2
SYMMETRY Symmetric
INVARIANTS
    TypeOK
    
PROPERTIES
    QuarantineIsJustified
    NoUnstableReleased
CHECK_DEADLOCK FALSE
