SPECIFICATION Spec
CONSTANTS
    None = None
    b1 = b1
    b2 = b2
    Blockers <- MCBlockers
    MaxSeries = 1
    MaxRC = 1
    Settings <- CommitDatedSettings
    PromoteAfter = 1
    Cadence = 2
    MaxTime = 4
    LastEvent = 3
INVARIANTS
    TypeOK
    CandidatesAdvance
    BranchHasJobs
PROPERTIES
    BlockersHold
    PromotionsHaveFixes
    BranchReallyMissing
CHECK_DEADLOCK FALSE
