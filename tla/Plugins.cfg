SPECIFICATION MCSpec
CONSTANTS
    Bot = Bot
    main = main
    gone = gone
    alice = alice
    mallory = mallory
    Branches = {main, gone}
    ExistingBranches = {main}
    People = {alice, mallory}
    Approvers = {alice}
    BlockerComments <- MCBlockerComments
    MaxActions = 3
    Presubmits <- MCPresubmits
    ConfigFiles = {"a.yaml", "b.yaml"}
    GoFiles = {"x.go"}
    Contents <- MCContents
    Comments <- MCComments
    Users = {"top", "member", "other"}
    Members = {"top", "member"}
    TopLevel = {"top"}
    LeafApprovers <- MCLeafApprovers
    Settings <- MCSettings
    MaxEvents = 3
    MaxLabelChanges = 2
    MaxFailures = 1
INVARIANTS
    TypesOK
    RehearsalsAreEntitled
    
    ConsentEndsWithClose
    
    
PROPERTIES
    ComesToRest
    ReviewedIsTested
CHECK_DEADLOCK FALSE
