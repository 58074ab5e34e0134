SPECIFICATION SystemSpec
CHECK_DEADLOCK FALSE
CONSTANTS
    long = long
    short = short
    bare = bare
    main = main
    other = other
    w = w
    g = g
    Absent = Absent
    Idle = Idle
    Files <- MCFiles
    Texts <- MCTexts
    Holds <- MCHolds
    Length <- MCLength
    Reach <- MCReach
    Databases = {main, other}
    WorkspaceOf <- MCWorkspaceOf
    Processes = {w, g}
    OneMigration = TRUE
    DefaultMaxFiles = 2
    ScanCap = 2
    watcher = w
    WatchLimit = 2
    gateway = g
    MaxCalls = 2
    PerMs = 2
    MaxClock = 6
    Scenarios <- MCScenarios
INVARIANT
    SystemTypeOK
    FingerprintedRowsAreDerived
    AnswersAreOfThisAnalysis
    EachRequestIsAnsweredOnce
    CallsEndWithTheirBatch
PROPERTY
    LifeSpec
    HealthyIndexesCoverTheirWorkspace
    BatchesWriteNothing
    WatchCatchesUp
    UpToDateIndexesAreOnlyInspected
    SinglePassEnds
    EveryLineIsServed
