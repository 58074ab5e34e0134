SPECIFICATION Spec
CONSTANTS
    Paths = {f}
    Sources = {a, b, c}
    Workspaces = {w1, w2}
    Covers <- MCCovers
    Includers <- MCNoIncluders
    Requests <- AllRequests
    MaxEdits = 2
    MaxVersion = 2
    NotLoaded = NotLoaded
    NotIndexed = NotIndexed
    NoRollback = NoRollback
    Idle = Idle
SYMMETRY Symmetry
INVARIANTS TypeOK DirtyIffUnsaved SyncDebtTracked CommitSettlesDebt CleanReportsAreFresh FailedCallsLeaveNoEdits
PROPERTIES UnsavedTextSurvives VersionNamesSource CallsAreAtomic
