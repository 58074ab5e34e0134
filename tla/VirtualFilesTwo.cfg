SPECIFICATION Spec
CONSTANTS
    Paths = {f, g}
    Sources = {a, b}
    Workspaces = {w1}
    Covers <- MCCovers
    Includers <- MCAllIncluders
    Requests <- AllRequests
    MaxEdits = 1
    MaxVersion = 1
    NotLoaded = NotLoaded
    NotIndexed = NotIndexed
    NoRollback = NoRollback
    Idle = Idle
SYMMETRY PathSymmetry
INVARIANTS SyncDebtTracked CleanReportsAreFresh
PROPERTIES UnsavedTextSurvives CallsAreAtomic
