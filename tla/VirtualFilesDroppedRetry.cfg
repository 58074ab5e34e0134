SPECIFICATION Spec
CONSTANTS
    Paths = {f}
    Sources = {a, b, c}
    Workspaces = {w1}
    Covers <- MCCovers
    Includers <- MCNoIncluders
    Requests <- AllRequests
    MaxEdits = 1
    MaxVersion = 3
    NotLoaded = NotLoaded
    NotIndexed = NotIndexed
    NoRollback = NoRollback
    Idle = Idle
PROPERTY SyncRetryNotDropped
