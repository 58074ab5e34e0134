SPECIFICATION Spec
CONSTANTS
    run = run
    help = help
    other = other
    Files <- MCPair
    Names <- MCNames
    Holds <- MCHoldsByName
    Writers = {w, v}
    Readers = {}
    Recurring = FALSE
    Absent = Absent
    NoName = NoName
    NoFile = NoFile
    NoSymbol = NoSymbol
    Idle = Idle
INVARIANT FreshIndexIsComplete
