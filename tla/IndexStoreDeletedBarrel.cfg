SPECIFICATION Spec
CONSTANTS
    run = run
    help = help
    other = other
    Files <- MCFiles
    Names <- MCNames
    Holds <- MCHoldsDeleted
    Writers = {w}
    Readers = {}
    Recurring = FALSE
    Absent = Absent
    NoName = NoName
    NoFile = NoFile
    NoSymbol = NoSymbol
    Idle = Idle
INVARIANT FreshIndexIsComplete
