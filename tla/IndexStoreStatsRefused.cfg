SPECIFICATION Spec
CONSTANTS
    run = run
    help = help
    other = other
    Files <- MCOnly
    Names <- MCNames
    Holds <- MCHoldsOnly
    Writers = {w}
    Readers = {}
    Recurring = FALSE
    Absent = Absent
    NoName = NoName
    NoFile = NoFile
    NoSymbol = NoSymbol
    Idle = Idle
INVARIANT StatisticsAddUp
