SPECIFICATION Spec
CONSTANTS
    run = run
    help = help
    other = other
    Files <- MCFiles
    Names <- MCNames
    Holds <- MCHolds
    Writers = {w}
    Readers = {r}
    Recurring = FALSE
    Absent = Absent
    NoName = NoName
    NoFile = NoFile
    NoSymbol = NoSymbol
    Idle = Idle
INVARIANTS TypeOK AnswersAreComplete FreshIndexIsComplete RowsMatchFingerprints CountMatchesStates StoredEdgesArePaired
