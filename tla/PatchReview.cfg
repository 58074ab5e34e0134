SPECIFICATION FairReviewSpec
CONSTANTS
    own = own
    header = header
    other = other
    root = root
    renamed = renamed
    added = added
    a = a
    b = b
    c = c
    param = param
    Own = own
    Files = {own, header, other}
    PathOrder <- MCPathOrder
    Symbols <- MCSymbols
    Locals = {param}
    Texts <- MCTexts
    Patches <- MCPatches
    Bounds <- MCBounds
    Sorted <- MCSorted
    MaxWrites = 1
INVARIANTS
    ReviewTypeOK
    NeighborhoodIsAccepted
    NodesAreTheNearest
    EdgesAreOfTheNodes
    TraceConfirmsTheGate
    TraceAndNeighborhoodAgree
    QuotesAreOfOneText
PROPERTY
    CallsEnd
CHECK_DEADLOCK FALSE
