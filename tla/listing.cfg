SPECIFICATION Spec
CONSTANTS
    Rows = {x1, x2, x3}
    Values = {0, 1, 2, 3}
    DayLength = 2
    PaginationLength = 2
    Queries <- AllQueries
    Zones <- AheadAndBehind
    MaxPages = 2
    Odd = Odd
    Known = Known
    Blank = Blank
    Junk = Junk
    Repeated = Repeated
    None = None
SYMMETRY Interchangeable
INVARIANTS
    NothingMissed
    NothingRepeated
    MetaNamesLastPage
    RangesAreWholeDays
CHECK_DEADLOCK FALSE
