SPECIFICATION Spec
CONSTANTS
    Item = {a, b}
    Body <- MCBody
    Window <- MCWindow
    TicksPerDay = 4
    MaxDays = 106751
    LaterRule <- MCLaterRule
    NoDate = NoDate
INVARIANTS
    TypeOK
    SortFollowsTheBounds
    CircaIsLooserThanExact
    BandsHoldTheirUnits
    OverlapsIsIntersection
PROPERTIES
    MeaningIsKept
CHECK_DEADLOCK FALSE
