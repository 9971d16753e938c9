SPECIFICATION Spec
CONSTANTS
    Item = {1, 2, 3}
    Instant = {1, 2, 3}
    MaxPageLimit = 2
    Undated = Undated
    Gone = Gone
    NoCursor = NoCursor
INVARIANTS
    TypeOK
    SteadyItemsAreShown
    PagesFollowOneAnother
CHECK_DEADLOCK FALSE
