SPECIFICATION Spec
CONSTANTS
    Name <- MCName
    Garbled = Garbled
    NoBound = NoBound
    Release <- MCReleaseDated
    First <- MCFirst
    Client = {c}
    NoCatalogue = NoCatalogue
    Upload = {u1}
    Wish <- MCWish
    TypeId = "photo"
    MaxSends = 1
    Gone = Gone
    NoFile = NoFile
    NoGrant = NoGrant
INVARIANT
    CatalogueIsCurrent
CHECK_DEADLOCK FALSE
