SPECIFICATION Spec
CONSTANTS
    Name <- MCName
    Garbled = Garbled
    NoBound = NoBound
    Release <- MCRelease
    First <- MCFirst
    Client = {c}
    NoCatalogue = NoCatalogue
    Upload = {u1, u2}
    Wish <- MCWish
    TypeId = "photo"
    MaxSends = 2
    Gone = Gone
    NoFile = NoFile
    NoGrant = NoGrant
SYMMETRY MCSymmetry
INVARIANTS
    TypeOK
    StoredFilesFitTheNewest
    EveryFileIsDrawnOnce
    NoBrokenImages
    NewSlotsReachClients
PROPERTIES
    AllowedUploadsAreAttached
CHECK_DEADLOCK FALSE
