CONSTANTS
    r1 = r1
    r2 = r2
    r3 = r3
    r4 = r4
    f1 = f1
    f2 = f2
    FileId <- MCFileId
    NoFile = NoFile
    Title = {"t1", "t2"}
    Blank = "blank"
    Date = {"d1"}
    NoDate = "noDate"
    ValidDate = {"d1"}
    Role = {"page", "audio", "sleeve"}
    SlotId = {"page", "audio"}
    NoSlot = "noSlot"
    SlotOf <- MCSlotOf
    SlotMin <- MCSlotMin
    SlotMax <- MCRoomySlotMax
    MaxSizeBytes <- MCMaxSizeBytes
    Accepts <- MCAccepts
    Prefer <- MCPrefer
    Request <- MCFewRequests
    Mutation <- MCFewMutations
    Creation <- MCCreation
    MaxConflictRetries = 2
    MaxLag = 1
    MaxSends = 2
    NoRow = NoRow
    NoAsk = NoAsk
SPECIFICATION FairSpec
CHECK_DEADLOCK FALSE
PROPERTIES BehavesAtomically EveryRequestIsAnswered EveryCallCounts RepeatedWritesChangeNothing
