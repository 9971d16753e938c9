CONSTANTS
    r1 = r1
    r2 = r2
    r3 = r3
    r4 = r4
    f1 = f1
    f2 = f2
    FileId <- MCFileId
    NoFile = NoFile
    Title = {"t1", "t2"}
    Blank = "blank"
    Date = {"d1"}
    NoDate = "noDate"
    ValidDate = {"d1"}
    Role = {"page", "audio", "sleeve"}
    SlotId = {"page", "audio"}
    NoSlot = "noSlot"
    SlotOf <- MCSlotOf
    SlotMin <- MCSlotMin
    SlotMax <- MCSlotMax
    MaxSizeBytes <- MCMaxSizeBytes
    Accepts <- MCAccepts
    Prefer <- MCPrefer
    Request <- MCRequest
    Mutation <- MCMutation
    Creation <- MCCreation
    MaxConflictRetries = 0
    MaxLag = 1
    MaxSends = 1
    NoRow = NoRow
    NoAsk = NoAsk
SPECIFICATION Spec
SYMMETRY Symmetry
CHECK_DEADLOCK FALSE
INVARIANT PinnedCoverWasChosen
