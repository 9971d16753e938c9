CONSTANTS
    r1 = r1
    r2 = r2
    r3 = r3
    r4 = r4
    ann = ann
    bob = bob
    a1 = a1
    a2 = a2
    Request <- MCRequest
    AccountId <- MCAccountId
    ArchiveId <- MCArchiveId
    Ask <- MCAskOwnersOnly
    BodyRole = {"owner", "editor", "viewer", "admin"}
    MaxLag = 0
    NoRole = NoRole
    NoAccount = NoAccount
    NoAsk = NoAsk
SPECIFICATION Spec
SYMMETRY Symmetry
CHECK_DEADLOCK FALSE
INVARIANT EveryArchiveHasAnOwner
