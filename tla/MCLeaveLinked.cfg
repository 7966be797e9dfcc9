SPECIFICATION FairSystemSpec
CONSTANTS
    h1 = h1
    h2 = h2
    h3 = h3
    ada = ada
    annual = annual
    k1 = k1
    s1 = s1
    s2 = s2
    HostWest = FALSE
    Today = 5
    MaxDays = 3
    Nobody = Nobody
    NoKey = NoKey
    NoSnapshot = NoSnapshot
    Handlers <- ThreeHandlers
    Accounts <- OneType
    Submissions <- LongWeekend
    Allotments <- TwoDays
    HcmTotals <- OneDay
    Bonuses <- BonusDay
    MaxTotal = 2
    Linked <- OneEmployee
    Interleaved = FALSE
    MaxCrashes = 0
    MaxAttempts = 1
    Syncs <- TwoSyncs
CHECK_DEADLOCK FALSE
INVARIANTS
    PendingBacksRequests
    SyncedWasDeducted
    UsedDaysAccounted
PROPERTIES
    SyncStatusMoves
    ApprovalSettles
