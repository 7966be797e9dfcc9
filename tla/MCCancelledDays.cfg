SPECIFICATION SystemSpec
CONSTANTS
    h1 = h1
    h2 = h2
    h3 = h3
    ada = ada
    annual = annual
    k1 = k1
    s1 = s1
    s2 = s2
    HostWest = FALSE
    Today = 5
    MaxDays = 3
    Nobody = Nobody
    NoKey = NoKey
    NoSnapshot = NoSnapshot
    Handlers <- ThreeHandlers
    Accounts <- OneType
    Submissions <- OneRange
    Allotments <- TwoDays
    HcmTotals <- TwoDays
    Bonuses <- BonusDay
    MaxTotal = 2
    Linked <- OneEmployee
    Interleaved = FALSE
    MaxCrashes = 0
    MaxAttempts = 1
    Syncs <- OneSync
CHECK_DEADLOCK FALSE
INVARIANT CancelledDaysReturn
