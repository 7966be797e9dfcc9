SPECIFICATION Spec
CONSTANTS
    h1 = h1
    h2 = h2
    h3 = h3
    h4 = h4
    ada = ada
    annual = annual
    sick = sick
    k1 = k1
    HostWest = FALSE
    Today = 5
    MaxDays = 3
    Nobody = Nobody
    NoKey = NoKey
    Handlers <- ThreeHandlers
    Accounts <- OneType
    Submissions <- OneSubmission
    Allotments <- TwoDays
    Linked <- NoEmployee
    Interleaved = TRUE
    MaxCrashes = 0
CHECK_DEADLOCK FALSE
INVARIANT UsedBacksRequests
