SPECIFICATION ApiSpec
CONSTANTS
    h1 = h1
    h2 = h2
    h3 = h3
    ada = ada
    annual = annual
    k1 = k1
    adaMail = adaMail
    bobMail = bobMail
    link1 = link1
    us = us
    uk = uk
    HostWest = FALSE
    Today = 5
    MaxDays = 3
    Nobody = Nobody
    NoKey = NoKey
    NoLink = NoLink
    Handlers <- ThreeHandlers
    Accounts <- OneType
    Submissions <- TwoSubmissions
    Allotments <- TwoDays
    Linked <- NoEmployees
    Interleaved = TRUE
    MaxCrashes = 1
    Emails <- TwoMails
    HcmIds <- OneLink
    Locations <- TwoPlaces
    Staff <- OneEmployee
    FirstStaff <- AdaOnly
    CreateBodies <- Newcomers
    UpdateBodies <- Changes
CHECK_DEADLOCK FALSE
SYMMETRY HandlerSymmetry
INVARIANTS
    ApiTypeOK
    KeyMakesOneRequest
    StrandedOnlyByRestart
    LateSubmissionsReserveNothing
    SuccessWasDone
    UniqueIdentities
