SPECIFICATION Spec
CONSTANTS
    h1 = h1
    h2 = h2
    h3 = h3
    h4 = h4
    ada = ada
    annual = annual
    sick = sick
    k1 = k1
    HostWest = FALSE
    Today = 5
    MaxDays = 3
    Nobody = Nobody
    NoKey = NoKey
    Handlers <- FourHandlers
    Accounts <- TwoTypes
    Submissions <- AllSubmissions
    Allotments <- TwoAndOneDays
    Linked <- OneEmployee
    Interleaved = FALSE
    MaxCrashes = 1
CHECK_DEADLOCK FALSE
SYMMETRY HandlerSymmetry
INVARIANTS
    TypeOK
    DriftBounded
    NoDoubleBooking
    ChargesBusinessDays
PROPERTIES
    OnlyLateMarksRevive
    KeyReservesOnce
