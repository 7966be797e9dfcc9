SPECIFICATION FairSpec
CONSTANTS
    r1 = r1
    r2 = r2
    ada = ada
    ben = ben
    hcmAda = hcmAda
    hcmBen = hcmBen
    annual = annual
    us = us
    pk = pk
    Nobody = Nobody
    NoLink = NoLink
    NoLocation = NoLocation
    Runs <- TwoRuns
    Employees <- TwoEmployees
    FirstEmployees <- BothInUs
    Updates <- AdaMoves
    HcmIds <- TwoIds
    HcmBalances <- ThreeBalances
    Bodies <- ThreeBodies
    Filters <- UsOrAll
    Locations <- TwoLocations
    MaxChanges = 1
CHECK_DEADLOCK FALSE
INVARIANT TypeOK
PROPERTIES
    HonestLog
    SuccessReconciles
    OlderOnlyWhenOverlapping
    LogCloses
