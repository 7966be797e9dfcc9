SPECIFICATION FairSpec
CONSTANTS
    d1 = d1
    d2 = d2
    d3 = d3
    adaAnnual = adaAnnual
    unknown = unknown
    Deductions <- WithUnknown
    HcmAccounts <- OneAccount
    AccountOf <- AccountOfEach
    DaysOf <- DaysOfEach
    HcmTotals <- Totals
    Bonuses <- OneDay
    MaxTotal = 5
    maxRetries = 1
CHECK_DEADLOCK FALSE
INVARIANTS
    TypeOK
    ConfirmedWasDeducted
    DeductedPerAttempt
    ClientErrorIsFinal
PROPERTIES
    DeductionEnds
    DeductionRefinement
