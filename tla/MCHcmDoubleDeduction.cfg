SPECIFICATION FairSpec
CONSTANTS
    d1 = d1
    d2 = d2
    d3 = d3
    adaAnnual = adaAnnual
    unknown = unknown
    Deductions <- OneDeduction
    HcmAccounts <- OneAccount
    AccountOf <- AccountOfEach
    DaysOf <- DaysOfEach
    HcmTotals <- Totals
    Bonuses <- OneDay
    MaxTotal = 4
    maxRetries = 3
CHECK_DEADLOCK FALSE
INVARIANT ConfirmedOnce
