SPECIFICATION Spec
CONSTANTS
    k1 = k1
    c1 = c1
    c2 = c2
    c3 = c3
    c4 = c4
    Keys <- OneKey
    Calls <- ThreeCalls
    Kinds <- ReserveOnly
    Days <- TwoDays
    HcmFigures <- Correction
    SeededFigures <- TwoDaysLeft
    Interleaved = TRUE
CHECK_DEADLOCK FALSE
INVARIANT AcceptedReservationsFit
