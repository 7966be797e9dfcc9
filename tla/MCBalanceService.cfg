SPECIFICATION Spec
CONSTANTS
    k1 = k1
    c1 = c1
    c2 = c2
    c3 = c3
    c4 = c4
    Keys <- OneKey
    Calls <- FourCalls
    Kinds <- AllKinds
    Days <- OneDay
    HcmFigures <- Correction
    SeededFigures <- TwoDaysLeft
    Interleaved = TRUE
SYMMETRY CallSymmetry
CHECK_DEADLOCK FALSE
INVARIANTS
    TypeOK
    RowsPersist
    DaysComeFromCalls
 
