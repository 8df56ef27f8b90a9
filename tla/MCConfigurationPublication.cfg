SPECIFICATION Spec
CONSTANTS
    t1 = t1
    t2 = t2
    Transaction = {t1, t2}
    Missing = Missing
    Torn = Torn
    First = First
    MaxEdits = 2
    MaxFaults = 1
SYMMETRY Symmetry
INVARIANTS UserTextSurvives OriginalsAreKept
CHECK_DEADLOCK FALSE
