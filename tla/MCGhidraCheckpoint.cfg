SPECIFICATION Spec
CONSTANTS
    Nothing = Nothing
    Dead = Dead
    Initial = Initial
    Process = {p1, p2, p3}
    Blob = {b1, b2, b3}
SYMMETRY Symmetry
INVARIANTS CurrentIsIntact
PROPERTIES NoLostPublication ImplementsLease
