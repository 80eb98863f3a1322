CONSTANTS
    Schema = {t1, t2}
    Vertical = {"gym"}
    Age = {1}
    Unused = Unused
    Public = Public
    Nobody = Nobody
    MaxStops = 0
    MaxRuns = 1
SPECIFICATION Spec
SYMMETRY Symmetry
INVARIANTS
    TypeOK ActiveIsComplete
PROPERTY
    ReferencesStayInside
CHECK_DEADLOCK FALSE
