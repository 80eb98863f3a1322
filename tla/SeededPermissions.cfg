SPECIFICATION Spec
CONSTANTS
    tenant = tenant
    Schema = {tenant}
    Vertical = {"none"}
    Age = {1, 4, 5}
    Unused = Unused
    Public = Public
    Nobody = Nobody
    MaxStops = 1
    MaxRuns = 3
INVARIANT
    SeededAsDocumented
CHECK_DEADLOCK FALSE
