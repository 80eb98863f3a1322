SPECIFICATION Spec
CONSTANTS
    tenant = tenant
    Schema = {tenant}
    Vertical = {"medical"}
    Age = {1, 2, 3, 4, 5, 6}
    Unused = Unused
    Public = Public
    Nobody = Nobody
    MaxStops = 1
    MaxRuns = 3
INVARIANTS
    
    MigrationsRepeatable
    UpgradedIsCurrent
CHECK_DEADLOCK FALSE
