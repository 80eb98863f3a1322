CONSTANTS
    None = None
    Request = {r1, r2}
    Activity = {a1, a2}
    Due = {1, 2}
    MaxServed = 4
    Webhook = {w1, w2}
    MaxToken = 4
    Branch = {b1, b2, b3}
    Lead = {l1}
    Agent = {1, 2}
    AssignAttempts = 5
    Mail = {m1}
    Task = {t1, t2}
    User = {u1, u2}
    MailAttempts = 3
    MaxStalls = 1
SPECIFICATION CrmSpec
SYMMETRY Symmetry
INVARIANTS
    TypesOK ColumnsExplained LiveTokensResolve BranchRemains
    AssignmentAccountedFor MailAccountedFor
CHECK_DEADLOCK FALSE
