CONSTANTS
    User = {u1, u2}
    Tenant = {t1, t2}
    Token = {k1, k2}
    Request = {r1, r2}
    Statements = 2
    NoUser = NoUser
    NoTenant = NoTenant
    NoToken = NoToken
SPECIFICATION Spec
SYMMETRY Symmetry
INVARIANTS TypeOK AccountsVerified OwnersFounded
PROPERTY KeepsLifecycle
