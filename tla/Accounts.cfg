CONSTANTS
    User = {u1}
    Token = {t1, t2, t3}
    Request = {r1, r2}
    MaxAttempts = 3
    Enrolled = {v1, v2}
    Secret = {s1, s2}
    Batch = {b1, b2}
    CodeCount = 2
    NoUser = NoUser
    NoToken = NoToken
    NoSecret = NoSecret
    NoCode = NoCode
SPECIFICATION AccountsSpec
SYMMETRY Symmetry
INVARIANTS
    TypesOK GuessesBounded LiveResetsBounded RedeemsBounded
    OnlyProvenSecrets CodesBelongToSecret
PROPERTIES CounterOutlivesOnlyACrash
