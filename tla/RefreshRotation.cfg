CONSTANTS
    User = {u1, u2}
    Session = {s1, s2}
    Token = {t1, t2, t3}
    Request = {r1, r2}
    TwoFactorUsers = {u2}
    NoUser = NoUser
    NoSession = NoSession
    NoToken = NoToken
SPECIFICATION Spec
SYMMETRY Symmetry
INVARIANTS TypeOK RotationChain ExchangesBounded
PROPERTIES EndedOnBehalfOfOwner KeepsContract
