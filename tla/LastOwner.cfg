CONSTANTS
    User = {u1, u2}
    Founder = u1
    Role = {owner, agent}
    SystemRole = {owner}
    Owner = owner
    Branch = {b1}
    TenantWide = TenantWide
    Assignment = {a1, a2, a3, a4}
    Invite = {i1}
    Request = {r1}
    NoUser = NoUser
    NoRole = NoRole
    NoInvite = NoInvite
SPECIFICATION Spec
SYMMETRY Symmetry
INVARIANT LastOwnerProtected
