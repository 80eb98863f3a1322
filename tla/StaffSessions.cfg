CONSTANTS
    User = {u1, u2}
    Founder = u1
    Role = {owner, agent}
    SystemRole = {owner}
    Owner = owner
    Branch = {b1}
    TenantWide = TenantWide
    Assignment = {a1, a2}
    Invite = {i1}
    Request = {r1, r2}
    Session = {s1}
    NoUser = NoUser
    NoRole = NoRole
    NoInvite = NoInvite
SPECIFICATION ServiceSpec
SYMMETRY Symmetry
CONSTRAINTS OwnerTenantWide Apart
ACTION_CONSTRAINT Eager
INVARIANTS ServiceTypeOK ActiveRolesExist StaffCameIn OwnerRemainsUnlessExcused DismissedAreOut
