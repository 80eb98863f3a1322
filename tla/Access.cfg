SPECIFICATION Spec
CONSTANTS
    u1 = u1
    owner = owner
    custom = custom
    tenantToken = tenantToken
    platformToken = platformToken
    User = {u1}
    Role = {owner, custom}
    FullRole = {owner}
    Permission <- Converting
    Served <- ServedRoutes
    Token = {tenantToken, platformToken}
    PlatformToken = {platformToken}
    Bearer <- BearerOf
    Request = {r1}
    Edit = {e1}
    CacheTtl = 2
    TokenLife = 2
    PlatformLife = 1
    NoRole = NoRole
    NoToken = NoToken
    NoRoute = NoRoute
INVARIANTS
    HonouredOnceGranted
    KeyOutlivesToken
PROPERTY
    EntriesSettle
