SPECIFICATION Spec
CONSTANTS
    u1 = u1
    owner = owner
    custom = custom
    tenantToken = tenantToken
    platformToken = platformToken
    User = {u1}
    Role = {owner, custom}
    FullRole = {owner}
    Permission <- TwoPermissions
    Served <- ServedRoutes
    Token = {tenantToken, platformToken}
    PlatformToken = {platformToken}
    Bearer <- BearerOf
    Request = {}
    Edit = {e1, e2}
    CacheTtl = 2
    TokenLife = 2
    PlatformLife = 1
    NoRole = NoRole
    NoToken = NoToken
    NoRoute = NoRoute
PROPERTY
    ReplacedInFull
