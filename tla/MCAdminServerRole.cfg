CONSTANTS
    Http = Http
    Callers = {Http}
    LimitKeys = {ip1}
    NoKey = NoKey
    MaxAttempts = 1
    Window = 1
    PurgeInterval = 1
    MaxEntries = 2
    MaxTime = 1
    Super = a1
    Admins = {a1, a2}
    Perms <- Codes
    PermSets <- Lists
    MaxRoles = 2
    RoleSets = {{}, {2}}
    Names = {seed, staff}
    SeedName = seed
    JwtExpires = 1
    Tolerance = 0
    RbacCacheTtl = 1
    RbacCacheMax = 2
    MaxLogins = 1
SPECIFICATION AdminSpec
CHECK_DEADLOCK FALSE
PROPERTY CreateRoleIsolated
