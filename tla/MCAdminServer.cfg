CONSTANTS
    Http = Http
    Callers = {Http}
    LimitKeys = {ip1}
    NoKey = NoKey
    MaxAttempts = 2
    Window = 2
    PurgeInterval = 1
    MaxEntries = 2
    MaxTime = 2
    Super = a1
    Admins = {a1, a2}
    Perms <- Codes
    PermSets <- Lists
    MaxRoles = 2
    RoleSets = {{}, {2}}
    Names = {staff}
    SeedName = seed
    JwtExpires = 1
    Tolerance = 0
    RbacCacheTtl = 1
    RbacCacheMax = 2
    MaxLogins = 2
SPECIFICATION AdminSpec
CHECK_DEADLOCK FALSE
INVARIANTS
    CacheIsCurrent
    DisabledIsOut
    LoggedOutStaysOut
    FailuresBounded
