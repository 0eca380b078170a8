---------------------------- MODULE AdminServer ----------------------------
(***************************************************************************)
(* server/admin/admin_server.cpp: admin logins with the RateLimiter, the   *)
(* tokens and their rows in admin_sessions, the accounts, roles and        *)
(* permissions of administrators, and the RBAC cache of AuthMiddleware.    *)
(*                                                                         *)
(* The HTTP server has one thread (setThreadNum(1)): a request, its        *)
(* AuthMiddleware included, is one action, and only a login, which hashes  *)
(* a password, takes two.  The purger thread runs in between.  What admins *)
(* do to the sessions of users is in ConnSession; recalling a message,     *)
(* creating users and resetting passwords are left out.  A token is        *)
(* determined by its admin and the second it was signed in.                *)
(***************************************************************************)
EXTENDS RateLimiter

CONSTANTS
    Http,          \* the HTTP thread
    Admins,        \* admin ids
    Super,         \* the admin with id 1
    Perms,         \* permission codes, with "admin.login" and "admin.manage"
    PermSets,      \* the permission lists of requests
    RoleSets,      \* the role lists of requests
    MaxRoles,      \* bound: roles ever created, the seeded role 1 included
    Names,         \* the names of roles that requests create
    SeedName,      \* the name of role 1, whose code is another one
    JwtExpires,    \* opts_.jwt_expires
    Tolerance,     \* exp_tolerance_seconds
    RbacCacheTtl,  \* kRbacCacheTtl
    RbacCacheMax,  \* kRbacCacheMaxSize
    MaxLogins      \* bound: rows of admin_sessions ever inserted

ASSUME AdminAssumption ==
    /\ Callers = {Http}
    /\ Super \in Admins
    /\ PermSets \subseteq SUBSET Perms
    /\ "none" \notin Names \cup {SeedName}
    /\ MaxRoles \in Nat \ {0} /\ RoleSets \subseteq SUBSET (1 .. MaxRoles)
    /\ JwtExpires \in Nat /\ Tolerance \in Nat
    /\ RbacCacheTtl \in Nat \ {0} /\ RbacCacheMax \in Nat \ {0}

VARIABLES
    status,      \* status[a]: admins.status, "none" without a row
    role_name,   \* role_name[r]: roles.name, NoName without a row
    next_role,   \* the next roles.id
    role_perms,  \* role_perms[r]: rows of role_permissions
    admin_roles, \* admin_roles[a]: rows of admin_roles
    sessions,    \* rows of admin_sessions by id: [token, revoked]
    logins,      \* rows ever inserted
    rbac_cache,  \* rbac_cache[a]: rbac_cache_, NoCached for no entry
    out,         \* history: tokens that a logout revoked
    renewed,     \* history: those of out that were signed again when their row was purged
    tidy         \* history: requests named existing roles only, and no role was created
                 \* under SeedName

accountVars == <<status>>
roleVars == <<role_name, next_role, role_perms, admin_roles, tidy>>
sessionVars == <<sessions, logins, out, renewed>>
adminVars == <<limiterAll, accountVars, roleVars, sessionVars, rbac_cache>>

RoleIds == 1 .. MaxRoles
NoName == "none"
Token == [admin : Admins, iat : Nat]
Status == {"none", "normal", "banned", "deleted"}
CacheEntry == [perms : SUBSET Perms, status : Status, expires : Nat]
NoCached == [perms |-> {}, status |-> "none", expires |-> 0]

\* SeedSuperAdmin.
AdminInit ==
    /\ LimiterInit
    /\ status = [a \in Admins |-> IF a = Super THEN "normal" ELSE "none"]
    /\ role_name = [r \in RoleIds |-> IF r = 1 THEN SeedName ELSE NoName]
    /\ next_role = 2
    /\ role_perms = [r \in RoleIds |-> IF r = 1 THEN Perms ELSE {}]
    /\ admin_roles = [a \in Admins |-> IF a = Super THEN {1} ELSE {}]
    /\ sessions = << >>
    /\ logins = 0
    /\ rbac_cache = [a \in Admins |-> NoCached]
    /\ out = {}
    /\ renewed = {}
    /\ tidy = TRUE

-----------------------------------------------------------------------------
\* DAO operations

FindById(a) == status[a] \in {"normal", "banned"}

\* The joins go through admin_roles and role_permissions, not through roles.
GetUserPermissions(a) == UNION {role_perms[r] : r \in admin_roles[a]}

Roles == {r \in RoleIds : role_name[r] # NoName}

HasRow(t) == \E i \in DOMAIN sessions : sessions[i].token = t

\* The row that a query by token_hash finds first.
FirstRow(i, t) ==
    /\ sessions[i].token = t
    /\ \A j \in DOMAIN sessions : j < i => sessions[j].token # t

\* Mutant: fail-open, a token without a row is not revoked.
IsRevokedOpen(t) == \E i \in DOMAIN sessions : FirstRow(i, t) /\ sessions[i].revoked

\* Fail-closed: a token without a row is revoked.
IsRevoked(t) == ~\E i \in DOMAIN sessions : FirstRow(i, t) /\ ~sessions[i].revoked

RevokeByTokenHash(t) ==
    sessions' = [i \in DOMAIN sessions |->
        IF FirstRow(i, t) THEN [sessions[i] EXCEPT !.revoked = TRUE] ELSE sessions[i]]

-----------------------------------------------------------------------------
\* AuthMiddleware

\* JwtUtils::Verify of a token this server signed.
Verify(t) == now <= t.iat + JwtExpires + Tolerance

Hit(a) == rbac_cache[a].expires > now

\* What the middleware knows of a: from the cache or from the database.
Known(a) ==
    IF Hit(a) THEN rbac_cache[a]
    ELSE [perms |-> GetUserPermissions(a), status |-> status[a], expires |-> now + RbacCacheTtl]

\* At capacity the expired entries go, and all of them if that is not enough.
Evicted ==
    LET cached == {a \in Admins : rbac_cache[a] # NoCached}
        live == {a \in Admins : Hit(a)}
    IN  IF Cardinality(cached) < RbacCacheMax THEN rbac_cache
        ELSE [a \in Admins |-> IF a \in live /\ Cardinality(live) < RbacCacheMax
                               THEN rbac_cache[a] ELSE NoCached]

\* rbac_cache_ after the middleware.
Filled(a) == IF Hit(a) THEN rbac_cache ELSE [Evicted EXCEPT ![a] = Known(a)]

\* The token is good and its account exists: the cache is filled.
Authenticated(t) ==
    /\ checking[Http] = NoKey
    /\ Verify(t)
    /\ ~IsRevoked(t)
    /\ Hit(t.admin) \/ FindById(t.admin)

\* ... and the account is not disabled: the request reaches its handler.
LetThrough(t) == Authenticated(t) /\ Known(t.admin).status = "normal"

HasPermission(t, p) == p \in Known(t.admin).perms

\* The operators below begin with the middleware's effect for token t.
InvalidateNothing(t) == rbac_cache' = Filled(t.admin)

InvalidateRbacCache(t, a) == rbac_cache' = [Filled(t.admin) EXCEPT ![a] = NoCached]

InvalidateRbacCacheAll(t) == rbac_cache' = [a \in Admins |-> NoCached]

-----------------------------------------------------------------------------
\* Login and logout

\* HandleLogin: the limiter allows the address.
LoginBegins(ip) ==
    /\ Allow(Http, ip)
    /\ UNCHANGED <<accountVars, roleVars, sessionVars, rbac_cache>>

\* No such account, or the wrong password.
LoginFails ==
    /\ RecordFailure(Http)
    /\ UNCHANGED <<accountVars, roleVars, sessionVars, rbac_cache>>

\* The request is malformed, or the account is disabled or may not log in.
LoginRefused ==
    /\ GiveUp(Http)
    /\ UNCHANGED <<accountVars, roleVars, sessionVars, rbac_cache>>

MayLogIn(a) == status[a] = "normal" /\ "admin.login" \in GetUserPermissions(a)

\* A token is signed and its row inserted.  It is the token of an earlier login of a in the
\* same second, logged out or not: the claims have no other part that changes.
LoginSucceeds(a) ==
    LET token == [admin |-> a, iat |-> now]
    IN  /\ Reset(Http)
        /\ MayLogIn(a)
        /\ logins < MaxLogins
        /\ logins' = logins + 1
        /\ sessions' = Append(sessions, [token |-> token, revoked |-> FALSE])
        /\ renewed' = IF token \in out /\ ~HasRow(token) THEN renewed \cup {token} ELSE renewed
        /\ UNCHANGED <<accountVars, roleVars, out, rbac_cache>>

\* The insert fails: the token is not sent.
LoginNotStored(a) ==
    /\ Reset(Http)
    /\ MayLogIn(a)
    /\ UNCHANGED <<accountVars, roleVars, sessionVars, rbac_cache>>

\* The answer is OK also when the update of the row fails.
HandleLogout(t) ==
    /\ LetThrough(t)
    /\ \/ /\ RevokeByTokenHash(t)
          /\ out' = out \cup {t}
          /\ renewed' = renewed \ {t}
       \/ UNCHANGED <<sessions, out, renewed>>
    /\ InvalidateNothing(t)
    /\ UNCHANGED <<limiterAll, accountVars, roleVars, logins>>

\* A request that only reads, or that the middleware or RequirePermission rejects.
HandleOther(t) ==
    /\ Authenticated(t)
    /\ InvalidateNothing(t)
    /\ UNCHANGED <<limiterAll, accountVars, roleVars, sessionVars>>

\* PurgeExpired compares the text expires_at with a number: SQLite finds every text
\* greater, MySQL refuses the statement or, without strict mode, takes the text for its
\* year and deletes every row.
PurgeExpired ==
    /\ sessions' = << >>
    /\ renewed' = {}
    /\ UNCHANGED <<limiterAll, accountVars, roleVars, logins, out, rbac_cache>>

-----------------------------------------------------------------------------
\* Accounts

Manages(t) == LetThrough(t) /\ HasPermission(t, "admin.manage")

HandleCreateAdmin(t, a) ==
    /\ Manages(t)
    /\ status[a] = "none"
    /\ status' = [status EXCEPT ![a] = "normal"]
    /\ InvalidateNothing(t)
    /\ UNCHANGED <<limiterAll, roleVars, sessionVars>>

HandleDeleteAdmin(t, a) ==
    /\ Manages(t)
    /\ a \notin {Super, t.admin}
    /\ FindById(a)
    /\ status' = [status EXCEPT ![a] = "deleted"]
    /\ InvalidateRbacCache(t, a)
    /\ UNCHANGED <<limiterAll, roleVars, sessionVars>>

HandleEnableAdmin(t, a) ==
    /\ Manages(t)
    /\ FindById(a)
    /\ status' = [status EXCEPT ![a] = "normal"]
    /\ InvalidateRbacCache(t, a)
    /\ UNCHANGED <<limiterAll, roleVars, sessionVars>>

\* Mutant: the cache is left alone.
HandleDisableAdminCached(t, a) ==
    /\ Manages(t)
    /\ a \notin {Super, t.admin}
    /\ FindById(a)
    /\ status' = [status EXCEPT ![a] = "banned"]
    /\ InvalidateNothing(t)
    /\ UNCHANGED <<limiterAll, roleVars, sessionVars>>

HandleDisableAdmin(t, a) ==
    /\ Manages(t)
    /\ a \notin {Super, t.admin}
    /\ FindById(a)
    /\ status' = [status EXCEPT ![a] = "banned"]
    /\ InvalidateRbacCache(t, a)
    /\ UNCHANGED <<limiterAll, roleVars, sessionVars>>

\* Removes the roles that exist and assigns the ones of the request, unchecked.
HandleSetAdminRoles(t, a, ids) ==
    /\ Manages(t)
    /\ FindById(a)
    /\ admin_roles' = [admin_roles EXCEPT ![a] = (@ \ Roles) \cup ids]
    /\ tidy' = (tidy /\ ids \subseteq Roles)
    /\ InvalidateRbacCache(t, a)
    /\ UNCHANGED <<limiterAll, accountVars, role_name, next_role, role_perms, sessionVars>>

-----------------------------------------------------------------------------
\* Roles

\* The first role of that name, which HandleCreateRole takes for the one it created.
NamedRole(names, name) ==
    CHOOSE r \in RoleIds : names[r] = name /\ \A q \in RoleIds : names[q] = name => r <= q

\* roles.code is unique and a copy of the name, but for the seeded role.  Permissions are
\* optional.
HandleCreateRole(t, name, perms) ==
    LET names == [role_name EXCEPT ![next_role] = name]
    IN  /\ Manages(t)
        /\ next_role \in RoleIds
        /\ \A r \in Roles : role_name[r] = name => r = 1
        /\ role_name' = names
        /\ next_role' = next_role + 1
        /\ role_perms' \in {role_perms, [role_perms EXCEPT ![NamedRole(names, name)] = perms]}
        /\ tidy' = (tidy /\ name # SeedName)
        /\ InvalidateNothing(t)
        /\ UNCHANGED <<limiterAll, accountVars, admin_roles, sessionVars>>

\* Mutant: the cache is left alone.
HandleUpdateRoleCached(t, r, perms) ==
    /\ Manages(t)
    /\ role_perms' = [role_perms EXCEPT ![r] = perms]
    /\ tidy' = (tidy /\ r \in Roles)
    /\ InvalidateNothing(t)
    /\ UNCHANGED <<limiterAll, accountVars, role_name, next_role, admin_roles, sessionVars>>

\* A request without permissions changes the description only.
HandleUpdateRole(t, r, perms) ==
    /\ Manages(t)
    /\ role_perms' \in {role_perms, [role_perms EXCEPT ![r] = perms]}
    /\ tidy' = (tidy /\ r \in Roles)
    /\ InvalidateRbacCacheAll(t)
    /\ UNCHANGED <<limiterAll, accountVars, role_name, next_role, admin_roles, sessionVars>>

HandleDeleteRole(t, r) ==
    /\ Manages(t)
    /\ role_perms' = [role_perms EXCEPT ![r] = {}]
    /\ admin_roles' = [a \in Admins |-> admin_roles[a] \ {r}]
    /\ role_name' = [role_name EXCEPT ![r] = NoName]
    /\ InvalidateRbacCacheAll(t)
    /\ UNCHANGED <<limiterAll, accountVars, next_role, tidy, sessionVars>>

-----------------------------------------------------------------------------
\* Requests carry tokens this server signed.
Signed == {sessions[i].token : i \in DOMAIN sessions} \cup out

AdminNext ==
    \/ Tick /\ UNCHANGED <<accountVars, roleVars, sessionVars, rbac_cache>>
    \/ (\E ip \in LimitKeys : LoginBegins(ip)) \/ LoginFails \/ LoginRefused
    \/ \E a \in Admins : LoginSucceeds(a) \/ LoginNotStored(a)
    \/ PurgeExpired
    \/ \E t \in Signed :
        \/ HandleLogout(t) \/ HandleOther(t)
        \/ \E a \in Admins :
            \/ HandleCreateAdmin(t, a) \/ HandleDeleteAdmin(t, a)
            \/ HandleEnableAdmin(t, a) \/ HandleDisableAdmin(t, a)
            \/ \E ids \in RoleSets : HandleSetAdminRoles(t, a, ids)
        \/ \E name \in Names, perms \in PermSets : HandleCreateRole(t, name, perms)
        \/ \E r \in RoleIds, perms \in PermSets : HandleUpdateRole(t, r, perms)
        \/ \E r \in RoleIds : HandleDeleteRole(t, r)

AdminSpec == AdminInit /\ [][AdminNext]_adminVars

-----------------------------------------------------------------------------
\* Properties

\* The state keeps its types.
AdminTypeOK ==
    /\ status \in [Admins -> Status]
    /\ role_name \in [RoleIds -> Names \cup {SeedName, NoName}]
    /\ next_role \in 2 .. MaxRoles + 1
    /\ role_perms \in [RoleIds -> SUBSET Perms]
    /\ admin_roles \in [Admins -> SUBSET RoleIds]
    /\ sessions \in Seq([token : Token, revoked : BOOLEAN])
    /\ logins \in Nat
    /\ rbac_cache \in [Admins -> CacheEntry]
    /\ out \subseteq Token
    /\ renewed \subseteq out
    /\ tidy \in BOOLEAN

\* InvalidateRbacCache "when a role or an admin's state changes": no request is judged by
\* permissions that were revoked, or without permissions that were granted, although
\* entries live for kRbacCacheTtl; as long as requests name existing roles.
CacheIsCurrent ==
    tidy => \A a \in Admins : Hit(a) => rbac_cache[a].perms = GetUserPermissions(a)

\* "Banned or deleted admins must not use a valid JWT": the handlers are closed to them
\* at once, whatever the cache held and whatever roles they have.
DisabledIsOut == \A t \in Signed : LetThrough(t) => status[t.admin] = "normal"

\* A token that a logout revoked stays out: when the purger deletes its row, when its admin
\* logs in later, and when its admin logs in in the same second while the row is there (the
\* new row of the same token is found second).  Two ways to use a token after its logout are
\* not covered, both against "the token cannot be used afterwards" (api_design.md:128): the
\* row was purged and the same token signed again within the second (renewed), or the
\* revocation failed and HandleLogout answered OK (never in out).
LoggedOutStaysOut == \A t \in out : IsRevoked(t) \/ t \in renewed

\* "Find the id of the role just created": creating a role changes the permissions of no
\* other role.
CreateRoleIsolated ==
    [][\A r \in Roles : next_role' # next_role => role_perms'[r] = role_perms[r]]_adminVars
=============================================================================
