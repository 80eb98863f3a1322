------------------------------- MODULE Access -------------------------------
(***************************************************************************)
(* From an access token to a handler of the CRM: the guards a request      *)
(* passes, the resolver that loads the permissions of a user and caches    *)
(* them, and what changes under them - role assignments, the permissions   *)
(* of a role, logout and time.                                             *)
(*                                                                         *)
(* A request is a process with one step per read.  A replacement of the    *)
(* permissions of a role is a transaction under read committed: its DELETE *)
(* takes a snapshot, waits for the rows another transaction has deleted,   *)
(* and its INSERT follows.  One tick stands for the unit in which the      *)
(* lifetimes are counted.                                                  *)
(***************************************************************************)
EXTENDS Naturals, Routes

CONSTANTS
    User, Role,
    FullRole,      \* the system roles owner and admin
    Permission,    \* rows of the Permission table, seeded and never changed
    Served,        \* the routes requests are made to
    Token,         \* a token and, once renewed, its successor
    PlatformToken, \* those of scope platform; they carry no tenant
    Bearer,        \* Bearer[t]: the sub claim of t
    Request, Edit, \* requests and replacements going on at the same time
    CacheTtl,      \* ttl of the resolver's LRU cache
    TokenLife,     \* AUTH_JWT_ACCESS_TTL
    PlatformLife,  \* AUTH_JWT_PLATFORM_ACCESS_TTL
    NoRole, NoToken, NoRoute

ASSUME RoleAssumption == FullRole \subseteq Role

ASSUME RouteAssumption ==
    /\ Served \subseteq CrmRoutes
    /\ \A route \in Served : route.needs \subseteq Permission

ASSUME TokenAssumption ==
    /\ PlatformToken \subseteq Token
    /\ Bearer \in [Token -> User]

ASSUME NullAssumption ==
    NoRole \notin Role /\ NoToken \notin Token /\ NoRoute \notin Served

\* The default lifetimes are 900, 300 and 60 seconds.
ASSUME LifeAssumption ==
    /\ CacheTtl \in Nat /\ TokenLife \in Nat /\ PlatformLife \in Nat
    /\ 0 < CacheTtl /\ 0 < PlatformLife /\ PlatformLife <= TokenLife

VARIABLES
    roles,    \* ids of the roles there are
    grants,   \* grants[x]: the RolePermission rows of role x
    members,  \* members[u]: the roles of u's active assignments
    held,     \* held[u]: the roles of all of u's assignments, revoked ones too
    cached,   \* cached[u]: the permissions in u's cache entry
    age,      \* age[u]: how old the entry is; CacheTtl when there is none
    life,     \* life[t]: ticks until t expires
    denied,   \* denied[t]: ticks until the revocation key of t's jti expires
    left,     \* tokens logged out
    request,  \* request[r]: how far r has come and what it remembers
    edit,     \* edit[e]: how far e has come and what it remembers
    could     \* could[u]: what u's roles have carried since u had them (no column)

vars == <<roles, grants, members, held, cached, age, life, denied, left, request,
          edit, could>>
roleTables == <<roles, grants, members, held>>
resolverCache == <<cached, age>>
tokens == <<life, denied, left>>

Progress == [step : {"idle", "revocation", "permissions", "memberships",
                     "grants", "handler"},
             token : Token \cup {NoToken}, route : Served \cup {NoRoute},
             seen : SUBSET Role]

Replacement == [step : {"idle", "delete", "wait", "locked"},
                role : Role \cup {NoRole}, wanted : SUBSET Permission,
                rows : SUBSET Permission]

TypeOK ==
    /\ roles \subseteq Role
    /\ grants \in [Role -> SUBSET Permission]
    /\ members \in [User -> SUBSET Role] /\ held \in [User -> SUBSET Role]
    /\ cached \in [User -> SUBSET Permission] /\ age \in [User -> 0..CacheTtl]
    /\ life \in [Token -> 0..TokenLife] /\ denied \in [Token -> 0..TokenLife]
    /\ left \subseteq Token
    /\ request \in [Request -> Progress]
    /\ edit \in [Edit -> Replacement]
    /\ could \in [User -> SUBSET Permission]

Idle == [step |-> "idle", token |-> NoToken, route |-> NoRoute, seen |-> {}]
NoEdit == [step |-> "idle", role |-> NoRole, wanted |-> {}, rows |-> {}]

At(r, step) == request[r].step = step
Goto(r, step) == request' = [request EXCEPT ![r].step = step]
Finish(r) == request' = [request EXCEPT ![r] = Idle]
UserOf(r) == Bearer[request[r].token]

Carried(xs) == UNION {grants[x] : x \in xs}
Entitled(u) == Carried(members[u])
Cached(u) == age[u] < CacheTtl

FullLife(t) == IF t \in PlatformToken THEN PlatformLife ELSE TokenLife
ScopeOf(t) == IF t \in PlatformToken THEN "platform" ELSE "tenant"

\* Everybody is new, every role is as it was seeded, nobody is signed out.
Init ==
    /\ roles = FullRole
    /\ grants = [x \in Role |-> IF x \in FullRole THEN Permission ELSE {}]
    /\ members = [u \in User |-> {}] /\ held = members
    /\ cached = [u \in User |-> {}]
    /\ age = [u \in User |-> CacheTtl]
    /\ life = [t \in Token |-> FullLife(t)]
    /\ denied = [t \in Token |-> 0]
    /\ left = {}
    /\ request = [r \in Request |-> Idle]
    /\ edit = [e \in Edit |-> NoEdit]
    /\ could = [u \in User |-> {}]

-----------------------------------------------------------------------------
(***************************************************************************)
(* The guards: JwtAuthGuard, PermissionsGuard, then TenantScopeGuard.      *)
(***************************************************************************)

\* The signature and the expiry are checked without a call; a public route
\* is let through and changes nothing.
Arrive(r, t, route) ==
    /\ At(r, "idle")
    /\ ~route.public
    /\ life[t] > 0
    /\ request' = [request EXCEPT ![r] =
                      [step |-> "revocation", token |-> t, route |-> route, seen |-> {}]]
    /\ UNCHANGED <<roleTables, resolverCache, tokens, edit>>

CheckRevocation(r) ==
    /\ At(r, "revocation")
    /\ IF denied[request[r].token] > 0 THEN Finish(r) ELSE Goto(r, "permissions")
    /\ UNCHANGED <<roleTables, resolverCache, tokens, edit>>

\* Both guards have what they need: the handler runs, or the request ends.
Decide(r, permissions) ==
    IF /\ PassesPermissions(request[r].route, permissions)
       /\ PassesScope(request[r].route, ScopeOf(request[r].token))
    THEN Goto(r, "handler")
    ELSE Finish(r)

\* A route that asks for nothing, and a token that names no tenant, are
\* decided without the resolver.
DecideUnresolved(r) ==
    /\ At(r, "permissions")
    /\ request[r].route.needs = {} \/ request[r].token \in PlatformToken
    /\ Decide(r, {})
    /\ UNCHANGED <<roleTables, resolverCache, tokens, edit>>

AsksResolver(r) ==
    /\ At(r, "permissions")
    /\ request[r].route.needs # {} /\ request[r].token \notin PlatformToken

\* Mutation: a hit makes the entry young again.
CacheHitRenews(r) ==
    /\ AsksResolver(r)
    /\ Cached(UserOf(r))
    /\ age' = [age EXCEPT ![UserOf(r)] = 0]
    /\ Decide(r, cached[UserOf(r)])
    /\ UNCHANGED <<roleTables, cached, tokens, edit>>

CacheHit(r) ==
    /\ AsksResolver(r)
    /\ Cached(UserOf(r))
    /\ Decide(r, cached[UserOf(r)])
    /\ UNCHANGED <<roleTables, resolverCache, tokens, edit>>

CacheMiss(r) ==
    /\ AsksResolver(r)
    /\ ~Cached(UserOf(r))
    /\ Goto(r, "memberships")
    /\ UNCHANGED <<roleTables, resolverCache, tokens, edit>>

Store(u, permissions) ==
    /\ cached' = [cached EXCEPT ![u] = permissions]
    /\ age' = [age EXCEPT ![u] = 0]

\* A user without an active assignment has no permission, and that is
\* cached too.
ReadMemberships(r) ==
    /\ At(r, "memberships")
    /\ IF members[UserOf(r)] = {}
       THEN Store(UserOf(r), {}) /\ Decide(r, {})
       ELSE /\ request' = [request EXCEPT ![r].step = "grants",
                                          ![r].seen = members[UserOf(r)]]
            /\ UNCHANGED resolverCache
    /\ UNCHANGED <<roleTables, tokens, edit>>

\* Mutation: the permissions of every role are read.
ReadGrantsOfAll(r) ==
    /\ At(r, "grants")
    /\ Store(UserOf(r), Carried(roles))
    /\ Decide(r, Carried(roles))
    /\ UNCHANGED <<roleTables, tokens, edit>>

ReadGrants(r) ==
    /\ At(r, "grants")
    /\ Store(UserOf(r), Carried(request[r].seen))
    /\ Decide(r, Carried(request[r].seen))
    /\ UNCHANGED <<roleTables, tokens, edit>>

\* The handler answers; what it does is in the other modules.
Answer(r) ==
    /\ At(r, "handler")
    /\ Finish(r)
    /\ UNCHANGED <<roleTables, resolverCache, tokens, edit>>

\* The cache is full and this entry the oldest, or the process restarts.
Evict(u) ==
    /\ Cached(u)
    /\ age' = [age EXCEPT ![u] = CacheTtl]
    /\ cached' = [cached EXCEPT ![u] = {}]
    /\ UNCHANGED <<roleTables, tokens, request, edit>>

-----------------------------------------------------------------------------
(***************************************************************************)
(* What changes under the guards.                                          *)
(***************************************************************************)

\* RoleService.createRole: a role and its permissions in one statement.
CreateRole(x, permissions) ==
    /\ x \notin roles
    /\ roles' = roles \cup {x}
    /\ grants' = [grants EXCEPT ![x] = permissions]
    /\ UNCHANGED <<members, held, resolverCache, tokens, request, edit>>

UpdateRolePermissions(e, x, wanted) ==
    /\ edit[e].step = "idle"
    /\ x \in roles \ FullRole
    /\ edit' = [edit EXCEPT ![e] =
                   [step |-> "delete", role |-> x, wanted |-> wanted, rows |-> {}]]
    /\ UNCHANGED <<roleTables, resolverCache, tokens, request>>

\* The DELETE begins: it will remove the rows it sees now and no others.
SnapshotRows(e) ==
    /\ edit[e].step = "delete"
    /\ edit' = [edit EXCEPT ![e].step = "wait", ![e].rows = grants[edit[e].role]]
    /\ UNCHANGED <<roleTables, resolverCache, tokens, request>>

\* It ends once nobody else has one of those rows locked.
LockRows(e) ==
    /\ edit[e].step = "wait"
    /\ \A f \in Edit \ {e} :
           edit[f].step = "locked" /\ edit[f].role = edit[e].role
           => edit[f].rows \cap edit[e].rows = {}
    /\ edit' = [edit EXCEPT ![e].step = "locked"]
    /\ UNCHANGED <<roleTables, resolverCache, tokens, request>>

\* The INSERT and the commit.  A row deleted here is gone for whoever waits
\* for it, and the row inserted in its place is not one of those it saw.
InsertRows(e) ==
    /\ edit[e].step = "locked"
    /\ grants' = [grants EXCEPT ![edit[e].role] = (@ \ edit[e].rows) \cup edit[e].wanted]
    /\ edit' = [f \in Edit |->
                   IF f = e THEN NoEdit
                   ELSE IF edit[f].role = edit[e].role
                   THEN [edit[f] EXCEPT !.rows = @ \ edit[e].rows]
                   ELSE edit[f]]
    /\ UNCHANGED <<roles, members, held, resolverCache, tokens, request>>

\* The assignments at one branch are revoked and a new one is inserted, in a
\* transaction; the same role may stay at another branch.
UpdateRoleAssignment(u, revoked, x) ==
    /\ revoked \subseteq members[u]
    /\ x \in roles
    /\ members' = [members EXCEPT ![u] = (@ \ revoked) \cup {x}]
    /\ held' = [held EXCEPT ![u] = @ \cup {x}]
    /\ UNCHANGED <<roles, grants, resolverCache, tokens, request, edit>>

\* The part of deactivateStaff that the guards notice.
WithdrawRoles(u) ==
    /\ members[u] # {}
    /\ members' = [members EXCEPT ![u] = {}]
    /\ UNCHANGED <<roles, grants, held, resolverCache, tokens, request, edit>>

\* Mutation: the key gets the life of a platform token.
LogoutBriefly(t) ==
    /\ life[t] > 0 /\ t \notin left
    /\ denied' = [denied EXCEPT ![t] = PlatformLife]
    /\ left' = left \cup {t}
    /\ UNCHANGED <<roleTables, resolverCache, life, request, edit>>

\* logoutCurrent: the key lives as long as a tenant's token, whatever t is
\* and however much of its life is over.  The refresh token and the session
\* follow in RefreshRotation.
Logout(t) ==
    /\ life[t] > 0 /\ t \notin left
    /\ denied' = [denied EXCEPT ![t] = TokenLife]
    /\ left' = left \cup {t}
    /\ UNCHANGED <<roleTables, resolverCache, life, request, edit>>

\* A session that goes on gets a new access token, which takes the place of
\* an expired one that no request still carries to the revocation check.
IssueAccessToken(t) ==
    /\ life[t] = 0 /\ t \notin left
    /\ \A r \in Request : At(r, "revocation") => request[r].token # t
    /\ life' = [life EXCEPT ![t] = FullLife(t)]
    /\ denied' = [denied EXCEPT ![t] = 0]
    /\ UNCHANGED <<roleTables, resolverCache, left, request, edit>>

Tick ==
    /\ \/ \E t \in Token : life[t] > 0 \/ denied[t] > 0
       \/ \E u \in User : Cached(u)
    /\ life' = [t \in Token |-> IF life[t] > 0 THEN life[t] - 1 ELSE 0]
    /\ denied' = [t \in Token |-> IF denied[t] > 0 THEN denied[t] - 1 ELSE 0]
    /\ age' = [u \in User |-> IF Cached(u) THEN age[u] + 1 ELSE CacheTtl]
    /\ cached' = [u \in User |-> IF age'[u] < CacheTtl THEN cached[u] ELSE {}]
    /\ UNCHANGED <<roleTables, left, request, edit>>

-----------------------------------------------------------------------------
RequestStep(r) ==
    \/ CheckRevocation(r) \/ DecideUnresolved(r)
    \/ CacheHit(r) \/ CacheMiss(r)
    \/ ReadMemberships(r) \/ ReadGrants(r)
    \/ Answer(r)

EditStep(e) == SnapshotRows(e) \/ LockRows(e) \/ InsertRows(e)

Step ==
    \/ \E r \in Request : RequestStep(r)
    \/ \E r \in Request, t \in Token, route \in Served : Arrive(r, t, route)
    \/ \E u \in User : Evict(u) \/ WithdrawRoles(u)
    \/ \E u \in User, x \in Role :
           \E revoked \in SUBSET members[u] : UpdateRoleAssignment(u, revoked, x)
    \/ \E x \in Role, permissions \in SUBSET Permission :
           \/ CreateRole(x, permissions)
           \/ \E e \in Edit : UpdateRolePermissions(e, x, permissions)
    \/ \E e \in Edit : EditStep(e)
    \/ \E t \in Token : Logout(t) \/ IssueAccessToken(t)
    \/ Tick

\* could follows the tables.
Following == could' = [u \in User |-> could[u] \cup UNION {grants'[x] : x \in held'[u]}]

Next == Step /\ Following

\* Time passes, and a request that has begun goes on.
Fairness ==
    /\ WF_vars(Tick /\ Following)
    /\ \A r \in Request : WF_vars(RequestStep(r) /\ Following)

Spec == Init /\ [][Next]_vars /\ Fairness

-----------------------------------------------------------------------------
(***************************************************************************)
(* Properties.                                                             *)
(***************************************************************************)

\* PermissionResolver: a request in the middle of loading knows only roles
\* its user has had, ...
SeenWasHeld ==
    \A r \in Request : At(r, "grants") => request[r].seen \subseteq held[UserOf(r)]

\* ... so that however role changes, replacements of permissions and the two
\* reads of the resolver interleave, nothing is cached for a user, and no
\* handler is reached, but by what one of the user's roles, revoked or not,
\* has carried since.
HonouredOnceGranted ==
    /\ SeenWasHeld
    /\ \A u \in User : cached[u] \subseteq could[u]
    /\ \A r \in Request : At(r, "handler") =>
           /\ request[r].route.needs \subseteq could[UserOf(r)]
           /\ request[r].route.tenantOnly => request[r].token \notin PlatformToken

\* LogoutService and TokenRevocationService: from the first step of a logout
\* to the end of the token's life the key is there, for tokens of either
\* scope and of any age, so the token passes no guard again.
KeyOutlivesToken ==
    \A t \in left : life[t] > 0 => denied[t] > 0

\* PermissionResolver: once nobody touches assignments and permissions any
\* more, every entry is in time what the tables say, however many requests
\* keep using it, and whatever a request read before the last change.
EntriesSettle ==
    <>[][UNCHANGED <<members, grants>>]_vars =>
    <>[](\A u \in User : Cached(u) => cached[u] = Entitled(u))

\* roles/README.md: an update replaces the permissions of a role in full.
ReplacedInFull ==
    [][\A x \in roles : grants'[x] # grants[x] =>
           \E e \in Edit : edit[e].role = x /\ edit[e].wanted = grants'[x]]_vars
=============================================================================
