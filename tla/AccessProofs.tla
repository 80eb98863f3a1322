---------------------------- MODULE AccessProofs ----------------------------
(***************************************************************************)
(* For any users, roles, permissions, tokens, requests and lifetimes: what *)
(* Access promises of cached permissions and of revoked tokens.            *)
(***************************************************************************)
EXTENDS Access, TLAPS

USE DEF roleTables, resolverCache, tokens

\* A request on its way carries a token and a route.
Fits(p) == p \in Progress /\ (p.step # "idle" => p.token \in Token /\ p.route \in Served)

RequestsFit == \A r \in Request : Fits(request[r])

\* An assignment that is active is an assignment.
MembersHeld == \A u \in User : members[u] \subseteq held[u]

RolesTyped ==
    /\ roles \subseteq Role
    /\ grants \in [Role -> SUBSET Permission]
    /\ members \in [User -> SUBSET Role] /\ held \in [User -> SUBSET Role]
    /\ MembersHeld

CacheTyped == cached \in [User -> SUBSET Permission] /\ age \in [User -> 0..CacheTtl]

TokensTyped ==
    /\ life \in [Token -> 0..TokenLife] /\ denied \in [Token -> 0..TokenLife]
    /\ left \subseteq Token

RequestsTyped == request \in [Request -> Progress] /\ RequestsFit

EditFits(p) == p \in Replacement /\ (p.step # "idle" => p.role \in Role)

EditsTyped == edit \in [Edit -> Replacement] /\ \A e \in Edit : EditFits(edit[e])

Typed ==
    /\ RolesTyped /\ CacheTyped /\ TokensTyped /\ RequestsTyped /\ EditsTyped
    /\ could \in [User -> SUBSET Permission]

LEMMA IdleFits == Fits(Idle) /\ Idle.step = "idle"
  BY DEF Fits, Idle, Progress

\* Only r moves: to another step, with the token and the route it has, ...
LEMMA GotoMoves ==
  ASSUME request \in [Request -> Progress], RequestsFit, NEW r \in Request,
         NEW step \in {"permissions", "memberships", "handler"}, ~At(r, "idle"), Goto(r, step)
  PROVE  /\ request' \in [Request -> Progress]
         /\ RequestsFit'
         /\ request'[r].step = step
         /\ request'[r].token = request[r].token
         /\ request'[r].route = request[r].route
         /\ request'[r].seen = request[r].seen
         /\ \A q \in Request \ {r} : request'[q] = request[q]
<1> DEFINE p == [request[r] EXCEPT !.step = step]
<1>1. request[r] \in Progress /\ Fits(request[r]) /\ request[r].step # "idle"
  BY DEF RequestsFit, At
<1>2. /\ p \in Progress /\ p.step = step /\ p.token = request[r].token
      /\ p.route = request[r].route /\ p.seen = request[r].seen
  BY <1>1 DEF Progress
<1>3. Fits(p)
  BY <1>1, <1>2 DEF Fits
<1> HIDE DEF p
<1>4. request' = [request EXCEPT ![r] = p]
  BY DEF Goto, p
<1>5. /\ request' \in [Request -> Progress] /\ request'[r] = p
      /\ \A q \in Request \ {r} : request'[q] = request[q]
  BY <1>2, <1>4
<1>6. \A q \in Request : Fits(request'[q])
  BY <1>3, <1>5 DEF RequestsFit
<1> QED
  BY <1>2, <1>5, <1>6 DEF RequestsFit

\* ... or out.
LEMMA FinishMoves ==
  ASSUME request \in [Request -> Progress], RequestsFit, NEW r \in Request, Finish(r)
  PROVE  /\ request' \in [Request -> Progress]
         /\ RequestsFit'
         /\ request'[r].step = "idle"
         /\ \A q \in Request \ {r} : request'[q] = request[q]
<1>1. Idle \in Progress
  BY IdleFits DEF Fits
<1>2. /\ request' \in [Request -> Progress] /\ request'[r] = Idle
      /\ \A q \in Request \ {r} : request'[q] = request[q]
  BY <1>1 DEF Finish
<1>3. \A q \in Request : Fits(request'[q])
  BY <1>2, IdleFits DEF RequestsFit
<1> QED
  BY <1>2, <1>3, IdleFits DEF RequestsFit

\* A request that reaches the handler passed both guards.
LEMMA DecideMoves ==
  ASSUME request \in [Request -> Progress], RequestsFit, NEW r \in Request,
         NEW permissions, ~At(r, "idle"), Decide(r, permissions)
  PROVE  /\ request' \in [Request -> Progress]
         /\ RequestsFit'
         /\ request'[r].step \in {"idle", "handler"}
         /\ request'[r].step = "handler" =>
               /\ request'[r].token = request[r].token
               /\ request'[r].route = request[r].route
               /\ PassesPermissions(request[r].route, permissions)
               /\ PassesScope(request[r].route, ScopeOf(request[r].token))
         /\ \A q \in Request \ {r} : request'[q] = request[q]
<1>1. CASE Finish(r)
  BY <1>1, FinishMoves
<1>2. CASE /\ Goto(r, "handler")
           /\ PassesPermissions(request[r].route, permissions)
           /\ PassesScope(request[r].route, ScopeOf(request[r].token))
  BY <1>2, GotoMoves
<1> QED
  BY <1>1, <1>2 DEF Decide

-----------------------------------------------------------------------------
(***************************************************************************)
(* Types.                                                                  *)
(***************************************************************************)

LEMMA TypedSuffices == Typed => TypeOK
  BY DEF Typed, TypeOK, RolesTyped, CacheTyped, TokensTyped, RequestsTyped, EditsTyped

LEMMA InitTyped == Init => Typed
<1> SUFFICES ASSUME Init PROVE Typed
  OBVIOUS
<1>1. RequestsTyped
  BY IdleFits DEF Init, RequestsTyped, RequestsFit, Fits
<1>2. EditsTyped
  BY DEF Init, EditsTyped, EditFits, NoEdit, Replacement
<1>3. TokensTyped
  BY LifeAssumption DEF Init, FullLife, TokensTyped
<1>4. CacheTyped
  BY LifeAssumption DEF Init, CacheTyped
<1>5. RolesTyped
  BY RoleAssumption DEF Init, RolesTyped, MembersHeld
<1> QED
  BY <1>1, <1>2, <1>3, <1>4, <1>5 DEF Init, Typed

LEMMA StoreTyped ==
  ASSUME CacheTyped, NEW u \in User, NEW permissions \in SUBSET Permission,
         Store(u, permissions)
  PROVE  CacheTyped'
  BY LifeAssumption DEF CacheTyped, Store

LEMMA CarriedTyped ==
  ASSUME RolesTyped, NEW xs \in SUBSET Role
  PROVE  Carried(xs) \in SUBSET Permission
  BY DEF RolesTyped, Carried

LEMMA BearerTyped ==
  ASSUME RequestsTyped, NEW r \in Request, ~At(r, "idle")
  PROVE  /\ request[r].token \in Token /\ request[r].route \in Served
         /\ UserOf(r) \in User /\ request[r].seen \in SUBSET Role
  BY TokenAssumption DEF RequestsTyped, RequestsFit, Fits, At, UserOf, Progress

LEMMA RequestStepTyped ==
  ASSUME Typed, NEW r \in Request, RequestStep(r)
  PROVE  CacheTyped' /\ RequestsTyped'
<1> USE DEF Typed, RequestsTyped
<1>0. CacheTyped /\ UNCHANGED resolverCache => CacheTyped'
  BY DEF CacheTyped
<1>1. ASSUME CheckRevocation(r) PROVE CacheTyped' /\ RequestsTyped'
  <2>1. ~At(r, "idle")
    BY <1>1 DEF CheckRevocation, At
  <2>2. CASE Finish(r)
    BY <1>0, <1>1, <2>2, FinishMoves DEF CheckRevocation
  <2>3. CASE Goto(r, "permissions")
    BY <1>0, <1>1, <2>1, <2>3, GotoMoves DEF CheckRevocation
  <2> QED
    BY <1>1, <2>2, <2>3 DEF CheckRevocation
<1>2. ASSUME DecideUnresolved(r) PROVE CacheTyped' /\ RequestsTyped'
  <2>1. ~At(r, "idle")
    BY <1>2 DEF DecideUnresolved, At
  <2> QED
    BY <1>0, <1>2, <2>1, DecideMoves DEF DecideUnresolved
<1>3. ASSUME CacheHit(r) PROVE CacheTyped' /\ RequestsTyped'
  <2>1. ~At(r, "idle")
    BY <1>3 DEF CacheHit, AsksResolver, At
  <2> QED
    BY <1>0, <1>3, <2>1, DecideMoves DEF CacheHit
<1>4. ASSUME CacheMiss(r) PROVE CacheTyped' /\ RequestsTyped'
  <2>1. ~At(r, "idle")
    BY <1>4 DEF CacheMiss, AsksResolver, At
  <2> QED
    BY <1>0, <1>4, <2>1, GotoMoves DEF CacheMiss
<1>5. ASSUME ReadMemberships(r) PROVE CacheTyped' /\ RequestsTyped'
  <2>1. ~At(r, "idle")
    BY <1>5 DEF ReadMemberships, At
  <2>2. CASE Store(UserOf(r), {}) /\ Decide(r, {})
    BY <2>1, <2>2, BearerTyped, StoreTyped, DecideMoves
  <2>3. CASE /\ request' = [request EXCEPT ![r].step = "grants",
                                           ![r].seen = members[UserOf(r)]]
             /\ UNCHANGED resolverCache
    <3> DEFINE p == [request[r] EXCEPT !.step = "grants", !.seen = members[UserOf(r)]]
    <3>1. request[r] \in Progress /\ Fits(request[r]) /\ request[r].step # "idle"
      BY <2>1 DEF RequestsFit, At
    <3>2. members[UserOf(r)] \in SUBSET Role
      BY <2>1, BearerTyped DEF RolesTyped
    <3>3. p \in Progress /\ Fits(p)
      BY <3>1, <3>2 DEF Progress, Fits
    <3> HIDE DEF p
    <3>4. request' = [request EXCEPT ![r] = p]
      BY <2>3 DEF p
    <3>5. request' \in [Request -> Progress] /\ \A q \in Request : Fits(request'[q])
      BY <3>3, <3>4 DEF RequestsFit
    <3> QED
      BY <1>0, <2>3, <3>5 DEF RequestsFit
  <2> QED
    BY <1>5, <2>2, <2>3 DEF ReadMemberships
<1>6. ASSUME ReadGrants(r) PROVE CacheTyped' /\ RequestsTyped'
  <2>1. ~At(r, "idle")
    BY <1>6 DEF ReadGrants, At
  <2>2. UserOf(r) \in User /\ Carried(request[r].seen) \in SUBSET Permission
    BY <2>1, BearerTyped, CarriedTyped
  <2> QED
    BY <1>6, <2>1, <2>2, StoreTyped, DecideMoves DEF ReadGrants
<1>7. ASSUME Answer(r) PROVE CacheTyped' /\ RequestsTyped'
  BY <1>0, <1>7, FinishMoves DEF Answer
<1> QED
  BY <1>1, <1>2, <1>3, <1>4, <1>5, <1>6, <1>7 DEF RequestStep

LEMMA ArriveMoves ==
  ASSUME Typed, NEW r \in Request, NEW t \in Token, NEW route \in Served, Arrive(r, t, route)
  PROVE  /\ RequestsTyped'
         /\ request'[r].step = "revocation"
         /\ \A q \in Request \ {r} : request'[q] = request[q]
<1> DEFINE p == [step |-> "revocation", token |-> t, route |-> route, seen |-> {}]
<1>1. p \in Progress /\ Fits(p) /\ p.step = "revocation"
  BY DEF Progress, Fits
<1> HIDE DEF p
<1>2. request' = [request EXCEPT ![r] = p]
  BY DEF Arrive, p
<1>3. /\ request' \in [Request -> Progress] /\ request'[r] = p
      /\ \A q \in Request \ {r} : request'[q] = request[q]
  BY <1>1, <1>2 DEF Typed, RequestsTyped
<1>4. \A q \in Request : Fits(request'[q])
  BY <1>1, <1>3 DEF Typed, RequestsTyped, RequestsFit
<1> QED
  BY <1>1, <1>3, <1>4 DEF RequestsTyped, RequestsFit

\* What a step does not touch stays as it was.
LEMMA Untouched ==
  /\ RolesTyped /\ UNCHANGED roleTables => RolesTyped'
  /\ CacheTyped /\ UNCHANGED resolverCache => CacheTyped'
  /\ TokensTyped /\ UNCHANGED tokens => TokensTyped'
  /\ RequestsTyped /\ UNCHANGED request => RequestsTyped'
  /\ EditsTyped /\ UNCHANGED edit => EditsTyped'
  BY DEF RolesTyped, MembersHeld, CacheTyped, TokensTyped, RequestsTyped, RequestsFit, EditsTyped

LEMMA AssignmentTyped ==
  ASSUME RolesTyped, NEW u \in User, NEW x \in Role, NEW revoked \in SUBSET members[u],
         UpdateRoleAssignment(u, revoked, x) \/ WithdrawRoles(u)
  PROVE  RolesTyped' /\ \A v \in User : held[v] \subseteq held'[v]
<1>1. CASE UpdateRoleAssignment(u, revoked, x)
  <2>1. /\ members' = [members EXCEPT ![u] = (members[u] \ revoked) \cup {x}]
        /\ held' = [held EXCEPT ![u] = held[u] \cup {x}]
        /\ UNCHANGED <<roles, grants>>
    BY <1>1 DEF UpdateRoleAssignment
  <2>2. members' \in [User -> SUBSET Role] /\ held' \in [User -> SUBSET Role]
    BY <2>1 DEF RolesTyped
  <2>3. \A v \in User : held[v] \subseteq held'[v] /\ members'[v] \subseteq held'[v]
    BY <2>1 DEF RolesTyped, MembersHeld
  <2> QED
    BY <2>1, <2>2, <2>3 DEF RolesTyped, MembersHeld
<1>2. CASE WithdrawRoles(u)
  <2>1. members' = [members EXCEPT ![u] = {}] /\ UNCHANGED <<roles, grants, held>>
    BY <1>2 DEF WithdrawRoles
  <2>2. members' \in [User -> SUBSET Role]
    BY <2>1 DEF RolesTyped
  <2>3. \A v \in User : held[v] \subseteq held'[v] /\ members'[v] \subseteq held'[v]
    BY <2>1 DEF RolesTyped, MembersHeld
  <2> QED
    BY <2>1, <2>2, <2>3 DEF RolesTyped, MembersHeld
<1> QED
  BY <1>1, <1>2

LEMMA CreateRoleTyped ==
  ASSUME RolesTyped, NEW x \in Role, NEW permissions \in SUBSET Permission,
         CreateRole(x, permissions)
  PROVE  RolesTyped'
  BY DEF RolesTyped, MembersHeld, CreateRole

LEMMA ReplacementTyped ==
  ASSUME EditsTyped, NEW e \in Edit, NEW x \in Role, NEW wanted \in SUBSET Permission,
         UpdateRolePermissions(e, x, wanted)
  PROVE  EditsTyped'
<1> DEFINE p == [step |-> "delete", role |-> x, wanted |-> wanted, rows |-> {}]
<1>1. p \in Replacement /\ EditFits(p)
  BY DEF Replacement, EditFits
<1> HIDE DEF p
<1>2. edit' = [edit EXCEPT ![e] = p]
  BY DEF UpdateRolePermissions, p
<1> QED
  BY <1>1, <1>2 DEF EditsTyped

LEMMA EditStepTyped ==
  ASSUME RolesTyped, EditsTyped, NEW e \in Edit, EditStep(e)
  PROVE  EditsTyped' /\ RolesTyped'
<1>0. edit[e] \in Replacement /\ edit[e].role \in Role
  BY DEF EditsTyped, EditFits, EditStep, SnapshotRows, LockRows, InsertRows
<1>1. ASSUME SnapshotRows(e) PROVE EditsTyped' /\ RolesTyped'
  <2> DEFINE p == [edit[e] EXCEPT !.step = "wait", !.rows = grants[edit[e].role]]
  <2>1. p \in Replacement
    <3>1. grants[edit[e].role] \subseteq Permission
      BY <1>0 DEF RolesTyped
    <3> QED
      BY <1>0, <3>1 DEF Replacement
  <2>2. p.role = edit[e].role
    BY <1>0 DEF Replacement
  <2> HIDE DEF p
  <2>3. EditFits(p)
    BY <1>0, <2>1, <2>2 DEF EditFits
  <2>4. edit' = [edit EXCEPT ![e] = p]
    BY <1>1 DEF SnapshotRows, p
  <2>5. EditsTyped'
    BY <2>1, <2>3, <2>4 DEF EditsTyped
  <2> QED
    BY <1>1, <2>5, Untouched DEF SnapshotRows
<1>2. ASSUME LockRows(e) PROVE EditsTyped' /\ RolesTyped'
  <2> DEFINE p == [edit[e] EXCEPT !.step = "locked"]
  <2>1. p \in Replacement /\ EditFits(p)
    BY <1>0 DEF Replacement, EditFits
  <2> HIDE DEF p
  <2>2. edit' = [edit EXCEPT ![e] = p]
    BY <1>2 DEF LockRows, p
  <2> QED
    BY <1>2, <2>1, <2>2, Untouched DEF EditsTyped, LockRows
<1>3. ASSUME InsertRows(e) PROVE EditsTyped' /\ RolesTyped'
  <2> DEFINE p(f) == [edit[f] EXCEPT !.rows = edit[f].rows \ edit[e].rows]
  <2>1. NoEdit \in Replacement /\ EditFits(NoEdit)
    BY DEF NoEdit, Replacement, EditFits
  <2>2. ASSUME NEW f \in Edit PROVE p(f) \in Replacement /\ EditFits(p(f))
    BY DEF EditsTyped, Replacement, EditFits
  <2> HIDE DEF p
  <2>3. edit' = [f \in Edit |-> IF f = e THEN NoEdit
                                ELSE IF edit[f].role = edit[e].role THEN p(f) ELSE edit[f]]
    BY <1>3 DEF InsertRows, p
  <2>4. EditsTyped'
    BY <2>1, <2>2, <2>3 DEF EditsTyped
  <2>5. /\ grants' = [grants EXCEPT ![edit[e].role] =
                         (grants[edit[e].role] \ edit[e].rows) \cup edit[e].wanted]
        /\ UNCHANGED <<roles, members, held>>
    BY <1>3 DEF InsertRows
  <2>6. edit[e].wanted \in SUBSET Permission
    BY <1>0 DEF Replacement
  <2>7. RolesTyped'
    BY <2>5, <2>6 DEF RolesTyped, MembersHeld
  <2> QED
    BY <2>4, <2>7
<1> QED
  BY <1>1, <1>2, <1>3 DEF EditStep

LEMMA TickTyped ==
  ASSUME CacheTyped, TokensTyped, Tick
  PROVE  CacheTyped' /\ TokensTyped'
<1>1. /\ life' = [t \in Token |-> IF life[t] > 0 THEN life[t] - 1 ELSE 0]
      /\ denied' = [t \in Token |-> IF denied[t] > 0 THEN denied[t] - 1 ELSE 0]
      /\ age' = [u \in User |-> IF age[u] < CacheTtl THEN age[u] + 1 ELSE CacheTtl]
      /\ cached' = [u \in User |-> IF age'[u] < CacheTtl THEN cached[u] ELSE {}]
      /\ left' = left
  BY DEF Tick, Cached
<1>2. \A n \in 0..TokenLife : (IF n > 0 THEN n - 1 ELSE 0) \in 0..TokenLife
  BY LifeAssumption
<1>3. \A n \in 0..CacheTtl : (IF n < CacheTtl THEN n + 1 ELSE CacheTtl) \in 0..CacheTtl
  BY LifeAssumption
<1>4. life' \in [Token -> 0..TokenLife] /\ denied' \in [Token -> 0..TokenLife]
  BY <1>1, <1>2 DEF TokensTyped
<1>5. age' \in [User -> 0..CacheTtl] /\ cached' \in [User -> SUBSET Permission]
  BY <1>1, <1>3 DEF CacheTyped
<1> QED
  BY <1>1, <1>4, <1>5 DEF TokensTyped, CacheTyped

LEMMA FollowingTyped ==
  ASSUME RolesTyped', could \in [User -> SUBSET Permission], Following
  PROVE  could' \in [User -> SUBSET Permission]
  BY DEF RolesTyped, Following

LEMMA NextTyped == Typed /\ [Next]_vars => Typed'
<1> SUFFICES ASSUME Typed, [Next]_vars PROVE Typed'
  OBVIOUS
<1> USE DEF Typed
<1>1. CASE UNCHANGED vars
  BY <1>1, Untouched DEF vars
<1>2. CASE Next
  <2> DEFINE Tables == /\ RolesTyped' /\ CacheTyped' /\ TokensTyped' /\ RequestsTyped'
                       /\ EditsTyped'
  <2>1. ASSUME NEW r \in Request, RequestStep(r) PROVE Tables
    <3>1. UNCHANGED <<roleTables, tokens, edit>>
      BY <2>1 DEF RequestStep, CheckRevocation, DecideUnresolved, CacheHit, CacheMiss,
                  ReadMemberships, ReadGrants, Answer
    <3> QED
      BY <2>1, <3>1, RequestStepTyped, Untouched
  <2>2. ASSUME NEW r \in Request, NEW t \in Token, NEW route \in Served, Arrive(r, t, route)
        PROVE  Tables
    BY <2>2, ArriveMoves, Untouched DEF Arrive
  <2>3. ASSUME NEW u \in User, Evict(u) PROVE Tables
    <3>1. CacheTyped'
      BY <2>3, LifeAssumption DEF Evict, CacheTyped
    <3> QED
      BY <2>3, <3>1, Untouched DEF Evict
  <2>4. ASSUME NEW u \in User, WithdrawRoles(u) PROVE Tables
    <3>1. \A x \in Role, revoked \in SUBSET members[u] : RolesTyped'
      BY <2>4, AssignmentTyped
    <3>2. Role # {}
      BY <2>4 DEF WithdrawRoles, RolesTyped
    <3> QED
      BY <2>4, <3>1, <3>2, Untouched DEF WithdrawRoles
  <2>5. ASSUME NEW u \in User, NEW x \in Role, NEW revoked \in SUBSET members[u],
               UpdateRoleAssignment(u, revoked, x)
        PROVE  Tables
    BY <2>5, AssignmentTyped, Untouched DEF UpdateRoleAssignment
  <2>6. ASSUME NEW x \in Role, NEW permissions \in SUBSET Permission,
               CreateRole(x, permissions)
        PROVE  Tables
    BY <2>6, CreateRoleTyped, Untouched DEF CreateRole
  <2>7. ASSUME NEW e \in Edit, NEW x \in Role, NEW permissions \in SUBSET Permission,
               UpdateRolePermissions(e, x, permissions)
        PROVE  Tables
    BY <2>7, ReplacementTyped, Untouched DEF UpdateRolePermissions
  <2>8. ASSUME NEW e \in Edit, EditStep(e) PROVE Tables
    <3>1. UNCHANGED <<resolverCache, tokens, request>>
      BY <2>8 DEF EditStep, SnapshotRows, LockRows, InsertRows
    <3> QED
      BY <2>8, <3>1, EditStepTyped, Untouched
  <2>9. ASSUME NEW t \in Token, Logout(t) PROVE Tables
    <3>1. TokensTyped'
      BY <2>9, LifeAssumption DEF Logout, TokensTyped
    <3> QED
      BY <2>9, <3>1, Untouched DEF Logout
  <2>10. ASSUME NEW t \in Token, IssueAccessToken(t) PROVE Tables
    <3>1. TokensTyped'
      BY <2>10, LifeAssumption DEF IssueAccessToken, TokensTyped, FullLife
    <3> QED
      BY <2>10, <3>1, Untouched DEF IssueAccessToken
  <2>11. ASSUME Tick PROVE Tables
    BY <2>11, TickTyped, Untouched DEF Tick
  <2>12. Tables
    BY <1>2, <2>1, <2>2, <2>3, <2>4, <2>5, <2>6, <2>7, <2>8, <2>9, <2>10, <2>11
    DEF Next, Step
  <2> QED
    BY <1>2, <2>12, FollowingTyped DEF Next
<1> QED
  BY <1>1, <1>2

\* The tables, the cache, the lifetimes and whatever a request or a
\* replacement remembers keep their types.
THEOREM TypeCorrect == Spec => []TypeOK
<1>1. Spec => []Typed
  BY InitTyped, NextTyped, PTL DEF Spec
<1> QED
  BY <1>1, TypedSuffices, PTL

-----------------------------------------------------------------------------
(***************************************************************************)
(* Revoked tokens.                                                         *)
(***************************************************************************)

\* The key of a token that was logged out does not expire before the token.
KeyCovers == \A t \in left : life[t] <= denied[t]

LEMMA KeyCoversSuffices == Typed /\ KeyCovers => KeyOutlivesToken
  BY LifeAssumption DEF Typed, TokensTyped, KeyCovers, KeyOutlivesToken

LEMMA NextKeyCovers == Typed /\ KeyCovers /\ [Next]_vars => KeyCovers'
<1> SUFFICES ASSUME Typed, KeyCovers, [Next]_vars PROVE KeyCovers'
  OBVIOUS
<1> USE DEF Typed
<1>1. ASSUME UNCHANGED tokens PROVE KeyCovers'
  BY <1>1 DEF KeyCovers
<1>2. ASSUME NEW t \in Token, Logout(t) PROVE KeyCovers'
  <2>1. /\ denied' = [denied EXCEPT ![t] = TokenLife]
        /\ left' = left \cup {t}
        /\ life' = life
    BY <1>2 DEF Logout
  <2>2. life[t] <= TokenLife
    BY LifeAssumption DEF TokensTyped
  <2> QED
    BY <2>1, <2>2 DEF TokensTyped, KeyCovers
<1>3. ASSUME NEW t \in Token, IssueAccessToken(t) PROVE KeyCovers'
  BY <1>3 DEF IssueAccessToken, TokensTyped, KeyCovers
<1>4. ASSUME Tick PROVE KeyCovers'
  <2>1. /\ life' = [t \in Token |-> IF life[t] > 0 THEN life[t] - 1 ELSE 0]
        /\ denied' = [t \in Token |-> IF denied[t] > 0 THEN denied[t] - 1 ELSE 0]
        /\ left' = left
    BY <1>4 DEF Tick
  <2>2. \A t \in left : life[t] \in Nat /\ denied[t] \in Nat /\ t \in Token
    BY LifeAssumption DEF TokensTyped
  <2> QED
    BY <2>1, <2>2 DEF KeyCovers
<1>5. Next => \/ UNCHANGED tokens
              \/ \E t \in Token : Logout(t) \/ IssueAccessToken(t)
              \/ Tick
  BY DEF Next, Step, RequestStep, CheckRevocation, DecideUnresolved, CacheHit, CacheMiss,
         ReadMemberships, ReadGrants, Answer, Arrive, Evict, WithdrawRoles,
         UpdateRoleAssignment, CreateRole, UpdateRolePermissions, EditStep, SnapshotRows,
         LockRows, InsertRows
<1>6. UNCHANGED vars => UNCHANGED tokens
  BY DEF vars
<1> QED
  BY <1>1, <1>2, <1>3, <1>4, <1>5, <1>6

\* A token of either scope that was logged out, at any age, has its key in
\* Redis for the rest of its life.
THEOREM KeyOutlives == Spec => []KeyOutlivesToken
<1>1. Init => KeyCovers
  BY DEF Init, KeyCovers
<1>2. Spec => [](Typed /\ KeyCovers)
  BY <1>1, InitTyped, NextTyped, NextKeyCovers, PTL DEF Spec
<1> QED
  BY <1>2, KeyCoversSuffices, PTL

-----------------------------------------------------------------------------
(***************************************************************************)
(* Permissions.                                                            *)
(***************************************************************************)

\* could keeps up with the tables.
CouldCovers == \A u \in User : Carried(held[u]) \subseteq could[u]

CacheHonest == \A u \in User : cached[u] \subseteq could[u]

\* One request: it is for a guarded route, it has seen roles its user has had,
\* and its handler runs by what they have carried.
Honest(r) ==
    /\ ~At(r, "idle") => ~request[r].route.public
    /\ At(r, "grants") => request[r].seen \subseteq held[UserOf(r)]
    /\ At(r, "handler") =>
           /\ request[r].route.needs \subseteq could[UserOf(r)]
           /\ request[r].route.tenantOnly => request[r].token \notin PlatformToken

Honoured == CouldCovers /\ CacheHonest /\ \A r \in Request : Honest(r)

Grows ==
    \A u \in User : held[u] \subseteq held'[u] /\ could[u] \subseteq could'[u]

LEMMA HonouredSuffices == Honoured => HonouredOnceGranted
  BY DEF Honoured, Honest, CacheHonest, HonouredOnceGranted, SeenWasHeld

LEMMA NextGrows == Typed /\ [Next]_vars => Grows /\ (CouldCovers => CouldCovers')
<1> SUFFICES ASSUME Typed, [Next]_vars PROVE Grows /\ (CouldCovers => CouldCovers')
  OBVIOUS
<1>1. CASE UNCHANGED vars
  BY <1>1 DEF vars, Grows, CouldCovers, Carried
<1>2. CASE Next
  <2>1. \A u \in User : could[u] \subseteq could'[u]
    BY <1>2 DEF Next, Following
  <2>2. CouldCovers'
    BY <1>2 DEF Next, Following, CouldCovers, Carried
  <2>3. ASSUME NEW v \in User, NEW x \in Role, NEW revoked \in SUBSET members[v],
               UpdateRoleAssignment(v, revoked, x)
        PROVE  \A u \in User : held[u] \subseteq held'[u]
    BY <2>3, AssignmentTyped DEF Typed
  <2>4. \/ UNCHANGED held
        \/ \E v \in User, x \in Role : \E revoked \in SUBSET members[v] :
               UpdateRoleAssignment(v, revoked, x)
    BY <1>2
    DEF Next, Step, RequestStep, CheckRevocation, DecideUnresolved, CacheHit, CacheMiss,
        ReadMemberships, ReadGrants, Answer, Arrive, Evict, WithdrawRoles, CreateRole,
        UpdateRolePermissions, EditStep, SnapshotRows, LockRows, InsertRows, Logout,
        IssueAccessToken, Tick
  <2>5. \A u \in User : held[u] \subseteq held'[u]
    BY <2>3, <2>4
  <2> QED
    BY <2>1, <2>2, <2>5 DEF Grows
<1> QED
  BY <1>1, <1>2

\* A request that stays where it is remains honest.
LEMMA StaysHonest ==
  ASSUME Typed, Grows, NEW q \in Request, Honest(q), request'[q] = request[q]
  PROVE  Honest(q)'
<1>1. ~At(q, "idle") => UserOf(q) \in User /\ UserOf(q)' = UserOf(q)
  BY BearerTyped DEF Typed, UserOf
<1> QED
  BY <1>1 DEF Honest, At, Grows

\* A decision on permissions the user's roles have carried is honest.
LEMMA DecidesHonestly ==
  ASSUME Typed, Grows, NEW r \in Request, Honest(r), ~At(r, "idle"),
         NEW permissions, permissions \subseteq could[UserOf(r)], Decide(r, permissions)
  PROVE  Honest(r)' /\ \A q \in Request \ {r} : request'[q] = request[q]
<1>1. /\ request'[r].step \in {"idle", "handler"}
      /\ request'[r].step = "handler" =>
            /\ request'[r].token = request[r].token
            /\ request'[r].route = request[r].route
            /\ PassesPermissions(request[r].route, permissions)
            /\ PassesScope(request[r].route, ScopeOf(request[r].token))
      /\ \A q \in Request \ {r} : request'[q] = request[q]
  BY DecideMoves DEF Typed, RequestsTyped
<1>2. UserOf(r) \in User
  BY BearerTyped DEF Typed
<1>3. could[UserOf(r)] \subseteq could'[UserOf(r)]
  BY <1>2 DEF Grows
<1>4. ASSUME request'[r].step = "handler"
      PROVE  /\ UserOf(r)' = UserOf(r)
             /\ request'[r].route.needs \subseteq could'[UserOf(r)]
             /\ request'[r].route.tenantOnly => request'[r].token \notin PlatformToken
             /\ ~request'[r].route.public
  <2>1. ~request[r].route.public
    BY DEF Honest
  <2>2. request[r].route.tenantOnly => request[r].token \notin PlatformToken
    BY <1>1, <1>4, <2>1 DEF PassesScope, ScopeOf
  <2> QED
    BY <1>1, <1>3, <1>4, <2>1, <2>2 DEF PassesPermissions, UserOf
<1> QED
  BY <1>1, <1>4 DEF Honest, At

LEMMA StoreHonest ==
  ASSUME Typed, Grows, CacheHonest, NEW u \in User, NEW permissions,
         permissions \subseteq could[u], Store(u, permissions)
  PROVE  CacheHonest'
<1>1. cached' = [cached EXCEPT ![u] = permissions]
  BY DEF Store
<1>2. \A v \in User : cached'[v] = IF v = u THEN permissions ELSE cached[v]
  BY <1>1 DEF Typed, CacheTyped
<1> QED
  BY <1>2 DEF CacheHonest, Grows

LEMMA RequestHonest ==
  ASSUME Typed, Grows, Honoured, NEW r \in Request, RequestStep(r)
  PROVE  /\ CacheHonest' /\ Honest(r)'
         /\ \A q \in Request \ {r} : request'[q] = request[q]
<1> USE DEF Honoured
<1> DEFINE Goal == /\ CacheHonest' /\ Honest(r)'
                   /\ \A q \in Request \ {r} : request'[q] = request[q]
<1>0. UNCHANGED resolverCache => CacheHonest'
  BY DEF CacheHonest, Grows
<1>a. RequestsTyped /\ request \in [Request -> Progress] /\ RequestsFit /\ Honest(r)
  BY DEF Typed, RequestsTyped
<1>b. ASSUME Finish(r)
      PROVE  Honest(r)' /\ \A q \in Request \ {r} : request'[q] = request[q]
  BY <1>a, <1>b, FinishMoves DEF Honest, At
<1>c. ASSUME NEW step \in {"permissions", "memberships"}, ~At(r, "idle"), Goto(r, step)
      PROVE  Honest(r)' /\ \A q \in Request \ {r} : request'[q] = request[q]
  BY <1>a, <1>c, GotoMoves DEF Honest, At
<1>1. ASSUME CheckRevocation(r) PROVE Goal
  BY <1>0, <1>1, <1>b, <1>c DEF CheckRevocation, At
<1>2. ASSUME DecideUnresolved(r) PROVE Goal
  <2>1. ~At(r, "idle") /\ Decide(r, {}) /\ UNCHANGED resolverCache
    BY <1>2 DEF DecideUnresolved, At
  <2> QED
    BY <1>0, <1>a, <2>1, DecidesHonestly
<1>3. ASSUME CacheHit(r) PROVE Goal
  <2>1. ~At(r, "idle") /\ Decide(r, cached[UserOf(r)]) /\ UNCHANGED resolverCache
    BY <1>3 DEF CacheHit, AsksResolver, At
  <2>2. cached[UserOf(r)] \subseteq could[UserOf(r)]
    BY <1>a, <2>1, BearerTyped DEF CacheHonest
  <2> QED
    BY <1>0, <1>a, <2>1, <2>2, DecidesHonestly
<1>4. ASSUME CacheMiss(r) PROVE Goal
  BY <1>0, <1>4, <1>c DEF CacheMiss, AsksResolver, At
<1>5. ASSUME ReadMemberships(r) PROVE Goal
  <2>1. ~At(r, "idle")
    BY <1>5 DEF ReadMemberships, At
  <2>2. UserOf(r) \in User
    BY <1>a, <2>1, BearerTyped
  <2>3. CASE Store(UserOf(r), {}) /\ Decide(r, {})
    BY <1>a, <2>1, <2>2, <2>3, StoreHonest, DecidesHonestly
  <2>4. CASE /\ request' = [request EXCEPT ![r].step = "grants",
                                           ![r].seen = members[UserOf(r)]]
             /\ UNCHANGED resolverCache
    <3>1. /\ request'[r].step = "grants" /\ request'[r].seen = members[UserOf(r)]
          /\ request'[r].token = request[r].token /\ request'[r].route = request[r].route
          /\ \A q \in Request \ {r} : request'[q] = request[q]
      BY <1>a, <2>4 DEF Progress
    <3>2. members[UserOf(r)] \subseteq held'[UserOf(r)]
      BY <2>2 DEF Typed, RolesTyped, MembersHeld, Grows
    <3> QED
      BY <1>0, <1>a, <2>1, <2>4, <3>1, <3>2 DEF Honest, At, UserOf
  <2> QED
    BY <1>5, <2>3, <2>4 DEF ReadMemberships
<1>6. ASSUME ReadGrants(r) PROVE Goal
  <2>1. ~At(r, "idle") /\ request[r].seen \subseteq held[UserOf(r)]
    BY <1>6, <1>a DEF ReadGrants, At, Honest
  <2>2. UserOf(r) \in User
    BY <1>a, <2>1, BearerTyped
  <2>3. Carried(request[r].seen) \subseteq could[UserOf(r)]
    BY <2>1, <2>2 DEF CouldCovers, Carried
  <2>4. Store(UserOf(r), Carried(request[r].seen)) /\ Decide(r, Carried(request[r].seen))
    BY <1>6 DEF ReadGrants
  <2> QED
    BY <1>a, <2>1, <2>2, <2>3, <2>4, StoreHonest, DecidesHonestly
<1>7. ASSUME Answer(r) PROVE Goal
  BY <1>0, <1>7, <1>b DEF Answer
<1> QED
  BY <1>1, <1>2, <1>3, <1>4, <1>5, <1>6, <1>7 DEF RequestStep

LEMMA NextHonoured == Typed /\ Honoured /\ [Next]_vars => Honoured'
<1> SUFFICES ASSUME Typed, Honoured, [Next]_vars PROVE Honoured'
  OBVIOUS
<1>1. Grows /\ CouldCovers'
  BY NextGrows DEF Honoured
<1>2. ASSUME NEW q \in Request, request'[q] = request[q] PROVE Honest(q)'
  BY <1>1, <1>2, StaysHonest DEF Honoured
<1>3. ASSUME NEW r \in Request, RequestStep(r) PROVE Honoured'
  <2>1. /\ CacheHonest' /\ Honest(r)'
        /\ \A q \in Request \ {r} : request'[q] = request[q]
    BY <1>1, <1>3, RequestHonest
  <2> QED
    BY <1>1, <1>2, <2>1 DEF Honoured
<1>4. ASSUME NEW r \in Request, NEW t \in Token, NEW route \in Served, Arrive(r, t, route)
      PROVE  Honoured'
  <2>1. /\ request'[r].step = "revocation"
        /\ \A q \in Request \ {r} : request'[q] = request[q]
    BY <1>4, ArriveMoves
  <2>2. request'[r].route = route /\ ~route.public
    BY <1>4 DEF Arrive, Typed, RequestsTyped
  <2>3. Honest(r)'
    BY <2>1, <2>2 DEF Honest, At
  <2>4. CacheHonest'
    BY <1>1, <1>4 DEF Arrive, CacheHonest, Grows, Honoured
  <2> QED
    BY <1>1, <1>2, <2>1, <2>3, <2>4 DEF Honoured
<1>5. ASSUME NEW u \in User, Evict(u) PROVE Honoured'
  <2>1. request' = request /\ cached' = [cached EXCEPT ![u] = {}]
    BY <1>5 DEF Evict
  <2>2. CacheHonest'
    BY <1>1, <2>1 DEF Typed, CacheTyped, Honoured, CacheHonest, Grows
  <2> QED
    BY <1>1, <1>2, <2>1, <2>2 DEF Honoured
<1>6. ASSUME Tick PROVE Honoured'
  <2>1. /\ request' = request
        /\ cached' = [u \in User |-> IF age'[u] < CacheTtl THEN cached[u] ELSE {}]
    BY <1>6 DEF Tick
  <2>2. \A u \in User : cached'[u] \subseteq cached[u]
    BY <2>1
  <2>3. CacheHonest'
    BY <1>1, <2>2 DEF Honoured, CacheHonest, Grows
  <2> QED
    BY <1>1, <1>2, <2>1, <2>3 DEF Honoured
<1>7. ASSUME UNCHANGED <<resolverCache, request>> PROVE Honoured'
  <2>1. CacheHonest'
    BY <1>1, <1>7 DEF Honoured, CacheHonest, Grows
  <2> QED
    BY <1>1, <1>2, <1>7, <2>1 DEF Honoured
<1>8. UNCHANGED vars => UNCHANGED <<resolverCache, request>>
  BY DEF vars
<1>9. Next => \/ \E r \in Request : RequestStep(r)
              \/ \E r \in Request, t \in Token, route \in Served : Arrive(r, t, route)
              \/ \E u \in User : Evict(u)
              \/ Tick
              \/ UNCHANGED <<resolverCache, request>>
  BY DEF Next, Step, WithdrawRoles, UpdateRoleAssignment, CreateRole, UpdateRolePermissions,
         EditStep, SnapshotRows, LockRows, InsertRows, Logout, IssueAccessToken
<1> QED
  BY <1>3, <1>4, <1>5, <1>6, <1>7, <1>8, <1>9

\* However role changes, replacements of permissions, evictions and the reads
\* of the resolver interleave, a user's cache entry holds, and a handler runs
\* by, only what one of the user's roles has carried since the user had it.
THEOREM OnlyTheGrantedAreHonoured == Spec => []HonouredOnceGranted
<1>1. Init => Honoured
  BY IdleFits DEF Init, Honoured, CouldCovers, Carried, CacheHonest, Honest, At
<1>2. Spec => [](Typed /\ Honoured)
  BY <1>1, InitTyped, NextTyped, NextHonoured, PTL DEF Spec
<1> QED
  BY <1>2, HonouredSuffices, PTL
=============================================================================
