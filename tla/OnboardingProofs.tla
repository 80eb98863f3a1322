-------------------------- MODULE OnboardingProofs --------------------------
(***************************************************************************)
(* For any users, tenants, tokens, requests and any number of statements:  *)
(* accounts are verified, only the founder becomes an owner, and the       *)
(* lifecycle of a tenant is that of TenantLifecycle.                       *)
(***************************************************************************)
EXTENDS Onboarding, TLAPS

\* The steps at which a request acts for a user, and on a tenant.
ForUser == Step \ {"idle", "open", "suspend"}
OnTenant == Step \ {"idle", "guard", "membership", "older", "issue"}

\* What a request remembers suits the step it is at.
Fits(p) ==
    /\ p \in Progress
    /\ p.step \in ForUser => p.user \in User
    /\ p.step \in OnTenant => p.tenant \in Tenant
    /\ p.step \in {"exists", "create"} => p.applied = 0
    /\ p.step = "apply" => p.applied < Statements

RequestsFit == request \in [Request -> Progress] /\ \A r \in Request : Fits(request[r])

LEMMA ServingFits ==
  ASSUME NEW step \in Step, NEW u \in User \cup {NoUser}, NEW t \in Tenant \cup {NoTenant},
         NEW k \in Token \cup {NoToken}, NEW S \in SUBSET Token,
         step # "apply", step \in ForUser => u \in User, step \in OnTenant => t \in Tenant
  PROVE  Fits(Serving(step, u, t, k, 0, S))
  BY StatementsAssumption DEF Fits, Serving, Progress

LEMMA IdleFits == Fits(Idle) /\ Idle.step = "idle"
  BY StatementsAssumption DEF Fits, Idle, Serving, Progress, Step, ForUser, OnTenant

\* Only r moves, to the progress p.
LEMMA BeginMoves ==
  ASSUME request \in [Request -> Progress], NEW r \in Request, NEW p, Begin(r, p)
  PROVE  request'[r] = p /\ \A q \in Request \ {r} : request'[q] = request[q]
  BY DEF Begin

LEMMA BeginFits ==
  ASSUME RequestsFit, NEW r \in Request, NEW p, Fits(p), Begin(r, p)
  PROVE  RequestsFit'
<1>1. request' \in [Request -> Progress]
  BY DEF RequestsFit, Fits, Begin
<1>2. \A q \in Request : request'[q] = p \/ request'[q] = request[q]
  BY DEF RequestsFit, Begin
<1> QED
  BY <1>1, <1>2 DEF RequestsFit

LEMMA FinishFits ==
  ASSUME RequestsFit, NEW r \in Request, Finish(r)
  PROVE  RequestsFit'
  BY IdleFits, BeginFits DEF Finish

LEMMA EndFits ==
  ASSUME RequestsFit, NEW r \in Request, NEW step \in {"open", "suspend"},
         request[r].step \in OnTenant, End(r, step)
  PROVE  RequestsFit'
<1>1. request[r].tenant \in Tenant
  BY DEF RequestsFit, Fits
<1>2. Fits(Serving(step, NoUser, request[r].tenant, NoToken, 0, {}))
  BY <1>1, ServingFits DEF Step, ForUser
<1> QED
  BY <1>2, BeginFits DEF End

\* Only r moves, to the step given, and remembers what it did.
LEMMA GotoMoves ==
  ASSUME request \in [Request -> Progress], NEW r \in Request, NEW step \in Step, Goto(r, step)
  PROVE  /\ request' \in [Request -> Progress]
         /\ request'[r] = [request[r] EXCEPT !.step = step]
         /\ request'[r].step = step
         /\ request'[r].user = request[r].user
         /\ request'[r].tenant = request[r].tenant
         /\ request'[r].applied = request[r].applied
         /\ \A q \in Request \ {r} : request'[q] = request[q]
  BY DEF Goto, Progress

LEMMA GotoFits ==
  ASSUME RequestsFit, NEW r \in Request, NEW step \in Step, Goto(r, step),
         step \in ForUser => request[r].user \in User,
         step \in OnTenant => request[r].tenant \in Tenant,
         step \in {"exists", "create", "apply"} => request[r].applied = 0
  PROVE  RequestsFit'
<1>1. /\ request' \in [Request -> Progress]
      /\ request'[r].step = step
      /\ request'[r].user = request[r].user
      /\ request'[r].tenant = request[r].tenant
      /\ request'[r].applied = request[r].applied
      /\ \A q \in Request \ {r} : request'[q] = request[q]
  BY GotoMoves DEF RequestsFit
<1>2. Fits(request'[r])
  BY <1>1, StatementsAssumption DEF Fits
<1> QED
  BY <1>1, <1>2 DEF RequestsFit

-----------------------------------------------------------------------------
(***************************************************************************)
(* Types.                                                                  *)
(***************************************************************************)

CoreTyped ==
    /\ account \in [User -> UserStatus]
    /\ emailVerified \subseteq User
    /\ ownerUser \in [Tenant -> User \cup {NoUser}]
    /\ members \in [User -> [Tenant -> MembershipStatus]]
    /\ invitations \subseteq User \X Tenant

TenantTyped == tenant \in [Tenant -> TenantStatus]
TokensTyped == tokens \subseteq TokenRow /\ verified \subseteq Token /\ lapsed \subseteq Token
SchemaTyped ==
    /\ schemas \subseteq Tenant /\ seeded \subseteq Tenant
    /\ applied \in [Tenant -> 0 .. Statements]
    /\ owners \in [Tenant -> SUBSET User]

TablesTyped == CoreTyped /\ TenantTyped /\ TokensTyped /\ SchemaTyped

Typed == TypeOK /\ RequestsFit

LEMMA TypedParts == Typed <=> TablesTyped /\ RequestsFit
  BY DEF Typed, TypeOK, TablesTyped, CoreTyped, TenantTyped, TokensTyped, SchemaTyped, RequestsFit

LEMMA Unchanged ==
  ASSUME Typed
  PROVE  /\ UNCHANGED core => CoreTyped'
         /\ UNCHANGED tenant => TenantTyped'
         /\ UNCHANGED tokenTable => TokensTyped'
         /\ UNCHANGED schemaState => SchemaTyped'
         /\ UNCHANGED request => RequestsFit'
  BY TypedParts DEF TablesTyped, CoreTyped, TenantTyped, TokensTyped, SchemaTyped, RequestsFit,
                    core, tokenTable, schemaState

LEMMA InitTyped == Init => Typed
<1> SUFFICES ASSUME Init PROVE Typed
  OBVIOUS
<1>1. RequestsFit
  BY IdleFits DEF Init, RequestsFit, Fits
<1>2. TablesTyped
  BY StatementsAssumption
     DEF Init, TablesTyped, CoreTyped, TenantTyped, TokensTyped, SchemaTyped,
         UserStatus, TenantStatus, MembershipStatus
<1> QED
  BY <1>1, <1>2, TypedParts

LEMMA UnverifiedTokens ==
  ASSUME TokensTyped, NEW u
  PROVE  Unverified(u) \subseteq Token
  BY DEF TokensTyped, Unverified, TokenRow

LEMMA AccountTyped ==
  ASSUME Typed, AccountNext
  PROVE  TablesTyped' /\ RequestsFit'
<1> USE TypedParts DEF TablesTyped
<1>1. ASSUME NEW u \in User, NEW t \in Tenant, NEW k \in Token, Signup(u, t, k)
      PROVE  TablesTyped' /\ RequestsFit'
  <2>1. CoreTyped'
    BY <1>1 DEF Signup, CoreTyped, UserStatus, MembershipStatus
  <2>2. TenantTyped'
    BY <1>1 DEF Signup, TenantTyped, TenantStatus
  <2>3. TokensTyped'
    BY <1>1 DEF Signup, TokensTyped, TokenRow
  <2> QED
    BY <1>1, <2>1, <2>2, <2>3, Unchanged DEF Signup
<1>2. ASSUME NEW u \in User, NEW t \in Tenant, InviteStaff(u, t)
      PROVE  TablesTyped' /\ RequestsFit'
  <2>1. CoreTyped'
    BY <1>2 DEF InviteStaff, CoreTyped, UserStatus, MembershipStatus
  <2> QED
    BY <1>2, <2>1, Unchanged DEF InviteStaff
<1>3. ASSUME NEW u \in User, NEW t \in Tenant, AcceptInvite(u, t)
      PROVE  TablesTyped' /\ RequestsFit'
  <2>1. CoreTyped'
    BY <1>3 DEF AcceptInvite, CoreTyped, UserStatus, MembershipStatus
  <2> QED
    BY <1>3, <2>1, Unchanged DEF AcceptInvite
<1>4. ASSUME NEW u \in User, LockAccount(u)
      PROVE  TablesTyped' /\ RequestsFit'
  <2>1. CoreTyped'
    BY <1>4 DEF LockAccount, CoreTyped, UserStatus
  <2> QED
    BY <1>4, <2>1, Unchanged DEF LockAccount
<1>5. ASSUME NEW k \in Token, TokenExpires(k)
      PROVE  TablesTyped' /\ RequestsFit'
  <2>1. TokensTyped'
    BY <1>5 DEF TokenExpires, TokensTyped
  <2> QED
    BY <1>5, <2>1, Unchanged DEF TokenExpires
<1> QED
  BY <1>1, <1>2, <1>3, <1>4, <1>5 DEF AccountNext

LEMMA VerifyTyped ==
  ASSUME Typed, NEW r \in Request, VerifyNext(r)
  PROVE  TablesTyped' /\ RequestsFit'
<1> USE TypedParts DEF TablesTyped
<1>0. RequestsFit /\ request[r] \in Progress /\ Fits(request[r])
  BY DEF RequestsFit
<1>1. ASSUME NEW row \in tokens, VerifyEmail(r, row)
      PROVE  TablesTyped' /\ RequestsFit'
  <2>1. row.user \in User /\ row.id \in Token
    BY DEF TokensTyped, TokenRow
  <2>2. Fits(Serving("guard", row.user, NoTenant, row.id, 0, {}))
    BY <2>1, ServingFits DEF Step, OnTenant
  <2> QED
    BY <1>0, <1>1, <2>2, Unchanged, BeginFits DEF VerifyEmail
<1>2. ASSUME NEW u \in User, BypassVerify(r, u)
      PROVE  TablesTyped' /\ RequestsFit'
  <2>1. Fits(Serving("guard", u, NoTenant, NoToken, 0, {}))
    BY ServingFits DEF Step, OnTenant
  <2> QED
    BY <1>0, <1>2, <2>1, Unchanged, BeginFits DEF BypassVerify
<1>3. CASE CheckUser(r)
  <2>1. request[r].user \in User
    BY <1>0, <1>3 DEF CheckUser, At, Fits, ForUser, Step
  <2>2. RequestsFit'
    BY <1>0, <1>3, <2>1, FinishFits, GotoFits DEF CheckUser, Step, OnTenant
  <2> QED
    BY <1>3, <2>2, Unchanged DEF CheckUser
<1>4. ASSUME NEW t \in Tenant, FindMembership(r, t)
      PROVE  TablesTyped' /\ RequestsFit'
  <2> DEFINE step == IF request[r].token = NoToken THEN "retire" ELSE "activate"
  <2>1. request[r].user \in User /\ request[r].token \in Token \cup {NoToken}
    BY <1>0, <1>4 DEF FindMembership, At, Fits, ForUser, Step, Progress
  <2>2. step \in Step /\ step # "apply"
    BY DEF Step
  <2>3. Begin(r, Serving(step, request[r].user, t, request[r].token, 0, {}))
    BY <1>4 DEF FindMembership
  <2> HIDE DEF step
  <2>4. Fits(Serving(step, request[r].user, t, request[r].token, 0, {}))
    BY <2>1, <2>2, ServingFits
  <2> QED
    BY <1>0, <1>4, <2>3, <2>4, Unchanged, BeginFits DEF FindMembership
<1>5. CASE RetireTokens(r)
  <2> DEFINE p == [request[r] EXCEPT !.step = "activate",
                                     !.targets = Unverified(request[r].user)]
  <2>1. request[r].user \in User /\ request[r].tenant \in Tenant
    BY <1>0, <1>5 DEF RetireTokens, At, Fits, ForUser, OnTenant, Step
  <2>2. Unverified(request[r].user) \subseteq Token
    BY UnverifiedTokens
  <2>3. Fits(p)
    BY <1>0, <2>1, <2>2 DEF Fits, Progress, Step
  <2>4. Begin(r, p)
    BY <1>5 DEF RetireTokens
  <2> HIDE DEF p
  <2> QED
    BY <1>0, <1>5, <2>3, <2>4, Unchanged, BeginFits DEF RetireTokens
<1>6. CASE Activate(r)
  <2>1. /\ request[r].user \in User /\ request[r].tenant \in Tenant
        /\ request[r].token \in Token \cup {NoToken}
        /\ request[r].targets \subseteq Token
    BY <1>0, <1>6 DEF Activate, At, Fits, ForUser, OnTenant, Step, Progress
  <2>2. Fits(Serving("exists", request[r].user, request[r].tenant, NoToken, 0, {}))
    BY <2>1, ServingFits DEF Step
  <2>3. CoreTyped'
    BY <1>6, <2>1 DEF Activate, CoreTyped, UserStatus, MembershipStatus
  <2>4. TokensTyped'
    BY <1>6, <2>1 DEF Activate, TokensTyped
  <2> QED
    BY <1>0, <1>6, <2>2, <2>3, <2>4, Unchanged, BeginFits DEF Activate
<1> QED
  BY <1>1, <1>2, <1>3, <1>4, <1>5, <1>6 DEF VerifyNext

LEMMA ProvisionTyped ==
  ASSUME Typed, NEW r \in Request, ProvisionNext(r)
  PROVE  TablesTyped' /\ RequestsFit'
<1> USE TypedParts DEF TablesTyped
<1>0. RequestsFit /\ request[r] \in Progress /\ Fits(request[r])
  BY DEF RequestsFit
<1>1. CASE SchemaExists(r)
  <2>1. /\ request[r].user \in User /\ request[r].tenant \in Tenant
        /\ request[r].applied = 0 /\ request[r].step \in OnTenant
    BY <1>0, <1>1 DEF SchemaExists, At, Fits, ForUser, OnTenant, Step
  <2>2. RequestsFit'
    BY <1>0, <1>1, <2>1, EndFits, GotoFits DEF SchemaExists, Step
  <2> QED
    BY <1>1, <2>2, Unchanged DEF SchemaExists
<1>2. CASE CreateSchema(r)
  <2>1. request[r].user \in User /\ request[r].tenant \in Tenant /\ request[r].applied = 0
    BY <1>0, <1>2 DEF CreateSchema, At, Fits, ForUser, OnTenant, Step
  <2>2. RequestsFit'
    BY <1>0, <1>2, <2>1, GotoFits DEF CreateSchema, Step
  <2>3. SchemaTyped'
    BY <1>2, <2>1 DEF CreateSchema, SchemaTyped
  <2> QED
    BY <1>2, <2>2, <2>3, Unchanged DEF CreateSchema
<1>3. CASE ApplyStatement(r)
  <2>1. /\ request[r].user \in User /\ request[r].tenant \in Tenant
        /\ request[r].applied < Statements /\ request[r].applied \in 0 .. Statements
    BY <1>0, <1>3 DEF ApplyStatement, At, Fits, ForUser, OnTenant, Step, Progress
  <2> DEFINE n == request[r].applied + 1
             step == IF n = Statements THEN "seed" ELSE "apply"
  <2>2. n \in 0 .. Statements /\ step \in Step /\ (step = "apply" => n < Statements)
    BY <2>1, StatementsAssumption DEF Step
  <2>3. request' = [request EXCEPT ![r].applied = n, ![r].step = step]
    BY <1>3, <1>0 DEF ApplyStatement, RequestsFit, Progress
  <2>4. applied' = [applied EXCEPT ![request[r].tenant] = n]
    BY <1>3, <2>1 DEF ApplyStatement, SchemaTyped
  <2>5. step \in {"seed", "apply"}
    OBVIOUS
  <2> HIDE DEF n, step
  <2>6. SchemaTyped'
    BY <1>3, <2>2, <2>4 DEF ApplyStatement, SchemaTyped
  <2>7. /\ request' \in [Request -> Progress]
        /\ request'[r].step = step /\ request'[r].applied = n
        /\ request'[r].user = request[r].user /\ request'[r].tenant = request[r].tenant
        /\ \A q \in Request \ {r} : request'[q] = request[q]
    BY <1>0, <2>2, <2>3 DEF RequestsFit, Progress
  <2>8. Fits(request'[r])
    BY <2>1, <2>2, <2>5, <2>7 DEF Fits
  <2>9. RequestsFit'
    BY <1>0, <2>7, <2>8 DEF RequestsFit
  <2> QED
    BY <1>3, <2>6, <2>9, Unchanged DEF ApplyStatement
<1>4. CASE StatementFails(r)
  <2>1. request[r].step \in OnTenant
    BY <1>4 DEF StatementFails, At, OnTenant, Step
  <2> QED
    BY <1>0, <1>4, <2>1, EndFits, Unchanged DEF StatementFails
<1>5. CASE SeedTenantDefaults(r)
  <2>1. request[r].user \in User /\ request[r].tenant \in Tenant
    BY <1>0, <1>5 DEF SeedTenantDefaults, At, Fits, ForUser, OnTenant, Step
  <2>2. RequestsFit'
    BY <1>0, <1>5, <2>1, GotoFits DEF SeedTenantDefaults, Step
  <2>3. SchemaTyped'
    BY <1>5, <2>1 DEF SeedTenantDefaults, SchemaTyped
  <2> QED
    BY <1>5, <2>2, <2>3, Unchanged DEF SeedTenantDefaults
<1>6. CASE AssignOwnerRole(r)
  <2>1. request[r].user \in User /\ request[r].tenant \in Tenant /\ request[r].step \in OnTenant
    BY <1>0, <1>6 DEF AssignOwnerRole, At, Fits, ForUser, OnTenant, Step
  <2>2. RequestsFit'
    BY <1>0, <1>6, <2>1, EndFits DEF AssignOwnerRole
  <2>3. SchemaTyped'
    BY <1>6, <2>1 DEF AssignOwnerRole, SchemaTyped
  <2> QED
    BY <1>6, <2>2, <2>3, Unchanged DEF AssignOwnerRole
<1>7. CASE OpenTenant(r)
  <2>1. TenantTyped'
    BY <1>7 DEF OpenTenant, TenantTyped, TenantStatus
  <2> QED
    BY <1>0, <1>7, <2>1, FinishFits, Unchanged DEF OpenTenant
<1>8. CASE SuspendTenant(r)
  <2>1. TenantTyped'
    BY <1>8 DEF SuspendTenant, TenantTyped, TenantStatus
  <2> QED
    BY <1>0, <1>8, <2>1, FinishFits, Unchanged DEF SuspendTenant
<1>9. CASE ProvisioningFails(r)
  <2>1. request[r].step \in OnTenant
    BY <1>9 DEF ProvisioningFails, OnTenant, Step
  <2> QED
    BY <1>0, <1>9, <2>1, EndFits, Unchanged DEF ProvisioningFails
<1> QED
  BY <1>1, <1>2, <1>3, <1>4, <1>5, <1>6, <1>7, <1>8, <1>9 DEF ProvisionNext

LEMMA ResendTyped ==
  ASSUME Typed, NEW r \in Request, ResendNext(r) \/ Crash(r)
  PROVE  TablesTyped' /\ RequestsFit'
<1> USE TypedParts DEF TablesTyped
<1>0. RequestsFit /\ request[r] \in Progress /\ Fits(request[r])
  BY DEF RequestsFit
<1>1. ASSUME NEW u \in User, Resend(r, u)
      PROVE  TablesTyped' /\ RequestsFit'
  <2>1. Fits(Serving("older", u, NoTenant, NoToken, 0, {}))
    BY ServingFits DEF Step, OnTenant
  <2> QED
    BY <1>0, <1>1, <2>1, Unchanged, BeginFits DEF Resend
<1>2. CASE ExpireOlder(r)
  <2>1. request[r].user \in User /\ Unverified(request[r].user) \subseteq Token
    BY <1>0, <1>2, UnverifiedTokens DEF ExpireOlder, At, Fits, ForUser, Step
  <2>2. Fits(Serving("issue", request[r].user, NoTenant, NoToken, 0, Unverified(request[r].user)))
    BY <2>1, ServingFits DEF Step, OnTenant
  <2> QED
    BY <1>0, <1>2, <2>2, Unchanged, BeginFits DEF ExpireOlder
<1>3. ASSUME NEW k \in Token, IssueToken(r, k)
      PROVE  TablesTyped' /\ RequestsFit'
  <2>1. request[r].user \in User /\ request[r].targets \subseteq Token
    BY <1>0, <1>3 DEF IssueToken, At, Fits, ForUser, Step, Progress
  <2>2. TokensTyped'
    BY <1>3, <2>1 DEF IssueToken, TokensTyped, TokenRow
  <2> QED
    BY <1>0, <1>3, <2>2, FinishFits, Unchanged DEF IssueToken
<1>4. CASE Crash(r)
  BY <1>0, <1>4, FinishFits, Unchanged DEF Crash
<1> QED
  BY <1>1, <1>2, <1>3, <1>4 DEF ResendNext

LEMMA TypedPreserved ==
  ASSUME Typed, [Next]_vars
  PROVE  Typed'
<1>1. TablesTyped' /\ RequestsFit'
  <2>1. CASE UNCHANGED vars
    BY <2>1, Unchanged DEF vars, TablesTyped
  <2>2. CASE Next
    BY <2>2, AccountTyped, VerifyTyped, ProvisionTyped, ResendTyped DEF Next
  <2> QED
    BY <2>1, <2>2
<1> QED
  BY <1>1 DEF Typed, TypeOK, TablesTyped, CoreTyped, TenantTyped, TokensTyped, SchemaTyped,
              RequestsFit

\* Tables, statuses and requests keep their types, however requests overlap
\* and wherever one stops.
THEOREM TypeCorrect == Spec => []TypeOK
<1>1. Typed => TypeOK
  BY DEF Typed
<1> QED
  BY <1>1, InitTyped, TypedPreserved, PTL DEF Spec

-----------------------------------------------------------------------------
(***************************************************************************)
(* The inductive invariant.  The schema of a tenant is created for the     *)
(* founder only: as long as it has no owner, nobody else is a member, and  *)
(* a verification for anybody else finds the schema there.                 *)
(***************************************************************************)

NobodyBefore ==
    \A t \in Tenant : tenant[t] = "none" =>
        owners[t] = {} /\ \A u \in User : members[u][t] = "none"

FoundedByUsers == \A t \in Tenant : tenant[t] # "none" => ownerUser[t] \in User

OwnersHaveSchema == \A t \in Tenant : owners[t] # {} => t \in schemas

FounderFirst ==
    \A u \in User, t \in Tenant :
        members[u][t] # "none" /\ owners[t] = {} => u = ownerUser[t]

InvitedAreMembers ==
    \A u \in User, t \in Tenant : <<u, t>> \in invitations => members[u][t] # "none"

\* What a request knows of the tenant it is at.
Knows(p) ==
    /\ p.step \in {"retire", "activate", "exists"} => members[p.user][p.tenant] # "none"
    /\ p.step \in OnTenant => tenant[p.tenant] # "none"
    /\ p.step \in {"create", "apply", "seed", "assign"} => p.user = ownerUser[p.tenant]
    /\ p.step \in {"apply", "seed", "assign"} => p.tenant \in schemas
    /\ p.step = "assign" => p.tenant \in seeded
    /\ p.step = "open" => p.tenant \in Completed

RequestsKnow == \A r \in Request : Knows(request[r])

TablesSound ==
    /\ AccountsVerified
    /\ OwnersFounded
    /\ NobodyBefore
    /\ FoundedByUsers
    /\ OwnersHaveSchema
    /\ FounderFirst
    /\ InvitedAreMembers

IInv == Typed /\ TablesSound /\ RequestsKnow

LEMMA InitIInv == Init => IInv
<1> SUFFICES ASSUME Init PROVE IInv
  OBVIOUS
<1>1. Typed
  BY InitTyped
<1>2. TablesSound
  BY DEF Init, TablesSound, AccountsVerified, OwnersFounded, NobodyBefore, FoundedByUsers,
         OwnersHaveSchema, FounderFirst, InvitedAreMembers
<1>3. RequestsKnow
  BY DEF Init, RequestsKnow, Knows, Idle, Serving, OnTenant
<1> QED
  BY <1>1, <1>2, <1>3 DEF IInv

\* What no step takes back.
Kept ==
    /\ \A t \in Tenant : tenant[t] # "none" =>
          tenant'[t] # "none" /\ ownerUser'[t] = ownerUser[t]
    /\ \A u \in User, t \in Tenant : members[u][t] # "none" => members'[u][t] # "none"
    /\ \A t \in Tenant : owners[t] \subseteq owners'[t]
    /\ schemas \subseteq schemas' /\ seeded \subseteq seeded'

LEMMA KeptBySteps ==
  ASSUME IInv, [Next]_vars
  PROVE  Kept
<1>0. TablesTyped /\ RequestsFit
  BY TypedParts DEF IInv
<1> USE DEF Kept, TablesTyped
<1>1. CASE UNCHANGED vars
  BY <1>1 DEF vars, core, tokenTable, schemaState
<1>2. CASE AccountNext
  <2>1. ASSUME NEW u \in User, NEW t \in Tenant, NEW k \in Token, Signup(u, t, k)
        PROVE  Kept
    BY <1>0, <2>1 DEF Signup, schemaState, CoreTyped, TenantTyped
  <2>2. ASSUME NEW u \in User, NEW t \in Tenant, InviteStaff(u, t)
        PROVE  Kept
    BY <1>0, <2>2 DEF InviteStaff, schemaState, CoreTyped
  <2>3. ASSUME NEW u \in User, NEW t \in Tenant, AcceptInvite(u, t)
        PROVE  Kept
    BY <1>0, <2>3 DEF AcceptInvite, schemaState, CoreTyped
  <2>4. ASSUME NEW u \in User, LockAccount(u)
        PROVE  Kept
    BY <2>4 DEF LockAccount, schemaState
  <2>5. ASSUME NEW k \in Token, TokenExpires(k)
        PROVE  Kept
    BY <2>5 DEF TokenExpires, schemaState, core
  <2> QED
    BY <1>2, <2>1, <2>2, <2>3, <2>4, <2>5 DEF AccountNext
<1>3. ASSUME NEW r \in Request, VerifyNext(r)
      PROVE  Kept
  <2>1. CASE Activate(r)
    BY <1>0, <2>1 DEF Activate, schemaState, CoreTyped
  <2>2. CASE UNCHANGED <<core, tenant, schemaState>>
    BY <2>2 DEF core, schemaState
  <2> QED
    BY <1>3, <2>1, <2>2
       DEF VerifyNext, VerifyEmail, BypassVerify, CheckUser, FindMembership, RetireTokens
<1>4. ASSUME NEW r \in Request, ProvisionNext(r)
      PROVE  Kept
  <2>1. CASE CreateSchema(r)
    BY <2>1 DEF CreateSchema, core
  <2>2. CASE ApplyStatement(r)
    BY <2>2 DEF ApplyStatement, core
  <2>3. CASE SeedTenantDefaults(r)
    BY <2>3 DEF SeedTenantDefaults, core
  <2>4. CASE AssignOwnerRole(r)
    BY <1>0, <2>4 DEF AssignOwnerRole, core, SchemaTyped
  <2>5. CASE OpenTenant(r)
    BY <1>0, <2>5 DEF OpenTenant, core, schemaState, TenantTyped
  <2>6. CASE SuspendTenant(r)
    BY <1>0, <2>6 DEF SuspendTenant, core, schemaState, TenantTyped
  <2>7. CASE UNCHANGED <<core, tenant, schemaState>>
    BY <2>7 DEF core, schemaState
  <2> QED
    BY <1>4, <2>1, <2>2, <2>3, <2>4, <2>5, <2>6, <2>7
       DEF ProvisionNext, SchemaExists, StatementFails, ProvisioningFails
<1>5. ASSUME NEW r \in Request, ResendNext(r) \/ Crash(r)
      PROVE  Kept
  <2>1. UNCHANGED <<core, tenant, schemaState>>
    BY <1>5 DEF ResendNext, Resend, ExpireOlder, IssueToken, Crash
  <2> QED
    BY <2>1 DEF core, schemaState
<1> QED
  BY <1>1, <1>2, <1>3, <1>4, <1>5 DEF Next

\* So what a request knows stays true.
LEMMA KnowledgeKept ==
  ASSUME IInv, Kept, NEW p, Fits(p), Knows(p)
  PROVE  Knows(p)'
<1>1. p.step \in OnTenant => p.tenant \in Tenant /\ tenant[p.tenant] # "none"
  BY DEF Fits, Knows
<1>2. p.step \in {"retire", "activate", "exists", "create", "apply", "seed", "assign"} =>
          p.user \in User /\ p.step \in OnTenant
  BY DEF Fits, ForUser, OnTenant, Step
<1>3. p.tenant \in Tenant /\ p.tenant \in Completed => p.tenant \in Completed'
  BY DEF Kept, Completed
<1>4. p.step = "open" => p.step \in OnTenant
  BY DEF OnTenant, Step
<1> QED
  BY <1>1, <1>2, <1>3, <1>4 DEF Kept, Knows

LEMMA OneMoves ==
  ASSUME IInv, Kept, Typed', NEW r \in Request,
         \A q \in Request \ {r} : request'[q] = request[q],
         NEW p, p = request'[r], Knows(p) \/ Knows(p)'
  PROVE  RequestsKnow'
<1>1. Fits(p)
  BY DEF Typed, RequestsFit
<1>2. Knows(p)'
  BY <1>1, KnowledgeKept
<1>3. ASSUME NEW q \in Request PROVE Knows(request[q])'
  <2>1. CASE q = r
    BY <1>2, <2>1 DEF Knows
  <2>2. CASE q # r
    <3>1. PICK o : o = request[q]
      OBVIOUS
    <3>2. Knows(o) /\ Fits(o) /\ o = request'[q]
      BY <2>2, <3>1 DEF IInv, RequestsKnow, Typed, RequestsFit
    <3>3. Knows(o)'
      BY <3>2, KnowledgeKept
    <3> QED
      BY <3>2, <3>3 DEF Knows
  <2> QED
    BY <2>1, <2>2
<1> QED
  BY <1>3 DEF RequestsKnow

\* A request begins with p, or ends: what it knows is new.
LEMMA BeginKnows ==
  ASSUME IInv, Kept, Typed', NEW r \in Request, NEW p, Begin(r, p), Knows(p) \/ Knows(p)'
  PROVE  RequestsKnow'
  BY BeginMoves, OneMoves DEF IInv, Typed, RequestsFit

LEMMA FinishKnows ==
  ASSUME IInv, Kept, Typed', NEW r \in Request, Finish(r)
  PROVE  RequestsKnow'
<1>1. Knows(Idle)
  BY DEF Knows, Idle, Serving, OnTenant
<1> QED
  BY <1>1, BeginKnows DEF Finish

\* A request goes on: what it remembers suits the next step already.
LEMMA GotoKnows ==
  ASSUME IInv, Kept, Typed', NEW r \in Request, NEW step \in Step, Goto(r, step),
         Knows([request[r] EXCEPT !.step = step])
  PROVE  RequestsKnow'
<1>1. PICK p : p = request'[r]
  OBVIOUS
<1>2. /\ p = [request[r] EXCEPT !.step = step]
      /\ \A q \in Request \ {r} : request'[q] = request[q]
  BY <1>1, GotoMoves DEF IInv, Typed, RequestsFit
<1> QED
  BY <1>1, <1>2, OneMoves

LEMMA RequestsKnowPreserved ==
  ASSUME IInv, [Next]_vars
  PROVE  RequestsKnow'
<1>0. /\ Kept /\ Typed' /\ TablesTyped /\ RequestsFit
      /\ \A r \in Request : request[r] \in Progress /\ Fits(request[r]) /\ Knows(request[r])
  BY KeptBySteps, TypedPreserved, TypedParts DEF IInv, RequestsKnow, RequestsFit
<1> DEFINE Goal == RequestsKnow'
<1>1. CASE UNCHANGED request
  <2>1. ASSUME NEW q \in Request PROVE Knows(request[q])'
    <3>1. PICK p : p = request[q]
      OBVIOUS
    <3>2. Knows(p)'
      BY <1>0, <3>1, KnowledgeKept
    <3> QED
      BY <1>1, <3>1, <3>2 DEF Knows
  <2> QED
    BY <2>1 DEF RequestsKnow
<1>2. ASSUME NEW r \in Request, VerifyNext(r)
      PROVE  Goal
  <2>1. ASSUME NEW row \in tokens, VerifyEmail(r, row)
        PROVE  Goal
    <3>1. Knows(Serving("guard", row.user, NoTenant, row.id, 0, {}))
      BY DEF Knows, Serving, OnTenant
    <3> QED
      BY <1>0, <2>1, <3>1, BeginKnows DEF VerifyEmail
  <2>2. ASSUME NEW u \in User, BypassVerify(r, u)
        PROVE  Goal
    <3>1. Knows(Serving("guard", u, NoTenant, NoToken, 0, {}))
      BY DEF Knows, Serving, OnTenant
    <3> QED
      BY <1>0, <2>2, <3>1, BeginKnows DEF BypassVerify
  <2>3. CASE CheckUser(r)
    <3>1. Knows([request[r] EXCEPT !.step = "membership"])
      BY <1>0 DEF Knows, Progress, OnTenant
    <3> QED
      BY <1>0, <2>3, <3>1, FinishKnows, GotoKnows DEF CheckUser, Step
  <2>4. ASSUME NEW t \in Tenant, FindMembership(r, t)
        PROVE  Goal
    <3> DEFINE step == IF request[r].token = NoToken THEN "retire" ELSE "activate"
               p == Serving(step, request[r].user, t, request[r].token, 0, {})
    <3>1. request[r].user \in User
      BY <1>0, <2>4 DEF FindMembership, At, Fits, ForUser, Step
    <3>2. members[request[r].user][t] # "none"
      BY <2>4 DEF FindMembership, MemberOf
    <3>3. tenant[t] # "none"
      BY <3>1, <3>2 DEF IInv, TablesSound, NobodyBefore
    <3>4. Knows(p)
      BY <3>2, <3>3 DEF Knows, Serving
    <3>5. Begin(r, p)
      BY <2>4 DEF FindMembership
    <3> HIDE DEF p
    <3> QED
      BY <1>0, <3>4, <3>5, BeginKnows
  <2>5. CASE RetireTokens(r)
    <3> DEFINE p == [request[r] EXCEPT !.step = "activate",
                                       !.targets = Unverified(request[r].user)]
    <3>1. /\ p.step = "activate" /\ p.user = request[r].user /\ p.tenant = request[r].tenant
          /\ Begin(r, p)
      BY <1>0, <2>5 DEF RetireTokens, Progress
    <3>2. request[r].step = "retire"
      BY <2>5 DEF RetireTokens, At
    <3> HIDE DEF p
    <3>3. Knows(p)
      BY <1>0, <3>1, <3>2 DEF Knows, OnTenant, Step
    <3> QED
      BY <1>0, <3>1, <3>3, BeginKnows
  <2>6. CASE Activate(r)
    <3>1. request[r].step = "activate"
      BY <2>6 DEF Activate, At
    <3>2. Knows(Serving("exists", request[r].user, request[r].tenant, NoToken, 0, {}))
      BY <1>0, <3>1 DEF Knows, Serving, OnTenant, Step
    <3> QED
      BY <1>0, <2>6, <3>2, BeginKnows DEF Activate
  <2> QED
    BY <1>2, <2>1, <2>2, <2>3, <2>4, <2>5, <2>6 DEF VerifyNext
<1>3. ASSUME NEW r \in Request, ProvisionNext(r)
      PROVE  Goal
  <2>0. ASSUME request[r].step \in OnTenant, End(r, "suspend")
        PROVE  Goal
    <3>1. Knows(Serving("suspend", NoUser, request[r].tenant, NoToken, 0, {}))
      BY <1>0, <2>0 DEF Knows, Serving
    <3> QED
      BY <1>0, <2>0, <3>1, BeginKnows DEF End
  <2>1. CASE SchemaExists(r)
    <3>1. request[r].step = "exists" /\ request[r].step \in OnTenant
      BY <2>1 DEF SchemaExists, At, OnTenant, Step
    <3>2. request[r].user \in User /\ request[r].tenant \in Tenant
      BY <1>0, <3>1 DEF Fits, ForUser, Step
    <3>3. CASE request[r].tenant \notin schemas
      <4>1. request[r].user = ownerUser[request[r].tenant]
        BY <1>0, <3>1, <3>2, <3>3
           DEF Knows, IInv, TablesSound, FounderFirst, OwnersHaveSchema
      <4>2. Knows([request[r] EXCEPT !.step = "create"])
        BY <1>0, <3>1, <4>1 DEF Knows, Progress
      <4> QED
        BY <1>0, <2>1, <3>3, <4>2, GotoKnows DEF SchemaExists, Step
    <3> QED
      BY <2>0, <2>1, <3>1, <3>3 DEF SchemaExists
  <2>2. CASE CreateSchema(r)
    <3>1. request[r].step = "create" /\ request[r].step \in OnTenant
      BY <2>2 DEF CreateSchema, At, OnTenant, Step
    <3>2. request[r].tenant \in Tenant
      BY <1>0, <3>1 DEF Fits
    <3>3. PICK p : p = request'[r]
      OBVIOUS
    <3>4. /\ p.step = "apply" /\ p.user = request[r].user /\ p.tenant = request[r].tenant
          /\ \A q \in Request \ {r} : request'[q] = request[q]
      BY <1>0, <2>2, <3>3, GotoMoves DEF CreateSchema, RequestsFit, Step
    <3>5. p.tenant \in schemas' /\ tenant'[p.tenant] # "none" /\ p.user = ownerUser'[p.tenant]
      BY <1>0, <2>2, <3>1, <3>2, <3>4 DEF CreateSchema, Knows, Kept
    <3>6. Knows(p)'
      BY <3>4, <3>5 DEF Knows
    <3> QED
      BY <1>0, <3>3, <3>4, <3>6, OneMoves
  <2>3. CASE ApplyStatement(r)
    <3> DEFINE step == IF request[r].applied + 1 = Statements THEN "seed" ELSE "apply"
    <3>1. request[r].step = "apply" /\ request[r].step \in OnTenant
      BY <2>3 DEF ApplyStatement, At, OnTenant, Step
    <3>2. step \in {"seed", "apply"}
      OBVIOUS
    <3>3. request' = [request EXCEPT ![r].applied = @ + 1, ![r].step = step]
      BY <2>3 DEF ApplyStatement
    <3>4. PICK p : p = request'[r]
      OBVIOUS
    <3> HIDE DEF step
    <3>5. /\ p.step = step /\ p.user = request[r].user /\ p.tenant = request[r].tenant
          /\ \A q \in Request \ {r} : request'[q] = request[q]
      BY <1>0, <3>3, <3>4 DEF RequestsFit, Progress
    <3>6. Knows(p)
      BY <1>0, <3>1, <3>2, <3>5 DEF Knows
    <3> QED
      BY <1>0, <3>4, <3>5, <3>6, OneMoves
  <2>4. CASE StatementFails(r)
    BY <2>0, <2>4 DEF StatementFails, At, OnTenant, Step
  <2>5. CASE SeedTenantDefaults(r)
    <3>1. request[r].step = "seed" /\ request[r].step \in OnTenant
      BY <2>5 DEF SeedTenantDefaults, At, OnTenant, Step
    <3>2. request[r].tenant \in Tenant
      BY <1>0, <3>1 DEF Fits
    <3>3. PICK p : p = request'[r]
      OBVIOUS
    <3>4. /\ p.step = "assign" /\ p.user = request[r].user /\ p.tenant = request[r].tenant
          /\ \A q \in Request \ {r} : request'[q] = request[q]
      BY <1>0, <2>5, <3>3, GotoMoves DEF SeedTenantDefaults, RequestsFit, Step
    <3>5. /\ p.tenant \in schemas' /\ p.tenant \in seeded'
          /\ tenant'[p.tenant] # "none" /\ p.user = ownerUser'[p.tenant]
      BY <1>0, <2>5, <3>1, <3>2, <3>4 DEF SeedTenantDefaults, Knows, Kept
    <3>6. Knows(p)'
      BY <3>4, <3>5 DEF Knows
    <3> QED
      BY <1>0, <3>3, <3>4, <3>6, OneMoves
  <2>6. CASE AssignOwnerRole(r)
    <3>1. request[r].step = "assign" /\ request[r].step \in OnTenant
      BY <2>6 DEF AssignOwnerRole, At, OnTenant, Step
    <3>2. request[r].tenant \in Tenant
      BY <1>0, <3>1 DEF Fits
    <3>3. PICK p : p = Serving("open", NoUser, request[r].tenant, NoToken, 0, {})
      OBVIOUS
    <3>4. p.step = "open" /\ p.tenant = request[r].tenant /\ Begin(r, p)
      BY <2>6, <3>3 DEF AssignOwnerRole, End, Serving
    <3>5. tenant'[p.tenant] # "none"
      BY <1>0, <3>1, <3>2, <3>4 DEF Knows, Kept
    <3>6. p.tenant \in Completed'
      BY <1>0, <2>6, <3>1, <3>2, <3>4 DEF AssignOwnerRole, Knows, Completed, SchemaTyped, TablesTyped
    <3>7. Knows(p)'
      BY <3>4, <3>5, <3>6 DEF Knows
    <3> QED
      BY <1>0, <3>4, <3>7, BeginKnows
  <2>7. CASE OpenTenant(r)
    BY <1>0, <2>7, FinishKnows DEF OpenTenant
  <2>8. CASE SuspendTenant(r)
    BY <1>0, <2>8, FinishKnows DEF SuspendTenant
  <2>9. CASE ProvisioningFails(r)
    BY <2>0, <2>9 DEF ProvisioningFails, OnTenant, Step
  <2> QED
    BY <1>3, <2>1, <2>2, <2>3, <2>4, <2>5, <2>6, <2>7, <2>8, <2>9 DEF ProvisionNext
<1>4. ASSUME NEW r \in Request, ResendNext(r)
      PROVE  Goal
  <2>1. ASSUME NEW u \in User, Resend(r, u)
        PROVE  Goal
    <3>1. Knows(Serving("older", u, NoTenant, NoToken, 0, {}))
      BY DEF Knows, Serving, OnTenant
    <3> QED
      BY <1>0, <2>1, <3>1, BeginKnows DEF Resend
  <2>2. CASE ExpireOlder(r)
    <3>1. Knows(Serving("issue", request[r].user, NoTenant, NoToken, 0,
                        Unverified(request[r].user)))
      BY DEF Knows, Serving, OnTenant
    <3> QED
      BY <1>0, <2>2, <3>1, BeginKnows DEF ExpireOlder
  <2>3. ASSUME NEW k \in Token, IssueToken(r, k)
        PROVE  Goal
    BY <1>0, <2>3, FinishKnows DEF IssueToken
  <2> QED
    BY <1>4, <2>1, <2>2, <2>3 DEF ResendNext
<1>5. ASSUME NEW r \in Request, Crash(r)
      PROVE  Goal
  BY <1>0, <1>5, FinishKnows DEF Crash
<1>6. CASE AccountNext
  <2>1. UNCHANGED request
    BY <1>6 DEF AccountNext, Signup, InviteStaff, AcceptInvite, LockAccount, TokenExpires
  <2> QED
    BY <1>1, <2>1
<1> QED
  BY <1>1, <1>2, <1>3, <1>4, <1>5, <1>6 DEF Next, vars

Tables == <<core, tenant, schemaState>>

LEMMA SoundUnchanged ==
  ASSUME TablesSound, UNCHANGED Tables
  PROVE  TablesSound'
  BY DEF Tables, core, schemaState, TablesSound, AccountsVerified, OwnersFounded, NobodyBefore,
         FoundedByUsers, OwnersHaveSchema, FounderFirst, InvitedAreMembers

LEMMA AccountSound ==
  ASSUME IInv, AccountNext
  PROVE  TablesSound'
<1>0. CoreTyped /\ TenantTyped /\ TablesSound
  BY TypedParts DEF IInv, TablesTyped
<1> USE DEF CoreTyped, TablesSound
<1>1. ASSUME NEW u \in User, NEW t \in Tenant, NEW k \in Token, Signup(u, t, k)
      PROVE  TablesSound'
  <2>1. tenant[t] = "none" /\ owners[t] = {} /\ \A v \in User : members[v][t] = "none"
    BY <1>0, <1>1 DEF Signup, NobodyBefore
  <2>2. /\ account' = [account EXCEPT ![u] = "pending"]
        /\ tenant' = [tenant EXCEPT ![t] = "provisioning"]
        /\ ownerUser' = [ownerUser EXCEPT ![t] = u]
        /\ members' = [members EXCEPT ![u][t] = "invited"]
        /\ UNCHANGED <<emailVerified, invitations, schemas, applied, seeded, owners>>
    BY <1>1 DEF Signup, schemaState
  <2>3. AccountsVerified'
    BY <1>0, <2>2 DEF AccountsVerified
  <2>4. OwnersFounded'
    BY <1>0, <2>1, <2>2 DEF OwnersFounded
  <2>5. NobodyBefore' /\ FoundedByUsers'
    BY <1>0, <2>2 DEF NobodyBefore, FoundedByUsers, TenantTyped
  <2>6. OwnersHaveSchema' /\ InvitedAreMembers'
    BY <1>0, <2>2 DEF OwnersHaveSchema, InvitedAreMembers
  <2>7. FounderFirst'
    BY <1>0, <2>1, <2>2 DEF FounderFirst
  <2> QED
    BY <2>3, <2>4, <2>5, <2>6, <2>7
<1>2. ASSUME NEW u \in User, NEW t \in Tenant, InviteStaff(u, t)
      PROVE  TablesSound'
  <2>1. /\ owners[t] # {}
        /\ account' = [account EXCEPT ![u] = IF @ = "none" THEN "invited" ELSE @]
        /\ members' = [members EXCEPT ![u][t] = IF @ = "none" THEN "invited" ELSE @]
        /\ invitations' = invitations \cup {<<u, t>>}
        /\ UNCHANGED <<emailVerified, tenant, ownerUser, schemas, applied, seeded, owners>>
    BY <1>2 DEF InviteStaff, schemaState
  <2>2. members'[u][t] # "none"
    BY <1>0, <2>1
  <2>3. \A v \in User, x \in Tenant : v # u \/ x # t => members'[v][x] = members[v][x]
    BY <1>0, <2>1
  <2>4. AccountsVerified'
    BY <1>0, <2>1 DEF AccountsVerified
  <2>5. OwnersFounded' /\ FoundedByUsers' /\ OwnersHaveSchema'
    BY <1>0, <2>1 DEF OwnersFounded, FoundedByUsers, OwnersHaveSchema
  <2>6. NobodyBefore' /\ FounderFirst'
    BY <1>0, <2>1, <2>3 DEF NobodyBefore, FounderFirst
  <2>7. InvitedAreMembers'
    BY <1>0, <2>1, <2>2, <2>3 DEF InvitedAreMembers
  <2> QED
    BY <2>4, <2>5, <2>6, <2>7
<1>3. ASSUME NEW u \in User, NEW t \in Tenant, AcceptInvite(u, t)
      PROVE  TablesSound'
  <2>1. /\ account' = [account EXCEPT ![u] = "active"]
        /\ emailVerified' = emailVerified \cup {u}
        /\ members' = [members EXCEPT ![u][t] = "active"]
        /\ invitations' = invitations \ {<<u, t>>}
        /\ UNCHANGED <<tenant, ownerUser, schemas, applied, seeded, owners>>
    BY <1>3 DEF AcceptInvite, schemaState
  <2>2. members[u][t] # "none" /\ members'[u][t] # "none"
    BY <1>0, <1>3, <2>1 DEF AcceptInvite, InvitedAreMembers
  <2>3. \A v \in User, x \in Tenant : v # u \/ x # t => members'[v][x] = members[v][x]
    BY <1>0, <2>1
  <2>4. AccountsVerified'
    BY <1>0, <2>1 DEF AccountsVerified
  <2>5. OwnersFounded' /\ FoundedByUsers' /\ OwnersHaveSchema'
    BY <1>0, <2>1 DEF OwnersFounded, FoundedByUsers, OwnersHaveSchema
  <2>6. NobodyBefore' /\ FounderFirst' /\ InvitedAreMembers'
    BY <1>0, <2>1, <2>2, <2>3 DEF NobodyBefore, FounderFirst, InvitedAreMembers
  <2> QED
    BY <2>4, <2>5, <2>6
<1>4. ASSUME NEW u \in User, LockAccount(u)
      PROVE  TablesSound'
  <2>1. AccountsVerified'
    BY <1>0, <1>4 DEF LockAccount, AccountsVerified
  <2> QED
    BY <1>0, <1>4, <2>1
       DEF LockAccount, schemaState, OwnersFounded, NobodyBefore, FoundedByUsers,
           OwnersHaveSchema, FounderFirst, InvitedAreMembers
<1>5. ASSUME NEW k \in Token, TokenExpires(k)
      PROVE  TablesSound'
  BY <1>0, <1>5, SoundUnchanged DEF TokenExpires, Tables
<1> QED
  BY <1>1, <1>2, <1>3, <1>4, <1>5 DEF AccountNext

LEMMA ActivateSound ==
  ASSUME IInv, NEW r \in Request, Activate(r)
  PROVE  TablesSound'
<1> DEFINE u == request[r].user
           t == request[r].tenant
<1>0. CoreTyped /\ TablesSound
  BY TypedParts DEF IInv, TablesTyped
<1> USE DEF CoreTyped, TablesSound
<1>1. request[r].step = "activate"
  BY DEF Activate, At
<1>2. u \in User /\ t \in Tenant /\ members[u][t] # "none"
  BY <1>1 DEF IInv, Typed, RequestsFit, Fits, ForUser, OnTenant, Step, RequestsKnow, Knows
<1>3. /\ account' = [account EXCEPT ![u] = "active"]
      /\ emailVerified' = emailVerified \cup {u}
      /\ members' = [members EXCEPT ![u][t] = "active"]
      /\ UNCHANGED <<tenant, ownerUser, invitations, schemas, applied, seeded, owners>>
  BY DEF Activate, schemaState
<1> HIDE DEF u, t
<1>4. \A v \in User, x \in Tenant : members'[v][x] # "none" <=> members[v][x] # "none"
  BY <1>0, <1>2, <1>3
<1>5. AccountsVerified'
  BY <1>0, <1>2, <1>3 DEF AccountsVerified
<1>6. OwnersFounded' /\ FoundedByUsers' /\ OwnersHaveSchema'
  BY <1>0, <1>3 DEF OwnersFounded, FoundedByUsers, OwnersHaveSchema
<1>7. NobodyBefore' /\ FounderFirst' /\ InvitedAreMembers'
  BY <1>0, <1>3, <1>4 DEF NobodyBefore, FounderFirst, InvitedAreMembers
<1> QED
  BY <1>5, <1>6, <1>7

LEMMA ProvisionSound ==
  ASSUME IInv, NEW r \in Request, ProvisionNext(r)
  PROVE  TablesSound'
<1> DEFINE t == request[r].tenant
<1>0. SchemaTyped /\ TenantTyped /\ TablesSound
  BY TypedParts DEF IInv, TablesTyped
<1> USE DEF SchemaTyped, TenantTyped, TablesSound
<1>1. request[r].step \in OnTenant => t \in Tenant /\ tenant[t] # "none"
  BY DEF IInv, Typed, RequestsFit, Fits, RequestsKnow, Knows
<1>2. CASE UNCHANGED Tables
  BY <1>0, <1>2, SoundUnchanged
<1>3. CASE CreateSchema(r)
  <2>1. schemas \subseteq schemas' /\ UNCHANGED <<core, tenant, owners>>
    BY <1>3 DEF CreateSchema
  <2> QED
    BY <1>0, <2>1
       DEF core, AccountsVerified, OwnersFounded, NobodyBefore, FoundedByUsers,
           OwnersHaveSchema, FounderFirst, InvitedAreMembers
<1>4. CASE ApplyStatement(r) \/ SeedTenantDefaults(r)
  <2>1. UNCHANGED <<core, tenant, schemas, owners>>
    BY <1>4 DEF ApplyStatement, SeedTenantDefaults
  <2> QED
    BY <1>0, <2>1
       DEF core, AccountsVerified, OwnersFounded, NobodyBefore, FoundedByUsers,
           OwnersHaveSchema, FounderFirst, InvitedAreMembers
<1>5. CASE AssignOwnerRole(r)
  <2>1. request[r].step = "assign" /\ request[r].step \in OnTenant
    BY <1>5 DEF AssignOwnerRole, At, OnTenant, Step
  <2>2. /\ t \in Tenant /\ tenant[t] # "none" /\ t \in schemas
        /\ request[r].user = ownerUser[t]
    BY <1>1, <2>1 DEF IInv, RequestsKnow, Knows
  <2>3. /\ owners' = [owners EXCEPT ![t] = @ \cup {ownerUser[t]}]
        /\ UNCHANGED <<core, tenant, schemas>>
    BY <1>5, <2>2 DEF AssignOwnerRole
  <2> HIDE DEF t
  <2>4. \A x \in Tenant : owners'[x] = {} => owners[x] = {}
    BY <1>0, <2>3
  <2>5. \A x \in Tenant : x # t => owners'[x] = owners[x]
    BY <1>0, <2>3
  <2>6. owners'[t] = owners[t] \cup {ownerUser[t]}
    BY <1>0, <2>2, <2>3
  <2>7. OwnersFounded'
    BY <1>0, <2>3, <2>5, <2>6 DEF core, OwnersFounded
  <2>8. NobodyBefore' /\ OwnersHaveSchema'
    BY <1>0, <2>2, <2>3, <2>5 DEF core, NobodyBefore, OwnersHaveSchema
  <2>9. FounderFirst'
    BY <1>0, <2>3, <2>4 DEF core, FounderFirst
  <2>10. AccountsVerified' /\ FoundedByUsers' /\ InvitedAreMembers'
    BY <1>0, <2>3 DEF core, AccountsVerified, FoundedByUsers, InvitedAreMembers
  <2> QED
    BY <2>7, <2>8, <2>9, <2>10
<1>6. CASE OpenTenant(r) \/ SuspendTenant(r)
  <2>1. request[r].step \in OnTenant
    BY <1>6 DEF OpenTenant, SuspendTenant, At, OnTenant, Step
  <2>2. PICK s \in {"active", "suspended"} : tenant' = [tenant EXCEPT ![t] = s]
    BY <1>6 DEF OpenTenant, SuspendTenant
  <2>3. UNCHANGED <<core, schemaState>>
    BY <1>6 DEF OpenTenant, SuspendTenant
  <2>4. \A x \in Tenant : tenant'[x] = "none" <=> tenant[x] = "none"
    BY <1>0, <1>1, <2>1, <2>2
  <2> QED
    BY <1>0, <2>3, <2>4
       DEF core, schemaState, AccountsVerified, OwnersFounded, NobodyBefore, FoundedByUsers,
           OwnersHaveSchema, FounderFirst, InvitedAreMembers
<1> QED
  BY <1>2, <1>3, <1>4, <1>5, <1>6
     DEF ProvisionNext, Tables, SchemaExists, StatementFails, ProvisioningFails

LEMMA IInvPreserved ==
  ASSUME IInv, [Next]_vars
  PROVE  IInv'
<1>1. Typed' /\ RequestsKnow'
  BY TypedPreserved, RequestsKnowPreserved DEF IInv
<1>2. ASSUME UNCHANGED Tables
      PROVE  TablesSound'
  BY <1>2, SoundUnchanged DEF IInv
<1>3. TablesSound'
  <2>1. CASE AccountNext
    BY <2>1, AccountSound
  <2>2. ASSUME NEW r \in Request, VerifyNext(r)
        PROVE  TablesSound'
    BY <1>2, <2>2, ActivateSound
       DEF VerifyNext, VerifyEmail, BypassVerify, CheckUser, FindMembership, RetireTokens, Tables
  <2>3. ASSUME NEW r \in Request, ProvisionNext(r)
        PROVE  TablesSound'
    BY <2>3, ProvisionSound
  <2>4. ASSUME NEW r \in Request, ResendNext(r) \/ Crash(r)
        PROVE  TablesSound'
    BY <1>2, <2>4 DEF ResendNext, Resend, ExpireOlder, IssueToken, Crash, Tables
  <2>5. CASE UNCHANGED vars
    BY <1>2, <2>5 DEF vars, Tables
  <2> QED
    BY <2>1, <2>2, <2>3, <2>4, <2>5 DEF Next
<1> QED
  BY <1>1, <1>3 DEF IInv

LEMMA Invariant == Spec => []IInv
  BY InitIInv, IInvPreserved, PTL DEF Spec

\* Whoever may log in has shown an e-mail address, by token, shortcut or
\* invitation (email-verify.service.ts:97, invite-accept.service.ts:77).
THEOREM AccountsVerifiedAlways == Spec => []AccountsVerified
<1>1. IInv => AccountsVerified
  BY DEF IInv, TablesSound
<1> QED
  BY <1>1, Invariant, PTL

\* Provisioning makes nobody an owner but the founder, although the
\* membership it acts on is any of the user's (email-verify.service.ts:80).
THEOREM OwnersFoundedAlways == Spec => []OwnersFounded
<1>1. IInv => OwnersFounded
  BY DEF IInv, TablesSound
<1> QED
  BY <1>1, Invariant, PTL

-----------------------------------------------------------------------------
(***************************************************************************)
(* The refinement of TenantLifecycle, step by step.                        *)
(***************************************************************************)

Ruler == [t \in Tenant |-> IF t \in Completed THEN ownerUser[t] ELSE NoUser]

LEMMA SameLifecycle ==
  ASSUME UNCHANGED <<tenant, ownerUser, seeded, owners>>
  PROVE  UNCHANGED Lifecycle!lifecycleVars
  BY DEF Lifecycle!lifecycleVars, Completed

LEMMA FoundStep ==
  ASSUME IInv, NEW u \in User, NEW t \in Tenant, NEW k \in Token, Signup(u, t, k)
  PROVE  Lifecycle!Found(t, u)
<1>1. /\ tenant[t] = "none" /\ t \notin Completed
      /\ tenant' = [tenant EXCEPT ![t] = "provisioning"]
      /\ ownerUser' = [ownerUser EXCEPT ![t] = u]
      /\ UNCHANGED <<seeded, owners>>
  BY DEF Signup, schemaState, IInv, TablesSound, NobodyBefore, Completed
<1>2. Completed' = Completed
  BY <1>1 DEF Completed
<1>3. CoreTyped
  BY TypedParts DEF IInv, TablesTyped
<1>4. Ruler' = Ruler
  BY <1>1, <1>2, <1>3 DEF Ruler, CoreTyped
<1> QED
  BY <1>1, <1>4 DEF Lifecycle!Found, Ruler

\* A step that writes nothing but the schema completes it or changes nothing
\* that the lifecycle is about.
LEMMA CompleteStep ==
  ASSUME IInv, NEW t \in Tenant, tenant[t] # "none", UNCHANGED <<tenant, ownerUser>>,
         Completed' = Completed \/ Completed' = Completed \cup {t}
  PROVE  UNCHANGED Lifecycle!lifecycleVars \/ Lifecycle!Complete(t)
<1>1. CASE Completed' = Completed
  BY <1>1 DEF Lifecycle!lifecycleVars
<1>2. CASE t \notin Completed /\ Completed' = Completed \cup {t}
  <2>1. Ruler[t] = NoUser /\ Ruler' = [Ruler EXCEPT ![t] = ownerUser[t]]
    BY <1>2 DEF Ruler
  <2> QED
    BY <2>1 DEF Lifecycle!Complete, Ruler
<1> QED
  BY <1>1, <1>2

LEMMA ProvisionStep ==
  ASSUME IInv, NEW r \in Request, ProvisionNext(r)
  PROVE  [Lifecycle!Next]_(Lifecycle!lifecycleVars)
<1>0. PICK t : t = request[r].tenant
  OBVIOUS
<1>1. request[r].step \in OnTenant => t \in Tenant /\ tenant[t] # "none"
  BY <1>0 DEF IInv, Typed, RequestsFit, Fits, RequestsKnow, Knows
<1>2. SchemaTyped /\ TenantTyped
  BY TypedParts DEF IInv, TablesTyped
<1>3. CASE UNCHANGED <<tenant, ownerUser, seeded, owners>>
  BY <1>3, SameLifecycle
<1>4. CASE SeedTenantDefaults(r)
  <2>1. t \in Tenant /\ tenant[t] # "none"
    BY <1>0, <1>1, <1>4 DEF SeedTenantDefaults, At, OnTenant, Step
  <2>2. Completed' = Completed \/ Completed' = Completed \cup {t}
    BY <1>0, <1>4 DEF SeedTenantDefaults, Completed
  <2>3. UNCHANGED <<tenant, ownerUser>>
    BY <1>4 DEF SeedTenantDefaults, core
  <2>4. UNCHANGED Lifecycle!lifecycleVars \/ Lifecycle!Complete(t)
    BY <2>1, <2>2, <2>3, CompleteStep
  <2> QED
    BY <2>1, <2>4 DEF Lifecycle!Next
<1>5. CASE AssignOwnerRole(r)
  <2>1. t \in Tenant /\ tenant[t] # "none" /\ t \in seeded
    BY <1>0, <1>1, <1>5 DEF AssignOwnerRole, At, OnTenant, Step, IInv, RequestsKnow, Knows
  <2>2. Completed' = Completed \cup {t}
    BY <1>0, <1>2, <1>5, <2>1 DEF AssignOwnerRole, Completed, SchemaTyped
  <2>3. UNCHANGED <<tenant, ownerUser>>
    BY <1>5 DEF AssignOwnerRole, core
  <2>4. UNCHANGED Lifecycle!lifecycleVars \/ Lifecycle!Complete(t)
    BY <2>1, <2>2, <2>3, CompleteStep
  <2> QED
    BY <2>1, <2>4 DEF Lifecycle!Next
<1>6. CASE OpenTenant(r)
  <2>1. t \in Tenant /\ tenant[t] # "none" /\ t \in Completed
    BY <1>0, <1>1, <1>6 DEF OpenTenant, At, OnTenant, Step, IInv, RequestsKnow, Knows
  <2>2. ownerUser[t] \in User /\ ownerUser[t] # NoUser
    BY <2>1, NullAssumption DEF IInv, TablesSound, FoundedByUsers
  <2>3. tenant' = [tenant EXCEPT ![t] = "active"]
    BY <1>0, <1>6 DEF OpenTenant
  <2>4. UNCHANGED <<ownerUser, Completed>>
    BY <1>6 DEF OpenTenant, core, schemaState, Completed
  <2>5. Lifecycle!Open(t)
    BY <2>1, <2>2, <2>3, <2>4 DEF Lifecycle!Open
  <2> QED
    BY <2>1, <2>5 DEF Lifecycle!Next
<1>7. CASE SuspendTenant(r)
  <2>1. t \in Tenant /\ tenant[t] # "none"
    BY <1>0, <1>1, <1>7 DEF SuspendTenant, At, OnTenant, Step
  <2>2. tenant' = [tenant EXCEPT ![t] = "suspended"]
    BY <1>0, <1>7 DEF SuspendTenant
  <2>3. UNCHANGED <<ownerUser, Completed>>
    BY <1>7 DEF SuspendTenant, core, schemaState, Completed
  <2>4. Lifecycle!Suspend(t)
    BY <2>1, <2>2, <2>3 DEF Lifecycle!Suspend
  <2> QED
    BY <2>1, <2>4 DEF Lifecycle!Next
<1> QED
  BY <1>3, <1>4, <1>5, <1>6, <1>7
     DEF ProvisionNext, SchemaExists, CreateSchema, ApplyStatement, StatementFails,
         ProvisioningFails, core, schemaState

LEMMA StepSimulation ==
  ASSUME IInv, [Next]_vars
  PROVE  [Lifecycle!Next]_(Lifecycle!lifecycleVars)
<1>1. CASE UNCHANGED <<tenant, ownerUser, seeded, owners>>
  BY <1>1, SameLifecycle
<1>2. ASSUME NEW u \in User, NEW t \in Tenant, NEW k \in Token, Signup(u, t, k)
      PROVE  Lifecycle!Next
  BY <1>2, FoundStep DEF Lifecycle!Next
<1>3. CASE AccountNext
  BY <1>1, <1>2, <1>3
     DEF AccountNext, InviteStaff, AcceptInvite, LockAccount, TokenExpires, core, schemaState
<1>4. ASSUME NEW r \in Request, VerifyNext(r) \/ ResendNext(r) \/ Crash(r)
      PROVE  UNCHANGED <<tenant, ownerUser, seeded, owners>>
  BY <1>4 DEF VerifyNext, VerifyEmail, BypassVerify, CheckUser, FindMembership, RetireTokens,
              Activate, ResendNext, Resend, ExpireOlder, IssueToken, Crash, core, schemaState
<1>5. CASE UNCHANGED vars
  BY <1>1, <1>5 DEF vars, core, schemaState
<1> QED
  BY <1>1, <1>3, <1>4, <1>5, ProvisionStep DEF Next

\* The handlers implement TenantLifecycle: a schema is completed once, for
\* the founder, and a tenant opens only after that
\* (email-verify.service.ts:108-131).
THEOREM LifecycleKept == Spec => KeepsLifecycle
<1>1. Init => Lifecycle!Init
  BY DEF Init, Lifecycle!Init, Completed
<1> QED
  BY <1>1, StepSimulation, Invariant, PTL DEF Spec, KeepsLifecycle, Lifecycle!Spec
=============================================================================
