----------------------------- MODULE Onboarding -----------------------------
(***************************************************************************)
(* From sign-up to an active tenant: e-mail verification, its tokens, and  *)
(* the creation of the tenant's schema statement by statement.             *)
(*                                                                         *)
(* The core database is changed in one transaction, the schema after it    *)
(* has committed; DDL statements commit one by one.  A request is a        *)
(* process with one step per statement or transaction; a refusal that      *)
(* writes nothing ends it.  Mails are left out: a token that was created   *)
(* may be presented.                                                       *)
(***************************************************************************)
EXTENDS Naturals, FiniteSets

CONSTANTS
    User,
    Tenant,      \* ids the tenants table may allocate
    Token,       \* ids the email_verifications table may allocate
    Request,     \* requests served at the same time
    Statements,  \* number of statements of the template DDL
    NoUser, NoTenant, NoToken

ASSUME StatementsAssumption == Statements \in Nat \ {0}

ASSUME NullAssumption ==
    NoUser \notin User /\ NoTenant \notin Tenant /\ NoToken \notin Token

VARIABLES
    account,        \* account[u]: status of the user row
    emailVerified,  \* users whose emailVerified is set
    tenant,         \* tenant[t]: status of the tenant row
    ownerUser,      \* ownerUser[t]: ownerUserId of the tenant row
    members,        \* members[u][t]: status of the membership of u in t
    invitations,    \* pairs of user and tenant with an invitation pending
    tokens,         \* rows of the email_verifications table
    verified,       \* ids of the tokens whose verifiedAt is set
    lapsed,         \* ids of the tokens whose expiresAt has passed
    schemas,        \* tenants whose schema exists
    applied,        \* applied[t]: statements of the template applied to it
    seeded,         \* tenants whose roles and permissions are all seeded
    owners,         \* owners[t]: users given the owner role by provisioning
    request         \* request[r]: how far r has come and what it remembers

core == <<account, emailVerified, ownerUser, members, invitations>>
tokenTable == <<tokens, verified, lapsed>>
schemaState == <<schemas, applied, seeded, owners>>
vars == <<core, tenant, tokenTable, schemaState, request>>

\* "none": no row.  suspended and deleted have no writer.
UserStatus == {"none", "invited", "pending", "active", "locked"}
TenantStatus == {"none", "provisioning", "active", "suspended"}

\* A deactivated membership is left as it is here.
MembershipStatus == {"none", "invited", "active"}

TokenRow == [id : Token, user : User]

Step == {"idle",
         "guard", "membership", "activate",         \* verification
         "retire",                                  \* of all tokens, bypass
         "exists", "create", "apply", "seed", "assign",
         "open", "suspend",                         \* the tenant's status
         "older", "issue"}                          \* resend

Progress == [step : Step, user : User \cup {NoUser}, tenant : Tenant \cup {NoTenant},
             token : Token \cup {NoToken}, applied : 0 .. Statements,
             targets : SUBSET Token]

Serving(step, u, t, k, n, S) ==
    [step |-> step, user |-> u, tenant |-> t, token |-> k, applied |-> n, targets |-> S]

Idle == Serving("idle", NoUser, NoTenant, NoToken, 0, {})

TypeOK ==
    /\ account \in [User -> UserStatus]
    /\ emailVerified \subseteq User
    /\ tenant \in [Tenant -> TenantStatus]
    /\ ownerUser \in [Tenant -> User \cup {NoUser}]
    /\ members \in [User -> [Tenant -> MembershipStatus]]
    /\ invitations \subseteq User \X Tenant
    /\ tokens \subseteq TokenRow
    /\ verified \subseteq Token /\ lapsed \subseteq Token
    /\ schemas \subseteq Tenant /\ seeded \subseteq Tenant
    /\ applied \in [Tenant -> 0 .. Statements]
    /\ owners \in [Tenant -> SUBSET User]
    /\ request \in [Request -> Progress]

At(r, step) == request[r].step = step
Begin(r, progress) == request' = [request EXCEPT ![r] = progress]
Finish(r) == Begin(r, Idle)
Goto(r, step) == request' = [request EXCEPT ![r].step = step]

\* What is still needed of a request whose provisioning ended that way.
End(r, step) ==
    Begin(r, Serving(step, NoUser, request[r].tenant, NoToken, 0, {}))

TokenIds == {row.id : row \in tokens}
Unverified(u) == {row.id : row \in {x \in tokens : x.user = u}} \ verified
MemberOf(u) == {t \in Tenant : members[u][t] # "none"}

Init ==
    /\ account = [u \in User |-> "none"]
    /\ emailVerified = {}
    /\ tenant = [t \in Tenant |-> "none"]
    /\ ownerUser = [t \in Tenant |-> NoUser]
    /\ members = [u \in User |-> [t \in Tenant |-> "none"]]
    /\ invitations = {}
    /\ tokens = {}
    /\ verified = {}
    /\ lapsed = {}
    /\ schemas = {}
    /\ applied = [t \in Tenant |-> 0]
    /\ seeded = {}
    /\ owners = [t \in Tenant |-> {}]
    /\ request = [r \in Request |-> Idle]

-----------------------------------------------------------------------------
(***************************************************************************)
(* Accounts.                                                               *)
(***************************************************************************)

\* POST /auth/signup: one transaction.  The look-ups before it are repeated
\* by the unique keys on e-mail and slug.
Signup(u, t, k) ==
    /\ account[u] = "none"
    /\ tenant[t] = "none"
    /\ k \notin TokenIds
    /\ account' = [account EXCEPT ![u] = "pending"]
    /\ tenant' = [tenant EXCEPT ![t] = "provisioning"]
    /\ ownerUser' = [ownerUser EXCEPT ![t] = u]
    /\ members' = [members EXCEPT ![u][t] = "invited"]
    /\ tokens' = tokens \cup {[id |-> k, user |-> u]}
    /\ UNCHANGED <<emailVerified, invitations, verified, lapsed, schemaState, request>>

\* Mutant: inviting takes no role in the schema.
InviteStaffEarly(u, t) ==
    /\ tenant[t] # "none"
    /\ members[u][t] # "active"
    /\ account' = [account EXCEPT ![u] = IF @ = "none" THEN "invited" ELSE @]
    /\ members' = [members EXCEPT ![u][t] = IF @ = "none" THEN "invited" ELSE @]
    /\ invitations' = invitations \cup {<<u, t>>}
    /\ UNCHANGED <<emailVerified, tenant, ownerUser, tokenTable, schemaState, request>>

\* POST /staff/invite, see StaffRoles: the first by the owner of the schema.
InviteStaff(u, t) ==
    /\ owners[t] # {}
    /\ members[u][t] # "active"
    /\ account' = [account EXCEPT ![u] = IF @ = "none" THEN "invited" ELSE @]
    /\ members' = [members EXCEPT ![u][t] = IF @ = "none" THEN "invited" ELSE @]
    /\ invitations' = invitations \cup {<<u, t>>}
    /\ UNCHANGED <<emailVerified, tenant, ownerUser, tokenTable, schemaState, request>>

\* The transaction of POST /auth/invite/accept.
AcceptInvite(u, t) ==
    /\ <<u, t>> \in invitations
    /\ account' = [account EXCEPT ![u] = "active"]
    /\ emailVerified' = emailVerified \cup {u}
    /\ members' = [members EXCEPT ![u][t] = "active"]
    /\ invitations' = invitations \ {<<u, t>>}
    /\ UNCHANGED <<tenant, ownerUser, tokenTable, schemaState, request>>

\* Too many failed logins; see PasswordLogin.
LockAccount(u) ==
    /\ account[u] = "active"
    /\ account' = [account EXCEPT ![u] = "locked"]
    /\ UNCHANGED <<emailVerified, tenant, ownerUser, members, invitations,
                   tokenTable, schemaState, request>>

TokenExpires(k) ==
    /\ k \in TokenIds \ lapsed
    /\ lapsed' = lapsed \cup {k}
    /\ UNCHANGED <<core, tenant, tokens, verified, schemaState, request>>

-----------------------------------------------------------------------------
(***************************************************************************)
(* POST /auth/verify-email, POST /dev/verify-email.                        *)
(***************************************************************************)

VerifyEmail(r, row) ==
    /\ At(r, "idle")
    /\ row \in tokens
    /\ row.id \notin verified \cup lapsed
    /\ Begin(r, Serving("guard", row.user, NoTenant, row.id, 0, {}))
    /\ UNCHANGED <<core, tenant, tokenTable, schemaState>>

\* The shortcut names the user instead of a token.
BypassVerify(r, u) ==
    /\ At(r, "idle")
    /\ account[u] # "none"
    /\ Begin(r, Serving("guard", u, NoTenant, NoToken, 0, {}))
    /\ UNCHANGED <<core, tenant, tokenTable, schemaState>>

\* Only an account both verified and active is refused: a locked one is not.
CheckUser(r) ==
    /\ At(r, "guard")
    /\ IF request[r].user \in emailVerified /\ account[request[r].user] = "active"
       THEN Finish(r) ELSE Goto(r, "membership")
    /\ UNCHANGED <<core, tenant, tokenTable, schemaState>>

\* findFirst without an order: any membership of the user, in whatever tenant.
FindMembership(r, t) ==
    /\ At(r, "membership")
    /\ t \in MemberOf(request[r].user)
    /\ Begin(r, Serving(IF request[r].token = NoToken THEN "retire" ELSE "activate",
                        request[r].user, t, request[r].token, 0, {}))
    /\ UNCHANGED <<core, tenant, tokenTable, schemaState>>

\* First statement of the transaction of the shortcut: the tokens it takes.
RetireTokens(r) ==
    /\ At(r, "retire")
    /\ Begin(r, [request[r] EXCEPT !.step = "activate",
                                   !.targets = Unverified(request[r].user)])
    /\ UNCHANGED <<core, tenant, tokenTable, schemaState>>

\* Mutant: the account is activated, the address not recorded as verified.
ActivateStatusOnly(r) ==
    /\ At(r, "activate")
    /\ verified' = verified \cup request[r].targets \cup ({request[r].token} \ {NoToken})
    /\ account' = [account EXCEPT ![request[r].user] = "active"]
    /\ members' = [members EXCEPT ![request[r].user][request[r].tenant] = "active"]
    /\ Begin(r, Serving("exists", request[r].user, request[r].tenant, NoToken, 0, {}))
    /\ UNCHANGED <<emailVerified, tenant, ownerUser, invitations, tokens, lapsed, schemaState>>

\* The transaction looks at nothing again.
Activate(r) ==
    /\ At(r, "activate")
    /\ verified' = verified \cup request[r].targets \cup ({request[r].token} \ {NoToken})
    /\ account' = [account EXCEPT ![request[r].user] = "active"]
    /\ emailVerified' = emailVerified \cup {request[r].user}
    /\ members' = [members EXCEPT ![request[r].user][request[r].tenant] = "active"]
    /\ Begin(r, Serving("exists", request[r].user, request[r].tenant, NoToken, 0, {}))
    /\ UNCHANGED <<tenant, ownerUser, invitations, tokens, lapsed, schemaState>>

-----------------------------------------------------------------------------
(***************************************************************************)
(* TenantSchemaManager.provisionSchema.                                    *)
(***************************************************************************)

\* Mutant: a schema that is there is taken for a finished one.
SchemaExistsSkips(r) ==
    /\ At(r, "exists")
    /\ IF request[r].tenant \in schemas THEN End(r, "open") ELSE Goto(r, "create")
    /\ UNCHANGED <<core, tenant, tokenTable, schemaState>>

\* Both callers leave ifNotExists at its default, false.
SchemaExists(r) ==
    /\ At(r, "exists")
    /\ IF request[r].tenant \in schemas THEN End(r, "suspend") ELSE Goto(r, "create")
    /\ UNCHANGED <<core, tenant, tokenTable, schemaState>>

\* CREATE SCHEMA IF NOT EXISTS.
CreateSchema(r) ==
    /\ At(r, "create")
    /\ schemas' = schemas \cup {request[r].tenant}
    /\ Goto(r, "apply")
    /\ UNCHANGED <<core, tenant, tokenTable, applied, seeded, owners>>

\* Mutant: the loop runs once too often.
ApplyStatementOffByOne(r) ==
    /\ At(r, "apply")
    /\ request[r].applied = applied[request[r].tenant]
    /\ applied' = [applied EXCEPT ![request[r].tenant] = @ + 1]
    /\ request' = [request EXCEPT ![r].applied = @ + 1,
                                  ![r].step = IF request[r].applied = Statements
                                              THEN "seed" ELSE "apply"]
    /\ UNCHANGED <<core, tenant, tokenTable, schemas, seeded, owners>>

\* The statements of the template have no IF NOT EXISTS: one that somebody
\* else has applied fails.
ApplyStatement(r) ==
    /\ At(r, "apply")
    /\ request[r].applied = applied[request[r].tenant]
    /\ applied' = [applied EXCEPT ![request[r].tenant] = @ + 1]
    /\ request' = [request EXCEPT ![r].applied = @ + 1,
                                  ![r].step = IF request[r].applied + 1 = Statements
                                              THEN "seed" ELSE "apply"]
    /\ UNCHANGED <<core, tenant, tokenTable, schemas, seeded, owners>>

StatementFails(r) ==
    /\ At(r, "apply")
    /\ request[r].applied # applied[request[r].tenant]
    /\ End(r, "suspend")
    /\ UNCHANGED <<core, tenant, tokenTable, schemaState>>

\* All inserts of the seed; a stop among them leaves it unfinished.
SeedTenantDefaults(r) ==
    /\ At(r, "seed")
    /\ seeded' = seeded \cup {request[r].tenant}
    /\ Goto(r, "assign")
    /\ UNCHANGED <<core, tenant, tokenTable, schemas, applied, owners>>

\* The owner is the user being verified.
AssignOwnerRole(r) ==
    /\ At(r, "assign")
    /\ owners' = [owners EXCEPT ![request[r].tenant] = @ \cup {request[r].user}]
    /\ End(r, "open")
    /\ UNCHANGED <<core, tenant, tokenTable, schemas, applied, seeded>>

OpenTenant(r) ==
    /\ At(r, "open")
    /\ tenant' = [tenant EXCEPT ![request[r].tenant] = "active"]
    /\ Finish(r)
    /\ UNCHANGED <<core, tokenTable, schemaState>>

\* The catch around the provisioning and the update that follows it.
SuspendTenant(r) ==
    /\ At(r, "suspend")
    /\ tenant' = [tenant EXCEPT ![request[r].tenant] = "suspended"]
    /\ Finish(r)
    /\ UNCHANGED <<core, tokenTable, schemaState>>

\* A statement of the provisioning fails for a reason of its own.
ProvisioningFails(r) ==
    /\ request[r].step \in {"exists", "create", "apply", "seed", "assign", "open"}
    /\ End(r, "suspend")
    /\ UNCHANGED <<core, tenant, tokenTable, schemaState>>

-----------------------------------------------------------------------------
(***************************************************************************)
(* POST /auth/resend-verification.                                         *)
(***************************************************************************)

Resend(r, u) ==
    /\ At(r, "idle")
    /\ account[u] # "none"
    /\ u \notin emailVerified
    /\ Begin(r, Serving("older", u, NoTenant, NoToken, 0, {}))
    /\ UNCHANGED <<core, tenant, tokenTable, schemaState>>

\* One transaction: the tokens its update takes, and the commit.
ExpireOlder(r) ==
    /\ At(r, "older")
    /\ Begin(r, Serving("issue", request[r].user, NoTenant, NoToken, 0,
                        Unverified(request[r].user)))
    /\ UNCHANGED <<core, tenant, tokenTable, schemaState>>

IssueToken(r, k) ==
    /\ At(r, "issue")
    /\ k \notin TokenIds
    /\ lapsed' = lapsed \cup request[r].targets
    /\ tokens' = tokens \cup {[id |-> k, user |-> request[r].user]}
    /\ Finish(r)
    /\ UNCHANGED <<core, tenant, verified, schemaState>>

-----------------------------------------------------------------------------
\* The process serving r stops, or a statement outside the try fails.
Crash(r) ==
    /\ ~At(r, "idle")
    /\ Finish(r)
    /\ UNCHANGED <<core, tenant, tokenTable, schemaState>>

AccountNext ==
    \/ \E u \in User, t \in Tenant :
          \/ \E k \in Token : Signup(u, t, k)
          \/ InviteStaff(u, t)
          \/ AcceptInvite(u, t)
    \/ \E u \in User : LockAccount(u)
    \/ \E k \in Token : TokenExpires(k)

VerifyNext(r) ==
    \/ \E row \in tokens : VerifyEmail(r, row)
    \/ \E u \in User : BypassVerify(r, u)
    \/ CheckUser(r)
    \/ \E t \in Tenant : FindMembership(r, t)
    \/ RetireTokens(r)
    \/ Activate(r)

ProvisionNext(r) ==
    \/ SchemaExists(r)
    \/ CreateSchema(r)
    \/ ApplyStatement(r)
    \/ StatementFails(r)
    \/ SeedTenantDefaults(r)
    \/ AssignOwnerRole(r)
    \/ OpenTenant(r)
    \/ SuspendTenant(r)
    \/ ProvisioningFails(r)

ResendNext(r) ==
    \/ \E u \in User : Resend(r, u)
    \/ ExpireOlder(r)
    \/ \E k \in Token : IssueToken(r, k)

Next ==
    \/ AccountNext
    \/ \E r \in Request : VerifyNext(r) \/ ProvisionNext(r) \/ ResendNext(r) \/ Crash(r)

Spec == Init /\ [][Next]_vars

-----------------------------------------------------------------------------
(***************************************************************************)
(* Properties.                                                             *)
(***************************************************************************)

\* Whoever may log in has shown an e-mail address, by whichever of the three
\* ways in, however they overlap (email-verify.service.ts:97,
\* invite-accept.service.ts:77).
AccountsVerified ==
    \A u \in User : account[u] \in {"active", "locked"} => u \in emailVerified

\* Provisioning makes nobody an owner but the user who signed up, although it
\* is given the user being verified and a membership found without an order
\* (email-verify.service.ts:80, 113): before anybody can be invited, the
\* schema is there and the provisioning refuses.
OwnersFounded == \A t \in Tenant : owners[t] \subseteq {ownerUser[t]}

\* The lifecycle of a tenant: its schema is complete before it opens, and is
\* completed once (email-verify.service.ts:108-131).
Completed == {t \in seeded : owners[t] # {}}

Lifecycle == INSTANCE TenantLifecycle WITH
    status <- tenant,
    founder <- ownerUser,
    ruler <- [t \in Tenant |-> IF t \in Completed THEN ownerUser[t] ELSE NoUser]

KeepsLifecycle == Lifecycle!Spec

\* Verification "marks TenantMembership as ACTIVE (was INVITED at signup)"
\* (email-verify.service.ts:32): with the token of somebody who signed up, the
\* membership of the tenant founded then, not one of a tenant that invited.
Founders == {ownerUser[t] : t \in Tenant} \ {NoUser}

ActivatesOwnMembership ==
    [][\A r \in Request :
          /\ Activate(r)
          /\ request[r].token # NoToken
          /\ request[r].user \in Founders
          => ownerUser[request[r].tenant] = request[r].user]_vars
=============================================================================
