# BOS platform: verification project

The repository is the back end of a multi-tenant CRM: an auth service, a CRM
service and shared libraries, in TypeScript over Postgres (one core database
schema, one schema per tenant), Redis and BullMQ. This directory models its
stateful parts in TLA+, checks small instances with TLC and proves the main
results for all instances with TLAPS.

## 1. The system

| Component | State | Operations | Hard behaviour |
|---|---|---|---|
| Sessions and refresh tokens (`auth/services/{login,refresh,logout,token-issuer}.service.ts`) | `sessions`, `refresh_tokens` | login, refresh with rotation and reuse detection, logout, logout everywhere | each handler is several statements without a transaction; a refresh holds a row it read some statements ago |
| Password login and lockout (`login.service.ts`) | status in `users`, Redis key `lockout:<user>` | attempt, count a failure, lock | GET, bcrypt, INCR and EXPIRE are separate; a lock has to end |
| Password reset (`password-reset.service.ts`) | `password_resets` | request, redeem | token judged outside the transaction that consumes it |
| Two-factor (`two-factor.service.ts`) | three columns of `users` | set up, confirm, disable, verify, regenerate | every handler reads the row and later overwrites all three columns |
| Signup, verification, provisioning (`signup`, `email-verify`, `tenant-schema-manager`) | `users`, `tenants`, tokens, the tenant schema | sign up, verify, resend, bypass, provision | DDL outside the transaction; repeated or half-done provisioning |
| Staff, invitations, role assignments (`crm-core/modules/staff`, `invite-accept.service.ts`) | `tenant_memberships`, `user_invites` (core), `UserBranchMembership` (tenant) | invite, revoke, accept, change role, deactivate | two databases without a common transaction; the guard for the last owner |
| Roles and permissions (`crm-core/modules/roles`, `permission-resolver.service.ts`) | `Role`, `RolePermission`, a cache of 60 s | create, delete, replace permissions, resolve | full replacements that overlap; stale cache |
| Access tokens (`libs/auth-client`) | a Redis key per revoked JWT id | three guards in front of every route; revoke | the life of the key against that of the token |
| Tenant schemas (`libs/database`: template, migrations, seeds) | one Postgres schema per tenant | provision, seed, migrate all tenants | every statement commits on its own; a search path that ends in `public`; a migration meets a provisioning half done |
| Branches (`crm-core/modules/branches`) | `Branch` | create, update, deactivate | last active branch, one head office |
| Leads, contacts, activities (`crm-core/modules/{leads,contacts,lead-activities}`) | `Lead`, `Contact`, `LeadActivity` | create, convert, update, delete; activities | conversion twice; denormalised columns recomputed by read and write |
| Lead assignment (`crm-core/modules/lead-assignment`) | a round-robin counter in Redis, `Lead.ownedByUserId` | consume `crm.lead.created` | at-least-once jobs, manual assignment meanwhile |
| Lead webhooks (`crm-core/modules/webhooks`) | a row in Postgres, a key in Redis | create, delete, regenerate, ingest | the two stores written one after the other |
| Mail queue (`auth-service/modules/mail`, `libs/queue`) | BullMQ jobs, `OutboundMessage` | send with three attempts | sent but not recorded, then retried |
| Tenant clients (`libs/database/tenant-prisma.service.ts`) | LRU of database clients | get, evict, disconnect | eviction of a client in use |
| Tasks (`crm-core/modules/tasks`) | `Task`, `TaskAssignee`, checklists | create, update, delete, assign | the notice is prepared behind the answered call |
| Tags, custom fields, settings | single rows | create, read, update, delete | little is shared between requests |
| Errors, logging, seeds, templates | none | | |

The auth service and the CRM service share the core database: staff handlers of
the CRM end sessions of the auth service, and accepting an invitation in the
auth service writes into the schema of the tenant. The queues carry mail and
lead events; the libraries guard every request of both services.

Per component, what makes it correct:

- sessions: a token chain stays on one session and user, a burned token is
  never exchanged by a later request, only the owner's requests end a session;
- login: the number of guesses is bounded whatever overlaps, a counter expires,
  a lock ends; a reset token sets one password;
- two-factor: on only with a secret the user's device holds, codes of that
  secret, a code used once;
- onboarding: only verified addresses log in, a tenant's schema is completed once,
  for its founder, before the tenant opens;
- staff: an owner remains, nobody joins uninvited, roles in use exist,
  an accepted invitation gives its role;
- permissions: nothing is honoured that no role of the user has carried, the
  cache follows the tables, a signed-out token is refused for as long as it lives;
- tenant schemas: a tenant opens with all of its tables, roles and permissions;
  a migration can be repeated and brings every tenant up to date;
- branches: at least one stays active; leads: converted once, whoever owns one
  was told; activities: the columns of a lead summarise its rows; webhooks: the
  token of a row resolves; mail: each message recorded, sent at best once.

`PROJECT.json` lists the components with the modules that cover them and every
hazard of the code at the line where it bites.

## 2. How the code is modelled

A request is a process. `request[r]` holds the step it is at and what its
handler keeps in local variables; `Begin`, `Goto` and `Finish` move it. One
action is one statement (Prisma call, Redis command) or one transaction, with
the synchronous code around it. Between two actions every other request may
run: that is what read committed and Redis give. An interactive transaction
that reads and then writes in bulk is two actions, the read of the rows its
`UPDATE` takes and the commit that makes them visible, so that rows inserted
in between are missed as they are by Postgres.

A refusal that writes nothing is the absence of an action when it comes from the
first read, and `Finish` later on. `Crash(r)` ends a request between any two
statements: the process stops, a statement fails, and nothing is undone.

Tokens, secrets, passwords, names and times are model values or absent. Expiry
is an event (`CounterExpires`, `ResetExpires`, `ExpirePending`) where state
depends on it. Tables are sets of records; a column that is only ever set
once (`usedAt`, `revokedAt`, `endedAt`) is the set of the ids that have it.
Where lives are compared, in `Access`, time is a tick and each life a number of
ticks. Ids are drawn from a finite set of the allocatable ones (`Session`, `Token`,
`Assignment`, `Invite`, `Secret`, `Batch`, `Activity`, `Webhook`, `Branch`): these
sets bound how much can happen. The other bounds are named: `MaxServed`
(activity requests in all), `MaxToken` (webhook tokens drawn), `MaxStalls` (how often a
job may stall, which is BullMQ's own limit), `MaxStops` and `MaxRuns`
(stops and migrations in `TenantSchema`).

A BullMQ job is an external component, `JobQueue`: taken by one worker, retried
after a failure until its attempts are used up, waiting again when its worker
stops. The attempts are those of `queue.module.ts`, 3 for mail and 5 for workflow.

## 3. Modules

| Module | Models | Notes |
|---|---|---|
| `SessionContract` | what the auth service promises about sessions: they only move forward, a token is rotated only for a request that saw its session open | abstract; a first token may still be granted on a session that has ended, as the code does |
| `RefreshRotation` | the statements of login, second factor, invitation, refresh, reuse detection, logout, logout everywhere, password reset, staff deactivation on `sessions` and `refresh_tokens` | implements `SessionContract` under the refinement mapping `Contract` |
| `PasswordLogin` | attempts, the Redis counter and its time to live, the account status, reset tokens | `redeemed` is a history variable |
| `TwoFactor` | the three columns and the five handlers that rewrite them from a row read earlier | `issued`, `proven`, `accepted` are history variables |
| `Accounts` | the password and the second factor, two sides of the user row | composes `PasswordLogin` and `TwoFactor` |
| `StaffRoles` | memberships and invitations (core database), roles and assignments (tenant schema): invite, revoke, accept, change role, deactivate, create and delete a role | `excused` is a history variable, see below |
| `StaffSessions` | the staff with its sessions: logins that read the membership in one statement and insert the session in another, acceptances that go on to a session, deactivations that end sessions in parallel with the suspension | extends `StaffRoles`, whose steps are its `StaffStep`; `overtaken`, `abandoned` are history |
| `TenantLifecycle` | what onboarding promises about a tenant: founded, completed once for the founder, opened after that; a suspension at any time | abstract |
| `Onboarding` | signup, the e-mail tokens, verification and its shortcut, resending, `provisionSchema` statement by statement, the tenant's status; invitations as far as they make members | implements `TenantLifecycle` under the refinement mapping `Lifecycle` |
| `Leads` | creating a lead with the look-up or creation of its contact, the origin stamp and the event; converting; deleting; contacts made, edited and deleted by hand | `automatic` (contacts that still have the e-mail `createLead` gave them) and the count in `conversions` are history |
| `Routes` | every route of both services: what its decorators ask for | one record per controller and requirement |
| `Access` | `JwtAuthGuard`, `PermissionsGuard`, `TenantScopeGuard` and the permission resolver, one step per read; the replacement of a role's permissions under read committed, with its snapshot and its row locks; logout, new tokens, time | `held`, `could` are history variables |
| `TenantTemplate` | the SQL of the template and of the five migrations, the seeds of `tenant-defaults.ts` | a statement is what it makes, what it refers to and whether it is guarded |
| `TenantSchema` | `provisionSchema`, `seedTenantDefaults`, `applyMigrationToAllTenants`, statement by statement, along the search path | tenants start as old as any earlier template made them |
| `TenantFacts` | what the statements of the template, the seeds and the migrations have to do with each other | facts without a constant of the instance, as `ASSUME`s TLC evaluates; the proofs rest on them |
| `LeadActivities` | activities and the three columns of the lead; the two statements of `create` run in parallel, as the two recalculations of `softDelete` do | `unsure` is a history variable |
| `JobQueue` | BullMQ as the workers rely on it | external |
| `LeadAssignment` | the configuration, the worker of `crm.lead.created`, owners set by hand | extends `JobQueue`; `moved` is history |
| `TaskMail` | tasks, assignees, the notice behind the call, `MailProcessor` | extends `JobQueue`; `handed`, `late` are history |
| `LeadWebhooks` | rows and Redis keys of webhook tokens | `lost` is history |
| `Branches` | branches, head offices, deactivation | `raced`, `excused` are history |
| `Crm` | the five components of crm-core that share no state, one process | composes `LeadActivities`, `LeadWebhooks`, `Branches`, `LeadAssignment`, `TaskMail` |
| `MC*` | instances for TLC (symmetry) | `*Proofs`: theorems and proofs |

Each handler appears once per table it touches: the acceptance of an invitation
is in `StaffRoles` (membership, role), `RefreshRotation` (session, token) and
`PasswordLogin` (status); `Onboarding` has invitation and acceptance as single
transactions, because their overlaps are in `StaffRoles`; a staff deactivation in `StaffRoles`,
`StaffSessions` and `RefreshRotation`; a password reset in `PasswordLogin` and `RefreshRotation`.
The tables of one module are not read by the handlers of another, except that a
login requires an active account and membership. `RefreshRotation` lets
any user log in, which covers every status; what the status of the membership and the sessions
have to do with each other is the subject of `StaffSessions`, which joins the two databases
but leaves the tokens to `RefreshRotation`: a refresh looks at the session and not at the membership,
so a member is out when the session is.

`TenantSchema` refines one step of `Onboarding`: there the template is a number of
statements, here it is the statements of the repository. `Access` takes
`deactivateStaff` and `updateRoleAssignment` as the guards notice them.
`Crm` has a variable `focus`, chosen at first: a behaviour exercises one of its
components while the others stand still, so the state space is the sum
and not the product. `Accounts` does
the same for the handlers of a user row: those of the password and those of the second
factor read and write different columns, and either may have as many users as it takes.
No interleaving is lost, because what shares nothing does not notice it:
`Interleaved` in both modules has all of them going on in any order, and is proved to keep the
same properties (`InterleavedIsSound`).

`PROJECT.json` ("map") gives the lines of every definition.

## 4. Runs

| Run | Instance | Checks | Result |
|---|---|---|---|
| `refresh_rotation` | 2 users (one with 2FA), 2 sessions, 3 tokens, 2 requests | `TypeOK`, `RotationChain`, `ExchangesBounded`, `EndedOnBehalfOfOwner`, `KeepsContract` | holds |
| `accounts` | 1 user, 3 reset tokens, 3 attempts; 2 users enrolling, 2 secrets, 2 batches of 2 codes; 2 requests | `TypesOK`, `GuessesBounded`, `LiveResetsBounded`, `RedeemsBounded`, `CounterOutlivesOnlyACrash`, `OnlyProvenSecrets`, `CodesBelongToSecret` | holds |
| `staff_sessions` | 2 users, owner and one custom role, 1 branch, 2 assignments, 1 invitation, 1 session, 2 requests | `ServiceTypeOK`, `ActiveRolesExist`, `StaffCameIn`, `OwnerRemainsUnlessExcused`, `DismissedAreOut` | holds |
| `last_owner` | `StaffRoles` alone with 4 assignments, 1 request | `LastOwnerProtected` | violated: assignments are counted, not owners |
| `onboarding` | 2 users, 2 tenants, 2 e-mail tokens, 2 requests, a template of 2 statements | `TypeOK`, `AccountsVerified`, `OwnersFounded`, `KeepsLifecycle` | holds |
| `leads` | 2 leads, 2 contacts, 1 e-mail, 2 requests | `DuplicatesBounded`, `ConversionsBounded`, `OriginTraceable`, `OnlyACrashSilences` | holds |
| `access` | 1 user, 2 roles (one full), 1 permission, a tenant's and a platform token, 1 request, 1 replacement, lives of 2, 1 and 2 ticks | `HonouredOnceGranted`, `KeyOutlivesToken`, `EntriesSettle` | holds |
| `tenant_schema` | 1 tenant, new or of any of the six ages; vertical `medical`; 3 migrations, 1 stop | `ProvisioningFailsOnlyByRace`, `MigrationsRepeatable`, `UpgradedIsCurrent` | holds |
| `tenants` | 2 tenants, new or of the oldest age; vertical `gym`; 1 migration, no stop | `TypeOK`, `ActiveIsComplete`, `ReferencesStayInside`, and the facts of `TenantFacts` | holds |
| `crm` | 2 activities, 2 due dates, 2 requests, 4 served; 2 webhooks, 4 tokens; 3 branches; 1 lead, 2 agents, 5 attempts; 1 mail, 2 tasks, 2 users, 3 attempts; 1 stall | `TypesOK`, `ColumnsExplained`, `LiveTokensResolve`, `BranchRemains`, `AssignmentAccountedFor`, `MailAccountedFor` | holds |
| `seeded_permissions` | 1 tenant, new or as old as feature 1, 4 or 5; no vertical; 3 migrations, 1 stop | `SeededAsDocumented` | violated: the seeds lack `tasks:*` and `leads:log_activity`, which only the migrations insert |
| `replaced_in_full` | 2 permissions, 2 replacements, no request | `ReplacedInFull` | violated: a deletion that waits does not see the rows inserted meanwhile, and the role keeps the union |

Why the bounds are enough. Every race here is between two requests, one that
remembers and one that writes, so two requests show all of them; the theorems
cover any number. Three tokens allow a chain, its reuse and a second successor;
two sessions tell "of this user" from "of anybody". Three attempts are more than
the requests, so the limit is exceeded by a race and not by the size. Two secrets
and batches suffice for an enrolment over another. Two assignments are the
founder's and somebody else's; a third is only needed to hold the role twice,
which `last_owner` has. `staff_sessions` explores all of `StaffRoles` with the
owner role given tenant-wide (`OwnerTenantWide`; `last_owner` and the theorems have it at branches, too),
and one session is enough to be opened before, between or after the updates of a
deactivation. Branches, custom roles and changes of role touch neither a membership nor a
session, so sessions are opened only in the states that have none of them
(`Apart`), and in the others what a deactivation or an acceptance has to do to the sessions is done or
fails at once (`Eager`), which no step of `StaffRoles` can notice. Two users and tenants let somebody who signed up be
invited elsewhere; two statements let a second provisioning fail before the
first statement and between the two. Two leads and two contacts let two creations
overlap on one e-mail, and a conversion move a lead to the contact of the other;
`DuplicatesBounded` counts requests that are about to create a contact, so it could fail without a
third. One request and one replacement in `access` are enough because requests meet only
in the cache and in the tables: what one request leaves in the cache the next one
finds, and evictions, role changes and ticks come between any two of its steps; the
overlap of two replacements is in `replaced_in_full`, and the theorems have any
number of everything. A platform token lives a shorter time than a tenant's, as configured. An age is the number of
features the template had when the tenant was provisioned; three runs of a migration bring the oldest
tenant up to date, in any order, or repeat one twice. A schema is looked at alone,
and `public`, which may hold from the start what an earlier migration has left there, is
the second one a statement can reach; two tenants in `tenants` show a migration that takes
one after the other, and what it leaves in `public` for one met by the provisioning of the other.
In `crm` two activities with two due dates
let a recalculation see a row another deletes, and four requests a fourth repair what
three left; 4 webhook tokens let two regenerations of one webhook
overlap after its creation; 3 branches let a head office and two others go; the attempts are the
configured ones. A violation run keeps the instance that shows it smallest.

Type invariants: of `Leads` and `Access` they are proved (section 5) and
not checked by a run; all the others are checked and proved.

What the passing runs say beyond the races they bound: `ExchangesBounded` and
`RedeemsBounded`, `ConversionsBounded` and `DuplicatesBounded` count the requests that are under way along with what they did,
so they say precisely who may exceed a single use, the requests that read before
the first write. `CounterOutlivesOnlyACrash` names the only step that leaves a
counter without a time to live. `OwnerRemainsUnlessExcused` is the guarantee the
guard of the last owner gives: an owner remains as long as no two
changes are past the guard at once and no owner holds the role twice; `excused`
records whether that ever happened, so the property is about whole histories.
`DismissedAreOut` says which sessions a deactivation leaves: those whose login had read the membership
before, those opened between the update of the sessions and that of the membership,
and, if the update of the sessions failed, any.
`OwnersFounded` holds for a reason the handler does not state: it is given the
user being verified and any membership of that user, and would make an invited
user owner, but nobody can be invited before the schema exists, and with an
existing schema the provisioning refuses. The mutant that lets invitations come
earlier shows it. `TenantLifecycle` allows an open tenant to be suspended because the
code does it: a verification that finds the schema there suspends the tenant, and
only a provisioning that was already past that look can still set it to active.
One that stopped half-way is not completed by another call.
In `Leads`, creations one at a time never make a second contact for an e-mail and
conversions never convert a lead twice; overlapping ones do both, as `lead.service.ts` has
neither a transaction nor a unique key to prevent it, and the bounds say how
often. `convertLead` has a branch that creates a contact for a lead without one;
it is not in the model, because `createLead` always links a contact and contacts
are only marked deleted. Deletions and edits look a row up and then write it by
id; `Leads` has both in one step, which loses nothing: writing to a row that was
deleted in between changes nothing that any look-up returns.

`HonouredOnceGranted` is what the two reads of the resolver give in the presence
of any change between them: roles read before a change and permissions read after it can
combine to a set the user never had at one instant, but each permission in it was carried by
a role the user has or had. `EntriesSettle` is the
time to live of the cache as a liveness property: once nobody changes roles any more, what
a late reader stores is in time replaced by what the tables say; the mutant in
which a hit renews the entry breaks it. `KeyOutlivesToken` relates two clocks: the key
written at logout outlives what is left of the token, of either scope.
`MigrationsRepeatable` and `UpgradedIsCurrent` are about every prefix a stop can
leave. `ReferencesStayInside` names the one way a tenant's objects
come to refer to another schema: a migration that takes a tenant which has not been
provisioned. `ActiveIsComplete` also says that no grant of a seeded role is lost because its
permission is not seeded, for all verticals of `tenant-defaults.ts`.
`ColumnsExplained`, `BranchRemains`, `LiveTokensResolve`, `AssignmentAccountedFor`
and `MailAccountedFor` have the same form: each says what
must have happened (a recalculation that was overtaken, a deactivation that counted nothing
or counted too early, a key that was never set, a job that was repeated, an answer that
was lost) for the state to be other than promised, and that nothing else does it.
`MailAccountedFor` allows a mail to be handed over more than once, and more than
one attempt to be recorded, no more often than the job was retried.

Deadlock is checked except in `crm`, `tenant_schema`, `tenants` and `seeded_permissions`, where the
numbers of requests, stops and migrations are used up and the system may rest;
in the others a request can always start, crash or go on.

Fairness. Only `EntriesSettle` is a liveness property. `Fairness` in `Access` lets time pass
and lets a request that has begun go on, which the event loop
and the database drivers do. Nobody is obliged to make a request, to sign in or out, or to
change a role, and no lock or replacement is assumed to come to an end.

Other statements of the documentation the code does not keep. They are stated
in the modules, TLC refutes each within the bounds of section 4 when its module is run
alone, and no run repeats it:

- `UsedExactlyOnce` (`RefreshRotation`; comment at `refresh.service.ts:25`): `markUsed`
  updates by id and does not look at `usedAt` again, so two refreshes that read a token
  unused both get a successor. `ExchangesBounded` is what does hold.
- `LockEnds` (`PasswordLogin`, under `FairSpec`; `auth/README.md:73`): nothing compares
  `lockedUntil` with the clock and `UsersService.unlock` has no caller.
- `BackupCodesSingleUse` (`TwoFactor`; comment at `two-factor.service.ts:43`): the remaining
  codes are computed from a stale row. `CodesBelongToSecret` holds.
- `AcceptedInviteAssigns` (`StaffRoles`; comment at `invite-accept.service.ts:106`): the insert
  after the commit is refused for a role once held at that branch, or deleted since.
  `StaffCameIn` holds.
- `ForceLoggedOut` (`StaffSessions`; comment at `staff.repository.ts:353`): a login that read the membership
  before the deactivation opens its session after it, and neither a login nor a refresh ends
  that session later, because a refresh looks at the session only. `DismissedAreOut` holds.
- `SuspensionLasts` (`StaffRoles`; `crm-core/modules/staff/README.md:119`, no endpoint re-activates a suspended
  member): an acceptance makes a membership active whatever it was, a deactivation leaves pending
  invitations alone, and a suspended member may be invited again. `StaffCameIn` holds.
- `ActivatesOwnMembership` (`Onboarding`; comment at `email-verify.service.ts:32`): the
  membership is looked up by user alone, so that of an inviting tenant may be activated.
  `OwnersFounded` holds.

Two more need no model: `branches/README.md:9` says a tenant is never left without an active
branch, but only a head office is guarded (`BranchRemains` says what is left of it), and
`branches/README.md:3` speaks of a branch "Main" that no code creates.

## 5. Proofs

All theorems are proved by `tlapm` from the modules' assumptions on constants:
null values are not ids, `Request` is finite in `RefreshRotation`
and finite and not empty in `PasswordLogin` (cardinalities are compared), `MaxAttempts` and `CodeCount` are positive, the
founder is a user, the owner role is a system role, `Request` and `Contact` are
finite in `Leads` (they are counted), `Activity` and `Request` in `LeadActivities`;
in `Crm` users are numbered from 1, a job has an attempt at least and the bounds
on tokens and stalls are numbers;
in `Access` a platform token lives no longer than a tenant's. The other sets of ids are arbitrary, finite
or not. `TenantSchemaProofs` rests besides on the four facts of `TenantFacts`. They are about
the SQL of the repository as `TenantTemplate` has it, which is fixed; no constant of an instance
occurs in them, so that TLC, which computes them in the run `tenants`, decides them for all
instances.

- `RefreshRotationProofs`. `RotationChain` is not inductive: a handler writes
  what it read some steps before. `Consistent` adds that what a request
  remembers is still in the tables (`RequestSound`), which holds because rows are
  never deleted and keys never change. Proved: `TypeCorrect`,
  `ConsistentAlways`, `RotationChainAlways`, `OnlyOwnersEnd`, and `ContractKept`,
  the refinement of `SessionContract` by step simulation. `ExchangesBounded` is
  inductive once the successors of a token are known to be finite: a request starts to
  hold a token only while it has no successor, and leaves as it makes one.
- `AccountsProofs`. Password, second factor, and the two together. `GuessesBounded` counts requests at `verify` on top of
  the counter: passing the check adds a request while the counter is
  below the limit, a failure moves one from the requests to the counter.
  `RedeemsBounded` rests on "an unconsumed token has set no password".
  `LiveResetsBounded` does not say what the transactions under way will leave alive;
  `LiveBalance` does, for every set of them that may still commit.
  `OnlyACrashUncovers` has a case per action.
  The invariants of the second factor also hold of every row a request has read (`SoundRow`),
  because overwriting with an old row is what the code does. Each side is proved
  alone, from its own specification; `InterleavedImplementTheirParts` and
  `AccountsImplementTheirParts` show that a behaviour of both is one of each, which carries
  every result over.
- `StaffRolesProofs`. `IInv` adds to the properties: ids are unique, roles of
  revoked assignments exist as well (that is what the foreign key sees), an
  acceptance in progress has its invitation, a reassignment revokes rows of its
  target only, and `Safe`: unless excused, for each request past the guard an
  active assignment of the owner role belongs to somebody other than its
  target. The last is why one change at a time cannot remove the last owner.
  `StaffSessions` keeps all of this, because its steps are steps of `StaffRoles` or leave its state
  alone (`ServiceRefinesStaff`). For `DismissedAreOut`, `ServiceInv` adds two things: what a request has yet to do to the
  sessions fits the step it is at (`PendingFits`), and a deactivation whose update of the
  sessions came before that of the membership has already left nobody logged in
  but those `OpenSession` records (`EarlyAreOut`). Without the second the suspension
  itself would break the property.
- `LeadsProofs`. `Typed` adds to the types that a lead on its way to be announced
  is inserted. `OriginTraceable` needs `StampsSound`: a request about to stamp a
  contact has the only claim on its lead. The two bounds move one unit between
  the table and the requests counted, or only shrink; beginning to convert or to
  create is allowed from zero only. `CrashAloneSilences` has a case per action.
- `OnboardingProofs`. `OwnersFounded` needs `FounderFirst`: as long as a tenant
  has no owner, only the founder is a member. Then a request that finds no schema
  acts for the founder, and knows it until it is done (`Knows`). What a
  request knows is stable because no step takes back a founder, a membership, a
  schema or an owner (`Kept`). `LifecycleKept` is the refinement.

- `AccessProofs`. `KeyOutlivesToken` needs `KeyCovers`: what is left of a signed-out
  token is no more than what is left of its key, which a tick keeps and which logout
  establishes because no life exceeds `TokenLife`. `HonouredOnceGranted` needs
  that `could` covers what the roles a user has or had carry now (`CouldCovers`), that
  it only grows (`NextGrows`), and that the roles a request has read were held; then what
  the second read finds is covered at the moment it reads.
- `CrmProofs`, one part per component and one for the process.
  - Activities. `Typed` says for each kind of request which statements
    can still be open and which columns it then owes. The three columns have an invariant
    each: `FollowUpExact` and `LastExact` say that a column which is not marked and which
    no request is about to rewrite has the value of the rows, and that a request that
    has read them and was not overtaken holds that value; `CountExact` that the count
    is the number of live rows, corrected by the requests between their two
    statements, a sum over finite sets (`CountBalances`). Least and greatest elements exist by
    well-foundedness (`Least`, `Greatest`).
  - Webhooks (`HooksSound`). No two rows hold one token; a token drawn to replace
    another is in no row and with no other request; a token read from one row is in no
    other, and in none once its key is to be deleted. So deleting the key of an
    old token never takes the key of a live one.
  - Branches (`Spared`). A deactivation that has counted, and that no other has overtaken
    since, leaves an active branch besides its own: of two branches counted one is
    not the one deactivated (`TwoRemain`).
  - Lead assignment (`RoutingSound`, per lead). `PlaceIsMember`: the place in the rotation is
    always taken by an agent, because ranks in a finite set of numbers are distinct and
    below its size. A run has chosen nobody before it draws, and has one of the
    agents it read from then on; agents told do not exceed the runs begun.
  - Task mail (`NoticesSound`, per mail). What was handed over has a row, the
    last row is the one an attempt marks, and an attempt that has not come to the
    provider has handed nothing over. A call that stores its row after the deletion finds the
    task gone when it reads it.
  - The process. `CrmMoves`: a component moves only by its own step, so `CrmSpec` implements
    the specification of each (`CrmImplementsItsComponents`), and each keeps its invariant. So does
    `Interleaved`, which has no focus (`InterleavedIsSound`).

- `TenantSchemaProofs`. Provisioning and migrations run down lists of statements, each of
  which commits. `Sound` says what that leaves: whatever a list has come past is in the schema
  (`Provisioned`, `Migrating`), an active tenant has what the oldest one has (`NoOlder`), a new
  one all of its seeds (`Complete`), a migrated one what its migrations gave (`Upgraded`);
  and all of it lasts, because no statement takes anything back.
  - `ActiveIsComplete` asks that a role of a vertical has exactly its permissions, so `OwnRolesOnly` bounds
    what a new tenant's roles were granted from above. That the defaults of all verticals
    name only permissions seeded with them, and come in an order in which each
    finds what it refers to, is proved (`VerticalsSeeded`, `DefaultsInOrder`).
  - `ProvisioningFailsOnlyByRace`: the template needs only what it has made before and makes
    nothing twice (`TemplateFact`), so a statement fails only where somebody else has made
    something. `MigrationsRepeatable`: a statement of a migration that makes anything is guarded.
  - `ReferencesStayInside` is an action property. What a statement makes it makes in the
    tenant's schema only if that is its target; a statement of the template, or of a migration of an
    active tenant, finds what it needs there, since what came before it in the list is there.

Only model-checked: `EntriesSettle`, which is liveness, and the violations, which are
about single instances. Liveness and `ENABLED` are out of the prover's reach, as are
`RECURSIVE` operators and induction over data. Every invariant and action property a
passing run checks is stated by a theorem.

## 6. Plan

Done: every module of section 3; every safety property of section 4 is proved. What would
come next, in this order:

1. The composition of `Leads` with `LeadAssignment` (liveness: a created lead is assigned if its
   job is delivered and an agent is eligible), and the tokens of `RefreshRotation` in
   `StaffSessions`.
2. `TenantSchema` as an implementation of the provisioning in `Onboarding`: a list of
   statements that fails half-way or completes.
3. `updateTask` and checklists; the tags of leads and contacts.

## 7. Not modelled

- Signatures and contents of JWTs, hashing, TOTP arithmetic, validation of DTOs,
  mail templates, logging, configuration: no state several requests share.
- `UsersService.suspend`, `unlock`, `activate`, `softDelete`, `revokeMany`,
  `dropSchema`: they have no caller in the repository.
- `recordLogin`, `lastActiveAt`: written and only displayed.
- Tags, custom fields, lead statuses, contact sources and lists, tenant settings and
  modules: single rows, looked up and then written; what two requests might
  duplicate a unique index refuses. Checklists and `updateTask` likewise.
- `WebhookIngestionController` passes `'webhook'` as the creator of the lead, a column of
  UUIDs, so the insert fails after a contact may have been made: the
  `Crash` of `Leads` at that place.
- `TenantPrismaService`: a cache of clients within one process; what a disconnected
  client does to a query is decided inside the library.
- The seeds of the platform (`prisma/core/seed.ts`): run by hand, once.
- Invitations name branches that exist; `inviteStaff` does not check it, and one that does
  not would be refused like a role that is gone.
- The staff README (line 60) says a deactivation does not revoke sessions; the
  code does (`staff.repository.ts:351-405`), and `RefreshRotation` models the code.
