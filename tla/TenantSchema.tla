---------------------------- MODULE TenantSchema ----------------------------
(***************************************************************************)
(* TenantSchemaManager: the provisioning of the schema of a new tenant and *)
(* the migration of all the schemas there are, statement by statement,     *)
(* each committed on its own, while tenants are verified, migrations are   *)
(* started again and either may stop half-way.                             *)
(*                                                                         *)
(* The connection is to the core database: a name is looked up in the      *)
(* schema of the tenant and then in public, where the core tables are.     *)
(***************************************************************************)
EXTENDS Naturals, TenantTemplate, Routes

CONSTANTS
    Schema,    \* schemaName of the rows of Tenant
    Vertical,  \* verticals a new tenant may have, or "none"
    Age,       \* number of features when the older tenants were provisioned
    Unused,    \* no vertical yet
    Public,    \* the schema public
    Nobody,    \* no schema
    MaxStops,  \* bound: stops half-way
    MaxRuns    \* bound: runs of a migration

ASSUME SchemaAssumption ==
    /\ Public \notin Schema /\ Nobody \notin Schema
    /\ Age \subseteq 1..Len(Features)
    /\ Unused \notin Vertical
    /\ Vertical \subseteq DOMAIN VerticalRoles \cup {"none"}
    /\ MaxStops \in Nat /\ MaxRuns \in Nat

VARIABLES
    fresh,      \* schemas of the tenants that had yet to be verified at first
    exists,     \* schemas that exist
    objects,    \* objects[s]: what is in schema s
    slugs,      \* slugs[s]: the rows of Permission
    roles,      \* roles[s]: the rows of Role
    grants,     \* grants[s]: the rows of RolePermission
    active,     \* tenants whose status is active
    vertical,   \* vertical[s]: the tenant's vertical, once it has been used
    next,       \* next[s]: the next statement of its provisioning, 0 when none
    migration,  \* what the migration going on is doing
    upgraded,   \* upgraded[s]: migrations reported to have succeeded on s
    stops,      \* how often something has stopped half-way
    runs        \* how often a migration has been started

vars == <<fresh, exists, objects, slugs, roles, grants, active, vertical, next,
          migration, upgraded, stops, runs>>
rows == <<slugs, roles, grants>>

\* The keys the dev controller offers.
Migrations ==
    [lead_assignment_webhook |-> LeadAssignmentWebhookMigration,
     lead_activities |-> LeadActivitiesMigration,
     tasks |-> TasksMigration]

Key == DOMAIN Migrations
NoMigration == [key |-> "none", todo |-> {}, schema |-> Nobody, next |-> 0, wasActive |-> FALSE]

Defaults == [v \in Vertical |-> SeedTenantDefaults(v)]
Last == Len(Template) + 4
Provisioning(s, v) ==
    IF next[s] <= Len(Template) THEN Template[next[s]] ELSE Defaults[v][next[s] - Len(Template)]

MadeBy(statements) == UNION {statements[i].makes : i \in DOMAIN statements}
Before(statements, n) == UNION {statements[i].makes : i \in 1 .. n - 1}
GivenBy(statements) == UNION {statements[i].grants : i \in DOMAIN statements}
Everything == MadeBy(Template)

TypeOK ==
    /\ fresh \subseteq Schema /\ exists \subseteq Schema /\ active \subseteq exists
    /\ objects \in [Schema \cup {Public} -> SUBSET Everything]
    /\ \A s \in Schema : grants[s] \subseteq roles[s] \X slugs[s]
    /\ \A s \in Schema : next[s] \in 0..Last + 1
    /\ migration.key \in Key \cup {"none"}
    /\ migration.todo \subseteq Schema /\ migration.schema \in Schema \cup {Nobody}
    /\ upgraded \in [Schema -> SUBSET Key]
    /\ stops \in 0..MaxStops /\ runs \in 0..MaxRuns

(***************************************************************************)
(* A tenant that is not fresh was provisioned when the template had fewer  *)
(* features; permissions came with the features.  One as old as the first  *)
(* or the second has since had the migrations that nothing offers any more.*)
(* In public there may be what the migration of tasks leaves on a tenant   *)
(* that is never verified.                                                 *)
(***************************************************************************)
SlugsOf == <<{}, {"custom_fields:manage"}, ContactSlugs, AssignmentSlugs, {}, {}>>

Since == <<CustomFieldsMigration \o ContactsLeadsMigration, ContactsLeadsMigration>>

Old(age) ==
    LET had == IF age \in DOMAIN Since THEN Since[age] ELSE <<>>
        latest == IF age \in DOMAIN Since THEN 3 ELSE age
        perms == CoreTenantPermissions \ UNION {SlugsOf[i] : i \in latest + 1 .. Len(Features)}
        seeded == CoreTenantRoles(perms)
    IN [objects |-> MadeBy(had) \cup UNION {MadeBy(Features[i]) : i \in 1 .. age},
        slugs |-> perms,
        grants |-> GivenBy(had) \cup UNION {{x} \X (seeded[x] \cap perms) : x \in CoreRoles}]

Init ==
    \E age \in Age :
        /\ fresh \in SUBSET Schema
        /\ exists = Schema \ fresh
        /\ active = Schema \ fresh
        /\ \E stray \in {{}, MadeBy(TaskTables)} :
               objects = [s \in Schema \cup {Public} |->
                             IF s \in exists THEN Old(age).objects
                             ELSE IF s = Public THEN stray ELSE {}]
        /\ slugs = [s \in Schema |-> IF s \in exists THEN Old(age).slugs ELSE {}]
        /\ roles = [s \in Schema |-> IF s \in exists THEN CoreRoles ELSE {}]
        /\ grants = [s \in Schema |-> IF s \in exists THEN Old(age).grants ELSE {}]
        /\ vertical = [s \in Schema |-> Unused]
        /\ next = [s \in Schema |-> 0]
        /\ migration = NoMigration
        /\ upgraded = [s \in Schema |-> {}]
        /\ stops = 0 /\ runs = 0

-----------------------------------------------------------------------------
(***************************************************************************)
(* One statement, with SET LOCAL search_path TO s, public before it.       *)
(***************************************************************************)

\* Where ALTER TABLE and CREATE INDEX find their table, and where a CREATE
\* puts its object: public, when there is no schema s.
Target(s, statement) ==
    IF \/ statement.on = "" /\ s \in exists
       \/ statement.on # "" /\ <<statement.on>> \in objects[s]
    THEN s ELSE Public

Collides(s, statement) ==
    ~statement.guarded /\ statement.makes \cap objects[Target(s, statement)] # {}

Fails(s, statement) ==
    \/ ~(statement.needs \subseteq objects[s] \cup objects[Public])
    \/ Collides(s, statement)

\* Mutation: a guard that looks the name up along the search path.
ExecuteUnlessNamed(s, statement) ==
    /\ objects' = [objects EXCEPT ![Target(s, statement)] =
                      @ \cup (statement.makes \ objects[Public])]
    /\ slugs' = [slugs EXCEPT ![s] = @ \cup statement.slugs]
    /\ roles' = [roles EXCEPT ![s] = @ \cup statement.roles]
    /\ grants' = [grants EXCEPT ![s] =
                     @ \cup (statement.grants \cap (roles[s] \X slugs[s]))]

\* Mutation: a grant does not wait for its role and its permission.
ExecuteUnchecked(s, statement) ==
    /\ objects' = [objects EXCEPT ![Target(s, statement)] = @ \cup statement.makes]
    /\ slugs' = [slugs EXCEPT ![s] = @ \cup statement.slugs]
    /\ roles' = [roles EXCEPT ![s] = @ \cup statement.roles]
    /\ grants' = [grants EXCEPT ![s] = @ \cup statement.grants]

\* An insert-select gives what there is a role and a permission for.
Execute(s, statement) ==
    /\ objects' = [objects EXCEPT ![Target(s, statement)] = @ \cup statement.makes]
    /\ slugs' = [slugs EXCEPT ![s] = @ \cup statement.slugs]
    /\ roles' = [roles EXCEPT ![s] = @ \cup statement.roles]
    /\ grants' = [grants EXCEPT ![s] =
                     @ \cup (statement.grants \cap (roles[s] \X slugs[s]))]

-----------------------------------------------------------------------------
(***************************************************************************)
(* Provisioning, once an address has been verified.                        *)
(***************************************************************************)

\* Mutation: a schema that is there is taken for a schema that is complete.
ProvisionOrSkip(s) ==
    /\ s \in fresh \ active
    /\ next[s] = 0
    /\ exists' = exists \cup {s}
    /\ next' = [next EXCEPT ![s] = IF s \in exists THEN Last + 1 ELSE 1]
    /\ UNCHANGED <<fresh, objects, rows, active, vertical, migration, upgraded, stops, runs>>

\* provisionSchema looks whether the schema exists and creates it.
ProvisionSchema(s) ==
    /\ s \in fresh \ exists
    /\ exists' = exists \cup {s}
    /\ next' = [next EXCEPT ![s] = 1]
    /\ UNCHANGED <<fresh, objects, rows, active, vertical, migration, upgraded, stops, runs>>

\* The template, then the defaults for the tenant's vertical.  A statement
\* that fails ends it.
ApplyStatement(s, v) ==
    /\ next[s] \in 1..Last
    /\ vertical' = IF next[s] <= Len(Template) THEN vertical ELSE [vertical EXCEPT ![s] = v]
    /\ LET statement == Provisioning(s, v) IN
       IF Fails(s, statement)
       THEN next' = [next EXCEPT ![s] = 0] /\ UNCHANGED <<objects, rows>>
       ELSE next' = [next EXCEPT ![s] = @ + 1] /\ Execute(s, statement)
    /\ UNCHANGED <<fresh, exists, active, migration, upgraded, stops, runs>>

\* The owner's assignment is in Onboarding; then the tenant is active.
Activate(s) ==
    /\ next[s] = Last + 1
    /\ active' = active \cup {s}
    /\ next' = [next EXCEPT ![s] = 0]
    /\ UNCHANGED <<fresh, exists, objects, rows, vertical, migration, upgraded, stops, runs>>

\* The service stops.  The verification token is used up: nobody resumes.
StopProvisioning(s) ==
    /\ next[s] > 0
    /\ stops < MaxStops
    /\ stops' = stops + 1
    /\ next' = [next EXCEPT ![s] = 0]
    /\ UNCHANGED <<fresh, exists, objects, rows, active, vertical, migration, upgraded, runs>>

-----------------------------------------------------------------------------
(***************************************************************************)
(* applyMigrationToAllTenants.                                             *)
(***************************************************************************)

\* The rows of Tenant are read once, verified or not.
RunTenantMigration(key) ==
    /\ migration.key = "none"
    /\ runs < MaxRuns
    /\ runs' = runs + 1
    /\ migration' = [NoMigration EXCEPT !.key = key, !.todo = Schema]
    /\ UNCHANGED <<fresh, exists, objects, rows, active, vertical, next, upgraded, stops>>

TakeSchema(s) ==
    /\ migration.schema = Nobody
    /\ s \in migration.todo
    /\ migration' = [migration EXCEPT !.todo = @ \ {s}, !.schema = s, !.next = 1,
                                      !.wasActive = s \in active]
    /\ UNCHANGED <<fresh, exists, objects, rows, active, vertical, next, upgraded, stops, runs>>

Leave == [migration EXCEPT !.schema = Nobody, !.next = 0, !.wasActive = FALSE]

\* A statement that fails ends it for this schema.
MigrateSchema ==
    LET s == migration.schema
        statement == Migrations[migration.key][migration.next]
    IN /\ s # Nobody
       /\ migration.next <= Len(Migrations[migration.key])
       /\ IF Fails(s, statement)
          THEN migration' = Leave /\ UNCHANGED <<objects, rows>>
          ELSE migration' = [migration EXCEPT !.next = @ + 1] /\ Execute(s, statement)
       /\ UNCHANGED <<fresh, exists, active, vertical, next, upgraded, stops, runs>>

Succeed ==
    /\ migration.schema # Nobody
    /\ migration.next = Len(Migrations[migration.key]) + 1
    /\ upgraded' = [upgraded EXCEPT ![migration.schema] =
                       @ \cup IF migration.wasActive THEN {migration.key} ELSE {}]
    /\ migration' = Leave
    /\ UNCHANGED <<fresh, exists, objects, rows, active, vertical, next, stops, runs>>

Answer ==
    /\ migration.key # "none" /\ migration.todo = {} /\ migration.schema = Nobody
    /\ migration' = NoMigration
    /\ UNCHANGED <<fresh, exists, objects, rows, active, vertical, next, upgraded, stops, runs>>

StopMigration ==
    /\ migration.key # "none"
    /\ stops < MaxStops
    /\ stops' = stops + 1
    /\ migration' = NoMigration
    /\ UNCHANGED <<fresh, exists, objects, rows, active, vertical, next, upgraded, runs>>

-----------------------------------------------------------------------------
Next ==
    \/ \E s \in Schema :
           \/ ProvisionSchema(s) \/ Activate(s)
           \/ StopProvisioning(s) \/ TakeSchema(s)
    \/ \E s \in Schema : \E v \in Vertical : vertical[s] \in {v, Unused} /\ ApplyStatement(s, v)
    \/ \E key \in Key : RunTenantMigration(key)
    \/ MigrateSchema \/ Succeed \/ Answer \/ StopMigration

Spec == Init /\ [][Next]_vars

-----------------------------------------------------------------------------
(***************************************************************************)
(* Properties.                                                             *)
(***************************************************************************)

\* The slugs role x has in schema s.
GrantedTo(s, x) == {slug \in slugs[s] : <<x, slug>> \in grants[s]}

\* tenant-template.ts, provisionSchema: the template refers to nothing it
\* has not made yet and makes nothing twice, so provisioning fails only when
\* a migration that runs meanwhile has put something into the schema first.
ProvisioningFailsOnlyByRace ==
    \A s \in Schema :
        next[s] \in DOMAIN Template /\ Fails(s, Template[next[s]])
        => ~(objects[s] \subseteq Before(Template, next[s]))

\* The features a migration builds on, as numbers in Features.
BuildsOn == [lead_assignment_webhook |-> {1}, lead_activities |-> {1, 3}, tasks |-> {1}]

\* applyMigrationToAllTenants: whatever an earlier run has left, a migration
\* fails on a schema only when what it builds on is not there.
MigrationsRepeatable ==
    migration.schema # Nobody /\ migration.next <= Len(Migrations[migration.key]) =>
        LET s == migration.schema IN
        Fails(s, Migrations[migration.key][migration.next])
        => \E i \in BuildsOn[migration.key] : ~(MadeBy(Features[i]) \subseteq objects[s])

\* A migration that meets a tenant without a schema leaves types and tables
\* in public, and a schema created meanwhile gets objects that refer to them.
\* Nothing else does: what is put into the schema of a tenant that was active
\* when the migration took it, or by provisioning, refers to that schema.
ReferencesStayInside ==
    [][\A s \in Schema : \A i \in DOMAIN Template :
           /\ Template[i].makes \subseteq objects'[s] \ objects[s]
           /\ ~(Template[i].needs \subseteq objects[s])
           => migration.schema = s /\ ~migration.wasActive]_vars

\* The roles of every vertical name only permissions seeded with them.
VerticalsAreSeeded ==
    \A v \in DOMAIN VerticalRoles : \A x \in DOMAIN VerticalRoles[v] :
        VerticalRoles[v][x] \subseteq CoreTenantPermissions \cup VerticalTenantPermissions[v]

\* An active new tenant has all of the template, and each of its roles all
\* it is to be seeded with: no grant is lost for want of its permission,
\* which holds of the verticals an instance leaves out as well.
ActiveIsComplete ==
    /\ VerticalsAreSeeded
    /\ \A s \in fresh \cap active :
           /\ Everything \subseteq objects[s]
           /\ \A x \in CoreRoles :
                  CoreTenantRoles(CoreTenantPermissions)[x] \subseteq GrantedTo(s, x)
           /\ vertical[s] \notin {"none", Unused} =>
                  \A x \in DOMAIN VerticalRoles[vertical[s]] :
                      GrantedTo(s, x) = VerticalRoles[vertical[s]][x]

\* The tables of tasks/README.md and lead-activities/README.md.
Documented ==
    [owner |-> TaskSlugs \cup {"leads:log_activity"},
     admin |-> TaskSlugs \cup {"leads:log_activity"},
     manager |-> TaskSlugs \cup {"leads:log_activity"},
     staff |-> (TaskSlugs \ {"tasks:delete"}) \cup {"leads:log_activity"}]

\* Once every migration has succeeded on an active tenant, of whatever age
\* and in whatever order, its schema is that of the template, its owner can
\* reach every route of the CRM, and its roles have what the READMEs say.
UpgradedIsCurrent ==
    \A s \in Schema : upgraded[s] = Key =>
        /\ objects[s] = Everything
        /\ Demanded \subseteq GrantedTo(s, "owner")
        /\ \A x \in DOMAIN Documented : Documented[x] \subseteq GrantedTo(s, x)

\* The READMEs list the permissions of activities and tasks as seeded.
SeededAsDocumented ==
    \A s \in fresh \cap active :
        \A x \in DOMAIN Documented : Documented[x] \subseteq GrantedTo(s, x)
=============================================================================
