-------------------------- MODULE TenantSchemaProofs --------------------------
(***************************************************************************)
(* The schemas of tenants, for any number of tenants of any age, any       *)
(* verticals and any bounds: however provisioning and migrations overlap   *)
(* and wherever they stop.                                                 *)
(*                                                                         *)
(* Both run through a list of statements, so the invariant says of each    *)
(* that what it has come past is in the schema, and that this lasts,       *)
(* because nothing is ever taken out of one.                               *)
(***************************************************************************)
EXTENDS TenantFacts, TLAPS

Place == Schema \cup {Public}

Typed ==
    /\ fresh \subseteq Schema /\ exists \subseteq Schema /\ active \subseteq exists
    /\ objects \in [Place -> SUBSET Everything]
    /\ slugs = [s \in Schema |-> slugs[s]]
    /\ roles = [s \in Schema |-> roles[s]]
    /\ grants = [s \in Schema |-> grants[s]]
    /\ \A s \in Schema : grants[s] \subseteq roles[s] \X slugs[s]
    /\ vertical \in [Schema -> Vertical \cup {Unused}]
    /\ next \in [Schema -> 0 .. Last + 1]
    /\ migration \in [key : Key \cup {"none"}, todo : SUBSET Schema,
                      schema : Schema \cup {Nobody}, next : Nat, wasActive : BOOLEAN]
    /\ upgraded \in [Schema -> SUBSET Key]
    /\ stops \in 0 .. MaxStops /\ runs \in 0 .. MaxRuns

\* The rows of a statement are in schema s.
Inserted(s, st) ==
    st.slugs \subseteq slugs[s] /\ st.roles \subseteq roles[s] /\ st.grants \subseteq grants[s]

\* So are those of the first n defaults of its vertical.
Seeded(s, n) ==
    vertical[s] \in Vertical /\ \A i \in 1 .. n : Inserted(s, SeedTenantDefaults(vertical[s])[i])

Provisioned(s) ==
    next[s] > 0 =>
        /\ s \in (fresh \cap exists) \ active
        /\ \A i \in DOMAIN Template : i < next[s] => Template[i].makes \subseteq objects[s]
        /\ next[s] > Len(Template) + 1 => Seeded(s, next[s] - Len(Template) - 1)

Complete(s) == s \in fresh \cap active => Everything \subseteq objects[s] /\ Seeded(s, 4)

NoOlder(s) ==
    s \in active => /\ Oldest.objects \subseteq objects[s] /\ CoreRoles \subseteq roles[s]
                    /\ Oldest.grants \subseteq grants[s]

\* What the roles of a vertical are granted.
OwnGrants(v) ==
    IF v = "none" THEN {} ELSE UNION {{x} \X VerticalRoles[v][x] : x \in DOMAIN VerticalRoles[v]}

\* In a new tenant, besides the core roles, only those of its vertical are
\* granted anything.
OwnRolesOnly(s) ==
    s \in fresh => \A g \in grants[s] :
        g[1] \in CoreRoles \/ (vertical[s] \in Vertical /\ g \in OwnGrants(vertical[s]))

\* What the statements of a migration before the n-th have put into s.
Migrated(key, s, n) ==
    \A i \in DOMAIN Migrations[key] : i < n =>
        /\ Migrations[key][i].makes \subseteq objects[s]
        /\ Migrations[key][i].slugs \subseteq slugs[s]
        /\ Migrations[key][i].grants \subseteq grants[s]

\* A tenant without a schema, when the migration takes it, may have it in public.
Migrating ==
    /\ migration.schema # Nobody \/ migration.todo # {} => migration.key \in Key
    /\ migration.schema # Nobody =>
           /\ migration.next \in 1 .. Len(Migrations[migration.key]) + 1
           /\ \A i \in DOMAIN Migrations[migration.key] : i < migration.next =>
                  Migrations[migration.key][i].makes
                      \subseteq objects[migration.schema] \cup objects[Public]
           /\ migration.wasActive =>
                  /\ migration.schema \in active
                  /\ Migrated(migration.key, migration.schema, migration.next)

Upgraded(s) ==
    \A key \in upgraded[s] : s \in active /\ Migrated(key, s, Len(Migrations[key]) + 1)

Sound ==
    /\ Typed /\ Migrating
    /\ \A s \in Schema : Provisioned(s) /\ Complete(s) /\ NoOlder(s) /\ OwnRolesOnly(s) /\ Upgraded(s)

\* Nothing is taken back, and a tenant keeps its vertical.
Grows ==
    /\ fresh' = fresh /\ exists \subseteq exists' /\ active \subseteq active'
    /\ \A p \in Place : objects[p] \subseteq objects'[p]
    /\ \A s \in Schema :
           /\ slugs[s] \subseteq slugs'[s] /\ roles[s] \subseteq roles'[s]
           /\ grants[s] \subseteq grants'[s]
           /\ vertical[s] # Unused => vertical'[s] = vertical[s]

-----------------------------------------------------------------------------
(***************************************************************************)
(* Lists of statements.                                                    *)
(***************************************************************************)

LEMMA Lengths ==
  /\ Len(Template) \in Nat \ {0} /\ Last = Len(Template) + 4
  /\ DOMAIN Template = 1 .. Len(Template)
  BY TemplateFact DEF Last

LEMMA MakesEverything == \A i \in DOMAIN Template : Template[i].makes \subseteq Everything
  BY DEF Everything, MadeBy

\* What has been made before is in a place where each statement before is.
LEMMA BeforeWithin ==
  ASSUME NEW statements, NEW n \in Nat, NEW S,
         \A i \in 1 .. n - 1 : statements[i].makes \subseteq S
  PROVE  Before(statements, n) \subseteq S
  BY DEF Before

LEMMA MadeWithin ==
  ASSUME NEW statements, NEW S, \A i \in DOMAIN statements : statements[i].makes \subseteq S
  PROVE  MadeBy(statements) \subseteq S
  BY DEF MadeBy

\* No two statements of the template make the same.
LEMMA MadeOnce ==
  ASSUME NEW i \in DOMAIN Template, NEW n \in DOMAIN Template,
         Template[i].makes \subseteq Template[n].makes
  PROVE  i = n
<1>1. i \in Nat /\ n \in Nat /\ i > 0 /\ n > 0
  BY Lengths
<1>2. CASE i < n
  <2>1. Template[i].makes \subseteq Before(Template, n)
    BY <1>1, <1>2 DEF Before
  <2> QED
    BY <2>1, TemplateFact
<1>3. CASE n < i
  <2>1. Template[n].makes \subseteq Before(Template, i)
    BY <1>1, <1>3 DEF Before
  <2> QED
    BY <2>1, TemplateFact
<1> QED
  BY <1>1, <1>2, <1>3

-----------------------------------------------------------------------------
(***************************************************************************)
(* The seeds.                                                              *)
(***************************************************************************)

\* What a vertical's own roles are granted is seeded, and none of them has the
\* name of a core role.
LEMMA VerticalsSeeded ==
    \A v \in DOMAIN VerticalRoles :
        /\ DOMAIN VerticalRoles[v] \cap CoreRoles = {}
        /\ \A x \in DOMAIN VerticalRoles[v] :
               VerticalRoles[v][x] \subseteq CoreTenantPermissions \cup VerticalTenantPermissions[v]
  BY DEF VerticalRoles, CoreTenantPermissions, VerticalTenantPermissions, ManagerSlugs,
         CoreRoles, CoreTenantRoles

\* More permissions seeded are no fewer granted to any core role.
LEMMA CoreSeeded ==
  ASSUME NEW few, NEW all, few \subseteq all, CoreTenantPermissions \subseteq all, NEW x \in CoreRoles
  PROVE  /\ CoreTenantRoles(few)[x] \cap few \subseteq CoreTenantRoles(all)[x]
         /\ CoreTenantRoles(all)[x] \subseteq all
         /\ CoreTenantRoles(CoreTenantPermissions)[x] \subseteq CoreTenantRoles(all)[x]
<1>1. /\ ManagerSlugs \subseteq CoreTenantPermissions /\ StaffSlugs \subseteq CoreTenantPermissions
      /\ ViewerSlugs \subseteq CoreTenantPermissions
  BY DEF CoreTenantPermissions, ManagerSlugs, StaffSlugs, ViewerSlugs
<1> QED
  BY <1>1 DEF CoreRoles, CoreTenantRoles

LEMMA GrantsWithin ==
  ASSUME NEW D, NEW C, NEW P, NEW f, D \subseteq C, \A x \in D : f[x] \subseteq P
  PROVE  UNION {{x} \X f[x] : x \in D} \subseteq C \X P
  OBVIOUS

\* So the oldest tenants have what they were seeded with at least.
LEMMA OldestSeeded ==
  \E few \in SUBSET CoreTenantPermissions :
      Oldest.grants = UNION {{x} \X (CoreTenantRoles(few)[x] \cap few) : x \in CoreRoles}
<1> DEFINE few == CoreTenantPermissions \ UNION {SlugsOf[i] : i \in 3 + 1 .. Len(Features)}
<1>1. ~(3 \in DOMAIN Since)
  BY DEF Since
<1>2. GivenBy(<<>>) = {}
  BY DEF GivenBy
<1>3. Oldest.grants = GivenBy(IF 3 \in DOMAIN Since THEN Since[3] ELSE <<>>)
                      \cup UNION {{x} \X (CoreTenantRoles(few)[x] \cap few) : x \in CoreRoles}
  BY <1>1 DEF Oldest, Old
<1>4. few \in SUBSET CoreTenantPermissions
  OBVIOUS
<1> HIDE DEF few
<1> QED
  BY <1>1, <1>2, <1>3, <1>4

\* The defaults put in the permissions and the roles before the grants.
LEMMA DefaultsInOrder ==
  ASSUME NEW v \in DOMAIN VerticalRoles \cup {"none"}
  PROVE  /\ DOMAIN SeedTenantDefaults(v) = 1 .. 4
         /\ \A n \in 1 .. 4 : SeedTenantDefaults(v)[n].makes = {}
         /\ SeedTenantDefaults(v)[1].grants = {} /\ SeedTenantDefaults(v)[2].grants = {}
         /\ CoreRoles \subseteq SeedTenantDefaults(v)[2].roles
         /\ SeedTenantDefaults(v)[3].grants \subseteq CoreRoles \X SeedTenantDefaults(v)[1].slugs
         /\ \A x \in CoreRoles : {x} \X CoreTenantRoles(CoreTenantPermissions)[x]
                                     \subseteq SeedTenantDefaults(v)[3].grants
         /\ Oldest.grants \subseteq SeedTenantDefaults(v)[3].grants
         /\ SeedTenantDefaults(v)[4].grants = OwnGrants(v)
         /\ OwnGrants(v) \subseteq SeedTenantDefaults(v)[2].roles \X SeedTenantDefaults(v)[1].slugs
<1> DEFINE perms == CoreTenantPermissions \cup IF v = "none" THEN {} ELSE VerticalTenantPermissions[v]
           more == IF v = "none" THEN <<>> ELSE VerticalRoles[v]
           defaults == SeedTenantDefaults(v)
<1>1. /\ DOMAIN defaults = 1 .. 4
      /\ defaults[1] = InsertPermissions(perms)
      /\ defaults[2] = InsertRoles(CoreRoles \cup DOMAIN more)
      /\ defaults[3] = [Grant({}, {}) EXCEPT !.grants =
                           UNION {{x} \X CoreTenantRoles(perms)[x] : x \in CoreRoles}]
      /\ defaults[4] = [Grant({}, {}) EXCEPT !.grants =
                           UNION {{x} \X more[x] : x \in DOMAIN more}]
  BY DEF SeedTenantDefaults
<1> HIDE DEF defaults
<1>2. UNION {{x} \X more[x] : x \in DOMAIN more} = OwnGrants(v)
  BY DEF OwnGrants
<1>3. \A x \in DOMAIN more : more[x] \subseteq perms
  BY VerticalsSeeded
<1>4. CoreTenantPermissions \subseteq perms
  OBVIOUS
<1> HIDE DEF perms, more
<1>5. /\ defaults[1].slugs = perms /\ defaults[1].grants = {} /\ defaults[1].makes = {}
      /\ defaults[2].roles = CoreRoles \cup DOMAIN more
      /\ defaults[2].grants = {} /\ defaults[2].makes = {}
  BY <1>1 DEF InsertPermissions, InsertRoles, Insert, Statement
<1>6. /\ defaults[3].grants = UNION {{x} \X CoreTenantRoles(perms)[x] : x \in CoreRoles}
      /\ defaults[4].grants = OwnGrants(v)
      /\ defaults[3].makes = {} /\ defaults[4].makes = {}
  BY <1>1, <1>2 DEF Grant, Insert, Statement
<1>7. PICK few \in SUBSET CoreTenantPermissions :
          Oldest.grants = UNION {{x} \X (CoreTenantRoles(few)[x] \cap few) : x \in CoreRoles}
  BY OldestSeeded
<1>8. Oldest.grants \subseteq defaults[3].grants
  BY <1>4, <1>6, <1>7, CoreSeeded
<1>9. \A x \in CoreRoles : {x} \X CoreTenantRoles(CoreTenantPermissions)[x] \subseteq defaults[3].grants
  BY <1>4, <1>6, CoreSeeded
<1>10. defaults[3].grants \subseteq CoreRoles \X perms
  BY <1>4, <1>6, CoreSeeded
<1>11. \A n \in 1 .. 4 : defaults[n].makes = {}
  <2>1. 1 .. 4 = {1, 2, 3, 4}
    OBVIOUS
  <2> QED
    BY <1>5, <1>6, <2>1
<1>12. OwnGrants(v) \subseteq defaults[2].roles \X defaults[1].slugs
  BY <1>2, <1>3, <1>5, GrantsWithin
<1> QED
  BY <1>1, <1>5, <1>6, <1>8, <1>9, <1>10, <1>11, <1>12 DEF defaults

\* The defaults of a vertical, as the steps that insert them need them.
LEMMA DefaultsOf ==
  ASSUME NEW v \in Vertical
  PROVE  /\ v \in DOMAIN VerticalRoles \cup {"none"}
         /\ v # Unused
         /\ DOMAIN SeedTenantDefaults(v) = 1 .. 4
         /\ \A n \in 1 .. 4 : SeedTenantDefaults(v)[n].makes = {}
         /\ SeedTenantDefaults(v)[1].grants = {} /\ SeedTenantDefaults(v)[2].grants = {}
         /\ CoreRoles \subseteq SeedTenantDefaults(v)[2].roles
         /\ SeedTenantDefaults(v)[3].grants
                \subseteq SeedTenantDefaults(v)[2].roles \X SeedTenantDefaults(v)[1].slugs
         /\ SeedTenantDefaults(v)[4].grants
                \subseteq SeedTenantDefaults(v)[2].roles \X SeedTenantDefaults(v)[1].slugs
         /\ \A g \in SeedTenantDefaults(v)[3].grants : g[1] \in CoreRoles
         /\ SeedTenantDefaults(v)[4].grants = OwnGrants(v)
         /\ Oldest.grants \subseteq SeedTenantDefaults(v)[3].grants
<1>1. v \in DOMAIN VerticalRoles \cup {"none"} /\ v # Unused
  BY SchemaAssumption
<1> DEFINE defaults == SeedTenantDefaults(v)
<1> HIDE DEF defaults
<1>2. /\ DOMAIN defaults = 1 .. 4
      /\ \A n \in 1 .. 4 : defaults[n].makes = {}
      /\ defaults[1].grants = {} /\ defaults[2].grants = {}
      /\ CoreRoles \subseteq defaults[2].roles
      /\ defaults[3].grants \subseteq CoreRoles \X defaults[1].slugs
      /\ Oldest.grants \subseteq defaults[3].grants
      /\ defaults[4].grants = OwnGrants(v)
      /\ OwnGrants(v) \subseteq defaults[2].roles \X defaults[1].slugs
  BY <1>1, DefaultsInOrder DEF defaults
<1>3. /\ defaults[3].grants \subseteq defaults[2].roles \X defaults[1].slugs
      /\ \A g \in defaults[3].grants : g[1] \in CoreRoles
  BY <1>2
<1> QED
  BY <1>1, <1>2, <1>3 DEF defaults

-----------------------------------------------------------------------------
(***************************************************************************)
(* Nothing is taken back.                                                  *)
(***************************************************************************)

\* A statement adds what it makes to one place, and rows to the schema.
LEMMA Executed ==
  ASSUME Typed, NEW s \in Schema, NEW st, st.makes \subseteq Everything, Execute(s, st)
  PROVE  /\ objects' \in [Place -> SUBSET Everything]
         /\ \A p \in Place : objects[p] \subseteq objects'[p]
         /\ \A p \in Place : p # Target(s, st) => objects'[p] = objects[p]
         /\ Target(s, st) \in {s, Public} /\ objects'[Target(s, st)] = objects[Target(s, st)] \cup st.makes
         /\ slugs' = [t \in Schema |-> slugs'[t]]
         /\ roles' = [t \in Schema |-> roles'[t]]
         /\ grants' = [t \in Schema |-> grants'[t]]
         /\ \A t \in Schema :
                /\ slugs[t] \subseteq slugs'[t] /\ roles[t] \subseteq roles'[t]
                /\ grants[t] \subseteq grants'[t]
                /\ grants'[t] \subseteq roles'[t] \X slugs'[t]
                /\ t # s => grants'[t] = grants[t]
         /\ slugs'[s] = slugs[s] \cup st.slugs
         /\ roles'[s] = roles[s] \cup st.roles
         /\ grants'[s] = grants[s] \cup (st.grants \cap (roles[s] \X slugs[s]))
<1> DEFINE target == Target(s, st)
<1>1. target \in {s, Public} /\ target \in Place
  BY DEF Target, Place
<1> HIDE DEF target
<1>2. /\ objects' = [objects EXCEPT ![target] = @ \cup st.makes]
      /\ slugs' = [slugs EXCEPT ![s] = @ \cup st.slugs]
      /\ roles' = [roles EXCEPT ![s] = @ \cup st.roles]
      /\ grants' = [grants EXCEPT ![s] = @ \cup (st.grants \cap (roles[s] \X slugs[s]))]
  BY DEF Execute, target
<1>3. /\ objects \in [Place -> SUBSET Everything] /\ slugs = [t \in Schema |-> slugs[t]]
      /\ roles = [t \in Schema |-> roles[t]] /\ grants = [t \in Schema |-> grants[t]]
      /\ \A t \in Schema : grants[t] \subseteq roles[t] \X slugs[t]
  BY DEF Typed
<1>4. /\ objects' \in [Place -> SUBSET Everything]
      /\ objects'[target] = objects[target] \cup st.makes
      /\ \A p \in Place : p # target => objects'[p] = objects[p]
  BY <1>1, <1>2, <1>3
<1>5. /\ slugs' = [t \in Schema |-> IF t = s THEN slugs[s] \cup st.slugs ELSE slugs[t]]
      /\ roles' = [t \in Schema |-> IF t = s THEN roles[s] \cup st.roles ELSE roles[t]]
      /\ grants' = [t \in Schema |-> IF t = s THEN grants[s] \cup (st.grants \cap (roles[s] \X slugs[s]))
                                    ELSE grants[t]]
  BY <1>2, <1>3
<1>6. \A t \in Schema :
          /\ slugs[t] \subseteq slugs'[t] /\ roles[t] \subseteq roles'[t]
          /\ grants[t] \subseteq grants'[t]
          /\ t # s => grants'[t] = grants[t] /\ roles'[t] = roles[t] /\ slugs'[t] = slugs[t]
  BY <1>5
<1>7. /\ slugs'[s] = slugs[s] \cup st.slugs
      /\ roles'[s] = roles[s] \cup st.roles
      /\ grants'[s] = grants[s] \cup (st.grants \cap (roles[s] \X slugs[s]))
  BY <1>5
<1>8. \A t \in Schema : grants'[t] \subseteq roles'[t] \X slugs'[t]
  BY <1>3, <1>6, <1>7
<1>9. \A p \in Place : objects[p] \subseteq objects'[p]
  BY <1>4
<1>10. /\ slugs' = [t \in Schema |-> slugs'[t]]
       /\ roles' = [t \in Schema |-> roles'[t]]
       /\ grants' = [t \in Schema |-> grants'[t]]
  BY <1>5
<1> QED
  BY <1>1, <1>4, <1>6, <1>7, <1>8, <1>9, <1>10 DEF target

\* A step that leaves objects and rows alone.
LEMMA Untouched ==
  ASSUME Typed, UNCHANGED <<fresh, objects, rows, vertical, upgraded>>,
         exists \subseteq exists', exists' \subseteq Schema,
         active \subseteq active', active' \subseteq exists',
         next' \in [Schema -> 0 .. Last + 1],
         migration' \in [key : Key \cup {"none"}, todo : SUBSET Schema,
                         schema : Schema \cup {Nobody}, next : Nat, wasActive : BOOLEAN],
         stops' \in 0 .. MaxStops, runs' \in 0 .. MaxRuns
  PROVE  Typed' /\ Grows
  BY DEF Typed, Grows, rows, Place

LEMMA LeaveTyped ==
  Typed => Leave \in [key : Key \cup {"none"}, todo : SUBSET Schema,
                      schema : Schema \cup {Nobody}, next : Nat, wasActive : BOOLEAN]
  BY DEF Typed, Leave

LEMMA NoMigrationTyped ==
  NoMigration \in [key : Key \cup {"none"}, todo : SUBSET Schema,
                   schema : Schema \cup {Nobody}, next : Nat, wasActive : BOOLEAN]
  BY DEF NoMigration

LEMMA ProvisioningMakes ==
  ASSUME Typed, NEW s \in Schema, NEW v \in Vertical, next[s] \in 1 .. Last
  PROVE  /\ Provisioning(s, v).makes \subseteq Everything
         /\ next[s] <= Len(Template) =>
                next[s] \in DOMAIN Template /\ Provisioning(s, v) = Template[next[s]]
         /\ next[s] > Len(Template) =>
                /\ next[s] - Len(Template) \in 1 .. 4
                /\ Provisioning(s, v) = SeedTenantDefaults(v)[next[s] - Len(Template)]
                /\ Provisioning(s, v).makes = {}
<1>1. Len(Template) \in Nat /\ next[s] \in Nat
  BY Lengths DEF Typed
<1>2. CASE next[s] <= Len(Template)
  BY <1>1, <1>2, Lengths, MakesEverything DEF Provisioning
<1>3. CASE next[s] > Len(Template)
  <2>1. next[s] - Len(Template) \in 1 .. 4
    BY <1>1, <1>3, Lengths
  <2>2. Provisioning(s, v) = SeedTenantDefaults(v)[next[s] - Len(Template)]
    BY <1>1, <1>3 DEF Provisioning, Defaults
  <2>3. Provisioning(s, v).makes = {}
    BY <2>1, <2>2, DefaultsOf
  <2> QED
    BY <1>1, <1>3, <2>1, <2>2, <2>3
<1> QED
  BY <1>1, <1>2, <1>3

\* The statement of the migration that is next.
LEMMA MigrationStatement ==
  ASSUME Typed, Migrating, migration.schema # Nobody,
         migration.next <= Len(Migrations[migration.key])
  PROVE  /\ migration.schema \in Schema /\ migration.key \in Key
         /\ migration.next \in DOMAIN Migrations[migration.key]
         /\ Migrations[migration.key][migration.next].makes \subseteq Everything
<1>1. migration.key \in Key /\ migration.schema \in Schema
  BY DEF Typed, Migrating
<1>2. Len(Migrations[migration.key]) \in Nat
      /\ DOMAIN Migrations[migration.key] = 1 .. Len(Migrations[migration.key])
  BY <1>1, MigrationFact
<1>3. migration.next \in DOMAIN Migrations[migration.key]
  BY <1>2 DEF Migrating
<1> QED
  BY <1>1, <1>3, MigrationFact

LEMMA NextGrows == Sound /\ [Next]_vars => Typed' /\ Grows
<1> SUFFICES ASSUME Sound, Typed, Migrating, [Next]_vars PROVE Typed' /\ Grows
  BY DEF Sound
<1> DEFINE M == [key : Key \cup {"none"}, todo : SUBSET Schema,
                 schema : Schema \cup {Nobody}, next : Nat, wasActive : BOOLEAN]
<1>t. /\ next \in [Schema -> 0 .. Last + 1] /\ migration \in M
      /\ stops \in 0 .. MaxStops /\ runs \in 0 .. MaxRuns
      /\ exists \subseteq Schema /\ active \subseteq exists
      /\ Last \in Nat /\ Len(Template) \in Nat
      /\ MaxStops \in Nat /\ MaxRuns \in Nat
  BY Lengths, SchemaAssumption DEF Typed
<1>1. ASSUME NEW s \in Schema, ProvisionSchema(s) PROVE Typed' /\ Grows
  <2>1. next' \in [Schema -> 0 .. Last + 1]
    BY <1>1, <1>t DEF ProvisionSchema
  <2> QED
    BY <1>1, <1>t, <2>1, Untouched DEF ProvisionSchema
<1>2. ASSUME NEW s \in Schema, Activate(s) PROVE Typed' /\ Grows
  <2>1. next' \in [Schema -> 0 .. Last + 1]
    BY <1>2, <1>t DEF Activate
  <2>2. s \in exists
    BY <1>2, <1>t DEF Activate, Sound, Provisioned
  <2> QED
    BY <1>2, <1>t, <2>1, <2>2, Untouched DEF Activate
<1>3. ASSUME NEW s \in Schema, StopProvisioning(s) PROVE Typed' /\ Grows
  <2>1. next' \in [Schema -> 0 .. Last + 1]
    BY <1>3, <1>t DEF StopProvisioning
  <2> QED
    BY <1>3, <1>t, <2>1, Untouched DEF StopProvisioning
<1>4. ASSUME NEW s \in Schema, TakeSchema(s) PROVE Typed' /\ Grows
  <2> DEFINE was == s \in active
  <2>a. was \in BOOLEAN
    OBVIOUS
  <2>b. migration' = [migration EXCEPT !.todo = @ \ {s}, !.schema = s, !.next = 1, !.wasActive = was]
    BY <1>4 DEF TakeSchema
  <2> HIDE DEF was
  <2>1. migration' \in M
    BY <1>t, <2>a, <2>b
  <2> QED
    BY <1>4, <1>t, <2>1, Untouched DEF TakeSchema
<1>5. ASSUME NEW s \in Schema, NEW v \in Vertical, vertical[s] \in {v, Unused},
             ApplyStatement(s, v)
      PROVE  Typed' /\ Grows
  <2>1. /\ next[s] \in 1 .. Last
        /\ UNCHANGED <<fresh, exists, active, migration, upgraded, stops, runs>>
    BY <1>5 DEF ApplyStatement
  <2>2. /\ vertical' \in [Schema -> Vertical \cup {Unused}]
        /\ \A t \in Schema : vertical[t] # Unused => vertical'[t] = vertical[t]
    BY <1>5 DEF ApplyStatement, Typed
  <2> DEFINE st == Provisioning(s, v)
  <2>3. CASE Fails(s, st)
    <3>1. next' \in [Schema -> 0 .. Last + 1] /\ UNCHANGED <<objects, rows>>
      BY <1>5, <1>t, <2>3 DEF ApplyStatement
    <3> QED
      BY <2>1, <2>2, <3>1 DEF Typed, Grows, rows, Place
  <2>4. CASE ~Fails(s, st)
    <3>1. next' = [next EXCEPT ![s] = next[s] + 1] /\ Execute(s, st)
      BY <1>5, <2>4 DEF ApplyStatement
    <3>2. next' \in [Schema -> 0 .. Last + 1]
      BY <1>t, <2>1, <3>1
    <3>3. st.makes \subseteq Everything
      BY <2>1, ProvisioningMakes
    <3> HIDE DEF st
    <3> QED
      BY <2>1, <2>2, <3>1, <3>2, <3>3, Executed DEF Typed, Grows
  <2> QED
    BY <2>3, <2>4
<1>6. ASSUME NEW key \in Key, RunTenantMigration(key) PROVE Typed' /\ Grows
  <2>1. migration' \in M
    BY <1>6 DEF RunTenantMigration, NoMigration
  <2>2. runs' \in 0 .. MaxRuns
    BY <1>6, <1>t DEF RunTenantMigration
  <2> QED
    BY <1>6, <1>t, <2>1, <2>2, Untouched DEF RunTenantMigration
<1>7. CASE MigrateSchema
  <2> DEFINE s == migration.schema
             st == Migrations[migration.key][migration.next]
  <2>1. /\ UNCHANGED <<fresh, exists, active, vertical, next, upgraded, stops, runs>>
        /\ s # Nobody /\ migration.next <= Len(Migrations[migration.key])
    BY <1>7 DEF MigrateSchema
  <2>2. s \in Schema /\ st.makes \subseteq Everything
    BY <2>1, MigrationStatement
  <2>3. CASE Fails(s, st)
    <3>1. migration' = Leave /\ UNCHANGED <<objects, rows>>
      BY <1>7, <2>3 DEF MigrateSchema
    <3> QED
      BY <1>t, <2>1, <3>1, LeaveTyped, Untouched
  <2>4. CASE ~Fails(s, st)
    <3>1. migration' = [migration EXCEPT !.next = @ + 1] /\ Execute(s, st)
      BY <1>7, <2>4 DEF MigrateSchema
    <3>2. migration' \in M
      BY <1>t, <3>1
    <3> HIDE DEF s, st
    <3> QED
      BY <2>1, <2>2, <3>1, <3>2, Executed DEF Typed, Grows
  <2> QED
    BY <2>3, <2>4
<1>8. CASE Succeed
  <2>1. /\ migration' = Leave
        /\ UNCHANGED <<fresh, exists, objects, rows, active, vertical, next, stops, runs>>
    BY <1>8 DEF Succeed
  <2>2. upgraded' \in [Schema -> SUBSET Key]
    BY <1>8 DEF Succeed, Typed, Migrating
  <2> QED
    BY <2>1, <2>2, LeaveTyped DEF Typed, Grows, rows, Place
<1>9. CASE Answer
  BY <1>9, <1>t, NoMigrationTyped, Untouched DEF Answer
<1>10. CASE StopMigration
  BY <1>10, <1>t, NoMigrationTyped, Untouched DEF StopMigration
<1>11. CASE UNCHANGED vars
  BY <1>11, <1>t, Untouched DEF vars, rows
<1> QED
  BY <1>1, <1>2, <1>3, <1>4, <1>5, <1>6, <1>7, <1>8, <1>9, <1>10, <1>11 DEF Next

-----------------------------------------------------------------------------
LEMMA InitSound == Init => Sound
<1> SUFFICES ASSUME Init PROVE Sound
  OBVIOUS
<1>1. PICK age \in Age : \E stray \in {{}, MadeBy(TaskTables)} :
          /\ fresh \in SUBSET Schema
          /\ exists = Schema \ fresh /\ active = Schema \ fresh
          /\ objects = [s \in Schema \cup {Public} |->
                           IF s \in exists THEN Old(age).objects
                           ELSE IF s = Public THEN stray ELSE {}]
          /\ slugs = [s \in Schema |-> IF s \in exists THEN Old(age).slugs ELSE {}]
          /\ roles = [s \in Schema |-> IF s \in exists THEN CoreRoles ELSE {}]
          /\ grants = [s \in Schema |-> IF s \in exists THEN Old(age).grants ELSE {}]
  BY DEF Init
<1>2. age \in 1 .. Len(Features) /\ Public \notin Schema
  BY SchemaAssumption
<1>3. /\ Oldest.objects \subseteq Old(age).objects /\ Old(age).objects \subseteq Everything
      /\ Oldest.grants \subseteq Old(age).grants
      /\ Old(age).grants \subseteq CoreRoles \X Old(age).slugs
      /\ MadeBy(TaskTables) \subseteq Everything
  BY <1>2, OldFact
<1>4. /\ vertical = [s \in Schema |-> Unused] /\ next = [s \in Schema |-> 0]
      /\ migration = NoMigration /\ upgraded = [s \in Schema |-> {}]
      /\ stops = 0 /\ runs = 0
  BY DEF Init
<1>5. Typed
  <2>1. objects \in [Place -> SUBSET Everything]
    BY <1>1, <1>3 DEF Place
  <2>2. \A s \in Schema : grants[s] \subseteq roles[s] \X slugs[s]
    BY <1>1, <1>3
  <2>3. next \in [Schema -> 0 .. Last + 1]
    BY <1>4, Lengths
  <2>4. stops \in 0 .. MaxStops /\ runs \in 0 .. MaxRuns
    BY <1>4, SchemaAssumption
  <2>5. /\ slugs = [s \in Schema |-> slugs[s]] /\ roles = [s \in Schema |-> roles[s]]
        /\ grants = [s \in Schema |-> grants[s]]
    BY <1>1
  <2>6. fresh \subseteq Schema /\ exists \subseteq Schema /\ active \subseteq exists
    BY <1>1
  <2> QED
    BY <1>4, <2>1, <2>2, <2>3, <2>4, <2>5, <2>6, NoMigrationTyped DEF Typed
<1>6. Migrating
  BY <1>4 DEF Migrating, NoMigration
<1>7. ASSUME NEW s \in Schema
      PROVE  Provisioned(s) /\ Complete(s) /\ NoOlder(s) /\ OwnRolesOnly(s) /\ Upgraded(s)
  <2>1. Provisioned(s) /\ Complete(s) /\ Upgraded(s)
    BY <1>1, <1>4 DEF Provisioned, Complete, Upgraded
  <2>2. NoOlder(s)
    BY <1>1, <1>3 DEF NoOlder
  <2>3. OwnRolesOnly(s)
    BY <1>1 DEF OwnRolesOnly
  <2> QED
    BY <2>1, <2>2, <2>3
<1> QED
  BY <1>5, <1>6, <1>7 DEF Sound

-----------------------------------------------------------------------------
(***************************************************************************)
(* What lasts.                                                             *)
(***************************************************************************)

LEMMA SeededLasts ==
  ASSUME Grows, NEW s \in Schema, NEW n \in Nat, Seeded(s, n)
  PROVE  Seeded(s, n)' /\ vertical'[s] = vertical[s]
<1>1. vertical[s] \in Vertical /\ vertical'[s] = vertical[s]
  BY SchemaAssumption DEF Seeded, Grows
<1>2. slugs[s] \subseteq slugs'[s] /\ roles[s] \subseteq roles'[s] /\ grants[s] \subseteq grants'[s]
  BY DEF Grows
<1> QED
  BY <1>1, <1>2 DEF Seeded, Inserted

LEMMA MigratedLasts ==
  ASSUME Grows, NEW key \in Key, NEW s \in Schema, NEW n, Migrated(key, s, n)
  PROVE  Migrated(key, s, n)'
<1>1. /\ slugs[s] \subseteq slugs'[s] /\ grants[s] \subseteq grants'[s]
      /\ objects[s] \subseteq objects'[s]
  BY DEF Grows, Place
<1> QED
  BY <1>1 DEF Migrated

LEMMA ProvisionedLasts ==
  ASSUME Typed, Grows, NEW s \in Schema, Provisioned(s), next'[s] = next[s], s \in active' => s \in active
  PROVE  Provisioned(s)'
<1> SUFFICES ASSUME next[s] > 0 PROVE Provisioned(s)'
  BY DEF Provisioned
<1>1. /\ s \in (fresh \cap exists) \ active
      /\ \A i \in DOMAIN Template : i < next[s] => Template[i].makes \subseteq objects[s]
      /\ next[s] > Len(Template) + 1 => Seeded(s, next[s] - Len(Template) - 1)
  BY DEF Provisioned
<1>2. s \in (fresh' \cap exists') \ active' /\ objects[s] \subseteq objects'[s]
  BY <1>1 DEF Grows, Place
<1>3. ASSUME next[s] > Len(Template) + 1
      PROVE  Seeded(s, next[s] - Len(Template) - 1)'
  <2>1. PICK n \in Nat : n = next[s] - Len(Template) - 1
    BY <1>3, Lengths DEF Typed
  <2>2. Seeded(s, n)'
    BY <1>1, <1>3, <2>1, SeededLasts
  <2>3. n = (next[s] - Len(Template) - 1)'
    BY <2>1
  <2> QED
    BY <2>2, <2>3 DEF Seeded
<1> QED
  BY <1>1, <1>2, <1>3 DEF Provisioned

-----------------------------------------------------------------------------
(***************************************************************************)
(* Where a statement finds what it is about.                               *)
(***************************************************************************)

\* Provisioning makes its objects in the schema, where all it refers to is.
LEMMA TemplateInside ==
  ASSUME Sound, NEW s \in Schema, next[s] \in DOMAIN Template
  PROVE  /\ Before(Template, next[s]) \subseteq objects[s]
         /\ Template[next[s]].needs \subseteq objects[s]
         /\ Target(s, Template[next[s]]) = s
<1>1. /\ next[s] \in Nat /\ next[s] > 0 /\ next[s] <= Len(Template) /\ Len(Template) \in Nat
      /\ Provisioned(s) /\ DOMAIN Template = 1 .. Len(Template)
  BY Lengths DEF Sound
<1>2. s \in exists /\ \A i \in 1 .. next[s] - 1 : Template[i].makes \subseteq objects[s]
  BY <1>1 DEF Provisioned
<1>3. Before(Template, next[s]) \subseteq objects[s]
  BY <1>1, <1>2, BeforeWithin
<1>4. /\ Template[next[s]].needs \subseteq Before(Template, next[s])
      /\ Template[next[s]].on = "" \/ <<Template[next[s]].on>> \in Before(Template, next[s])
  BY TemplateFact
<1> QED
  BY <1>2, <1>3, <1>4 DEF Target

\* So does a migration that met an active tenant, as far as the template
\* makes the same.
LEMMA MigrationInside ==
  ASSUME Sound, migration.schema # Nobody, migration.wasActive,
         migration.next <= Len(Migrations[migration.key])
  PROVE  /\ Oldest.objects \cup Before(Migrations[migration.key], migration.next)
                \subseteq objects[migration.schema]
         /\ Target(migration.schema, Migrations[migration.key][migration.next]) = migration.schema
<1> DEFINE s == migration.schema
           key == migration.key
           n == migration.next
           st == Migrations[key][n]
<1>1. s \in Schema /\ key \in Key /\ n \in DOMAIN Migrations[key]
  BY MigrationStatement DEF Sound
<1>2. n \in Nat /\ DOMAIN Migrations[key] = 1 .. Len(Migrations[key]) /\ Len(Migrations[key]) \in Nat
  <2>1. DOMAIN Migrations[key] = 1 .. Len(Migrations[key]) /\ Len(Migrations[key]) \in Nat
    BY <1>1, MigrationFact
  <2>2. n \in 1 .. Len(Migrations[key])
    BY <1>1, <2>1
  <2> QED
    BY <2>1, <2>2
<1>3. s \in active /\ Migrated(key, s, n) /\ NoOlder(s) /\ s \in exists
  BY <1>1 DEF Sound, Migrating, Typed
<1>4. st.on = "" \/ <<st.on>> \in Oldest.objects \cup Before(Migrations[key], n)
  BY <1>1, MigrationFact
<1> HIDE DEF s, key, n
<1>5. Before(Migrations[key], n) \subseteq objects[s]
  <2>1. \A i \in 1 .. n - 1 : Migrations[key][i].makes \subseteq objects[s]
    BY <1>1, <1>2, <1>3 DEF Migrated
  <2> QED
    BY <1>2, <2>1, BeforeWithin
<1>6. Oldest.objects \subseteq objects[s]
  BY <1>3 DEF NoOlder
<1>7. Target(s, st) = s
  BY <1>3, <1>4, <1>5, <1>6 DEF Target
<1> QED
  BY <1>5, <1>6, <1>7 DEF s, key, n

-----------------------------------------------------------------------------
(***************************************************************************)
(* Provisioning.                                                           *)
(***************************************************************************)

\* A statement of the template that has been executed is in the schema.
LEMMA TemplateApplied ==
  ASSUME Sound, Grows, NEW s \in Schema, next[s] \in DOMAIN Template,
         Execute(s, Template[next[s]]), next'[s] = next[s] + 1,
         UNCHANGED <<exists, active>>
  PROVE  Provisioned(s)'
<1>1. /\ next[s] \in Nat /\ next[s] > 0 /\ next[s] <= Len(Template) /\ Len(Template) \in Nat
      /\ Provisioned(s) /\ DOMAIN Template = 1 .. Len(Template) /\ Typed
  BY Lengths DEF Sound
<1>2. Template[next[s]].makes \subseteq objects'[s]
  BY <1>1, Executed, TemplateInside, MakesEverything
<1>3. /\ s \in (fresh' \cap exists') \ active' /\ objects[s] \subseteq objects'[s]
      /\ \A i \in DOMAIN Template : i < next[s] => Template[i].makes \subseteq objects[s]
  BY <1>1 DEF Provisioned, Grows, Place
<1>4. \A i \in DOMAIN Template : i < next'[s] => i < next[s] \/ i = next[s]
  BY <1>1
<1>5. \A i \in DOMAIN Template : i < next'[s] => Template[i].makes \subseteq objects'[s]
  BY <1>2, <1>3, <1>4
<1>6. ~(next'[s] > Len(Template) + 1)
  BY <1>1
<1> QED
  BY <1>3, <1>5, <1>6 DEF Provisioned

\* A default that has been inserted is in the schema: a grant finds its role
\* and its permission, which came before.
LEMMA DefaultApplied ==
  ASSUME Sound, Grows, NEW s \in Schema, NEW v \in Vertical, vertical[s] \in {v, Unused},
         NEW n \in 1 .. 4, next[s] = Len(Template) + n,
         Execute(s, SeedTenantDefaults(v)[n]), next'[s] = next[s] + 1, vertical'[s] = v,
         UNCHANGED <<exists, active>>
  PROVE  Provisioned(s)'
<1> DEFINE defaults == SeedTenantDefaults(v)
<1> HIDE DEF defaults
<1>1. /\ Len(Template) \in Nat /\ n \in Nat /\ Provisioned(s) /\ Typed
      /\ DOMAIN Template = 1 .. Len(Template)
  BY Lengths DEF Sound
<1>2. /\ defaults[n].makes = {}
      /\ defaults[1].grants = {} /\ defaults[2].grants = {}
      /\ defaults[3].grants \subseteq defaults[2].roles \X defaults[1].slugs
      /\ defaults[4].grants \subseteq defaults[2].roles \X defaults[1].slugs
  BY DefaultsOf DEF defaults
<1>3. /\ slugs'[s] = slugs[s] \cup defaults[n].slugs
      /\ roles'[s] = roles[s] \cup defaults[n].roles
      /\ grants'[s] = grants[s] \cup (defaults[n].grants \cap (roles[s] \X slugs[s]))
  BY <1>1, <1>2, Executed DEF defaults
<1>4. /\ s \in (fresh' \cap exists') \ active'
      /\ \A i \in DOMAIN Template : Template[i].makes \subseteq objects'[s]
  <2>1. next[s] > 0 /\ \A i \in DOMAIN Template : i < next[s]
    BY <1>1
  <2> QED
    BY <1>1, <2>1 DEF Provisioned, Grows, Place
<1>5. \A i \in 1 .. n - 1 : Inserted(s, defaults[i])
  <2>1. CASE n = 1
    BY <2>1
  <2>2. CASE n > 1
    <3>1. next[s] > Len(Template) + 1 /\ next[s] > 0 /\ next[s] - Len(Template) - 1 = n - 1
      BY <1>1, <2>2
    <3>2. Seeded(s, n - 1)
      BY <1>1, <3>1 DEF Provisioned
    <3>3. vertical[s] = v
      BY <3>2, SchemaAssumption DEF Seeded
    <3> QED
      BY <3>2, <3>3 DEF Seeded, defaults
  <2> QED
    BY <1>1, <2>1, <2>2
<1>6. \A i \in 1 .. n - 1 : Inserted(s, defaults[i])'
  BY <1>5 DEF Inserted, Grows
<1>7. defaults[n].grants \subseteq roles[s] \X slugs[s]
  <2>1. CASE n \in {1, 2}
    BY <1>2, <2>1
  <2>2. CASE n \in {3, 4}
    <3>1. 1 \in 1 .. n - 1 /\ 2 \in 1 .. n - 1
      BY <2>2
    <3>2. defaults[2].roles \subseteq roles[s] /\ defaults[1].slugs \subseteq slugs[s]
      BY <1>5, <3>1 DEF Inserted
    <3>3. defaults[n].grants \subseteq defaults[2].roles \X defaults[1].slugs
      BY <1>2, <2>2
    <3> QED
      BY <3>2, <3>3
  <2> QED
    BY <2>1, <2>2
<1>8. Inserted(s, defaults[n])'
  BY <1>3, <1>7 DEF Inserted
<1>9. \A i \in 1 .. n : Inserted(s, defaults[i])'
  <2>1. \A i \in 1 .. n : i \in 1 .. n - 1 \/ i = n
    BY <1>1
  <2> QED
    BY <1>6, <1>8, <2>1
<1>10. Seeded(s, n)'
  BY <1>9 DEF Seeded, defaults
<1>11. next'[s] - Len(Template) - 1 = n
  BY <1>1
<1>12. (next[s] - Len(Template) - 1)' = n
  BY <1>11
<1> QED
  BY <1>4, <1>10, <1>12 DEF Provisioned, Seeded

LEMMA ProvisionedKept ==
  ASSUME Sound, [Next]_vars, Grows, NEW t \in Schema
  PROVE  Provisioned(t)'
<1>1. Typed /\ Provisioned(t) /\ next \in [Schema -> 0 .. Last + 1] /\ Last \in Nat
      /\ Len(Template) \in Nat
  BY Lengths DEF Sound, Typed
<1>2. ASSUME next'[t] = next[t], active' = active PROVE Provisioned(t)'
  BY <1>1, <1>2, ProvisionedLasts
<1>3. ASSUME next'[t] = 0 PROVE Provisioned(t)'
  BY <1>3 DEF Provisioned
<1>4. ASSUME NEW s \in Schema, ProvisionSchema(s) PROVE Provisioned(t)'
  <2>1. CASE t = s
    <3>1. next'[s] = 1 /\ s \in fresh \ exists /\ exists' = exists \cup {s} /\ UNCHANGED <<fresh, active>>
      BY <1>1, <1>4 DEF ProvisionSchema
    <3>2. s \notin active
      BY <1>1, <3>1 DEF Typed
    <3>3. \A i \in DOMAIN Template : ~(i < 1)
      BY Lengths
    <3>4. ~(1 > Len(Template) + 1)
      BY <1>1
    <3> QED
      BY <2>1, <3>1, <3>2, <3>3, <3>4 DEF Provisioned
  <2>2. CASE t # s
    BY <1>1, <1>2, <1>4, <2>2 DEF ProvisionSchema
  <2> QED
    BY <2>1, <2>2
<1>5. ASSUME NEW s \in Schema, NEW v \in Vertical, vertical[s] \in {v, Unused},
             ApplyStatement(s, v)
      PROVE  Provisioned(t)'
  <2>1. next[s] \in 1 .. Last /\ UNCHANGED <<exists, active>>
    BY <1>5 DEF ApplyStatement
  <2> DEFINE st == Provisioning(s, v)
  <2>2. CASE t # s
    BY <1>1, <1>2, <1>5, <2>1, <2>2 DEF ApplyStatement
  <2>3. CASE t = s /\ Fails(s, st)
    BY <1>1, <1>3, <1>5, <2>3 DEF ApplyStatement
  <2>4. CASE t = s /\ ~Fails(s, st)
    <3>1. next' = [next EXCEPT ![s] = next[s] + 1] /\ Execute(s, st)
      BY <1>5, <2>4 DEF ApplyStatement
    <3>2. next'[s] = next[s] + 1
      BY <1>1, <3>1
    <3>3. CASE next[s] <= Len(Template)
      <4>1. next[s] \in DOMAIN Template /\ st = Template[next[s]]
        BY <1>1, <2>1, <3>3, ProvisioningMakes
      <4> QED
        BY <2>1, <2>4, <3>1, <3>2, <4>1, TemplateApplied
    <3>4. CASE next[s] > Len(Template)
      <4>1. PICK n \in 1 .. 4 : n = next[s] - Len(Template)
        BY <1>1, <2>1, <3>4, ProvisioningMakes
      <4>2. st = SeedTenantDefaults(v)[n] /\ next[s] = Len(Template) + n
        BY <1>1, <2>1, <3>4, <4>1, ProvisioningMakes
      <4>3. vertical'[s] = v
        BY <1>1, <1>5, <3>4 DEF ApplyStatement, Typed
      <4> QED
        BY <1>5, <2>1, <2>4, <3>1, <3>2, <4>2, <4>3, DefaultApplied
    <3> QED
      BY <1>1, <2>1, <3>3, <3>4
  <2> QED
    BY <2>2, <2>3, <2>4
<1>6. ASSUME NEW s \in Schema, Activate(s) PROVE Provisioned(t)'
  <2>1. CASE t = s
    BY <1>1, <1>3, <1>6, <2>1 DEF Activate
  <2>2. CASE t # s
    BY <1>1, <1>6, <2>2, ProvisionedLasts DEF Activate
  <2> QED
    BY <2>1, <2>2
<1>7. ASSUME NEW s \in Schema, StopProvisioning(s) PROVE Provisioned(t)'
  <2>1. next'[t] = 0 \/ next'[t] = next[t]
    BY <1>1, <1>7 DEF StopProvisioning
  <2> QED
    BY <1>2, <1>3, <1>7, <2>1 DEF StopProvisioning
<1>8. ASSUME UNCHANGED <<next, active>> PROVE Provisioned(t)'
  BY <1>2, <1>8
<1>9. ASSUME NEW s \in Schema, TakeSchema(s) PROVE Provisioned(t)'
  BY <1>8, <1>9 DEF TakeSchema
<1>10. ASSUME NEW key \in Key, RunTenantMigration(key) PROVE Provisioned(t)'
  BY <1>8, <1>10 DEF RunTenantMigration
<1>11. CASE MigrateSchema
  BY <1>8, <1>11 DEF MigrateSchema
<1>12. CASE Succeed \/ Answer \/ StopMigration
  BY <1>8, <1>12 DEF Succeed, Answer, StopMigration
<1>13. CASE UNCHANGED vars
  BY <1>8, <1>13 DEF vars
<1> QED
  BY <1>4, <1>5, <1>6, <1>7, <1>9, <1>10, <1>11, <1>12, <1>13 DEF Next

\* A tenant becomes active when all of it has been provisioned.
LEMMA Activated ==
  ASSUME Sound, NEW s \in Schema, Activate(s)
  PROVE  /\ Everything \subseteq objects[s] /\ Seeded(s, 4)
         /\ Oldest.objects \subseteq objects[s] /\ CoreRoles \subseteq roles[s]
         /\ Oldest.grants \subseteq grants[s]
<1>1. next[s] = Last + 1 /\ Last = Len(Template) + 4 /\ Len(Template) \in Nat /\ Provisioned(s)
  BY Lengths DEF Activate, Sound
<1>2. /\ next[s] > 0 /\ next[s] > Len(Template) + 1 /\ next[s] - Len(Template) - 1 = 4
      /\ \A i \in DOMAIN Template : i < next[s]
  BY <1>1, Lengths
<1>3. Everything \subseteq objects[s] /\ Seeded(s, 4)
  BY <1>1, <1>2, MadeWithin DEF Provisioned, Everything
<1>4. Oldest.objects \subseteq Everything
  <2>1. 3 \in 1 .. Len(Features)
    BY OldFact
  <2> QED
    BY <2>1, OldFact DEF Oldest
<1>5. PICK v \in Vertical : v = vertical[s]
  BY <1>3 DEF Seeded
<1>6. /\ CoreRoles \subseteq SeedTenantDefaults(v)[2].roles
      /\ Oldest.grants \subseteq SeedTenantDefaults(v)[3].grants
  BY DefaultsOf
<1>7. Inserted(s, SeedTenantDefaults(v)[2]) /\ Inserted(s, SeedTenantDefaults(v)[3])
  BY <1>3, <1>5 DEF Seeded
<1> QED
  BY <1>3, <1>4, <1>6, <1>7 DEF Inserted

-----------------------------------------------------------------------------
(***************************************************************************)
(* Tenants that are active, and the roles of new ones.                     *)
(***************************************************************************)

LEMMA BecomesActive ==
  ASSUME Sound, [Next]_vars, NEW s \in Schema, s \in active', s \notin active
  PROVE  Activate(s) /\ UNCHANGED <<fresh, objects, rows, vertical>>
<1>1. ASSUME active' = active PROVE FALSE
  BY <1>1
<1>2. ASSUME NEW t \in Schema, Activate(t) PROVE t = s
  BY <1>2 DEF Activate
<1>3. \A t \in Schema : ~ProvisionSchema(t) /\ ~StopProvisioning(t) /\ ~TakeSchema(t)
  BY <1>1 DEF ProvisionSchema, StopProvisioning, TakeSchema
<1>4. \A t \in Schema, v \in Vertical : ~ApplyStatement(t, v)
  BY <1>1 DEF ApplyStatement
<1>5. \A key \in Key : ~RunTenantMigration(key)
  BY <1>1 DEF RunTenantMigration
<1>6. ~MigrateSchema /\ ~Succeed /\ ~Answer /\ ~StopMigration /\ ~UNCHANGED vars
  BY <1>1 DEF MigrateSchema, Succeed, Answer, StopMigration, vars
<1>7. PICK t \in Schema : Activate(t)
  BY <1>3, <1>4, <1>5, <1>6 DEF Next
<1> QED
  BY <1>2, <1>7 DEF Activate

LEMMA CompleteKept ==
  ASSUME Sound, [Next]_vars, Grows, NEW s \in Schema
  PROVE  Complete(s)'
<1> SUFFICES ASSUME s \in fresh' \cap active'
             PROVE  Everything \subseteq objects'[s] /\ Seeded(s, 4)'
  BY DEF Complete
<1>1. Everything \subseteq objects[s] /\ Seeded(s, 4)
  <2>1. CASE s \in active
    BY <2>1 DEF Sound, Complete, Grows
  <2>2. CASE s \notin active
    BY <2>2, BecomesActive, Activated
  <2> QED
    BY <2>1, <2>2
<1> QED
  BY <1>1, SeededLasts DEF Grows, Place

LEMMA NoOlderKept ==
  ASSUME Sound, [Next]_vars, Grows, NEW s \in Schema
  PROVE  NoOlder(s)'
<1> SUFFICES ASSUME s \in active'
             PROVE  /\ Oldest.objects \subseteq objects'[s] /\ CoreRoles \subseteq roles'[s]
                    /\ Oldest.grants \subseteq grants'[s]
  BY DEF NoOlder
<1>1. /\ Oldest.objects \subseteq objects[s] /\ CoreRoles \subseteq roles[s]
      /\ Oldest.grants \subseteq grants[s]
  <2>1. CASE s \in active
    BY <2>1 DEF Sound, NoOlder
  <2>2. CASE s \notin active
    BY <2>2, BecomesActive, Activated
  <2> QED
    BY <2>1, <2>2
<1> QED
  BY <1>1 DEF Grows, Place

\* What is granted to anybody at all, and by whom.
LEMMA OwnRolesOnlyKept ==
  ASSUME Sound, [Next]_vars, Grows, NEW t \in Schema
  PROVE  OwnRolesOnly(t)'
<1>t. Typed /\ OwnRolesOnly(t)
  BY DEF Sound
<1>1. ASSUME \A g \in grants'[t] \ grants[t] :
                 g[1] \in CoreRoles \/ (vertical'[t] \in Vertical /\ g \in OwnGrants(vertical'[t]))
      PROVE  OwnRolesOnly(t)'
  <2>1. t \in fresh' => t \in fresh
    BY DEF Grows
  <2>2. vertical[t] \in Vertical => vertical'[t] = vertical[t]
    BY SchemaAssumption DEF Grows
  <2> QED
    BY <1>t, <1>1, <2>1, <2>2 DEF OwnRolesOnly
<1>2. ASSUME UNCHANGED rows PROVE OwnRolesOnly(t)'
  BY <1>1, <1>2 DEF rows
<1>3. ASSUME NEW s \in Schema, NEW v \in Vertical, vertical[s] \in {v, Unused},
             ApplyStatement(s, v)
      PROVE  OwnRolesOnly(t)'
  <2>1. next[s] \in 1 .. Last
    BY <1>3 DEF ApplyStatement
  <2> DEFINE st == Provisioning(s, v)
  <2>2. CASE Fails(s, st)
    BY <1>2, <1>3, <2>2 DEF ApplyStatement
  <2>3. CASE ~Fails(s, st)
    <3>1. Execute(s, st) /\ st.makes \subseteq Everything
      BY <1>t, <1>3, <2>1, <2>3, ProvisioningMakes DEF ApplyStatement
    <3>2. /\ t # s => grants'[t] = grants[t]
          /\ grants'[s] \subseteq grants[s] \cup st.grants
      BY <1>t, <3>1, Executed
    <3>3. CASE next[s] <= Len(Template)
      <4>1. st.grants = {}
        <5>1. next[s] \in DOMAIN Template /\ st = Template[next[s]]
          BY <1>t, <2>1, <3>3, ProvisioningMakes
        <5> QED
          BY <5>1, TemplateFact
      <4> QED
        BY <1>1, <3>2, <4>1
    <3>4. CASE next[s] > Len(Template)
      <4>1. PICK n \in 1 .. 4 : st = SeedTenantDefaults(v)[n]
        BY <1>t, <2>1, <3>4, ProvisioningMakes
      <4>2. vertical'[s] = v
        <5>1. ~(next[s] <= Len(Template))
          BY <1>t, <2>1, <3>4, Lengths DEF Typed
        <5> QED
          BY <1>t, <1>3, <5>1 DEF ApplyStatement, Typed
      <4>3. \A g \in st.grants : g[1] \in CoreRoles \/ g \in OwnGrants(v)
        <5>1. n \in {1, 2, 3, 4}
          OBVIOUS
        <5> QED
          BY <4>1, <5>1, DefaultsOf
      <4> HIDE DEF st
      <4> QED
        BY <1>1, <3>2, <4>2, <4>3
    <3> QED
      BY <1>t, <2>1, <3>3, <3>4, Lengths DEF Typed
  <2> QED
    BY <2>2, <2>3
<1>4. CASE MigrateSchema
  <2> DEFINE s == migration.schema
             st == Migrations[migration.key][migration.next]
  <2>1. s # Nobody /\ migration.next <= Len(Migrations[migration.key]) /\ Migrating
    BY <1>4 DEF MigrateSchema, Sound
  <2>2. CASE Fails(s, st)
    BY <1>2, <1>4, <2>2 DEF MigrateSchema
  <2>3. CASE ~Fails(s, st)
    <3>1. /\ Execute(s, st) /\ st.makes \subseteq Everything /\ s \in Schema
          /\ migration.key \in Key /\ migration.next \in DOMAIN Migrations[migration.key]
      BY <1>t, <1>4, <2>1, <2>3, MigrationStatement DEF MigrateSchema
    <3>2. st.grants \subseteq CoreRoles \X SlugsBefore(Migrations[migration.key], migration.next)
      BY <3>1, MigrationFact
    <3>3. /\ t # s => grants'[t] = grants[t]
          /\ grants'[s] \subseteq grants[s] \cup st.grants
      BY <1>t, <3>1, Executed
    <3> HIDE DEF s, st
    <3>4. \A g \in st.grants : g[1] \in CoreRoles
      BY <3>2
    <3> QED
      BY <1>1, <3>3, <3>4
  <2> QED
    BY <2>2, <2>3
<1>5. ASSUME NEW s \in Schema, ProvisionSchema(s) \/ Activate(s) \/ StopProvisioning(s) \/ TakeSchema(s)
      PROVE  OwnRolesOnly(t)'
  BY <1>2, <1>5 DEF ProvisionSchema, Activate, StopProvisioning, TakeSchema
<1>6. ASSUME NEW key \in Key, RunTenantMigration(key) PROVE OwnRolesOnly(t)'
  BY <1>2, <1>6 DEF RunTenantMigration
<1>7. CASE Succeed \/ Answer \/ StopMigration \/ UNCHANGED vars
  BY <1>2, <1>7 DEF Succeed, Answer, StopMigration, vars, rows
<1> QED
  BY <1>3, <1>4, <1>5, <1>6, <1>7 DEF Next

-----------------------------------------------------------------------------
(***************************************************************************)
(* Migrations.                                                             *)
(***************************************************************************)

LEMMA MigratingLasts ==
  ASSUME Sound, Grows, migration' = migration
  PROVE  Migrating'
<1> SUFFICES ASSUME migration.schema # Nobody PROVE Migrating'
  BY DEF Sound, Migrating
<1> DEFINE s == migration.schema
           key == migration.key
           n == migration.next
<1>1. s \in Schema /\ key \in Key /\ s \in Place /\ Public \in Place
  BY DEF Sound, Typed, Migrating, Place
<1>2. /\ n \in 1 .. Len(Migrations[key]) + 1
      /\ \A i \in DOMAIN Migrations[key] : i < n =>
             Migrations[key][i].makes \subseteq objects[s] \cup objects[Public]
      /\ migration.wasActive => s \in active /\ Migrated(key, s, n)
  BY DEF Sound, Migrating
<1>3. objects[s] \subseteq objects'[s] /\ objects[Public] \subseteq objects'[Public]
  BY <1>1 DEF Grows
<1>4. migration.wasActive => s \in active' /\ Migrated(key, s, n)'
  BY <1>1, <1>2, MigratedLasts DEF Grows
<1> QED
  BY <1>1, <1>2, <1>3, <1>4 DEF Migrating, Migrated

\* A statement of a migration that has been executed is in the schema or in
\* public, and with its rows in a schema that was active.
LEMMA StatementMigrated ==
  ASSUME Sound, Grows, migration.schema # Nobody,
         migration.next <= Len(Migrations[migration.key]),
         Execute(migration.schema, Migrations[migration.key][migration.next]),
         migration' = [migration EXCEPT !.next = @ + 1]
  PROVE  Migrating'
\* Names that a prime leaves alone.
<1>0. PICK s \in Schema, key \in Key, n \in Nat :
          /\ s = migration.schema /\ key = migration.key /\ n = migration.next
          /\ n \in DOMAIN Migrations[key]
  BY MigrationStatement DEF Sound, Typed
<1> DEFINE st == Migrations[key][n]
<1>1. /\ Execute(s, st) /\ st.makes \subseteq Everything /\ Typed /\ s \in Place /\ Public \in Place
  BY <1>0, MigrationStatement DEF Sound, Place
<1>2. /\ DOMAIN Migrations[key] = 1 .. Len(Migrations[key]) /\ Len(Migrations[key]) \in Nat
      /\ st.grants \subseteq CoreRoles \X SlugsBefore(Migrations[key], n)
  BY <1>0, MigrationFact
<1>3. /\ migration'.schema = s /\ migration'.key = key /\ migration'.next = n + 1
      /\ migration'.wasActive = migration.wasActive
  BY <1>0, <1>1 DEF Typed
<1>4. /\ \A i \in DOMAIN Migrations[key] : i < n =>
             Migrations[key][i].makes \subseteq objects[s] \cup objects[Public]
      /\ migration.wasActive => s \in active /\ Migrated(key, s, n)
  BY <1>0 DEF Sound, Migrating
<1>5. /\ Target(s, st) \in {s, Public}
      /\ objects'[Target(s, st)] = objects[Target(s, st)] \cup st.makes
      /\ slugs'[s] = slugs[s] \cup st.slugs
      /\ grants'[s] = grants[s] \cup (st.grants \cap (roles[s] \X slugs[s]))
  BY <1>1, Executed
<1>6. objects[s] \subseteq objects'[s] /\ objects[Public] \subseteq objects'[Public]
  BY <1>1 DEF Grows
<1>7. n \in Nat /\ n + 1 \in 1 .. Len(Migrations[key]) + 1
      /\ \A i \in DOMAIN Migrations[key] : i < n + 1 => i < n \/ i = n
  BY <1>0, <1>2
<1> HIDE DEF st
<1>8. \A i \in DOMAIN Migrations[key] : i < n + 1 =>
          Migrations[key][i].makes \subseteq objects'[s] \cup objects'[Public]
  BY <1>4, <1>5, <1>6, <1>7 DEF st
<1>9. ASSUME migration.wasActive PROVE s \in active' /\ Migrated(key, s, n + 1)'
  <2>1. Target(s, st) = s
    BY <1>0, <1>9, MigrationInside DEF st
  <2>2. s \in active /\ Migrated(key, s, n) /\ NoOlder(s)
    BY <1>1, <1>4, <1>9 DEF Sound
  <2>3. SlugsBefore(Migrations[key], n) \subseteq slugs[s]
    BY <1>1, <1>2, <1>7, <2>2 DEF SlugsBefore, Migrated
  <2>4. st.grants \subseteq roles[s] \X slugs[s]
    BY <1>2, <2>2, <2>3 DEF NoOlder
  <2>5. st.makes \subseteq objects'[s] /\ st.slugs \subseteq slugs'[s] /\ st.grants \subseteq grants'[s]
    BY <1>5, <2>1, <2>4
  <2>6. Migrated(key, s, n)'
    BY <1>1, <2>2, MigratedLasts
  <2> QED
    BY <1>7, <2>2, <2>5, <2>6 DEF Migrated, Grows, st
<1> QED
  BY <1>0, <1>3, <1>7, <1>8, <1>9 DEF Migrating

LEMMA MigratingKept ==
  ASSUME Sound, [Next]_vars, Grows
  PROVE  Migrating'
<1>t. Typed /\ Migrating
  BY DEF Sound
<1>1. ASSUME migration' = Leave PROVE Migrating'
  BY <1>1, <1>t DEF Migrating, Leave, Typed
<1>2. ASSUME migration' = NoMigration PROVE Migrating'
  BY <1>2 DEF Migrating, NoMigration
<1>3. ASSUME NEW s \in Schema, TakeSchema(s) PROVE Migrating'
  <2> DEFINE was == s \in active
  <2>1. /\ migration' = [migration EXCEPT !.todo = @ \ {s}, !.schema = s, !.next = 1, !.wasActive = was]
        /\ s \in migration.todo
    BY <1>3 DEF TakeSchema
  <2>2. migration.key \in Key
    BY <1>t, <2>1 DEF Migrating
  <2>3. was => s \in active'
    BY DEF Grows
  <2> HIDE DEF was
  <2>4. /\ migration'.key = migration.key /\ migration'.schema = s /\ migration'.next = 1
        /\ migration'.wasActive = was
    BY <1>t, <2>1 DEF Typed
  <2>5. /\ DOMAIN Migrations[migration.key] = 1 .. Len(Migrations[migration.key])
        /\ Len(Migrations[migration.key]) \in Nat
    BY <2>2, MigrationFact
  <2>6. \A i \in DOMAIN Migrations[migration.key] : ~(i < 1)
    BY <2>5
  <2> QED
    BY <2>2, <2>3, <2>4, <2>5, <2>6 DEF Migrating, Migrated
<1>4. ASSUME NEW key \in Key, RunTenantMigration(key) PROVE Migrating'
  BY <1>4 DEF RunTenantMigration, NoMigration, Migrating
<1>5. CASE MigrateSchema
  <2> DEFINE st == Migrations[migration.key][migration.next]
  <2>1. CASE Fails(migration.schema, st)
    BY <1>1, <1>5, <2>1 DEF MigrateSchema
  <2>2. CASE ~Fails(migration.schema, st)
    BY <1>5, <2>2, StatementMigrated DEF MigrateSchema
  <2> QED
    BY <2>1, <2>2
<1>6. CASE Succeed \/ Answer \/ StopMigration
  BY <1>1, <1>2, <1>6 DEF Succeed, Answer, StopMigration
<1>7. ASSUME NEW s \in Schema, ProvisionSchema(s) \/ Activate(s) \/ StopProvisioning(s)
      PROVE  Migrating'
  BY <1>7, MigratingLasts DEF ProvisionSchema, Activate, StopProvisioning
<1>8. ASSUME NEW s \in Schema, NEW v \in Vertical, ApplyStatement(s, v) PROVE Migrating'
  BY <1>8, MigratingLasts DEF ApplyStatement
<1>9. CASE UNCHANGED vars
  BY <1>9, MigratingLasts DEF vars
<1> QED
  BY <1>3, <1>4, <1>5, <1>6, <1>7, <1>8, <1>9 DEF Next

LEMMA UpgradedKept ==
  ASSUME Sound, [Next]_vars, Grows, NEW s \in Schema
  PROVE  Upgraded(s)'
<1>t. Typed /\ Migrating /\ Upgraded(s)
  BY DEF Sound
<1>1. ASSUME NEW key \in Key, s \in active, Migrated(key, s, Len(Migrations[key]) + 1)
      PROVE  s \in active' /\ Migrated(key, s, Len(Migrations[key]) + 1)'
  <2> DEFINE n == Len(Migrations[key]) + 1
  <2> HIDE DEF n
  <2>1. Migrated(key, s, n)'
    BY <1>1, MigratedLasts DEF n
  <2> QED
    BY <1>1, <2>1 DEF n, Grows
<1>2. upgraded[s] \subseteq Key
  BY <1>t DEF Typed
<1>3. CASE upgraded' = upgraded
  BY <1>t, <1>1, <1>2, <1>3 DEF Upgraded
<1>4. CASE Succeed
  <2> DEFINE key == migration.key
  <2>1. /\ migration.schema \in Schema /\ key \in Key
        /\ migration.next = Len(Migrations[key]) + 1
        /\ migration.wasActive =>
               /\ migration.schema \in active
               /\ Migrated(key, migration.schema, migration.next)
    BY <1>4, <1>t DEF Succeed, Typed, Migrating
  <2>2. /\ migration.schema # s => upgraded'[s] = upgraded[s]
        /\ migration.schema = s => upgraded'[s] = upgraded[s] \cup IF migration.wasActive THEN {key} ELSE {}
    BY <1>4, <1>t DEF Succeed, Typed
  <2> HIDE DEF key
  <2>3. \A k \in upgraded'[s] : k \in Key /\ s \in active /\ Migrated(k, s, Len(Migrations[k]) + 1)
    BY <1>t, <1>2, <2>1, <2>2 DEF Upgraded
  <2> QED
    BY <1>1, <2>3 DEF Upgraded
<1>5. ASSUME NEW t \in Schema, ProvisionSchema(t) \/ Activate(t) \/ StopProvisioning(t) \/ TakeSchema(t)
      PROVE  upgraded' = upgraded
  BY <1>5 DEF ProvisionSchema, Activate, StopProvisioning, TakeSchema
<1>6. ASSUME NEW t \in Schema, NEW v \in Vertical, ApplyStatement(t, v) PROVE upgraded' = upgraded
  BY <1>6 DEF ApplyStatement
<1>7. ASSUME NEW key \in Key, RunTenantMigration(key) PROVE upgraded' = upgraded
  BY <1>7 DEF RunTenantMigration
<1>8. CASE MigrateSchema \/ Answer \/ StopMigration \/ UNCHANGED vars
  BY <1>3, <1>8 DEF MigrateSchema, Answer, StopMigration, vars
<1> QED
  BY <1>3, <1>4, <1>5, <1>6, <1>7, <1>8 DEF Next

LEMMA SoundKept == Sound /\ [Next]_vars => Sound'
<1> SUFFICES ASSUME Sound, [Next]_vars PROVE Sound'
  OBVIOUS
<1>1. Typed' /\ Grows
  BY NextGrows
<1>2. ASSUME NEW s \in Schema
      PROVE  (Provisioned(s) /\ Complete(s) /\ NoOlder(s) /\ OwnRolesOnly(s) /\ Upgraded(s))'
  BY <1>1, ProvisionedKept, CompleteKept, NoOlderKept, OwnRolesOnlyKept, UpgradedKept
<1>3. Migrating'
  BY <1>1, MigratingKept
<1> QED
  BY <1>1, <1>2, <1>3 DEF Sound

\* Wherever the lists of statements stand, what they have come past is there.
THEOREM SoundAlways == Spec => []Sound
  BY InitSound, SoundKept, PTL DEF Spec

-----------------------------------------------------------------------------
(***************************************************************************)
(* What the runs check.                                                    *)
(***************************************************************************)

\* A schema has only what the template makes, a grant names a role and a
\* permission that are there, and only a tenant with a schema is active.
THEOREM TypeCorrect == Spec => []TypeOK
<1>1. Sound => TypeOK
  BY DEF Sound, Typed, TypeOK, Place
<1> QED
  BY <1>1, SoundAlways, PTL

LEMMA SoundNotFailing == Sound => ProvisioningFailsOnlyByRace
<1> SUFFICES ASSUME Sound, NEW s \in Schema, next[s] \in DOMAIN Template,
                    objects[s] \subseteq Before(Template, next[s])
             PROVE  ~Fails(s, Template[next[s]])
  BY DEF ProvisioningFailsOnlyByRace
<1>1. Template[next[s]].needs \subseteq objects[s] /\ Target(s, Template[next[s]]) = s
  BY TemplateInside
<1>2. Template[next[s]].makes \cap objects[s] = {}
  BY TemplateFact
<1> QED
  BY <1>1, <1>2 DEF Fails, Collides

\* Whatever has been migrated or stopped before, in whatever order: the
\* template runs through a schema that nothing else has put anything into.
THEOREM ProvisioningFailsOnlyByRaceAlways == Spec => []ProvisioningFailsOnlyByRace
  BY SoundAlways, SoundNotFailing, PTL

LEMMA SoundRepeatable == Sound => MigrationsRepeatable
<1> SUFFICES ASSUME Sound, migration.schema # Nobody,
                    migration.next <= Len(Migrations[migration.key]),
                    \A i \in BuildsOn[migration.key] :
                        MadeBy(Features[i]) \subseteq objects[migration.schema]
             PROVE  ~Fails(migration.schema, Migrations[migration.key][migration.next])
  BY DEF MigrationsRepeatable
<1> DEFINE s == migration.schema
           key == migration.key
           n == migration.next
           st == Migrations[key][n]
<1>1. s \in Schema /\ key \in Key /\ n \in DOMAIN Migrations[key]
  BY MigrationStatement DEF Sound
<1>2. /\ DOMAIN Migrations[key] = 1 .. Len(Migrations[key]) /\ Len(Migrations[key]) \in Nat
      /\ st.guarded \/ st.makes = {}
      /\ st.needs \subseteq Before(Migrations[key], n)
                            \cup UNION {MadeBy(Features[i]) : i \in BuildsOn[key]}
  BY <1>1, MigrationFact
<1>3. \A i \in 1 .. n - 1 : Migrations[key][i].makes \subseteq objects[s] \cup objects[Public]
  BY <1>1, <1>2 DEF Sound, Migrating
<1>n. n \in Nat
  BY DEF Sound, Typed
<1>5. UNION {MadeBy(Features[i]) : i \in BuildsOn[key]} \subseteq objects[s]
  OBVIOUS
<1> HIDE DEF s, key, n
<1>4. Before(Migrations[key], n) \subseteq objects[s] \cup objects[Public]
  BY <1>n, <1>3, BeforeWithin
<1> QED
  BY <1>2, <1>4, <1>5 DEF Fails, Collides, s, key, n

\* However often a migration has been run or broken off: it does not fail on
\* a schema that has what it builds on.
THEOREM MigrationsRepeatableAlways == Spec => []MigrationsRepeatable
  BY SoundAlways, SoundRepeatable, PTL

LEMMA SoundComplete == Sound => ActiveIsComplete
<1> SUFFICES ASSUME Sound PROVE ActiveIsComplete
  OBVIOUS
<1>1. VerticalsAreSeeded
  BY VerticalsSeeded DEF VerticalsAreSeeded
<1>2. ASSUME NEW s \in fresh \cap active
      PROVE  /\ Everything \subseteq objects[s]
             /\ \A x \in CoreRoles :
                    CoreTenantRoles(CoreTenantPermissions)[x] \subseteq GrantedTo(s, x)
             /\ vertical[s] \notin {"none", Unused} =>
                    \A x \in DOMAIN VerticalRoles[vertical[s]] :
                        GrantedTo(s, x) = VerticalRoles[vertical[s]][x]
  <2>1. /\ s \in Schema /\ Everything \subseteq objects[s] /\ Seeded(s, 4) /\ OwnRolesOnly(s)
        /\ grants[s] \subseteq roles[s] \X slugs[s]
    BY DEF Sound, Typed, Complete
  <2>2. PICK v \in Vertical : v = vertical[s]
    BY <2>1 DEF Seeded
  <2>3. /\ SeedTenantDefaults(v)[3].grants \subseteq grants[s]
        /\ SeedTenantDefaults(v)[4].grants \subseteq grants[s]
    BY <2>1, <2>2 DEF Seeded, Inserted
  <2>4. v \in DOMAIN VerticalRoles \cup {"none"} /\ SeedTenantDefaults(v)[4].grants = OwnGrants(v)
    BY DefaultsOf
  <2>5. \A x, g : <<x, g>> \in grants[s] => g \in GrantedTo(s, x)
    BY <2>1 DEF GrantedTo
  <2>6. ASSUME NEW x \in CoreRoles
        PROVE  CoreTenantRoles(CoreTenantPermissions)[x] \subseteq GrantedTo(s, x)
    <3>1. {x} \X CoreTenantRoles(CoreTenantPermissions)[x] \subseteq SeedTenantDefaults(v)[3].grants
      BY <2>4, DefaultsInOrder
    <3> QED
      BY <2>3, <2>5, <3>1
  <2>7. ASSUME v # "none", NEW x \in DOMAIN VerticalRoles[v]
        PROVE  GrantedTo(s, x) = VerticalRoles[v][x]
    <3>1. x \notin CoreRoles /\ v \in DOMAIN VerticalRoles
      BY <2>4, <2>7, VerticalsSeeded
    <3>2. \A g : g \in VerticalRoles[v][x] <=> <<x, g>> \in OwnGrants(v)
      BY <2>7 DEF OwnGrants
    <3>3. ASSUME NEW g \in GrantedTo(s, x) PROVE g \in VerticalRoles[v][x]
      BY <2>1, <2>2, <3>1, <3>2 DEF GrantedTo, OwnRolesOnly
    <3>4. ASSUME NEW g \in VerticalRoles[v][x] PROVE g \in GrantedTo(s, x)
      BY <2>3, <2>4, <2>5, <3>2
    <3> QED
      BY <3>3, <3>4
  <2> QED
    BY <2>1, <2>2, <2>6, <2>7
<1> QED
  BY <1>1, <1>2 DEF ActiveIsComplete

\* Whatever runs meanwhile: a new tenant that became active has all of the
\* template, and its roles exactly what its vertical and the core give them.
THEOREM ActiveIsCompleteAlways == Spec => []ActiveIsComplete
  BY SoundAlways, SoundComplete, PTL

LEMMA SoundCurrent == Sound => UpgradedIsCurrent
<1> SUFFICES ASSUME Sound, NEW s \in Schema, upgraded[s] = Key
             PROVE  /\ objects[s] = Everything
                    /\ Demanded \subseteq GrantedTo(s, "owner")
                    /\ \A x \in DOMAIN Documented : Documented[x] \subseteq GrantedTo(s, x)
  BY DEF UpgradedIsCurrent
<1>1. /\ objects[s] \subseteq Everything /\ grants[s] \subseteq roles[s] \X slugs[s]
      /\ Upgraded(s) /\ NoOlder(s)
  BY DEF Sound, Typed, Place
<1>2. ASSUME NEW key \in Key
      PROVE  /\ s \in active /\ MadeBy(Migrations[key]) \subseteq objects[s]
             /\ GivenBy(Migrations[key]) \subseteq grants[s]
  <2>1. s \in active /\ Migrated(key, s, Len(Migrations[key]) + 1)
    BY <1>1 DEF Upgraded
  <2>2. DOMAIN Migrations[key] = 1 .. Len(Migrations[key]) /\ Len(Migrations[key]) \in Nat
    BY MigrationFact
  <2>3. \A i \in DOMAIN Migrations[key] : i < Len(Migrations[key]) + 1
    BY <2>2
  <2> QED
    BY <2>1, <2>3 DEF Migrated, MadeBy, GivenBy
<1>3. Oldest.objects \subseteq objects[s] /\ Oldest.grants \subseteq grants[s]
  <2>1. Key # {}
    BY DEF Key, Migrations
  <2> QED
    BY <1>1, <1>2, <2>1 DEF NoOlder
<1>4. UNION {MadeBy(Migrations[key]) : key \in Key} \subseteq objects[s]
  BY <1>2
<1>5. UNION {GivenBy(Migrations[key]) : key \in Key} \subseteq grants[s]
  BY <1>2
<1>6. \A x, g : <<x, g>> \in grants[s] => g \in GrantedTo(s, x)
  BY <1>1 DEF GrantedTo
<1>7. /\ {"owner"} \X Demanded \subseteq grants[s]
      /\ \A x \in DOMAIN Documented : {x} \X Documented[x] \subseteq grants[s]
  BY <1>3, <1>5, UpgradeFact
<1>8. Everything \subseteq objects[s]
  BY <1>3, <1>4, UpgradeFact
<1> QED
  BY <1>1, <1>6, <1>7, <1>8

\* A tenant of any age that every migration has succeeded on, in any order
\* and after any failures, is what a tenant provisioned now is, and can do
\* what the routes demand and the READMEs promise.
THEOREM UpgradedIsCurrentAlways == Spec => []UpgradedIsCurrent
  BY SoundAlways, SoundCurrent, PTL

\* A step that puts what the template's i-th statement makes into a schema.
Crossing(s, i) ==
    /\ Template[i].makes \subseteq objects'[s] \ objects[s]
    /\ ~(Template[i].needs \subseteq objects[s])

LEMMA StaysInside ==
  ASSUME Sound, [Next]_vars, NEW s \in Schema, NEW i \in DOMAIN Template, Crossing(s, i)
  PROVE  migration.schema = s /\ ~migration.wasActive
<1>1. Template[i].makes # {} /\ Typed /\ Migrating /\ s # Public /\ s \in Place
  BY TemplateFact, SchemaAssumption DEF Sound, Place
<1>2. ASSUME objects' = objects PROVE FALSE
  BY <1>1, <1>2 DEF Crossing
<1>3. ASSUME NEW t \in Schema, NEW st, st.makes \subseteq Everything, Execute(t, st)
      PROVE  t = s /\ Target(t, st) = s /\ Template[i].makes \subseteq st.makes
  BY <1>1, <1>3, Executed DEF Crossing
<1>4. ASSUME NEW t \in Schema, NEW v \in Vertical, ApplyStatement(t, v) PROVE FALSE
  <2> DEFINE st == Provisioning(t, v)
  <2>1. next[t] \in 1 .. Last /\ Execute(t, st) /\ st.makes \subseteq Everything
    BY <1>1, <1>2, <1>4, ProvisioningMakes DEF ApplyStatement
  <2>2. t = s /\ Template[i].makes \subseteq st.makes
    BY <1>3, <2>1
  <2>3. next[t] <= Len(Template)
    <3>1. next[t] > Len(Template) => st.makes = {}
      BY <1>1, <2>1, ProvisioningMakes
    <3>2. next[t] \in Nat /\ Len(Template) \in Nat
      BY <1>1, Lengths DEF Typed
    <3> HIDE DEF st
    <3> QED
      BY <1>1, <2>2, <3>1, <3>2
  <2>4. next[t] \in DOMAIN Template /\ st = Template[next[t]]
    BY <1>1, <2>1, <2>3, ProvisioningMakes
  <2>5. i = next[t]
    BY <2>2, <2>4, MadeOnce
  <2> QED
    BY <2>2, <2>4, <2>5, TemplateInside DEF Crossing
<1>5. CASE MigrateSchema
  <2> DEFINE t == migration.schema
             n == migration.next
             st == Migrations[migration.key][n]
  <2>1. t # Nobody /\ n <= Len(Migrations[migration.key]) /\ Execute(t, st)
    BY <1>2, <1>5 DEF MigrateSchema
  <2>2. t \in Schema /\ migration.key \in Key /\ n \in DOMAIN Migrations[migration.key]
        /\ st.makes \subseteq Everything
    BY <1>1, <2>1, MigrationStatement
  <2>3. t = s /\ Template[i].makes \subseteq st.makes
    BY <1>3, <2>1, <2>2
  <2>4. ASSUME migration.wasActive PROVE FALSE
    <3>1. Oldest.objects \cup Before(Migrations[migration.key], n) \subseteq objects[s]
      BY <2>1, <2>3, <2>4, MigrationInside
    <3>2. Template[i].needs \subseteq Oldest.objects \cup Before(Migrations[migration.key], n)
      BY <2>2, <2>3, MigrationFact
    <3> QED
      BY <3>1, <3>2 DEF Crossing
  <2> QED
    BY <2>3, <2>4
<1>6. ASSUME NEW t \in Schema, ProvisionSchema(t) \/ Activate(t) \/ StopProvisioning(t) \/ TakeSchema(t)
      PROVE  FALSE
  BY <1>2, <1>6 DEF ProvisionSchema, Activate, StopProvisioning, TakeSchema
<1>7. ASSUME NEW key \in Key, RunTenantMigration(key) PROVE FALSE
  BY <1>2, <1>7 DEF RunTenantMigration
<1>8. ASSUME Succeed \/ Answer \/ StopMigration \/ UNCHANGED vars PROVE FALSE
  BY <1>2, <1>8 DEF Succeed, Answer, StopMigration, vars
<1> QED
  BY <1>4, <1>5, <1>6, <1>7, <1>8 DEF Next

\* Only a migration that met a tenant before it was active can leave in its
\* schema anything that refers to public, however provisioning, migrations and
\* their failures interleave.
THEOREM ReferencesStayInsideAlways == Spec => ReferencesStayInside
<1>1. ASSUME Sound, [Next]_vars
      PROVE  [\A s \in Schema : \A i \in DOMAIN Template :
                  /\ Template[i].makes \subseteq objects'[s] \ objects[s]
                  /\ ~(Template[i].needs \subseteq objects[s])
                  => migration.schema = s /\ ~migration.wasActive]_vars
  BY <1>1, StaysInside DEF Crossing
<1> QED
  BY <1>1, SoundAlways, PTL DEF Spec, ReferencesStayInside
=============================================================================
