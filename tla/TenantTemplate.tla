--------------------------- MODULE TenantTemplate ---------------------------
(***************************************************************************)
(* What is put into the schema of a tenant: the statements of the template *)
(* and of the incremental migrations, and the roles and permissions that   *)
(* are seeded.                                                             *)
(*                                                                         *)
(* An object is a type, a table, a column added later, the foreign key of  *)
(* a column or the indexes of a table, which count as one.  A permission   *)
(* is its slug, without "tenant:" where it begins so.                      *)
(***************************************************************************)
EXTENDS Sequences

(***************************************************************************)
(* A statement creates objects (makes) in the schema of a table (on) or,   *)
(* when that is "", in the first schema of the search path; it refers to   *)
(* others (needs); guarded, it does nothing where they exist.  Or it       *)
(* inserts permissions, roles and grants, pairs of the two.  Statements of *)
(* one kind that follow each other are one: none refers to another.        *)
(***************************************************************************)
Statement(on, makes, needs) ==
    [on |-> on, makes |-> makes, needs |-> needs, guarded |-> FALSE,
     slugs |-> {}, roles |-> {}, grants |-> {}]

\* The objects that are known by one name.
Named(names) == {<<name>> : name \in names}

Enums(names) == Statement("", Named(names), {})
Tables(names, types) == Statement("", Named(names), Named(types))
Columns(table, columns) ==
    Statement(table, {<<table, column>> : column \in columns}, {<<table>>})
Indexes(tables) ==
    Statement(CHOOSE table \in tables : TRUE,
              {<<table, "indexes">> : table \in tables}, Named(tables))
\* keys are triples: a table, its column and the table that references.
ForeignKeys(keys) ==
    Statement((CHOOSE key \in keys : TRUE)[1],
              {<<key[1], key[2], "fkey">> : key \in keys},
              UNION {Named({key[1], key[3]}) : key \in keys})

Insert(slugs, roles, grants, tables) ==
    [Statement("", {}, Named(tables)) EXCEPT !.slugs = slugs, !.roles = roles,
                                             !.grants = grants]
InsertPermissions(slugs) == Insert(slugs, {}, {}, {"Permission"})
InsertRoles(roles) == Insert({}, roles, {}, {"Role"})
Grant(roles, slugs) == Insert({}, {}, roles \X slugs, {"Role", "Permission", "RolePermission"})

\* IF NOT EXISTS, or a DO block that catches duplicate_object.
IfNotExists(statements) ==
    [i \in DOMAIN statements |-> [statements[i] EXCEPT !.guarded = TRUE]]

-----------------------------------------------------------------------------
(***************************************************************************)
(* The template.                                                           *)
(***************************************************************************)

CoreTables ==
    <<Enums({"RoleScopeType"}),
      Tables({"Branch", "Role", "Permission", "RolePermission", "UserBranchMembership"},
             {"RoleScopeType"}),
      Indexes({"Branch", "Role", "Permission", "RolePermission", "UserBranchMembership"}),
      ForeignKeys({<<"Branch", "parentBranchId", "Branch">>,
                   <<"RolePermission", "roleId", "Role">>,
                   <<"RolePermission", "permissionId", "Permission">>,
                   <<"UserBranchMembership", "branchId", "Branch">>,
                   <<"UserBranchMembership", "roleId", "Role">>})>>

\* The type with its values, of which LEAD came later than the others.
CustomFieldEnums(values) ==
    [Enums({"CustomFieldEntityType", "CustomFieldType"}) EXCEPT
        !.makes = @ \cup {<<"CustomFieldEntityType", value>> : value \in values}]

\* Mutation: the keys come before the tables they are of.
CustomFieldKeysFirst ==
    <<Indexes({"CustomFieldDefinition", "CustomFieldValue"}),
      Tables({"CustomFieldDefinition", "CustomFieldValue"},
             {"CustomFieldEntityType", "CustomFieldType"}),
      ForeignKeys({<<"CustomFieldValue", "definitionId", "CustomFieldDefinition">>})>>

\* The same in the template and in the migration.
CustomFieldTables ==
    <<Tables({"CustomFieldDefinition", "CustomFieldValue"},
             {"CustomFieldEntityType", "CustomFieldType"}),
      Indexes({"CustomFieldDefinition", "CustomFieldValue"}),
      ForeignKeys({<<"CustomFieldValue", "definitionId", "CustomFieldDefinition">>})>>

ContactTypes == {"TagEntityType", "ContactStatus", "LeadPriority", "ContactListType"}

ContactTables ==
    <<Enums(ContactTypes),
      Tables({"Tag", "EntityTag", "ContactSource", "LeadStatusConfig", "Contact", "Lead",
              "ContactList", "ContactListMember"}, ContactTypes)>>

ContactKeys ==
    <<Indexes({"Tag", "EntityTag", "ContactSource", "LeadStatusConfig", "Contact", "Lead",
               "ContactList", "ContactListMember"}),
      ForeignKeys({<<"EntityTag", "tagId", "Tag">>,
                   <<"ContactSource", "branchId", "Branch">>,
                   <<"LeadStatusConfig", "branchId", "Branch">>,
                   <<"Contact", "branchId", "Branch">>,
                   <<"Contact", "sourceId", "ContactSource">>,
                   <<"Lead", "branchId", "Branch">>,
                   <<"Lead", "contactId", "Contact">>,
                   <<"Lead", "sourceId", "ContactSource">>,
                   <<"Lead", "statusId", "LeadStatusConfig">>,
                   <<"ContactList", "branchId", "Branch">>,
                   <<"ContactListMember", "listId", "ContactList">>,
                   <<"ContactListMember", "contactId", "Contact">>})>>

AssignmentTables ==
    IfNotExists(<<Columns("UserBranchMembership", {"roundRobinAvailable"})>>)
    \o <<Enums({"LeadAssignmentMode"}),
         Tables({"LeadAssignmentConfig", "LeadWebhook"}, {"LeadAssignmentMode"}),
         Indexes({"LeadAssignmentConfig", "LeadWebhook"}),
         ForeignKeys({<<"LeadAssignmentConfig", "branchId", "Branch">>,
                      <<"LeadWebhook", "branchId", "Branch">>})>>

ActivityTypes == {"LeadActivityType", "ActivityDirection", "CallOutcome", "ActivityTaskStatus"}

\* Guarded in the template as well.
ActivityTables ==
    IfNotExists(<<Columns("Lead", {"lastActivityAt", "nextFollowUpAt", "touchpointCount"}),
                  Statement("Lead", {<<"Lead", "nextFollowUpAt", "index">>},
                            {<<"Lead">>, <<"Lead", "nextFollowUpAt">>}),
                  Enums(ActivityTypes),
                  Tables({"LeadActivity"}, ActivityTypes),
                  Indexes({"LeadActivity"}),
                  ForeignKeys({<<"LeadActivity", "leadId", "Lead">>})>>)

TaskTypes == {"TaskType", "TaskStatus", "TaskPriority", "TaskEntityType"}

TaskTables ==
    IfNotExists(<<Enums(TaskTypes),
                  Tables({"Task", "TaskAssignee", "TaskChecklist", "TaskChecklistItem"}, TaskTypes),
                  Indexes({"Task", "TaskAssignee", "TaskChecklist", "TaskChecklistItem"}),
                  ForeignKeys({<<"Task", "parentTaskId", "Task">>,
                               <<"TaskAssignee", "taskId", "Task">>,
                               <<"TaskChecklist", "taskId", "Task">>,
                               <<"TaskChecklistItem", "checklistId", "TaskChecklist">>})>>)

\* In the order in which they came to the template.
Features ==
    <<CoreTables,
      <<CustomFieldEnums({"LEAD"})>> \o CustomFieldTables,
      ContactTables \o ContactKeys,
      AssignmentTables, ActivityTables, TaskTables>>

Template ==
    Features[1] \o Features[2] \o Features[3] \o Features[4] \o Features[5] \o Features[6]

-----------------------------------------------------------------------------
(***************************************************************************)
(* What a new tenant is seeded with.                                       *)
(***************************************************************************)

ManagerSlugs ==
    {"contacts:view_branch", "contacts:create", "contacts:update", "contacts:delete",
     "leads:view_branch", "leads:create", "leads:update", "leads:delete",
     "leads:convert", "leads:configure", "tags:manage", "contact_lists:manage",
     "sources:manage", "staff:round_robin", "deals:view_branch", "deals:create",
     "deals:update", "appointments:view_branch", "appointments:create",
     "appointments:update", "appointments:cancel", "invoices:view_branch",
     "invoices:create", "invoices:send", "payments:record"}

StaffSlugs ==
    {"contacts:view_branch", "contacts:create", "contacts:update",
     "leads:view_branch", "leads:create", "leads:update",
     "appointments:view_branch", "appointments:create", "appointments:update"}

ViewerSlugs ==
    {"contacts:view_branch", "leads:view_branch", "deals:view_branch",
     "appointments:view_branch", "invoices:view_branch"}

CoreTenantPermissions ==
    ManagerSlugs \cup
    {"contacts:view_own", "contacts:view_all", "contacts:export", "contacts:view_pii",
     "invoices:void", "employees:view", "employees:create", "employees:view_salary",
     "payroll:run", "leaves:approve", "users:invite", "users:manage_roles",
     "settings:manage", "branches:manage", "audit_logs:view", "custom_fields:manage",
     "leads:view_all", "leads:view_own"}

\* "*" stands for every permission seeded.
CoreTenantRoles(all) ==
    [owner |-> all, admin |-> all, manager |-> ManagerSlugs,
     staff |-> StaffSlugs, viewer |-> ViewerSlugs]

VerticalRoles ==
    [medical |->
        [doctor |-> {"contacts:view_branch", "contacts:view_pii",
                     "appointments:view_branch", "medical:patients:view_branch",
                     "medical:prescriptions:sign", "medical:lab_orders:create",
                     "medical:emr:view"},
         nurse |-> {"contacts:view_branch", "appointments:view_branch",
                    "medical:patients:view_branch", "medical:vitals:record"},
         receptionist |-> {"contacts:view_branch", "contacts:create",
                           "appointments:view_branch", "appointments:create",
                           "appointments:update", "invoices:create"}],
     law |->
        [partner |-> {"contacts:view_branch", "law:cases:view_branch",
                      "law:cases:view_confidential", "law:billable_hours:edit",
                      "law:retainer:withdraw"},
         associate |-> {"contacts:view_branch", "law:cases:view_branch",
                        "law:billable_hours:edit"},
         paralegal |-> {"contacts:view_branch", "law:cases:view_branch"}],
     restaurant |->
        [restaurant_manager |-> {"contacts:view_branch", "restaurant:pos:operate",
                                 "restaurant:menu:edit", "restaurant:cash:close_shift"},
         waiter |-> {"restaurant:pos:operate"},
         chef |-> {"restaurant:kitchen:view"}],
     school |->
        [principal |-> {"school:grades:enter", "school:grades:finalize",
                        "school:fees:waive", "school:discipline:record"},
         teacher |-> {"school:grades:enter"}],
     gym |->
        [trainer |-> {"contacts:view_branch", "gym:trainers:schedule"},
         gym_receptionist |-> {"contacts:view_branch", "gym:checkin:record",
                               "gym:memberships:create"}]]

VerticalTenantPermissions ==
    [medical |-> {"medical:patients:view_branch", "medical:prescriptions:sign",
                  "medical:lab_orders:create", "medical:emr:view",
                  "medical:vitals:record"},
     law |-> {"law:cases:view_branch", "law:cases:view_confidential",
              "law:billable_hours:edit", "law:retainer:withdraw"},
     restaurant |-> {"restaurant:pos:operate", "restaurant:menu:edit",
                     "restaurant:kitchen:view", "restaurant:cash:close_shift"},
     school |-> {"school:grades:enter", "school:grades:finalize",
                 "school:fees:waive", "school:discipline:record"},
     gym |-> {"gym:checkin:record", "gym:memberships:create", "gym:trainers:schedule"}]

CoreRoles == DOMAIN CoreTenantRoles({})

\* seedTenantDefaults; each of its loops is one statement here.  "none" is
\* a tenant without a vertical.
SeedTenantDefaults(vertical) ==
    LET perms == CoreTenantPermissions \cup
                     IF vertical = "none" THEN {} ELSE VerticalTenantPermissions[vertical]
        roles == CoreTenantRoles(perms)
        more == IF vertical = "none" THEN <<>> ELSE VerticalRoles[vertical]
    IN <<InsertPermissions(perms),
         InsertRoles(CoreRoles \cup DOMAIN more),
         [Grant({}, {}) EXCEPT !.grants =
             UNION {{x} \X roles[x] : x \in CoreRoles}],
         [Grant({}, {}) EXCEPT !.grants =
             UNION {{x} \X more[x] : x \in DOMAIN more}]>>

-----------------------------------------------------------------------------
(***************************************************************************)
(* The migrations.  Their tables and keys are those of the template, all   *)
(* of them guarded, and permissions with their grants follow.              *)
(***************************************************************************)

FullRoles == {"owner", "admin"}

\* The type has no value LEAD yet.
CustomFieldsMigration ==
    IfNotExists(<<CustomFieldEnums({})>> \o CustomFieldTables)
    \o <<InsertPermissions({"custom_fields:manage"}),
         Grant(FullRoles, {"custom_fields:manage"})>>

ContactSlugs == {"leads:delete", "leads:view_all", "leads:view_own", "leads:convert",
                 "tags:manage", "contact_lists:manage", "sources:manage"}

ContactsLeadsMigration ==
    IfNotExists(<<Statement("CustomFieldEntityType", {<<"CustomFieldEntityType", "LEAD">>},
                        {<<"CustomFieldEntityType">>})>>
            \o ContactTables \o ContactKeys)
    \o <<InsertPermissions(ContactSlugs),
         Grant(FullRoles, ContactSlugs),
         Grant({"manager"}, ContactSlugs \ {"leads:view_all", "leads:view_own"}),
         Grant({"staff"}, {"contacts:update", "leads:view_branch", "leads:create",
                           "leads:update"})>>

AssignmentSlugs == {"leads:configure", "staff:round_robin"}

\* Mutation: the statements of the template without their guards.
LeadAssignmentWebhookUnguarded ==
    AssignmentTables
    \o <<InsertPermissions(AssignmentSlugs),
         Grant(FullRoles, AssignmentSlugs), Grant({"manager"}, AssignmentSlugs)>>

LeadAssignmentWebhookMigration ==
    IfNotExists(AssignmentTables)
    \o <<InsertPermissions(AssignmentSlugs),
         Grant(FullRoles, AssignmentSlugs), Grant({"manager"}, AssignmentSlugs)>>

\* Mutation: the grants come before the permission they are of.
LeadActivitiesGrantsFirst ==
    ActivityTables
    \o <<Grant(FullRoles \cup {"manager"}, {"leads:log_activity"}),
         Grant({"staff"}, {"leads:log_activity"}),
         InsertPermissions({"leads:log_activity"})>>

LeadActivitiesMigration ==
    ActivityTables
    \o <<InsertPermissions({"leads:log_activity"}),
         Grant(FullRoles \cup {"manager"}, {"leads:log_activity"}),
         Grant({"staff"}, {"leads:log_activity"})>>

TaskSlugs == {"tasks:view", "tasks:create", "tasks:update", "tasks:delete",
              "tasks:manage_checklist"}

TasksMigration ==
    TaskTables
    \o <<InsertPermissions(TaskSlugs),
         Grant(FullRoles \cup {"manager"}, TaskSlugs),
         Grant({"staff"}, TaskSlugs \ {"tasks:delete"})>>
=============================================================================
