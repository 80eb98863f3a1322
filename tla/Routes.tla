------------------------------- MODULE Routes -------------------------------
(***************************************************************************)
(* The routes of the two services and the guards in front of them.         *)
(*                                                                         *)
(* A route is known by its controller and by what its decorators ask for:  *)
(* routes of one controller that ask for the same are one.  A permission   *)
(* is its slug without the leading "tenant:".                              *)
(***************************************************************************)

Route(at, public, tenantOnly, needs) ==
    [at |-> at, public |-> public, tenantOnly |-> tenantOnly, needs |-> needs]

\* Open to anybody, to any valid access token, to a tenant's token, and to
\* a tenant's token whose holder has the permission.
Open(at) == Route(at, TRUE, FALSE, {})
SignedIn(at) == Route(at, FALSE, FALSE, {})
OfTenant(at) == Route(at, FALSE, TRUE, {})
Guarded(at, slugs) == {Route(at, FALSE, TRUE, {slug}) : slug \in slugs}

\* signup, invite/accept, login, refresh; logout and logout-all.
SignInRoutes == {Open("auth"), SignedIn("auth")}
\* verify-email, resend, forgot and reset password; 2fa/setup and confirm.
RecoveryRoutes == {Open("auth"), SignedIn("auth")}
\* 2fa/verify; 2fa/disable, backup codes, me.
TwoFactorRoutes == {Open("auth"), SignedIn("auth")}

\* Registered outside production only.
DevRoutes == {Open("dev")}

BranchRoutes == {OfTenant("branches")} \cup Guarded("branches", {"branches:manage"})
RoleRoutes == {OfTenant("roles")} \cup Guarded("roles", {"users:manage_roles"})
StaffRoutes ==
    {OfTenant("staff")} \cup
    Guarded("staff", {"users:invite", "users:manage_roles", "staff:round_robin"})
TenantRoutes == {OfTenant("tenant")}

ContactRoutes ==
    Guarded("contacts", {"contacts:view_branch", "contacts:create",
                         "contacts:update", "contacts:delete"})
ContactListRoutes ==
    Guarded("contact-lists", {"contacts:view_branch", "contact_lists:manage"})
ContactSourceRoutes ==
    {OfTenant("contact-sources")} \cup Guarded("contact-sources", {"sources:manage"})

LeadRoutes ==
    Guarded("leads", {"leads:view_branch", "leads:create", "leads:update",
                      "leads:delete", "leads:convert"})
LeadStatusRoutes ==
    {OfTenant("lead-statuses")} \cup Guarded("lead-statuses", {"sources:manage"})
LeadActivityRoutes ==
    Guarded("lead-activities", {"leads:log_activity", "leads:view_branch"})
AssignmentRoutes ==
    {OfTenant("lead-assignment-config")} \cup
    Guarded("lead-assignment-config", {"leads:configure"})
WebhookRoutes == Guarded("lead-webhooks", {"leads:configure"})
IngestionRoutes == {Open("webhooks")}

TaskRoutes ==
    Guarded("tasks", {"tasks:create", "tasks:view", "tasks:update",
                      "tasks:delete", "tasks:manage_checklist"})
TagRoutes == {OfTenant("tags")} \cup Guarded("tags", {"tags:manage"})
CustomFieldRoutes ==
    {OfTenant("custom-fields")} \cup Guarded("custom-fields", {"custom_fields:manage"})

CrmRoutes ==
    UNION {BranchRoutes, RoleRoutes, StaffRoutes, TenantRoutes, ContactRoutes,
           ContactListRoutes, ContactSourceRoutes, LeadRoutes, LeadStatusRoutes,
           LeadActivityRoutes, AssignmentRoutes, WebhookRoutes, IngestionRoutes,
           TaskRoutes, TagRoutes, CustomFieldRoutes}

AuthRoutes == UNION {SignInRoutes, RecoveryRoutes, TwoFactorRoutes, DevRoutes}

\* What the routes of the CRM ask for, over all of them.
Demanded == UNION {route.needs : route \in CrmRoutes}

\* TenantScopeGuard, on the controllers that declare it.
PassesScope(route, scope) ==
    route.public \/ ~route.tenantOnly \/ scope \in {"tenant", "impersonation"}

\* The end of PermissionsGuard: every permission asked for is held.
PassesPermissions(route, held) == route.needs \subseteq held
=============================================================================
