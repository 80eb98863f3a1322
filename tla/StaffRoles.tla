----------------------------- MODULE StaffRoles -----------------------------
(***************************************************************************)
(* The staff of one tenant: memberships and invitations in the core        *)
(* database, roles and role assignments in the schema of the tenant, and   *)
(* the handlers that keep the two in step.                                 *)
(*                                                                         *)
(* No foreign key and no transaction spans the two databases.  A request   *)
(* is a process with one step per statement or transaction; a refusal that *)
(* writes nothing ends the request.  The sessions a deactivation ends are  *)
(* in StaffSessions and, with their tokens, in RefreshRotation; the status *)
(* of the user row is in PasswordLogin.                                    *)
(***************************************************************************)
EXTENDS Naturals, FiniteSets

CONSTANTS
    User,
    Founder,      \* the user who signed up and owns the tenant
    Role,         \* ids the Role table may hold
    SystemRole,   \* roles seeded at provisioning, isSystem
    Owner,        \* the system role with slug owner
    Branch,
    TenantWide,   \* branchId is null
    Assignment,   \* ids the UserBranchMembership table may allocate
    Invite,       \* ids the user_invites table may allocate
    Request,      \* requests served at the same time
    NoUser, NoRole, NoInvite

ASSUME FounderAssumption == Founder \in User

ASSUME RoleAssumption == Owner \in SystemRole /\ SystemRole \subseteq Role

ASSUME NullAssumption ==
    /\ TenantWide \notin Branch
    /\ NoUser \notin User /\ NoRole \notin Role /\ NoInvite \notin Invite

VARIABLES
    roles,        \* ids of the roles there are
    deleted,      \* ids of the roles deleted
    assignments,  \* rows of the UserBranchMembership table
    revoked,      \* ids of the assignments whose revokedAt is set
    membership,   \* membership[u]: status of u's TenantMembership
    invites,      \* rows of the user_invites table
    accepted,     \* ids of the invitations whose acceptedAt is set
    recalled,     \* ids of the invitations whose revokedAt is set
    request,      \* request[r]: how far r has come and what it remembers
    excused       \* whether Excuse ever held (no column)

vars == <<roles, deleted, assignments, revoked, membership, invites, accepted,
          recalled, request, excused>>
roleTable == <<roles, deleted>>
assignmentTable == <<assignments, revoked>>
coreTables == <<membership, invites, accepted, recalled>>

Scope == Branch \cup {TenantWide}

AssignmentRow == [id : Assignment, user : User, scope : Scope, role : Role]
InviteRow == [id : Invite, user : User, scope : Scope, role : Role]

\* "none": no row of the table.
MembershipStatus == {"none", "invited", "active", "suspended"}

Step == {"idle", "member", "invite", "accept", "assign",
         "ownerOfRole", "countForRole", "reassign", "replace",
         "ownerOfStaff", "countForStaff", "deactivate", "suspend", "withdraw",
         "count", "delete"}

Progress == [step : Step, user : User \cup {NoUser}, scope : Scope,
             role : Role \cup {NoRole}, invite : Invite \cup {NoInvite},
             targets : SUBSET Assignment]

Serving(step, u, s, x, i) ==
    [step |-> step, user |-> u, scope |-> s, role |-> x, invite |-> i, targets |-> {}]

Idle == Serving("idle", NoUser, TenantWide, NoRole, NoInvite)

TypeOK ==
    /\ roles \subseteq Role /\ deleted \subseteq Role
    /\ assignments \subseteq AssignmentRow /\ revoked \subseteq Assignment
    /\ membership \in [User -> MembershipStatus]
    /\ invites \subseteq InviteRow
    /\ accepted \subseteq Invite /\ recalled \subseteq Invite
    /\ request \in [Request -> Progress]
    /\ excused \in BOOLEAN

At(r, step) == request[r].step = step
Goto(r, step) == request' = [request EXCEPT ![r].step = step]
Begin(r, progress) == request' = [request EXCEPT ![r] = progress]
Finish(r) == Begin(r, Idle)

AssignmentIds == {row.id : row \in assignments}
InviteIds == {row.id : row \in invites}
Active == {row \in assignments : row.id \notin revoked}
ActiveOwners == {row \in Active : row.role = Owner}
IsOwner(u) == \E row \in ActiveOwners : row.user = u
HeldAt(u, s) == {row.id : row \in {x \in Active : x.user = u /\ x.scope = s}}

Init ==
    /\ roles = SystemRole
    /\ deleted = {}
    /\ \E a \in Assignment :
           assignments = {[id |-> a, user |-> Founder, scope |-> TenantWide, role |-> Owner]}
    /\ revoked = {}
    /\ membership = [u \in User |-> IF u = Founder THEN "active" ELSE "none"]
    /\ invites = {}
    /\ accepted = {}
    /\ recalled = {}
    /\ request = [r \in Request |-> Idle]
    /\ excused = FALSE

-----------------------------------------------------------------------------
(***************************************************************************)
(* Invitations.                                                            *)
(***************************************************************************)

\* POST /staff/invite: the role is looked up; the branch is not.
InviteStaff(r, u, s, x) ==
    /\ At(r, "idle")
    /\ x \in roles
    /\ Begin(r, Serving("member", u, s, x, NoInvite))
    /\ UNCHANGED <<roleTable, assignmentTable, coreTables>>

CheckMember(r) ==
    /\ At(r, "member")
    /\ IF membership[request[r].user] = "active" THEN Finish(r) ELSE Goto(r, "invite")
    /\ UNCHANGED <<roleTable, assignmentTable, coreTables>>

\* One transaction; a membership that exists is left as it is.
CreateInvite(r, i) ==
    /\ At(r, "invite")
    /\ i \notin InviteIds
    /\ membership' = [membership EXCEPT ![request[r].user] = IF @ = "none" THEN "invited" ELSE @]
    /\ invites' = invites \cup {[id |-> i, user |-> request[r].user,
                                 scope |-> request[r].scope, role |-> request[r].role]}
    /\ Finish(r)
    /\ UNCHANGED <<roleTable, assignmentTable, accepted, recalled>>

\* One conditional update.
RevokeInvite(i) ==
    /\ i \in InviteIds \ (accepted \cup recalled)
    /\ recalled' = recalled \cup {i}
    /\ UNCHANGED <<roleTable, assignmentTable, membership, invites, accepted, request>>

\* Mutation: the id of the invitation is not carried along.
FindInviteForgets(r, row) ==
    /\ At(r, "idle")
    /\ row \in invites
    /\ row.id \notin accepted \cup recalled
    /\ Begin(r, Serving("accept", row.user, row.scope, row.role, NoInvite))
    /\ UNCHANGED <<roleTable, assignmentTable, coreTables>>

\* POST /auth/invite/accept: the invitation is judged outside the
\* transaction.  An expired one is refused, as if never presented.
FindInvite(r, row) ==
    /\ At(r, "idle")
    /\ row \in invites
    /\ row.id \notin accepted \cup recalled
    /\ Begin(r, Serving("accept", row.user, row.scope, row.role, row.id))
    /\ UNCHANGED <<roleTable, assignmentTable, coreTables>>

\* Mutation: acceptedAt is not set.
AcceptInviteKeepsOpen(r) ==
    /\ At(r, "accept")
    /\ membership' = [membership EXCEPT ![request[r].user] = "active"]
    /\ Goto(r, "assign")
    /\ UNCHANGED <<roleTable, assignmentTable, invites, accepted, recalled>>

\* The transaction of the core database sets the status whatever it was.
AcceptInvite(r) ==
    /\ At(r, "accept")
    /\ membership' = [membership EXCEPT ![request[r].user] = "active"]
    /\ accepted' = accepted \cup {request[r].invite}
    /\ Goto(r, "assign")
    /\ UNCHANGED <<roleTable, assignmentTable, invites, recalled>>

\* What the tenant schema demands of a new row: the role exists, and at a
\* branch nobody has had the role before, revoked rows included (null is
\* not equal to null, so tenant-wide rows repeat).
Insertable(u, s, x) ==
    /\ x \in roles
    /\ s # TenantWide =>
           ~\E row \in assignments : row.user = u /\ row.scope = s /\ row.role = x

Insert(a, u, s, x) ==
    /\ a \notin AssignmentIds
    /\ assignments' = assignments \cup {[id |-> a, user |-> u, scope |-> s, role |-> x]}

\* The row in the tenant schema comes after the commit of the core database.
AssignInvited(r, a) ==
    /\ At(r, "assign")
    /\ Insertable(request[r].user, request[r].scope, request[r].role)
    /\ Insert(a, request[r].user, request[r].scope, request[r].role)
    /\ Finish(r)
    /\ UNCHANGED <<roleTable, revoked, coreTables>>

\* The insert is refused: the error is logged and thrown, nothing undone.
AssignFails(r) ==
    /\ At(r, "assign")
    /\ ~Insertable(request[r].user, request[r].scope, request[r].role)
    /\ Finish(r)
    /\ UNCHANGED <<roleTable, assignmentTable, coreTables>>

-----------------------------------------------------------------------------
(***************************************************************************)
(* Role changes: PATCH /staff/:userId/role.                                *)
(***************************************************************************)

\* Nothing asks whether u is on the staff.
UpdateStaffRole(r, u, s, x) ==
    /\ At(r, "idle")
    /\ x \in roles
    /\ Begin(r, Serving("ownerOfRole", u, s, x, NoInvite))
    /\ UNCHANGED <<roleTable, assignmentTable, coreTables>>

\* isOwner, for the role change and for the deactivation.
CheckOwner(r) ==
    /\ \/ At(r, "ownerOfRole")
          /\ Goto(r, IF IsOwner(request[r].user) THEN "countForRole" ELSE "reassign")
       \/ At(r, "ownerOfStaff")
          /\ Goto(r, IF IsOwner(request[r].user) THEN "countForStaff" ELSE "deactivate")
    /\ UNCHANGED <<roleTable, assignmentTable, coreTables>>

\* Mutation: the only owner is not the last one.
CountOwnersOffByOne(r) ==
    /\ At(r, "countForRole") \/ At(r, "countForStaff")
    /\ IF Cardinality(ActiveOwners) < 1
       THEN Finish(r)
       ELSE Goto(r, IF At(r, "countForRole") THEN "reassign" ELSE "deactivate")
    /\ UNCHANGED <<roleTable, assignmentTable, coreTables>>

\* Assignments are counted, not owners.
CountOwners(r) ==
    /\ At(r, "countForRole") \/ At(r, "countForStaff")
    /\ IF Cardinality(ActiveOwners) <= 1
       THEN Finish(r)
       ELSE Goto(r, IF At(r, "countForRole") THEN "reassign" ELSE "deactivate")
    /\ UNCHANGED <<roleTable, assignmentTable, coreTables>>

\* One transaction, read committed: its update takes the rows active at that
\* statement, and they show as revoked, with the new row, at the commit.
Reassign(r) ==
    /\ At(r, "reassign")
    /\ request' = [request EXCEPT ![r].step = "replace",
                                  ![r].targets = HeldAt(request[r].user, request[r].scope)]
    /\ UNCHANGED <<roleTable, assignmentTable, coreTables>>

Replace(r, a) ==
    /\ At(r, "replace")
    /\ Insertable(request[r].user, request[r].scope, request[r].role)
    /\ Insert(a, request[r].user, request[r].scope, request[r].role)
    /\ revoked' = revoked \cup request[r].targets
    /\ Finish(r)
    /\ UNCHANGED <<roleTable, coreTables>>

\* The insert is refused and the transaction rolled back.
ReplaceFails(r) ==
    /\ At(r, "replace")
    /\ ~Insertable(request[r].user, request[r].scope, request[r].role)
    /\ Finish(r)
    /\ UNCHANGED <<roleTable, assignmentTable, coreTables>>

-----------------------------------------------------------------------------
(***************************************************************************)
(* Deactivation: DELETE /staff/:userId.                                    *)
(***************************************************************************)

DeactivateStaff(r, u) ==
    /\ At(r, "idle")
    /\ Begin(r, Serving("ownerOfStaff", u, TenantWide, NoRole, NoInvite))
    /\ UNCHANGED <<roleTable, assignmentTable, coreTables>>

\* Two updates in two databases, sent in parallel: each may come first.
SuspendMembership(r) ==
    /\ At(r, "deactivate") \/ At(r, "suspend")
    /\ membership' = [membership EXCEPT ![request[r].user] =
                         IF @ = "active" THEN "suspended" ELSE @]
    /\ IF At(r, "deactivate") THEN Goto(r, "withdraw") ELSE Finish(r)
    /\ UNCHANGED <<roleTable, assignmentTable, invites, accepted, recalled>>

WithdrawRoles(r) ==
    /\ At(r, "deactivate") \/ At(r, "withdraw")
    /\ revoked' = revoked \cup {row.id : row \in {x \in Active : x.user = request[r].user}}
    /\ IF At(r, "deactivate") THEN Goto(r, "suspend") ELSE Finish(r)
    /\ UNCHANGED <<roleTable, assignments, coreTables>>

-----------------------------------------------------------------------------
(***************************************************************************)
(* Custom roles.                                                           *)
(***************************************************************************)

CreateRole(x) ==
    /\ x \notin roles \cup deleted
    /\ roles' = roles \cup {x}
    /\ UNCHANGED <<deleted, assignmentTable, coreTables, request>>

DeleteRole(r, x) ==
    /\ At(r, "idle")
    /\ x \in roles \ SystemRole
    /\ Begin(r, Serving("count", NoUser, TenantWide, x, NoInvite))
    /\ UNCHANGED <<roleTable, assignmentTable, coreTables>>

\* Pending invitations are not counted.
CountUsersWithRole(r) ==
    /\ At(r, "count")
    /\ IF \E row \in Active : row.role = request[r].role THEN Finish(r) ELSE Goto(r, "delete")
    /\ UNCHANGED <<roleTable, assignmentTable, coreTables>>

\* Mutation: the foreign key does not restrict.
DropRoleUnrestricted(r) ==
    /\ At(r, "delete")
    /\ roles' = roles \ {request[r].role}
    /\ deleted' = deleted \cup (roles \cap {request[r].role})
    /\ Finish(r)
    /\ UNCHANGED <<assignmentTable, coreTables>>

\* The foreign key of the assignments, revoked ones included, restricts;
\* a delete it refuses, or that finds no role, changes nothing.
DropRole(r) ==
    /\ At(r, "delete")
    /\ LET gone == IF \E row \in assignments : row.role = request[r].role
                   THEN {} ELSE roles \cap {request[r].role}
       IN  /\ roles' = roles \ gone
           /\ deleted' = deleted \cup gone
    /\ Finish(r)
    /\ UNCHANGED <<assignmentTable, coreTables>>

-----------------------------------------------------------------------------
\* The process serving r stops, or a statement fails.
Crash(r) ==
    /\ ~At(r, "idle")
    /\ Finish(r)
    /\ UNCHANGED <<roleTable, assignmentTable, coreTables>>

InviteNext(r) ==
    \/ \E u \in User, s \in Scope, x \in Role : InviteStaff(r, u, s, x)
    \/ CheckMember(r)
    \/ \E i \in Invite : CreateInvite(r, i)
    \/ \E row \in invites : FindInvite(r, row)
    \/ AcceptInvite(r)
    \/ \E a \in Assignment : AssignInvited(r, a)
    \/ AssignFails(r)

StaffNext(r) ==
    \/ \E u \in User, s \in Scope, x \in Role : UpdateStaffRole(r, u, s, x)
    \/ \E u \in User : DeactivateStaff(r, u)
    \/ CheckOwner(r)
    \/ CountOwners(r)
    \/ Reassign(r)
    \/ \E a \in Assignment : Replace(r, a)
    \/ ReplaceFails(r)
    \/ SuspendMembership(r)
    \/ WithdrawRoles(r)

RoleNext(r) ==
    \/ \E x \in Role : DeleteRole(r, x)
    \/ CountUsersWithRole(r)
    \/ DropRole(r)

\* Requests that are past the guard for the last owner.
Changing == {r \in Request :
    request[r].step \in {"reassign", "replace", "deactivate", "suspend", "withdraw"}}

\* What the guard does not provide for: two changes at once, or an owner who
\* holds the role twice.
Excuse ==
    \/ \E q, r \in Changing : q # r
    \/ \E x, y \in ActiveOwners : x # y /\ x.user = y.user

Serve ==
    \/ \E r \in Request : InviteNext(r) \/ StaffNext(r) \/ RoleNext(r) \/ Crash(r)
    \/ \E i \in Invite : RevokeInvite(i)
    \/ \E x \in Role : CreateRole(x)

Next == Serve /\ excused' = (excused \/ Excuse')

Spec == Init /\ [][Next]_vars

-----------------------------------------------------------------------------
(***************************************************************************)
(* Properties.                                                             *)
(***************************************************************************)

\* A role somebody holds exists: neither of the two guards of a deletion is
\* enough alone, the count runs before it and the key sees it
\* (role.service.ts:128-134, onDelete: Restrict).
ActiveRolesExist == \A row \in Active : row.role \in roles

\* Nobody is or was on the staff without having accepted an invitation,
\* whatever upserts, acceptances and deactivations overlap.
StaffCameIn ==
    \A u \in User : membership[u] \in {"active", "suspended"} =>
        \/ u = Founder
        \/ \E row \in invites : row.user = u /\ row.id \in accepted

OwnerRemains == ActiveOwners # {}

\* The guard of staff.service.ts:185-194 and 216-226 does keep an owner as
\* long as the changes of roles and the deactivations come one at a time and
\* no owner holds the role twice: invitations, deletions of roles and stops
\* half-way never defeat it.
OwnerRemainsUnlessExcused == excused \/ OwnerRemains

\* "If the target is the sole owner, the operation is rejected" (staff
\* README, Last-owner protection): there always is an owner.
LastOwnerProtected == OwnerRemains

\* "no endpoint to re-activate a suspended staff member yet" (staff
\* README:119): a suspended membership stays suspended.
SuspensionLasts ==
    [][\A u \in User : membership[u] = "suspended" => membership'[u] = "suspended"]_vars

\* The role of an accepted invitation can be assigned: "role/branch IDs were
\* validated at invite creation time" (invite-accept.service.ts:106).
AcceptedInviteAssigns == [][\A r \in Request : ~AssignFails(r)]_vars
=============================================================================
