-------------------------- MODULE StaffRolesProofs --------------------------
(***************************************************************************)
(* For any users, roles, branches, tables, sessions and requests: roles in *)
(* use exist, the staff came in by invitation, the guard for the last      *)
(* owner holds as far as OwnerRemainsUnlessExcused says, and the sessions  *)
(* of a dismissed member as far as DismissedAreOut says.                   *)
(***************************************************************************)
EXTENDS StaffSessions, FiniteSetTheorems, TLAPS

\* The steps at which a request knows the role it is about to assign.
Assigning == {"member", "invite", "accept", "assign",
              "ownerOfRole", "countForRole", "reassign", "replace"}

\* What a request remembers suits the step it is at.
Fits(p) ==
    /\ p \in Progress
    /\ p.step \notin {"idle", "count", "delete"} => p.user \in User
    /\ p.step \in Assigning => p.role \in Role
    /\ p.step = "accept" => p.invite \in Invite

RequestsFit == request \in [Request -> Progress] /\ \A r \in Request : Fits(request[r])

Typed == TypeOK /\ RequestsFit

LEMMA IdleFits == Fits(Idle) /\ Idle.step = "idle"
  BY DEF Fits, Idle, Serving, Progress, Step, Scope, Assigning

LEMMA ServingFits ==
  ASSUME NEW step \in Step, NEW u \in User \cup {NoUser}, NEW s \in Scope,
         NEW x \in Role \cup {NoRole}, NEW i \in Invite \cup {NoInvite},
         step \notin {"idle", "count", "delete"} => u \in User,
         step \in Assigning => x \in Role, step = "accept" => i \in Invite
  PROVE  Fits(Serving(step, u, s, x, i))
  BY DEF Fits, Serving, Progress

\* Only r moves, to the progress p.
LEMMA BeginMoves ==
  ASSUME request \in [Request -> Progress], NEW r \in Request, NEW p, Begin(r, p)
  PROVE  request'[r] = p /\ \A q \in Request \ {r} : request'[q] = request[q]
  BY DEF Begin

LEMMA BeginFits ==
  ASSUME RequestsFit, NEW r \in Request, NEW p, Fits(p), Begin(r, p)
  PROVE  RequestsFit'
<1>1. request' \in [Request -> Progress]
  BY DEF RequestsFit, Fits, Begin
<1>2. \A q \in Request : request'[q] = p \/ request'[q] = request[q]
  BY DEF RequestsFit, Begin
<1> QED
  BY <1>1, <1>2 DEF RequestsFit

LEMMA FinishFits ==
  ASSUME RequestsFit, NEW r \in Request, Finish(r)
  PROVE  RequestsFit'
  BY IdleFits, BeginFits DEF Finish

\* Only r moves, to the step given, and remembers what it did.
LEMMA GotoMoves ==
  ASSUME request \in [Request -> Progress], NEW r \in Request, NEW step \in Step, Goto(r, step)
  PROVE  /\ request' \in [Request -> Progress]
         /\ request'[r].step = step
         /\ request'[r].user = request[r].user
         /\ request'[r].role = request[r].role
         /\ request'[r].invite = request[r].invite
         /\ request'[r].targets = request[r].targets
         /\ \A q \in Request \ {r} : request'[q] = request[q]
  BY DEF Goto, Progress

LEMMA GotoFits ==
  ASSUME RequestsFit, NEW r \in Request, NEW step \in Step, Goto(r, step),
         step \notin {"idle", "count", "delete"} => request[r].user \in User,
         step \in Assigning => request[r].role \in Role,
         step = "accept" => request[r].invite \in Invite
  PROVE  RequestsFit'
<1>1. /\ request' \in [Request -> Progress]
      /\ request'[r].step = step
      /\ request'[r].user = request[r].user
      /\ request'[r].role = request[r].role
      /\ request'[r].invite = request[r].invite
      /\ \A q \in Request \ {r} : request'[q] = request[q]
  BY GotoMoves DEF RequestsFit
<1>2. Fits(request'[r])
  BY <1>1 DEF Fits
<1> QED
  BY <1>1, <1>2 DEF RequestsFit

LEMMA InitTyped == Init => Typed
<1> SUFFICES ASSUME Init PROVE Typed
  OBVIOUS
<1>1. RequestsFit
  BY IdleFits DEF Init, RequestsFit, Fits
<1>2. ASSUME NEW a \in Assignment
      PROVE  [id |-> a, user |-> Founder, scope |-> TenantWide, role |-> Owner] \in AssignmentRow
  BY RoleAssumption, FounderAssumption DEF AssignmentRow, Scope
<1>3. assignments \subseteq AssignmentRow
  BY <1>2 DEF Init
<1>4. membership \in [User -> MembershipStatus]
  BY DEF Init, MembershipStatus
<1>5. roles \subseteq Role /\ deleted \subseteq Role
  BY RoleAssumption DEF Init
<1>6. TypeOK
  BY <1>1, <1>3, <1>4, <1>5 DEF Init, TypeOK, RequestsFit
<1> QED
  BY <1>1, <1>6 DEF Typed

-----------------------------------------------------------------------------
(***************************************************************************)
(* Types: every step keeps the tables and the requests well typed.         *)
(***************************************************************************)

RolesTyped == roles \subseteq Role /\ deleted \subseteq Role
AssignmentsTyped == assignments \subseteq AssignmentRow /\ revoked \subseteq Assignment
CoreTyped ==
    /\ membership \in [User -> MembershipStatus]
    /\ invites \subseteq InviteRow
    /\ accepted \subseteq Invite /\ recalled \subseteq Invite

TablesTyped == RolesTyped /\ AssignmentsTyped /\ CoreTyped

LEMMA Unchanged ==
  ASSUME Typed
  PROVE  /\ UNCHANGED roleTable => RolesTyped'
         /\ UNCHANGED assignmentTable => AssignmentsTyped'
         /\ UNCHANGED coreTables => CoreTyped'
  BY DEF Typed, TypeOK, RolesTyped, AssignmentsTyped, CoreTyped,
         roleTable, assignmentTable, coreTables

LEMMA InsertTyped ==
  ASSUME Typed, NEW r \in Request, At(r, "assign") \/ At(r, "replace"), NEW a \in Assignment,
         Insert(a, request[r].user, request[r].scope, request[r].role)
  PROVE  assignments' \subseteq AssignmentRow
<1>1. /\ request[r].user \in User
      /\ request[r].scope \in Scope
      /\ request[r].role \in Role
  BY DEF Typed, RequestsFit, Fits, Assigning, At, Progress
<1> QED
  BY <1>1 DEF Typed, TypeOK, Insert, AssignmentRow

LEMMA InviteTyped ==
  ASSUME Typed, NEW r \in Request, InviteNext(r)
  PROVE  TablesTyped' /\ RequestsFit'
<1> USE DEF TablesTyped
<1>0. RequestsFit /\ request[r] \in Progress /\ Fits(request[r])
  BY DEF Typed, RequestsFit, Progress
<1>1. ASSUME NEW u \in User, NEW s \in Scope, NEW x \in Role, InviteStaff(r, u, s, x)
      PROVE  TablesTyped' /\ RequestsFit'
  <2>1. Fits(Serving("member", u, s, x, NoInvite))
    BY ServingFits DEF Step
  <2> QED
    BY <1>0, <1>1, <2>1, Unchanged, BeginFits DEF InviteStaff
<1>2. CASE CheckMember(r)
  <2>1. request[r].user \in User /\ request[r].role \in Role
    BY <1>0, <1>2 DEF CheckMember, At, Fits, Assigning
  <2>2. RequestsFit'
    BY <1>0, <1>2, <2>1, FinishFits, GotoFits DEF CheckMember, Step
  <2> QED
    BY <1>2, <2>2, Unchanged DEF CheckMember
<1>3. ASSUME NEW i \in Invite, CreateInvite(r, i)
      PROVE  TablesTyped' /\ RequestsFit'
  <2>1. /\ request[r].user \in User
        /\ request[r].scope \in Scope
        /\ request[r].role \in Role
    BY <1>0, <1>3 DEF CreateInvite, At, Fits, Assigning, Progress
  <2>2. membership' \in [User -> MembershipStatus]
    BY <1>3, <2>1 DEF CreateInvite, Typed, TypeOK, MembershipStatus
  <2>3. invites' \subseteq InviteRow
    BY <1>3, <2>1 DEF CreateInvite, Typed, TypeOK, InviteRow
  <2>4. CoreTyped'
    BY <1>3, <2>2, <2>3 DEF CreateInvite, Typed, TypeOK, CoreTyped
  <2> QED
    BY <1>0, <1>3, <2>4, Unchanged, FinishFits DEF CreateInvite
<1>4. ASSUME NEW row \in invites, FindInvite(r, row)
      PROVE  TablesTyped' /\ RequestsFit'
  <2>1. row.user \in User /\ row.scope \in Scope /\ row.role \in Role /\ row.id \in Invite
    BY <1>4 DEF Typed, TypeOK, InviteRow
  <2>2. Fits(Serving("accept", row.user, row.scope, row.role, row.id))
    BY <2>1, ServingFits DEF Step
  <2> QED
    BY <1>0, <1>4, <2>2, Unchanged, BeginFits DEF FindInvite
<1>5. CASE AcceptInvite(r)
  <2>1. request[r].user \in User /\ request[r].role \in Role /\ request[r].invite \in Invite
    BY <1>0, <1>5 DEF AcceptInvite, At, Fits, Assigning
  <2>2. RequestsFit'
    BY <1>0, <1>5, <2>1, GotoFits DEF AcceptInvite, Step
  <2>3. membership' \in [User -> MembershipStatus]
    BY <1>5, <2>1 DEF AcceptInvite, Typed, TypeOK, MembershipStatus
  <2>4. CoreTyped'
    BY <1>5, <2>1, <2>3 DEF AcceptInvite, Typed, TypeOK, CoreTyped
  <2> QED
    BY <1>5, <2>2, <2>4, Unchanged DEF AcceptInvite
<1>6. ASSUME NEW a \in Assignment, AssignInvited(r, a)
      PROVE  TablesTyped' /\ RequestsFit'
  <2>1. assignments' \subseteq AssignmentRow
    BY <1>6, InsertTyped DEF AssignInvited
  <2>2. AssignmentsTyped'
    BY <1>6, <2>1 DEF AssignInvited, Typed, TypeOK, AssignmentsTyped
  <2> QED
    BY <1>0, <1>6, <2>2, Unchanged, FinishFits DEF AssignInvited
<1>7. CASE AssignFails(r)
  BY <1>0, <1>7, Unchanged, FinishFits DEF AssignFails
<1> QED
  BY <1>1, <1>2, <1>3, <1>4, <1>5, <1>6, <1>7 DEF InviteNext

LEMMA StaffTyped ==
  ASSUME Typed, NEW r \in Request, StaffNext(r)
  PROVE  TablesTyped' /\ RequestsFit'
<1> USE DEF TablesTyped
<1>0. RequestsFit /\ request[r] \in Progress /\ Fits(request[r])
  BY DEF Typed, RequestsFit, Progress
<1>1. ASSUME NEW u \in User, NEW s \in Scope, NEW x \in Role, UpdateStaffRole(r, u, s, x)
      PROVE  TablesTyped' /\ RequestsFit'
  <2>1. Fits(Serving("ownerOfRole", u, s, x, NoInvite))
    BY ServingFits DEF Step
  <2> QED
    BY <1>0, <1>1, <2>1, Unchanged, BeginFits DEF UpdateStaffRole
<1>2. ASSUME NEW u \in User, DeactivateStaff(r, u)
      PROVE  TablesTyped' /\ RequestsFit'
  <2>1. Fits(Serving("ownerOfStaff", u, TenantWide, NoRole, NoInvite))
    BY ServingFits DEF Step, Scope, Assigning
  <2> QED
    BY <1>0, <1>2, <2>1, Unchanged, BeginFits DEF DeactivateStaff
<1>3. CASE CheckOwner(r)
  <2>1. request[r].user \in User /\ (At(r, "ownerOfRole") => request[r].role \in Role)
    BY <1>0, <1>3 DEF CheckOwner, At, Fits, Assigning
  <2>2. CASE At(r, "ownerOfRole")
    <3>1. Goto(r, "countForRole") \/ Goto(r, "reassign")
      BY <1>3, <2>2 DEF CheckOwner, At
    <3>2. RequestsFit'
      BY <1>0, <2>1, <2>2, <3>1, GotoFits DEF Step
    <3> QED
      BY <1>3, <3>2, Unchanged DEF CheckOwner
  <2>3. CASE At(r, "ownerOfStaff")
    <3>1. Goto(r, "countForStaff") \/ Goto(r, "deactivate")
      BY <1>3, <2>3 DEF CheckOwner, At
    <3>2. RequestsFit'
      BY <1>0, <2>1, <3>1, GotoFits DEF Step, Assigning
    <3> QED
      BY <1>3, <3>2, Unchanged DEF CheckOwner
  <2> QED
    BY <1>3, <2>2, <2>3 DEF CheckOwner
<1>4. CASE CountOwners(r)
  <2>1. request[r].user \in User /\ (At(r, "countForRole") => request[r].role \in Role)
    BY <1>0, <1>4 DEF CountOwners, At, Fits, Assigning
  <2>2. Finish(r) \/ (At(r, "countForRole") /\ Goto(r, "reassign")) \/ Goto(r, "deactivate")
    BY <1>4 DEF CountOwners
  <2>3. RequestsFit'
    BY <1>0, <2>1, <2>2, GotoFits, FinishFits DEF Step, Assigning
  <2> QED
    BY <1>4, <2>3, Unchanged DEF CountOwners
<1>5. CASE Reassign(r)
  <2> DEFINE held == HeldAt(request[r].user, request[r].scope)
  <2>1. held \subseteq Assignment
    BY DEF HeldAt, Active, Typed, TypeOK, AssignmentRow
  <2>2. request' = [request EXCEPT ![r].step = "replace", ![r].targets = held]
    BY <1>5 DEF Reassign
  <2>3. request[r].user \in User /\ request[r].role \in Role
    BY <1>0, <1>5 DEF Reassign, At, Fits, Assigning
  <2> HIDE DEF held
  <2>4. /\ request' \in [Request -> Progress]
        /\ request'[r].step = "replace"
        /\ request'[r].user = request[r].user
        /\ request'[r].role = request[r].role
        /\ \A q \in Request \ {r} : request'[q] = request[q]
    BY <1>0, <2>1, <2>2 DEF RequestsFit, Progress, Step
  <2>5. Fits(request'[r])
    BY <2>3, <2>4 DEF Fits
  <2>6. RequestsFit'
    BY <1>0, <2>4, <2>5 DEF RequestsFit
  <2> QED
    BY <1>5, <2>6, Unchanged DEF Reassign
<1>6. ASSUME NEW a \in Assignment, Replace(r, a)
      PROVE  TablesTyped' /\ RequestsFit'
  <2>1. assignments' \subseteq AssignmentRow
    BY <1>6, InsertTyped DEF Replace
  <2>2. revoked' \subseteq Assignment
    BY <1>0, <1>6 DEF Replace, Progress, Typed, TypeOK
  <2>3. AssignmentsTyped'
    BY <2>1, <2>2 DEF AssignmentsTyped
  <2> QED
    BY <1>0, <1>6, <2>3, Unchanged, FinishFits DEF Replace
<1>7. CASE ReplaceFails(r)
  BY <1>0, <1>7, Unchanged, FinishFits DEF ReplaceFails
<1>8. CASE SuspendMembership(r)
  <2>1. request[r].user \in User
    BY <1>0, <1>8 DEF SuspendMembership, At, Fits
  <2>2. RequestsFit'
    BY <1>0, <1>8, <2>1, GotoFits, FinishFits DEF SuspendMembership, Step, Assigning
  <2>3. membership' \in [User -> MembershipStatus]
    BY <1>8, <2>1 DEF SuspendMembership, Typed, TypeOK, MembershipStatus
  <2>4. CoreTyped'
    BY <1>8, <2>3 DEF SuspendMembership, Typed, TypeOK, CoreTyped
  <2> QED
    BY <1>8, <2>2, <2>4, Unchanged DEF SuspendMembership
<1>9. CASE WithdrawRoles(r)
  <2>1. request[r].user \in User
    BY <1>0, <1>9 DEF WithdrawRoles, At, Fits
  <2>2. RequestsFit'
    BY <1>0, <1>9, <2>1, GotoFits, FinishFits DEF WithdrawRoles, Step, Assigning
  <2>3. {row.id : row \in {x \in Active : x.user = request[r].user}} \subseteq Assignment
    BY DEF Active, Typed, TypeOK, AssignmentRow
  <2>4. AssignmentsTyped'
    BY <1>9, <2>3 DEF WithdrawRoles, Typed, TypeOK, AssignmentsTyped
  <2> QED
    BY <1>9, <2>2, <2>4, Unchanged DEF WithdrawRoles
<1> QED
  BY <1>1, <1>2, <1>3, <1>4, <1>5, <1>6, <1>7, <1>8, <1>9 DEF StaffNext

LEMMA RoleTyped ==
  ASSUME Typed, NEW r \in Request, RoleNext(r)
  PROVE  TablesTyped' /\ RequestsFit'
<1> USE DEF TablesTyped
<1>0. RequestsFit /\ request[r] \in Progress
  BY DEF Typed, RequestsFit
<1>1. ASSUME NEW x \in Role, DeleteRole(r, x)
      PROVE  TablesTyped' /\ RequestsFit'
  <2>1. Fits(Serving("count", NoUser, TenantWide, x, NoInvite))
    BY ServingFits DEF Step, Scope, Assigning
  <2> QED
    BY <1>0, <1>1, <2>1, Unchanged, BeginFits DEF DeleteRole
<1>2. CASE CountUsersWithRole(r)
  <2>1. RequestsFit'
    BY <1>0, <1>2, GotoFits, FinishFits DEF CountUsersWithRole, Step, Assigning
  <2> QED
    BY <1>2, <2>1, Unchanged DEF CountUsersWithRole
<1>3. CASE DropRole(r)
  <2>1. PICK gone \in SUBSET roles : roles' = roles \ gone /\ deleted' = deleted \cup gone
    BY <1>3 DEF DropRole
  <2>2. RolesTyped'
    BY <2>1 DEF RolesTyped, Typed, TypeOK
  <2> QED
    BY <1>0, <1>3, <2>2, Unchanged, FinishFits DEF DropRole
<1> QED
  BY <1>1, <1>2, <1>3 DEF RoleNext

LEMMA TypedPreserved == Typed /\ [Next]_vars => Typed'
<1> SUFFICES ASSUME Typed, [Next]_vars PROVE Typed'
  OBVIOUS
<1>1. CASE UNCHANGED vars
  BY <1>1 DEF vars, Typed, TypeOK, RequestsFit
<1>2. CASE Next
  <2>1. Serve /\ excused' \in BOOLEAN
    BY <1>2 DEF Next
  <2>2. TablesTyped' /\ RequestsFit'
    <3>0. RequestsFit
      BY DEF Typed
    <3>1. ASSUME NEW r \in Request, InviteNext(r) \/ StaffNext(r) \/ RoleNext(r)
          PROVE  TablesTyped' /\ RequestsFit'
      BY <3>1, InviteTyped, StaffTyped, RoleTyped
    <3>2. ASSUME NEW r \in Request, Crash(r)
          PROVE  TablesTyped' /\ RequestsFit'
      BY <3>0, <3>2, Unchanged, FinishFits DEF Crash, TablesTyped
    <3>3. ASSUME NEW i \in Invite, RevokeInvite(i)
          PROVE  TablesTyped' /\ RequestsFit'
      <4>1. CoreTyped' /\ RequestsFit'
        BY <3>0, <3>3 DEF RevokeInvite, Typed, TypeOK, CoreTyped, RequestsFit
      <4> QED
        BY <3>3, <4>1, Unchanged DEF RevokeInvite, TablesTyped
    <3>4. ASSUME NEW x \in Role, CreateRole(x)
          PROVE  TablesTyped' /\ RequestsFit'
      <4>1. RolesTyped' /\ RequestsFit'
        BY <3>0, <3>4 DEF CreateRole, Typed, TypeOK, RolesTyped, RequestsFit
      <4> QED
        BY <3>4, <4>1, Unchanged DEF CreateRole, TablesTyped
    <3> QED
      BY <2>1, <3>1, <3>2, <3>3, <3>4 DEF Serve
  <2> QED
    BY <2>1, <2>2 DEF Typed, TypeOK, TablesTyped, RolesTyped, AssignmentsTyped,
                      CoreTyped, RequestsFit
<1> QED
  BY <1>1, <1>2

\* Every table, request and status keeps its type.
THEOREM TypeCorrect == Spec => []TypeOK
<1>1. Init => Typed
  BY InitTyped
<1>2. Typed /\ [Next]_vars => Typed'
  BY TypedPreserved
<1>3. Typed => TypeOK
  BY DEF Typed
<1> QED
  BY <1>1, <1>2, <1>3, PTL DEF Spec

-----------------------------------------------------------------------------
(***************************************************************************)
(* The inductive invariant.                                                *)
(***************************************************************************)

UniqueIds == \A x, y \in assignments : x.id = y.id => x = y

\* Revoked rows included: this is what the foreign key sees.
HeldRolesExist == \A row \in assignments : row.role \in roles

Presented(p) == \E row \in invites : row.id = p.invite /\ row.user = p.user
AcceptorsPresented == \A r \in Request : At(r, "accept") => Presented(request[r])

\* What a reassignment is about to revoke belongs to its target.
OwnTargets(p) == \A id \in p.targets : \E row \in assignments : row.id = id /\ row.user = p.user
ReassignersOwn == \A r \in Request : At(r, "replace") => OwnTargets(request[r])

OtherOwner(u) == \E row \in ActiveOwners : row.user # u

\* Whoever is past the guard leaves an owner behind.
Guarded == \A r \in Changing : OtherOwner(request[r].user)
Safe == excused \/ (OwnerRemains /\ Guarded)

IInv ==
    /\ Typed
    /\ UniqueIds
    /\ HeldRolesExist
    /\ AcceptorsPresented
    /\ ReassignersOwn
    /\ StaffCameIn
    /\ Excuse => excused
    /\ Safe

LEMMA InitIInv == Init => IInv
<1> SUFFICES ASSUME Init PROVE IInv
  OBVIOUS
<1>1. Typed
  BY InitTyped
<1>2. \A r \in Request : request[r].step = "idle"
  BY IdleFits DEF Init
<1>3. Changing = {} /\ AcceptorsPresented /\ ReassignersOwn
  BY <1>2 DEF Changing, AcceptorsPresented, ReassignersOwn, At
<1>4. PICK a \in Assignment :
          assignments = {[id |-> a, user |-> Founder, scope |-> TenantWide, role |-> Owner]}
  BY DEF Init
<1>5. UniqueIds /\ HeldRolesExist
  BY <1>4, RoleAssumption DEF Init, UniqueIds, HeldRolesExist
<1>6. ActiveOwners = {[id |-> a, user |-> Founder, scope |-> TenantWide, role |-> Owner]}
  BY <1>4 DEF Init, ActiveOwners, Active
<1>7. OwnerRemains /\ Guarded /\ ~Excuse
  BY <1>3, <1>6 DEF OwnerRemains, Guarded, Excuse
<1>8. StaffCameIn
  BY DEF Init, StaffCameIn
<1> QED
  BY <1>1, <1>3, <1>5, <1>7, <1>8 DEF IInv, Safe

-----------------------------------------------------------------------------
(***************************************************************************)
(* How requests move.                                                      *)
(***************************************************************************)

Still(r) == \A q \in Request \ {r} : request'[q] = request[q]

PastTheGuard == {"reassign", "replace", "deactivate", "suspend", "withdraw"}

LEMMA IdleMoves ==
  ASSUME Typed, NEW r \in Request, Finish(r)
  PROVE  Still(r) /\ request'[r].step = "idle"
<1>1. request'[r] = Idle /\ Still(r)
  BY BeginMoves DEF Finish, Typed, TypeOK, Still
<1> QED
  BY <1>1, IdleFits

LEMMA ServingMoves ==
  ASSUME Typed, NEW r \in Request, NEW step, NEW u, NEW s, NEW x, NEW i,
         Begin(r, Serving(step, u, s, x, i))
  PROVE  /\ Still(r) /\ request'[r].step = step
         /\ request'[r].user = u /\ request'[r].invite = i
<1>1. request'[r] = Serving(step, u, s, x, i) /\ Still(r)
  BY BeginMoves DEF Typed, TypeOK, Still
<1> QED
  BY <1>1 DEF Serving

LEMMA StepMoves ==
  ASSUME Typed, NEW r \in Request, NEW step \in Step, Goto(r, step)
  PROVE  /\ Still(r) /\ request'[r].step = step
         /\ request'[r].user = request[r].user
         /\ request'[r].targets = request[r].targets
  BY GotoMoves DEF Typed, TypeOK, Still

LEMMA InviteMoves ==
  ASSUME Typed, NEW r \in Request, InviteNext(r)
  PROVE  /\ Still(r)
         /\ request'[r].step \notin PastTheGuard
         /\ request'[r].step = "accept" => Presented(request'[r])
<1> DEFINE Goal == /\ Still(r)
                   /\ request'[r].step \notin PastTheGuard
                   /\ request'[r].step = "accept" => Presented(request'[r])
<1> USE DEF PastTheGuard
<1>1. ASSUME NEW u \in User, NEW s \in Scope, NEW x \in Role, InviteStaff(r, u, s, x)
      PROVE  Goal
  BY <1>1, ServingMoves DEF InviteStaff
<1>2. ASSUME CheckMember(r) PROVE Goal
  <2>1. Finish(r) \/ Goto(r, "invite")
    BY <1>2 DEF CheckMember
  <2>2. "invite" \in Step
    BY DEF Step
  <2> QED
    BY <2>1, <2>2, IdleMoves, StepMoves
<1>3. ASSUME NEW i \in Invite, CreateInvite(r, i) PROVE Goal
  BY <1>3, IdleMoves DEF CreateInvite
<1>4. ASSUME NEW row \in invites, FindInvite(r, row) PROVE Goal
  <2>1. /\ Still(r) /\ request'[r].step = "accept"
        /\ request'[r].user = row.user /\ request'[r].invite = row.id
    BY <1>4, ServingMoves DEF FindInvite
  <2> QED
    BY <2>1 DEF Presented
<1>5. ASSUME AcceptInvite(r) PROVE Goal
  <2>1. Goto(r, "assign") /\ "assign" \in Step
    BY <1>5 DEF AcceptInvite, Step
  <2> QED
    BY <2>1, StepMoves
<1>6. ASSUME NEW a \in Assignment, AssignInvited(r, a) PROVE Goal
  BY <1>6, IdleMoves DEF AssignInvited
<1>7. ASSUME AssignFails(r) PROVE Goal
  BY <1>7, IdleMoves DEF AssignFails
<1> QED
  BY <1>1, <1>2, <1>3, <1>4, <1>5, <1>6, <1>7 DEF InviteNext

LEMMA RoleMoves ==
  ASSUME Typed, NEW r \in Request, RoleNext(r)
  PROVE  Still(r) /\ request'[r].step \notin PastTheGuard \cup {"accept"}
<1> USE DEF PastTheGuard
<1>1. ASSUME NEW x \in Role, DeleteRole(r, x)
      PROVE  Still(r) /\ request'[r].step \notin PastTheGuard \cup {"accept"}
  BY <1>1, ServingMoves DEF DeleteRole
<1>2. CASE CountUsersWithRole(r)
  <2>1. (Finish(r) \/ Goto(r, "delete")) /\ "delete" \in Step
    BY <1>2 DEF CountUsersWithRole, Step
  <2> QED
    BY <2>1, IdleMoves, StepMoves
<1>3. CASE DropRole(r)
  BY <1>3, IdleMoves DEF DropRole
<1> QED
  BY <1>1, <1>2, <1>3 DEF RoleNext

\* More than one owner, each with one assignment: whoever goes, one stays.
LEMMA AnotherOwner ==
  ASSUME ~(Cardinality(ActiveOwners) <= 1), ~Excuse, NEW u
  PROVE  OtherOwner(u)
<1>1. ActiveOwners # {}
  BY FS_EmptySet
<1>2. PICK x \in ActiveOwners : TRUE
  BY <1>1
<1>3. ActiveOwners # {x}
  BY FS_Singleton
<1>4. PICK y \in ActiveOwners : y # x
  BY <1>2, <1>3
<1>5. x.user # y.user
  BY <1>4 DEF Excuse
<1> QED
  BY <1>5 DEF OtherOwner

LEMMA StaffMoves ==
  ASSUME Typed, Safe, Excuse => excused, NEW r \in Request, StaffNext(r)
  PROVE  /\ Still(r)
         /\ request'[r].step # "accept"
         /\ request'[r].step = "replace" => OwnTargets(request'[r])
         /\ request'[r].step \in PastTheGuard =>
                /\ request'[r].user = request[r].user
                /\ excused \/ OtherOwner(request[r].user)
<1> DEFINE Goal == /\ Still(r)
                   /\ request'[r].step # "accept"
                   /\ request'[r].step = "replace" => OwnTargets(request'[r])
                   /\ request'[r].step \in PastTheGuard =>
                          /\ request'[r].user = request[r].user
                          /\ excused \/ OtherOwner(request[r].user)
<1> USE DEF PastTheGuard
<1>0. request[r].step \in PastTheGuard => excused \/ OtherOwner(request[r].user)
  BY DEF Safe, Guarded, Changing
<1>1. ASSUME NEW u \in User, NEW s \in Scope, NEW x \in Role, UpdateStaffRole(r, u, s, x)
      PROVE  Goal
  BY <1>1, ServingMoves DEF UpdateStaffRole
<1>2. ASSUME NEW u \in User, DeactivateStaff(r, u) PROVE Goal
  BY <1>2, ServingMoves DEF DeactivateStaff
<1>3. ASSUME CheckOwner(r) PROVE Goal
  <2>1. PICK step \in {"countForRole", "reassign", "countForStaff", "deactivate"} :
            /\ Goto(r, step)
            /\ step \in {"reassign", "deactivate"} => ~IsOwner(request[r].user)
    BY <1>3 DEF CheckOwner
  <2>2. ~IsOwner(request[r].user) => excused \/ OtherOwner(request[r].user)
    BY DEF IsOwner, Safe, OwnerRemains, OtherOwner
  <2>3. step \in Step
    BY <2>1 DEF Step
  <2> QED
    BY <2>1, <2>2, <2>3, StepMoves
<1>4. ASSUME CountOwners(r) PROVE Goal
  <2>1. CASE Cardinality(ActiveOwners) <= 1
    BY <1>4, <2>1, IdleMoves DEF CountOwners
  <2>2. CASE ~(Cardinality(ActiveOwners) <= 1)
    <3>1. PICK step \in {"reassign", "deactivate"} : Goto(r, step)
      BY <1>4, <2>2 DEF CountOwners
    <3>2. excused \/ OtherOwner(request[r].user)
      BY <2>2, AnotherOwner
    <3>3. step \in Step
      BY <3>1 DEF Step
    <3> QED
      BY <3>1, <3>2, <3>3, StepMoves
  <2> QED
    BY <2>1, <2>2
<1>5. ASSUME Reassign(r) PROVE Goal
  <2> DEFINE held == HeldAt(request[r].user, request[r].scope)
  <2>1. \A id \in held : \E row \in assignments : row.id = id /\ row.user = request[r].user
    BY DEF HeldAt, Active
  <2>2. request' = [request EXCEPT ![r].step = "replace", ![r].targets = held]
    BY <1>5 DEF Reassign
  <2> HIDE DEF held
  <2>3. /\ request'[r].step = "replace" /\ request'[r].targets = held
        /\ request'[r].user = request[r].user /\ Still(r)
    BY <2>2 DEF Typed, TypeOK, Progress, Still
  <2>4. OwnTargets(request'[r])
    BY <2>1, <2>3 DEF OwnTargets
  <2>5. request[r].step \in PastTheGuard
    BY <1>5 DEF Reassign, At
  <2> QED
    BY <1>0, <2>3, <2>4, <2>5
<1>6. ASSUME NEW a \in Assignment, Replace(r, a) PROVE Goal
  BY <1>6, IdleMoves DEF Replace
<1>7. ASSUME ReplaceFails(r) PROVE Goal
  BY <1>7, IdleMoves DEF ReplaceFails
<1>8. ASSUME SuspendMembership(r) \/ WithdrawRoles(r) PROVE Goal
  <2>1. /\ Finish(r) \/ Goto(r, "withdraw") \/ Goto(r, "suspend")
        /\ request[r].step \in PastTheGuard
    BY <1>8 DEF SuspendMembership, WithdrawRoles, At
  <2>2. "withdraw" \in Step /\ "suspend" \in Step
    BY DEF Step
  <2> QED
    BY <1>0, <2>1, <2>2, IdleMoves, StepMoves
<1> QED
  BY <1>1, <1>2, <1>3, <1>4, <1>5, <1>6, <1>7, <1>8 DEF StaffNext

-----------------------------------------------------------------------------
(***************************************************************************)
(* How the tables change.                                                  *)
(***************************************************************************)

\* Assignments are never deleted, and a new one gets a new id and a role
\* that exists; a role in an assignment is never deleted.
LEMMA AssignmentSteps ==
  ASSUME Typed, UniqueIds, HeldRolesExist, Serve
  PROVE  UniqueIds' /\ HeldRolesExist' /\ assignments \subseteq assignments'
<1> DEFINE Goal == UniqueIds' /\ HeldRolesExist' /\ assignments \subseteq assignments'
<1>1. ASSUME UNCHANGED <<roles, assignments>> PROVE Goal
  BY <1>1 DEF UniqueIds, HeldRolesExist
<1>2. ASSUME NEW a, NEW u, NEW s, NEW x, x \in roles, Insert(a, u, s, x), UNCHANGED roles
      PROVE  Goal
  <2>1. PICK new : /\ new = [id |-> a, user |-> u, scope |-> s, role |-> x]
                   /\ assignments' = assignments \cup {new}
    BY <1>2 DEF Insert
  <2>2. \A row \in assignments : row.id # a
    BY <1>2 DEF Insert, AssignmentIds
  <2>3. new.id = a /\ new.role = x
    BY <2>1
  <2> QED
    BY <1>2, <2>1, <2>2, <2>3 DEF UniqueIds, HeldRolesExist
<1>3. ASSUME NEW r \in Request, InviteNext(r) PROVE Goal
  <2>1. ASSUME NEW a \in Assignment, AssignInvited(r, a) PROVE Goal
    BY <1>2, <2>1 DEF AssignInvited, Insertable, roleTable
  <2>2. (\A a \in Assignment : ~AssignInvited(r, a)) => UNCHANGED <<roles, assignments>>
    BY <1>3 DEF InviteNext, InviteStaff, CheckMember, CreateInvite, FindInvite, AcceptInvite,
                AssignFails, roleTable, assignmentTable
  <2> QED
    BY <1>1, <2>1, <2>2
<1>4. ASSUME NEW r \in Request, StaffNext(r) PROVE Goal
  <2>1. ASSUME NEW a \in Assignment, Replace(r, a) PROVE Goal
    BY <1>2, <2>1 DEF Replace, Insertable, roleTable
  <2>2. (\A a \in Assignment : ~Replace(r, a)) => UNCHANGED <<roles, assignments>>
    BY <1>4 DEF StaffNext, UpdateStaffRole, DeactivateStaff, CheckOwner, CountOwners, Reassign,
                ReplaceFails, SuspendMembership, WithdrawRoles, roleTable, assignmentTable
  <2> QED
    BY <1>1, <2>1, <2>2
<1>5. ASSUME NEW r \in Request, RoleNext(r) PROVE Goal
  <2>1. ASSUME DropRole(r) PROVE Goal
    <3>1. PICK x : x = request[r].role
      OBVIOUS
    <3>2. /\ assignments' = assignments
          /\ (\E row \in assignments : row.role = x) => roles' = roles
          /\ roles' = roles \/ roles' = roles \ (roles \cap {x})
      BY <2>1, <3>1 DEF DropRole, assignmentTable
    <3> QED
      BY <3>2 DEF UniqueIds, HeldRolesExist
  <2>2. ~DropRole(r) => UNCHANGED <<roles, assignments>>
    BY <1>5 DEF RoleNext, DeleteRole, CountUsersWithRole, roleTable, assignmentTable
  <2> QED
    BY <1>1, <2>1, <2>2
<1>6. ASSUME NEW x \in Role, CreateRole(x) PROVE Goal
  BY <1>6 DEF CreateRole, assignmentTable, UniqueIds, HeldRolesExist
<1>7. ASSUME NEW r \in Request, Crash(r) PROVE Goal
  BY <1>1, <1>7 DEF Crash, roleTable, assignmentTable
<1>8. ASSUME NEW i \in Invite, RevokeInvite(i) PROVE Goal
  BY <1>1, <1>8 DEF RevokeInvite, roleTable, assignmentTable
<1> QED
  BY <1>3, <1>4, <1>5, <1>6, <1>7, <1>8 DEF Serve

\* Invitations stay, and so does their acceptance; who joins the staff has
\* just had an invitation accepted.
LEMMA CoreSteps ==
  ASSUME Typed, Serve
  PROVE  /\ invites \subseteq invites' /\ accepted \subseteq accepted'
         /\ \A u \in User : membership'[u] \in {"active", "suspended"} =>
                \/ membership[u] \in {"active", "suspended"}
                \/ \E r \in Request : /\ At(r, "accept")
                                      /\ request[r].user = u
                                      /\ request[r].invite \in accepted'
<1> DEFINE Goal ==
      /\ invites \subseteq invites' /\ accepted \subseteq accepted'
      /\ \A u \in User : membership'[u] \in {"active", "suspended"} =>
            \/ membership[u] \in {"active", "suspended"}
            \/ \E r \in Request : /\ At(r, "accept")
                                  /\ request[r].user = u
                                  /\ request[r].invite \in accepted'
<1>0. membership \in [User -> MembershipStatus]
  BY DEF Typed, TypeOK
<1>1. ASSUME UNCHANGED coreTables PROVE Goal
  BY <1>1 DEF coreTables
<1>2. ASSUME NEW r \in Request, InviteNext(r) PROVE Goal
  <2>1. ASSUME NEW i \in Invite, CreateInvite(r, i) PROVE Goal
    BY <1>0, <2>1 DEF CreateInvite
  <2>2. ASSUME AcceptInvite(r) PROVE Goal
    <3>1. \A u \in User : u = request[r].user \/ membership'[u] = membership[u]
      BY <1>0, <2>2 DEF AcceptInvite
    <3> QED
      BY <2>2, <3>1 DEF AcceptInvite
  <2>3. (~AcceptInvite(r) /\ \A i \in Invite : ~CreateInvite(r, i)) => UNCHANGED coreTables
    BY <1>2 DEF InviteNext, InviteStaff, CheckMember, FindInvite, AssignInvited, AssignFails
  <2> QED
    BY <1>1, <2>1, <2>2, <2>3
<1>3. ASSUME NEW r \in Request, StaffNext(r) PROVE Goal
  <2>1. ASSUME SuspendMembership(r) PROVE Goal
    BY <1>0, <2>1 DEF SuspendMembership
  <2>2. ~SuspendMembership(r) => UNCHANGED coreTables
    BY <1>3 DEF StaffNext, UpdateStaffRole, DeactivateStaff, CheckOwner, CountOwners, Reassign,
                Replace, ReplaceFails, WithdrawRoles
  <2> QED
    BY <1>1, <2>1, <2>2
<1>4. ASSUME NEW r \in Request, RoleNext(r) PROVE Goal
  BY <1>1, <1>4 DEF RoleNext, DeleteRole, CountUsersWithRole, DropRole
<1>5. ASSUME NEW x \in Role, CreateRole(x) PROVE Goal
  BY <1>1, <1>5 DEF CreateRole
<1>6. ASSUME NEW r \in Request, Crash(r) PROVE Goal
  BY <1>1, <1>6 DEF Crash
<1>7. ASSUME NEW i \in Invite, RevokeInvite(i) PROVE Goal
  BY <1>7 DEF RevokeInvite
<1> QED
  BY <1>2, <1>3, <1>4, <1>5, <1>6, <1>7 DEF Serve

\* A request past the guard may take the owner role from its target only.
LEMMA OwnerSteps ==
  ASSUME UniqueIds, ReassignersOwn, NEW r \in Request,
         InviteNext(r) \/ StaffNext(r) \/ RoleNext(r) \/ Crash(r)
  PROVE  \/ ActiveOwners \subseteq ActiveOwners'
         \/ /\ r \in Changing
            /\ \A row \in ActiveOwners : row.user # request[r].user => row \in ActiveOwners'
<1> DEFINE Kept == ActiveOwners \subseteq ActiveOwners'
           Goal == \/ Kept
                   \/ /\ r \in Changing
                      /\ \A row \in ActiveOwners :
                            row.user # request[r].user => row \in ActiveOwners'
<1>1. ASSUME assignments \subseteq assignments', revoked' = revoked PROVE Kept
  BY <1>1 DEF ActiveOwners, Active
<1> HIDE DEF Kept
<1>2. ASSUME InviteNext(r) PROVE Kept
  BY <1>1, <1>2 DEF InviteNext, InviteStaff, CheckMember, CreateInvite, FindInvite, AcceptInvite,
                    AssignInvited, AssignFails, Insert, assignmentTable
<1>3. ASSUME RoleNext(r) \/ Crash(r) PROVE Kept
  BY <1>1, <1>3 DEF RoleNext, DeleteRole, CountUsersWithRole, DropRole, Crash, assignmentTable
<1>4. ASSUME StaffNext(r) PROVE Goal
  <2>1. ASSUME NEW a \in Assignment, Replace(r, a) PROVE Goal
    <3>1. PICK T, u : T = request[r].targets /\ u = request[r].user
      OBVIOUS
    <3>2. \A id \in T : \E row \in assignments : row.id = id /\ row.user = u
      BY <2>1, <3>1 DEF Replace, ReassignersOwn, OwnTargets
    <3>3. assignments \subseteq assignments' /\ revoked' = revoked \cup T
      BY <2>1, <3>1 DEF Replace, Insert
    <3>4. \A row \in ActiveOwners : row.user # u => row \in ActiveOwners'
      BY <3>2, <3>3 DEF ActiveOwners, Active, UniqueIds
    <3>5. r \in Changing
      BY <2>1 DEF Replace, Changing, At
    <3> QED
      BY <3>1, <3>4, <3>5
  <2>2. ASSUME WithdrawRoles(r) PROVE Goal
    <3>1. PICK u : u = request[r].user
      OBVIOUS
    <3>2. /\ assignments' = assignments
          /\ revoked' = revoked \cup {row.id : row \in {x \in Active : x.user = u}}
      BY <2>2, <3>1 DEF WithdrawRoles
    <3>3. \A row \in ActiveOwners : row.user # u => row \in ActiveOwners'
      BY <3>2 DEF ActiveOwners, Active, UniqueIds
    <3>4. r \in Changing
      BY <2>2 DEF WithdrawRoles, Changing, At
    <3> QED
      BY <3>1, <3>3, <3>4
  <2>3. (~WithdrawRoles(r) /\ \A a \in Assignment : ~Replace(r, a)) => Kept
    BY <1>1, <1>4 DEF StaffNext, UpdateStaffRole, DeactivateStaff, CheckOwner, CountOwners,
                      Reassign, ReplaceFails, SuspendMembership, assignmentTable
  <2> QED
    BY <2>1, <2>2, <2>3
<1> QED
  BY <1>2, <1>3, <1>4 DEF Kept

-----------------------------------------------------------------------------
(***************************************************************************)
(* Every step keeps the invariant.                                         *)
(***************************************************************************)

\* What a moving request needs for the invariant to stay.
LEMMA Moves ==
  ASSUME Typed, Safe, Excuse => excused, NEW r \in Request,
         InviteNext(r) \/ StaffNext(r) \/ RoleNext(r) \/ Crash(r)
  PROVE  /\ Still(r)
         /\ request'[r].step = "accept" => Presented(request'[r])
         /\ request'[r].step = "replace" => OwnTargets(request'[r])
         /\ request'[r].step \in PastTheGuard =>
                /\ request'[r].user = request[r].user
                /\ excused \/ OtherOwner(request[r].user)
<1>1. CASE InviteNext(r)
  BY <1>1, InviteMoves DEF PastTheGuard
<1>2. CASE StaffNext(r)
  BY <1>2, StaffMoves
<1>3. CASE RoleNext(r)
  BY <1>3, RoleMoves DEF PastTheGuard
<1>4. CASE Crash(r)
  BY <1>4, IdleMoves DEF Crash, PastTheGuard
<1> QED
  BY <1>1, <1>2, <1>3, <1>4

LEMMA PresentedSteps ==
  ASSUME IInv, Serve
  PROVE  AcceptorsPresented' /\ ReassignersOwn'
<1>1. assignments \subseteq assignments' /\ invites \subseteq invites'
  BY AssignmentSteps, CoreSteps DEF IInv
<1>2. ASSUME NEW q \in Request
      PROVE  \/ request'[q] = request[q]
             \/ /\ request'[q].step = "accept" => Presented(request'[q])
                /\ request'[q].step = "replace" => OwnTargets(request'[q])
  <2>1. CASE UNCHANGED request
    BY <2>1
  <2>2. ASSUME NEW r \in Request, InviteNext(r) \/ StaffNext(r) \/ RoleNext(r) \/ Crash(r)
        PROVE  \/ request'[q] = request[q]
               \/ /\ request'[q].step = "accept" => Presented(request'[q])
                  /\ request'[q].step = "replace" => OwnTargets(request'[q])
    <3>1. /\ Still(r)
          /\ request'[r].step = "accept" => Presented(request'[r])
          /\ request'[r].step = "replace" => OwnTargets(request'[r])
      BY <2>2, Moves DEF IInv
    <3>2. CASE q = r
      BY <3>1, <3>2
    <3>3. CASE q # r
      BY <3>1, <3>3 DEF Still
    <3> QED
      BY <3>2, <3>3
  <2>3. UNCHANGED request
            \/ \E r \in Request : InviteNext(r) \/ StaffNext(r) \/ RoleNext(r) \/ Crash(r)
    BY DEF Serve, RevokeInvite, CreateRole
  <2> QED
    BY <2>1, <2>2, <2>3
<1>3. ASSUME NEW q \in Request, request'[q].step = "accept"
      PROVE  \E row \in invites' : row.id = request'[q].invite /\ row.user = request'[q].user
  <2>1. Presented(request'[q])
    BY <1>2, <1>3 DEF IInv, AcceptorsPresented, At
  <2> QED
    BY <1>1, <2>1 DEF Presented
<1>4. ASSUME NEW q \in Request, request'[q].step = "replace"
      PROVE  \A id \in request'[q].targets :
                \E row \in assignments' : row.id = id /\ row.user = request'[q].user
  <2>1. OwnTargets(request'[q])
    BY <1>2, <1>4 DEF IInv, ReassignersOwn, At
  <2> QED
    BY <1>1, <2>1 DEF OwnTargets
<1> QED
  BY <1>3, <1>4 DEF AcceptorsPresented, Presented, ReassignersOwn, OwnTargets, At

LEMMA StaffCameInSteps ==
  ASSUME IInv, Serve
  PROVE  StaffCameIn'
<1>1. /\ invites \subseteq invites' /\ accepted \subseteq accepted'
      /\ \A u \in User : membership'[u] \in {"active", "suspended"} =>
            \/ membership[u] \in {"active", "suspended"}
            \/ \E r \in Request : /\ At(r, "accept")
                                  /\ request[r].user = u
                                  /\ request[r].invite \in accepted'
  BY CoreSteps DEF IInv
<1>2. ASSUME NEW u \in User, membership'[u] \in {"active", "suspended"}
      PROVE  u = Founder \/ \E row \in invites' : row.user = u /\ row.id \in accepted'
  <2>1. CASE membership[u] \in {"active", "suspended"}
    BY <1>1, <2>1 DEF IInv, StaffCameIn
  <2>2. ASSUME NEW r \in Request, At(r, "accept"), request[r].user = u,
               request[r].invite \in accepted'
        PROVE  \E row \in invites' : row.user = u /\ row.id \in accepted'
    <3>1. PICK row \in invites : row.id = request[r].invite /\ row.user = request[r].user
      BY <2>2 DEF IInv, AcceptorsPresented, Presented
    <3> QED
      BY <1>1, <2>2, <3>1
  <2> QED
    BY <1>1, <1>2, <2>1, <2>2
<1> QED
  BY <1>2 DEF StaffCameIn

LEMMA SafeSteps ==
  ASSUME IInv, Serve, excused' = (excused \/ Excuse')
  PROVE  Safe'
<1> SUFFICES ASSUME ~excused' PROVE OwnerRemains' /\ Guarded'
  BY DEF Safe
<1>1. ~excused /\ ~Excuse
  BY DEF IInv
<1>2. OwnerRemains /\ Guarded
  BY <1>1 DEF IInv, Safe
<1>3. \/ UNCHANGED <<assignments, revoked, request>>
      \/ \E r \in Request : InviteNext(r) \/ StaffNext(r) \/ RoleNext(r) \/ Crash(r)
  BY DEF Serve, RevokeInvite, CreateRole, assignmentTable
<1>4. CASE UNCHANGED <<assignments, revoked, request>>
  BY <1>2, <1>4 DEF OwnerRemains, Guarded, OtherOwner, ActiveOwners, Active, Changing
<1>5. ASSUME NEW r \in Request, InviteNext(r) \/ StaffNext(r) \/ RoleNext(r) \/ Crash(r)
      PROVE  OwnerRemains' /\ Guarded'
  <2>1. /\ Still(r)
        /\ request'[r].step \in PastTheGuard =>
               request'[r].user = request[r].user /\ OtherOwner(request[r].user)
    BY <1>1, <1>5, Moves DEF IInv
  <2>2. \/ ActiveOwners \subseteq ActiveOwners'
        \/ /\ r \in Changing
           /\ \A row \in ActiveOwners : row.user # request[r].user => row \in ActiveOwners'
    BY <1>5, OwnerSteps DEF IInv
  <2>3. ASSUME NEW q \in Request, request'[q].step \in PastTheGuard
        PROVE  \E row \in ActiveOwners' : row.user # request'[q].user
    <3>1. CASE q = r
      <4>1. PICK u : u = request[r].user
        OBVIOUS
      <4>2. request'[q].user = u /\ OtherOwner(u)
        BY <2>1, <2>3, <3>1, <4>1
      <4> QED
        BY <2>2, <4>1, <4>2 DEF OtherOwner
    <3>2. CASE q # r
      <4>1. request'[q] = request[q] /\ q \in Changing
        BY <2>1, <2>3, <3>2 DEF Still, Changing, PastTheGuard
      <4>2. r \notin Changing
        BY <1>1, <3>2, <4>1 DEF Excuse
      <4>3. PICK row \in ActiveOwners : row.user # request[q].user
        BY <1>2, <4>1 DEF Guarded, OtherOwner
      <4> QED
        BY <2>2, <4>1, <4>2, <4>3
    <3> QED
      BY <3>1, <3>2
  <2>4. Guarded'
    BY <2>3 DEF Guarded, OtherOwner, Changing, PastTheGuard
  <2>5. OwnerRemains'
    <3>1. CASE ActiveOwners \subseteq ActiveOwners'
      BY <1>2, <3>1 DEF OwnerRemains
    <3>2. CASE /\ r \in Changing
               /\ \A row \in ActiveOwners : row.user # request[r].user => row \in ActiveOwners'
      <4>1. PICK row \in ActiveOwners : row.user # request[r].user
        BY <1>2, <3>2 DEF Guarded, OtherOwner
      <4> QED
        BY <3>2, <4>1 DEF OwnerRemains
    <3> QED
      BY <2>2, <3>1, <3>2
  <2> QED
    BY <2>4, <2>5
<1> QED
  BY <1>3, <1>4, <1>5

LEMMA IInvPreserved == IInv /\ [Next]_vars => IInv'
<1> SUFFICES ASSUME IInv, [Next]_vars PROVE IInv'
  OBVIOUS
<1>1. CASE UNCHANGED vars
  <2>1. Typed'
    BY TypedPreserved DEF IInv
  <2>2. UniqueIds' /\ HeldRolesExist' /\ StaffCameIn'
    BY <1>1 DEF vars, IInv, UniqueIds, HeldRolesExist, StaffCameIn
  <2>3. AcceptorsPresented' /\ ReassignersOwn'
    BY <1>1 DEF vars, IInv, AcceptorsPresented, Presented, ReassignersOwn, OwnTargets, At
  <2>4. (Excuse => excused)' /\ Safe'
    BY <1>1 DEF vars, IInv, Excuse, Safe, OwnerRemains, Guarded, OtherOwner, ActiveOwners,
                Active, Changing
  <2> QED
    BY <2>1, <2>2, <2>3, <2>4 DEF IInv
<1>2. CASE Next
  <2>1. Serve /\ excused' = (excused \/ Excuse')
    BY <1>2 DEF Next
  <2>2. Typed'
    BY TypedPreserved DEF IInv
  <2>3. UniqueIds' /\ HeldRolesExist'
    BY <2>1, AssignmentSteps DEF IInv
  <2>4. AcceptorsPresented' /\ ReassignersOwn'
    BY <2>1, PresentedSteps
  <2>5. StaffCameIn'
    BY <2>1, StaffCameInSteps
  <2>6. (Excuse => excused)'
    BY <2>1
  <2>7. Safe'
    BY <2>1, SafeSteps
  <2> QED
    BY <2>2, <2>3, <2>4, <2>5, <2>6, <2>7 DEF IInv
<1> QED
  BY <1>1, <1>2

LEMMA Invariant == Spec => []IInv
  BY InitIInv, IInvPreserved, PTL DEF Spec

\* A role somebody holds exists, although the count before a deletion is
\* stale by the time of the deletion (role.service.ts:128-134): the foreign
\* key sees every row.
THEOREM ActiveRolesExistAlways == Spec => []ActiveRolesExist
<1>1. IInv => ActiveRolesExist
  BY DEF IInv, HeldRolesExist, ActiveRolesExist, Active
<1> QED
  BY <1>1, Invariant, PTL

\* Nobody is or was on the staff without an accepted invitation.
THEOREM StaffCameInAlways == Spec => []StaffCameIn
<1>1. IInv => StaffCameIn
  BY DEF IInv
<1> QED
  BY <1>1, Invariant, PTL

\* An owner remains as long as the changes past the guard of the last owner
\* come one at a time and no owner holds the role twice.
THEOREM OwnerRemainsUnlessExcusedAlways == Spec => []OwnerRemainsUnlessExcused
<1>1. IInv => OwnerRemainsUnlessExcused
  BY DEF IInv, Safe, OwnerRemainsUnlessExcused
<1> QED
  BY <1>1, Invariant, PTL

-----------------------------------------------------------------------------
(***************************************************************************)
(* Staff and sessions together: what is proved of StaffRoles holds, and    *)
(* nobody stays logged in but as DismissedAreOut says.                     *)
(***************************************************************************)

\* Every behaviour of both is one of StaffRoles, so what is proved above holds
\* with logins and sessions in between.
LEMMA ServiceRefinesStaff == ServiceSpec => Spec
<1>1. ServiceInit => Init
  BY DEF ServiceInit
<1>2. [ServiceNext]_serviceVars => [Next]_vars
  BY DEF ServiceNext, serviceVars, StaffStep, ReadMembership, OpenSession, EndSessions,
         SessionStatementFails, SessionEnds
<1> QED
  BY <1>1, <1>2, PTL DEF ServiceSpec, Spec

TodoSet == {Nothing} \cup {Opening(u) : u \in User} \cup {Ending(u) : u \in User}

LEMMA Todos ==
  ASSUME NEW u, NEW v
  PROVE  /\ Opening(u) # Nothing /\ Ending(u) # Nothing /\ Opening(u) # Ending(v)
         /\ Ending(u) = Ending(v) => u = v
         /\ Opening(u) = Opening(v) => u = v
<1>1. /\ Opening(u).doing = "open" /\ Opening(u).user = u /\ Opening(v).user = v
      /\ Ending(u).doing = "end" /\ Ending(u).user = u /\ Ending(v).user = v
      /\ Ending(v).doing = "end" /\ Nothing.doing = "nothing"
  BY DEF Opening, Ending, Nothing, Todo
<1> QED
  BY <1>1

Dismissing == {"deactivate", "suspend", "withdraw"}

\* While a session is still to do, the request is at its end or past the
\* guard of the deactivation that sends the update.
PendingFits(r) ==
    /\ \A u \in User : pending[r] = Opening(u) => At(r, "idle")
    /\ \A u \in User : pending[r] = Ending(u) =>
           At(r, "idle") \/ (request[r].step \in Dismissing /\ request[r].user = u)

\* A deactivation that has ended the sessions but not yet suspended the
\* member counts as a dismissal already.
EarlyAreOut == \A u \in User : EndedTooEarly(u) # {} => LoggedOut(u)

ServiceInv ==
    /\ Typed
    /\ SessionsTyped
    /\ \A r \in Request : PendingFits(r)
    /\ DismissedAreOut
    /\ EarlyAreOut

LEMMA InitService == ServiceInit => ServiceInv
<1> SUFFICES ASSUME ServiceInit PROVE ServiceInv
  OBVIOUS
<1>1. Typed
  BY InitTyped DEF ServiceInit
<1>2. SessionsTyped
  BY DEF ServiceInit, SessionsTyped
<1>3. \A r \in Request : At(r, "idle")
  BY IdleFits DEF ServiceInit, Init, At
<1>4. (\A r \in Request : PendingFits(r)) /\ EarlyAreOut
  BY <1>3 DEF PendingFits, EarlyAreOut, EndedTooEarly, At
<1>5. DismissedAreOut
  BY DEF ServiceInit, Init, DismissedAreOut
<1> QED
  BY <1>1, <1>2, <1>4, <1>5 DEF ServiceInv

\* How a request goes through a deactivation.
LEMMA DismissalMoves ==
  ASSUME Typed, NEW r \in Request,
         InviteNext(r) \/ StaffNext(r) \/ RoleNext(r) \/ Crash(r)
  PROVE  /\ Still(r)
         /\ request'[r].step = "deactivate" => ~At(r, "deactivate")
         /\ request'[r].step \in {"suspend", "withdraw"} => At(r, "deactivate")
         /\ request'[r].step \in Dismissing => request'[r].user = request[r].user
         /\ request[r].step \in Dismissing => request'[r].step \in {"suspend", "withdraw", "idle"}
<1> DEFINE Goal == /\ Still(r)
                   /\ request'[r].step = "deactivate" => ~At(r, "deactivate")
                   /\ request'[r].step \in {"suspend", "withdraw"} => At(r, "deactivate")
                   /\ request'[r].step \in Dismissing => request'[r].user = request[r].user
                   /\ request[r].step \in Dismissing =>
                          request'[r].step \in {"suspend", "withdraw", "idle"}
<1> USE DEF Dismissing
<1>1. ASSUME InviteNext(r) PROVE Goal
  <2>1. request[r].step \notin Dismissing
    BY <1>1 DEF InviteNext, InviteStaff, CheckMember, CreateInvite, FindInvite, AcceptInvite,
                AssignInvited, AssignFails, At
  <2>2. Still(r) /\ request'[r].step \notin PastTheGuard
    BY <1>1, InviteMoves
  <2> QED
    BY <2>1, <2>2 DEF PastTheGuard
<1>2. ASSUME RoleNext(r) PROVE Goal
  <2>1. request[r].step \notin Dismissing
    BY <1>2 DEF RoleNext, DeleteRole, CountUsersWithRole, DropRole, At
  <2>2. Still(r) /\ request'[r].step \notin PastTheGuard
    BY <1>2, RoleMoves
  <2> QED
    BY <2>1, <2>2 DEF PastTheGuard
<1>3. ASSUME Finish(r) PROVE Goal
  BY <1>3, IdleMoves
<1>4. ASSUME NEW u \in User, NEW s \in Scope, NEW x \in Role, UpdateStaffRole(r, u, s, x)
      PROVE  Goal
  BY <1>4, ServingMoves DEF UpdateStaffRole, At
<1>5. ASSUME NEW u \in User, DeactivateStaff(r, u) PROVE Goal
  BY <1>5, ServingMoves DEF DeactivateStaff, At
<1>6. ASSUME CheckOwner(r) \/ (CountOwners(r) /\ ~Finish(r)) PROVE Goal
  <2>1. PICK step \in {"countForRole", "reassign", "countForStaff", "deactivate"} : Goto(r, step)
    BY <1>6 DEF CheckOwner, CountOwners
  <2>2. step \in Step
    BY DEF Step
  <2>3. request[r].step \notin Dismissing
    BY <1>6 DEF CheckOwner, CountOwners, At
  <2> QED
    BY <2>1, <2>2, <2>3, StepMoves DEF At
<1>7. ASSUME Reassign(r) PROVE Goal
  <2> DEFINE held == HeldAt(request[r].user, request[r].scope)
  <2>1. request' = [request EXCEPT ![r].step = "replace", ![r].targets = held]
    BY <1>7 DEF Reassign
  <2> HIDE DEF held
  <2>2. request'[r].step = "replace" /\ Still(r) /\ At(r, "reassign")
    BY <1>7, <2>1 DEF Reassign, Typed, TypeOK, Progress, Still
  <2> QED
    BY <2>2 DEF At
<1>8. ASSUME SuspendMembership(r) \/ WithdrawRoles(r) PROVE Goal
  <2>1. Finish(r) \/ (At(r, "deactivate") /\ (Goto(r, "withdraw") \/ Goto(r, "suspend")))
    BY <1>8 DEF SuspendMembership, WithdrawRoles
  <2>2. "withdraw" \in Step /\ "suspend" \in Step
    BY DEF Step
  <2> QED
    BY <1>3, <2>1, <2>2, StepMoves DEF At
<1>9. ASSUME StaffNext(r) PROVE Goal
  <2>1. (\E a \in Assignment : Replace(r, a)) \/ ReplaceFails(r) => Finish(r)
    BY DEF Replace, ReplaceFails
  <2> QED
    BY <1>3, <1>4, <1>5, <1>6, <1>7, <1>8, <1>9, <2>1 DEF StaffNext
<1> QED
  BY <1>1, <1>2, <1>3, <1>9 DEF Crash

\* Whoever is suspended was, or is the target of a deactivation.
LEMMA WhoIsSuspended ==
  ASSUME Typed, Serve, NEW u \in User, membership'[u] = "suspended", membership[u] # "suspended"
  PROVE  \E r \in Request : /\ At(r, "deactivate") \/ At(r, "suspend")
                            /\ request[r].user = u
<1> DEFINE Goal == \E r \in Request : /\ At(r, "deactivate") \/ At(r, "suspend")
                                      /\ request[r].user = u
<1>0. membership \in [User -> MembershipStatus]
  BY DEF Typed, TypeOK
<1>1. ASSUME NEW r \in Request, InviteNext(r) PROVE FALSE
  <2>1. ASSUME NEW i \in Invite, CreateInvite(r, i) PROVE FALSE
    BY <1>0, <2>1 DEF CreateInvite
  <2>2. ASSUME AcceptInvite(r) PROVE FALSE
    BY <1>0, <2>2 DEF AcceptInvite
  <2>3. (~AcceptInvite(r) /\ \A i \in Invite : ~CreateInvite(r, i)) => UNCHANGED coreTables
    BY <1>1 DEF InviteNext, InviteStaff, CheckMember, FindInvite, AssignInvited, AssignFails
  <2> QED
    BY <2>1, <2>2, <2>3 DEF coreTables
<1>2. ASSUME NEW r \in Request, StaffNext(r) PROVE Goal
  <2>1. SuspendMembership(r) \/ UNCHANGED coreTables
    BY <1>2 DEF StaffNext, UpdateStaffRole, DeactivateStaff, CheckOwner, CountOwners, Reassign,
                Replace, ReplaceFails, WithdrawRoles
  <2>2. SuspendMembership(r)
    BY <2>1 DEF coreTables
  <2>3. u = request[r].user
    BY <1>0, <2>2 DEF SuspendMembership
  <2> QED
    BY <2>2, <2>3 DEF SuspendMembership
<1>3. \/ \E r \in Request : InviteNext(r) \/ StaffNext(r)
      \/ UNCHANGED membership
  BY DEF Serve, RoleNext, DeleteRole, CountUsersWithRole, DropRole, Crash, RevokeInvite,
         CreateRole, coreTables
<1> QED
  BY <1>1, <1>2, <1>3

\* In one step of the staff every request takes at most what it may to its
\* sessions, and gives up no update it owes.
LEMMA TodoMoves ==
  ASSUME ServiceInv, StaffStep, NEW r \in Request
  PROVE  /\ pending'[r] \in TodoSet
         /\ PendingFits(r)'
         /\ \A u \in User : pending[r] = Ending(u) => pending'[r] = Ending(u)
         /\ \A u \in User : r \in EndedTooEarly(u)' => r \in EndedTooEarly(u)
<1> DEFINE Goal == /\ pending'[r] \in TodoSet
                   /\ PendingFits(r)'
                   /\ \A u \in User : pending[r] = Ending(u) => pending'[r] = Ending(u)
                   /\ \A u \in User : r \in EndedTooEarly(u)' => r \in EndedTooEarly(u)
<1>0. /\ Typed /\ PendingFits(r) /\ Fits(request[r]) /\ pending[r] \in TodoSet
      /\ pending'[r] = TodoAfter(r)
  BY DEF ServiceInv, SessionsTyped, TodoSet, Typed, RequestsFit, StaffStep
<1>1. ASSUME NEW a \in Assignment, AssignInvited(r, a)
      PROVE  At(r, "assign") /\ request[r].user \in User /\ request'[r].step = "idle"
  <2>1. At(r, "assign") /\ request'[r].step = "idle"
    BY <1>0, <1>1, IdleMoves DEF AssignInvited
  <2> QED
    BY <1>0, <2>1 DEF Fits, At
<1>2. CASE request'[r] = request[r]
  <2>1. pending'[r] = pending[r]
    BY <1>0, <1>1, <1>2 DEF TodoAfter, At
  <2> QED
    BY <1>0, <1>2, <2>1 DEF PendingFits, EndedTooEarly, At
<1>3. CASE request'[r] # request[r]
  <2>1. \A u \in User : pending[r] # Opening(u)
    BY <1>0, <1>3, Todos DEF StaffStep, PendingFits
  <2>2. InviteNext(r) \/ StaffNext(r) \/ RoleNext(r) \/ Crash(r)
    <3>1. ASSUME NEW q \in Request, q # r,
                 InviteNext(q) \/ StaffNext(q) \/ RoleNext(q) \/ Crash(q)
          PROVE  request'[r] = request[r]
      BY <1>0, <3>1, DismissalMoves DEF Still
    <3> QED
      BY <1>3, <3>1 DEF StaffStep, Next, Serve, RevokeInvite, CreateRole
  <2>3. /\ request'[r].step = "deactivate" => ~At(r, "deactivate")
        /\ request'[r].step \in {"suspend", "withdraw"} => At(r, "deactivate")
        /\ request'[r].step \in Dismissing => request'[r].user = request[r].user
        /\ request[r].step \in Dismissing => request'[r].step \in {"suspend", "withdraw", "idle"}
    BY <1>0, <2>2, DismissalMoves
  <2>4. ASSUME NEW v \in User, pending[r] = Ending(v) PROVE Goal
    <3>1. request[r].step \in Dismissing /\ request[r].user = v
      BY <1>0, <1>3, <2>4, Todos DEF StaffStep, PendingFits
    <3>2. pending'[r] = Ending(v)
      BY <1>0, <1>1, <2>3, <2>4, <3>1 DEF TodoAfter, At, Dismissing
    <3>3. PendingFits(r)'
      BY <2>3, <3>1, <3>2, Todos DEF PendingFits, At, Dismissing
    <3> QED
      BY <2>4, <3>2, <3>3, Todos DEF EndedTooEarly, TodoSet
  <2>5. CASE pending[r] = Nothing
    <3>1. ASSUME NEW a \in Assignment, AssignInvited(r, a) PROVE Goal
      <4>1. PICK u \in User : pending'[r] = Opening(u)
        BY <1>0, <1>1, <3>1 DEF TodoAfter
      <4>2. request'[r].step = "idle"
        BY <1>1, <3>1
      <4> QED
        BY <2>5, <4>1, <4>2, Todos DEF PendingFits, EndedTooEarly, TodoSet, At
    <3>2. ASSUME \A a \in Assignment : ~AssignInvited(r, a), request'[r].step = "deactivate"
          PROVE  Goal
      <4>1. pending'[r] = Ending(request[r].user) /\ request'[r].user = request[r].user
        BY <1>0, <2>3, <3>2 DEF TodoAfter, At, Dismissing
      <4>2. request'[r].user \in User
        <5>1. Fits(request'[r])
          BY TypedPreserved, <1>0 DEF StaffStep, Typed, RequestsFit
        <5> QED
          BY <3>2, <5>1 DEF Fits
      <4> QED
        BY <2>5, <3>2, <4>1, <4>2, Todos DEF PendingFits, EndedTooEarly, TodoSet, At, Dismissing
    <3>3. ASSUME \A a \in Assignment : ~AssignInvited(r, a), request'[r].step # "deactivate"
          PROVE  Goal
      <4>1. pending'[r] = Nothing
        BY <1>0, <2>5, <3>3 DEF TodoAfter, At
      <4> QED
        BY <2>3, <2>5, <3>3, <4>1, Todos DEF PendingFits, EndedTooEarly, TodoSet, At, Dismissing
    <3> QED
      BY <3>1, <3>2, <3>3
  <2> QED
    BY <1>0, <2>1, <2>4, <2>5 DEF TodoSet
<1> QED
  BY <1>2, <1>3

LEMMA StaffStepInv ==
  ASSUME ServiceInv, StaffStep
  PROVE  ServiceInv'
<1>1. Typed' /\ Serve
  BY TypedPreserved DEF ServiceInv, StaffStep, Next
<1>2. ASSUME NEW r \in Request
      PROVE  /\ pending'[r] \in TodoSet
             /\ PendingFits(r)'
             /\ \A u \in User : pending[r] = Ending(u) => pending'[r] = Ending(u)
             /\ \A u \in User : r \in EndedTooEarly(u)' => r \in EndedTooEarly(u)
  BY TodoMoves
<1>3. SessionsTyped'
  BY <1>2 DEF ServiceInv, SessionsTyped, StaffStep, TodoSet
<1>4. ASSUME NEW u \in User, LoggedOut(u) PROVE LoggedOut(u)'
  BY <1>2, <1>4 DEF LoggedOut, OpenSessionsOf, SessionsOf, StaffStep
<1>5. EarlyAreOut'
  <2>1. ASSUME NEW u \in User, EndedTooEarly(u)' # {} PROVE EndedTooEarly(u) # {}
    <3>1. PICK r \in Request : r \in EndedTooEarly(u)'
      BY <2>1 DEF EndedTooEarly
    <3> QED
      BY <1>2, <3>1
  <2> QED
    BY <1>4, <2>1 DEF ServiceInv, EarlyAreOut
<1>6. DismissedAreOut'
  <2>1. ASSUME NEW u \in User, membership'[u] = "suspended", membership[u] # "suspended"
        PROVE  LoggedOut(u)
    <3>1. PICK r \in Request : (At(r, "deactivate") \/ At(r, "suspend")) /\ request[r].user = u
      BY <1>1, <2>1, WhoIsSuspended DEF ServiceInv
    <3>2. CASE pending[r] = Nothing
      BY <3>1, <3>2 DEF ServiceInv, EarlyAreOut, EndedTooEarly
    <3>3. CASE pending[r] # Nothing
      <4>1. PICK v \in User : pending[r] = Opening(v) \/ pending[r] = Ending(v)
        BY <3>3 DEF ServiceInv, SessionsTyped
      <4>2. pending[r] = Ending(v) /\ request[r].user = v
        BY <3>1, <4>1 DEF ServiceInv, PendingFits, At
      <4> QED
        BY <3>1, <4>2 DEF LoggedOut
    <3> QED
      BY <3>2, <3>3
  <2> QED
    BY <1>4, <2>1 DEF ServiceInv, DismissedAreOut
<1> QED
  BY <1>1, <1>2, <1>3, <1>5, <1>6 DEF ServiceInv

\* The steps of the sessions leave the staff alone.
LEMMA StaffAside ==
  ASSUME ServiceInv, UNCHANGED vars
  PROVE  /\ Typed'
         /\ \A r \in Request : pending'[r] = pending[r] => PendingFits(r)'
         /\ \A r \in Request, u \in User :
                pending'[r] = pending[r] => (r \in EndedTooEarly(u)' <=> r \in EndedTooEarly(u))
<1>1. Typed'
  BY TypedPreserved DEF ServiceInv
<1> QED
  BY <1>1 DEF vars, ServiceInv, PendingFits, EndedTooEarly, At

LEMMA AwaitMoves ==
  ASSUME SessionsTyped, NEW r \in Request, NEW todo, Await(r, todo)
  PROVE  /\ pending'[r] = todo
         /\ \A q \in Request : q # r => pending'[q] = pending[q]
         /\ todo \in TodoSet => pending' \in [Request -> TodoSet]
  BY DEF SessionsTyped, Await, TodoSet

LEMMA ReadMembershipInv ==
  ASSUME ServiceInv, NEW r \in Request, NEW u \in User, ReadMembership(r, u)
  PROVE  ServiceInv'
<1>1. /\ UNCHANGED vars /\ SessionsTyped /\ Await(r, Opening(u)) /\ pending[r] = Nothing
      /\ Opening(u) \in TodoSet /\ At(r, "idle")'
  BY DEF ReadMembership, ServiceInv, TodoSet, vars, At
<1>2. /\ pending'[r] = Opening(u)
      /\ \A q \in Request : q # r => pending'[q] = pending[q]
      /\ pending' \in [Request -> TodoSet]
  BY <1>1, AwaitMoves
<1>3. /\ Typed'
      /\ \A q \in Request : q # r => PendingFits(q)'
      /\ \A v \in User : EndedTooEarly(v)' \subseteq EndedTooEarly(v)
  <2>1. \A v \in User : r \notin EndedTooEarly(v)'
    BY <1>2, Todos DEF EndedTooEarly
  <2>2. \A v \in User : EndedTooEarly(v)' \subseteq Request
    BY DEF EndedTooEarly
  <2> QED
    BY <1>1, <1>2, <2>1, <2>2, StaffAside
<1>4. PendingFits(r)'
  BY <1>1, <1>2, Todos DEF PendingFits
<1>5. SessionsTyped'
  BY <1>2 DEF ReadMembership, ServiceInv, SessionsTyped, TodoSet
<1>6. ASSUME NEW v \in User, LoggedOut(v) PROVE LoggedOut(v)'
  <2>1. \A q \in Request : pending[q] = Ending(v) => pending'[q] = Ending(v)
    BY <1>1, <1>2, Todos
  <2> QED
    BY <1>6, <2>1 DEF LoggedOut, OpenSessionsOf, SessionsOf, ReadMembership
<1>7. DismissedAreOut' /\ EarlyAreOut'
  BY <1>1, <1>3, <1>6 DEF ServiceInv, DismissedAreOut, EarlyAreOut, vars
<1> QED
  BY <1>3, <1>4, <1>5, <1>7 DEF ServiceInv

\* A session opened late is noted; one opened in time is of an active member
\* nobody is about to suspend behind its back.
LEMMA OpenSessionInv ==
  ASSUME ServiceInv, NEW r \in Request, NEW s \in Session, OpenSession(r, s)
  PROVE  ServiceInv'
<1>1. /\ UNCHANGED vars /\ SessionsTyped /\ Await(r, Nothing) /\ Nothing \in TodoSet
      /\ ended' = ended /\ abandoned' = abandoned
  BY DEF OpenSession, ServiceInv, TodoSet
<1>2. /\ pending'[r] = Nothing
      /\ \A q \in Request : q # r => pending'[q] = pending[q]
      /\ pending' \in [Request -> TodoSet]
  BY <1>1, AwaitMoves
<1>3. PICK u \in User :
         /\ pending[r] = Opening(u)
         /\ sessions' = sessions \cup {[id |-> s, user |-> u]}
         /\ overtaken' = IF membership[u] # "active" \/ EndedTooEarly(u) # {}
                         THEN overtaken \cup {s} ELSE overtaken
  BY DEF OpenSession
<1>4. At(r, "idle") /\ At(r, "idle")'
  BY <1>1, <1>3 DEF ServiceInv, PendingFits, vars, At
<1>5. /\ Typed'
      /\ \A q \in Request : PendingFits(q)'
      /\ \A v \in User : EndedTooEarly(v)' \subseteq EndedTooEarly(v)
  <2>1. PendingFits(r)' /\ \A v \in User : r \notin EndedTooEarly(v)'
    BY <1>2, <1>4, Todos DEF PendingFits, EndedTooEarly, At
  <2>2. \A v \in User : EndedTooEarly(v)' \subseteq Request
    BY DEF EndedTooEarly
  <2> QED
    BY <1>1, <1>2, <2>1, <2>2, StaffAside
<1>6. SessionsTyped'
  <2>1. [id |-> s, user |-> u] \in SessionRow
    BY DEF SessionRow
  <2> QED
    BY <1>1, <1>2, <1>3, <2>1 DEF SessionsTyped, TodoSet
<1>7. \A v \in User, q \in Request : pending[q] = Ending(v) => pending'[q] = Ending(v)
  BY <1>2, <1>3, Todos
<1>8. ASSUME NEW v \in User, LoggedOut(v), v # u PROVE LoggedOut(v)'
  <2>1. OpenSessionsOf(v)' = OpenSessionsOf(v) /\ overtaken \subseteq overtaken'
    BY <1>1, <1>3, <1>8 DEF OpenSessionsOf, SessionsOf
  <2> QED
    BY <1>1, <1>7, <1>8, <2>1 DEF LoggedOut
<1>9. ASSUME LoggedOut(u), membership[u] # "active" \/ EndedTooEarly(u) # {}
      PROVE  LoggedOut(u)'
  <2>1. OpenSessionsOf(u)' \subseteq OpenSessionsOf(u) \cup {s}
    BY <1>1, <1>3 DEF OpenSessionsOf, SessionsOf
  <2>2. overtaken' = overtaken \cup {s}
    BY <1>3, <1>9
  <2> QED
    BY <1>1, <1>7, <1>9, <2>1, <2>2 DEF LoggedOut
<1>10. DismissedAreOut'
  <2>1. ASSUME NEW v \in User, membership'[v] = "suspended" PROVE LoggedOut(v)'
    <3>1. membership[v] = "suspended" /\ LoggedOut(v)
      BY <1>1, <2>1 DEF vars, ServiceInv, DismissedAreOut
    <3> QED
      BY <1>8, <1>9, <3>1
  <2> QED
    BY <2>1 DEF DismissedAreOut
<1>11. EarlyAreOut'
  <2>1. ASSUME NEW v \in User, EndedTooEarly(v)' # {} PROVE LoggedOut(v)'
    <3>1. EndedTooEarly(v) # {} /\ LoggedOut(v)
      BY <1>5, <2>1 DEF ServiceInv, EarlyAreOut
    <3> QED
      BY <1>8, <1>9, <3>1
  <2> QED
    BY <2>1 DEF EarlyAreOut
<1> QED
  BY <1>5, <1>6, <1>10, <1>11 DEF ServiceInv

\* A request that has nothing left to do to the sessions of u, because they
\* are ended or u has been left logged in.
LEMMA LastStatement ==
  ASSUME ServiceInv, NEW r \in Request, UNCHANGED <<vars, sessions, overtaken>>,
         Await(r, Nothing), pending[r] # Nothing,
         ended' \subseteq Session, ended \subseteq ended', abandoned' \subseteq User,
         \A u \in User : pending[r] = Ending(u) => LoggedOut(u)',
         \A u \in User : pending[r] # Ending(u) /\ u \in abandoned => u \in abandoned'
  PROVE  ServiceInv'
<1>1. UNCHANGED vars /\ SessionsTyped /\ Nothing \in TodoSet
  BY DEF ServiceInv, TodoSet
<1>2. /\ pending'[r] = Nothing
      /\ \A q \in Request : q # r => pending'[q] = pending[q]
      /\ pending' \in [Request -> TodoSet]
  BY <1>1, AwaitMoves
<1>3. Typed' /\ \A q \in Request : PendingFits(q)'
  <2>1. PendingFits(r)'
    BY <1>2, Todos DEF PendingFits
  <2> QED
    BY <1>1, <1>2, <2>1, StaffAside
<1>4. SessionsTyped'
  BY <1>1, <1>2 DEF SessionsTyped, TodoSet
<1>5. ASSUME NEW u \in User, LoggedOut(u) PROVE LoggedOut(u)'
  <2>1. CASE pending[r] = Ending(u)
    BY <2>1
  <2>2. CASE pending[r] # Ending(u)
    <3>1. \A q \in Request : pending[q] = Ending(u) => pending'[q] = Ending(u)
      BY <1>2, <2>2
    <3>2. OpenSessionsOf(u)' \subseteq OpenSessionsOf(u)
      BY DEF OpenSessionsOf, SessionsOf
    <3> QED
      BY <1>5, <2>2, <3>1, <3>2 DEF LoggedOut
  <2> QED
    BY <2>1, <2>2
<1>6. DismissedAreOut'
  BY <1>1, <1>5 DEF vars, ServiceInv, DismissedAreOut
<1>7. ASSUME NEW u \in User, EndedTooEarly(u)' # {} PROVE LoggedOut(u)'
  <2>1. CASE pending[r] = Ending(u)
    BY <2>1
  <2>2. CASE pending[r] # Ending(u)
    <3>1. PICK q \in Request : q \in EndedTooEarly(u)'
      BY <1>7 DEF EndedTooEarly
    <3>2. q # r
      BY <1>1, <2>2, <3>1 DEF ServiceInv, SessionsTyped, PendingFits, EndedTooEarly, vars, At
    <3>3. q \in EndedTooEarly(u)
      BY <1>1, <1>2, <3>1, <3>2, StaffAside
    <3> QED
      BY <1>5, <3>3 DEF ServiceInv, EarlyAreOut
  <2> QED
    BY <2>1, <2>2
<1>8. EarlyAreOut'
  BY <1>7 DEF EarlyAreOut
<1> QED
  BY <1>3, <1>4, <1>6, <1>8 DEF ServiceInv

LEMMA EndSessionsInv ==
  ASSUME ServiceInv, NEW r \in Request, EndSessions(r)
  PROVE  ServiceInv'
<1>1. PICK u \in User : /\ pending[r] = Ending(u)
                        /\ ended' = ended \cup SessionsOf(u)
                        /\ abandoned' = abandoned \ {u}
  BY DEF EndSessions
<1>2. UNCHANGED <<vars, sessions, overtaken>> /\ Await(r, Nothing) /\ pending[r] # Nothing
  BY <1>1, Todos DEF EndSessions
<1>3. SessionsOf(u) \subseteq Session
  BY DEF ServiceInv, SessionsTyped, SessionsOf, SessionRow
<1>4. ended' \subseteq Session /\ ended \subseteq ended' /\ abandoned' \subseteq User
  BY <1>1, <1>3 DEF ServiceInv, SessionsTyped
<1>5. ASSUME NEW v \in User, pending[r] = Ending(v) PROVE LoggedOut(v)'
  <2>1. v = u
    BY <1>1, <1>5, Todos
  <2>2. OpenSessionsOf(u)' = {}
    BY <1>1, <1>2 DEF OpenSessionsOf, SessionsOf
  <2> QED
    BY <2>1, <2>2 DEF LoggedOut
<1>6. \A v \in User : pending[r] # Ending(v) /\ v \in abandoned => v \in abandoned'
  BY <1>1
<1> QED
  BY <1>2, <1>4, <1>5, <1>6, LastStatement

LEMMA SessionStatementFailsInv ==
  ASSUME ServiceInv, NEW r \in Request, SessionStatementFails(r)
  PROVE  ServiceInv'
<1>1. UNCHANGED <<vars, sessions, overtaken>> /\ Await(r, Nothing) /\ pending[r] # Nothing
  BY DEF SessionStatementFails
<1>2. ended' \subseteq Session /\ ended \subseteq ended' /\ abandoned' \subseteq User
  BY DEF SessionStatementFails, ServiceInv, SessionsTyped
<1>3. \A u \in User : pending[r] = Ending(u) => LoggedOut(u)'
  BY DEF SessionStatementFails, LoggedOut
<1>4. abandoned \subseteq abandoned'
  BY DEF SessionStatementFails
<1> QED
  BY <1>1, <1>2, <1>3, <1>4, LastStatement

LEMMA SessionEndsInv ==
  ASSUME ServiceInv, NEW s \in Session, SessionEnds(s)
  PROVE  ServiceInv'
<1>1. UNCHANGED <<vars, sessions, pending, overtaken, abandoned>> /\ ended' = ended \cup {s}
  BY DEF SessionEnds
<1>2. /\ Typed' /\ \A r \in Request : PendingFits(r)'
      /\ \A u \in User : EndedTooEarly(u)' = EndedTooEarly(u)
  BY <1>1, StaffAside DEF vars, EndedTooEarly, At
<1>3. SessionsTyped'
  BY <1>1 DEF ServiceInv, SessionsTyped
<1>4. ASSUME NEW u \in User, LoggedOut(u) PROVE LoggedOut(u)'
  BY <1>1, <1>4 DEF LoggedOut, OpenSessionsOf, SessionsOf
<1> QED
  BY <1>1, <1>2, <1>3, <1>4 DEF vars, ServiceInv, DismissedAreOut, EarlyAreOut

LEMMA ServiceInvPreserved == ServiceInv /\ [ServiceNext]_serviceVars => ServiceInv'
<1> SUFFICES ASSUME ServiceInv, [ServiceNext]_serviceVars PROVE ServiceInv'
  OBVIOUS
<1>1. CASE UNCHANGED serviceVars
  <2>1. UNCHANGED vars /\ UNCHANGED <<sessions, ended, pending, overtaken, abandoned>>
    BY <1>1 DEF serviceVars, sessionVars
  <2>2. Typed' /\ \A r \in Request : PendingFits(r)'
    BY <2>1, StaffAside
  <2> QED
    BY <2>1, <2>2 DEF vars, ServiceInv, SessionsTyped, DismissedAreOut, EarlyAreOut, LoggedOut,
                      OpenSessionsOf, SessionsOf, EndedTooEarly, At
<1>2. CASE ServiceNext
  BY <1>2, StaffStepInv, ReadMembershipInv, OpenSessionInv, EndSessionsInv,
     SessionStatementFailsInv, SessionEndsInv DEF ServiceNext
<1> QED
  BY <1>1, <1>2

LEMMA ServiceInvariant == ServiceSpec => []ServiceInv
  BY InitService, ServiceInvPreserved, PTL DEF ServiceSpec

\* The tables of both services, the sessions, and what every request has yet
\* to do to them keep their types.
THEOREM ServiceTypeCorrect == ServiceSpec => []ServiceTypeOK
<1>1. ServiceInv => ServiceTypeOK
  BY DEF ServiceInv, ServiceTypeOK, Typed
<1> QED
  BY <1>1, ServiceInvariant, PTL

\* Roles in use exist, the staff came in by invitation and an owner remains as
\* OwnerRemainsUnlessExcused says, with logins and sessions in between.
THEOREM StaffHoldsWithSessions ==
  ServiceSpec => [](ActiveRolesExist /\ StaffCameIn /\ OwnerRemainsUnlessExcused)
  BY ServiceRefinesStaff, ActiveRolesExistAlways, StaffCameInAlways,
     OwnerRemainsUnlessExcusedAlways, PTL

\* A suspended member keeps no session but one opened too late to be seen by
\* the deactivation, or when its update of the sessions has failed or is
\* still on its way (staff.repository.ts:374-393).
THEOREM DismissedAreOutAlways == ServiceSpec => []DismissedAreOut
<1>1. ServiceInv => DismissedAreOut
  BY DEF ServiceInv
<1> QED
  BY <1>1, ServiceInvariant, PTL
=============================================================================
