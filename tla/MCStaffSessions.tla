-------------------------- MODULE MCStaffSessions --------------------------
(* A small instance of StaffSessions for TLC, StaffRoles included. *)
EXTENDS StaffSessions, TLC

\* Ids and requests are interchangeable; the founder and the owner role are not.
Symmetry == Permutations(Assignment) \cup Permutations(Request)

\* The owner role is given tenant-wide; LastOwner.cfg gives it at branches too.
OwnerTenantWide ==
    /\ \A row \in assignments \cup invites : row.role = Owner => row.scope = TenantWide
    /\ \A r \in Request : request[r].role = Owner => request[r].scope = TenantWide

\* Branches, custom roles and changes of role touch no membership and no session.
Plain ==
    /\ roles = {Owner} /\ deleted = {}
    /\ \A row \in assignments \cup invites : row.scope = TenantWide
    /\ \A r \in Request :
           /\ request[r].scope = TenantWide
           /\ request[r].step \notin {"ownerOfRole", "countForRole", "reassign", "replace"}

\* Sessions meet memberships where those are not involved ...
Apart == sessions # {} \/ abandoned # {} => Plain

\* ... and where they are, no login begins, and what a request has to do to the
\* sessions is done or has failed at once: the steps of StaffRoles do not
\* notice it, so all of their interleavings remain.
Eager ==
    \/ Plain
    \/ IF \E r \in Request : pending[r] # Nothing
       THEN \E r \in Request : pending[r] # Nothing /\ pending'[r] = Nothing
       ELSE ~UNCHANGED vars
=============================================================================
