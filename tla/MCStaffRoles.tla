---------------------------- MODULE MCStaffRoles ----------------------------
(* Small instances of StaffRoles for TLC. *)
EXTENDS StaffRoles, TLC

\* Ids and requests are interchangeable; the founder and the owner role are not.
Symmetry == Permutations(Assignment) \cup Permutations(Invite) \cup Permutations(Request)
=============================================================================
