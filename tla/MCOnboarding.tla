---------------------------- MODULE MCOnboarding ----------------------------
(* Small instances of Onboarding for TLC. *)
EXTENDS Onboarding, TLC

\* Users, tenants, ids and requests are interchangeable.
Symmetry == Permutations(User) \cup Permutations(Tenant)
                \cup Permutations(Token) \cup Permutations(Request)
=============================================================================
