------------------------------ MODULE MCLeads -------------------------------
(* Small instances of Leads for TLC. *)
EXTENDS Leads, TLC

\* Ids, e-mails and requests are interchangeable.
Symmetry == Permutations(Lead) \cup Permutations(Contact)
                \cup Permutations(Email) \cup Permutations(Request)
=============================================================================
