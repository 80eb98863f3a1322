----------------------------- MODULE MCAccounts -----------------------------
(* Small instances of Accounts for TLC. *)
EXTENDS Accounts, TLC

\* Ids, requests and whatever is drawn at random are interchangeable.
Symmetry ==
    Permutations(Token) \cup Permutations(Request) \cup
    Permutations(Secret) \cup Permutations(Batch)
=============================================================================
