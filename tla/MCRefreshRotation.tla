------------------------- MODULE MCRefreshRotation -------------------------
(* Small instances of RefreshRotation for TLC. *)
EXTENDS RefreshRotation, TLC

\* Ids and requests are interchangeable; users are not (one has 2FA).
Symmetry == Permutations(Session) \cup Permutations(Token) \cup Permutations(Request)
=============================================================================
