-------------------------- MODULE SessionContract --------------------------
(***************************************************************************)
(* What the auth service promises about sessions, whatever the order in    *)
(* which its requests reach the database: a session only moves forward,    *)
(* and a refresh token is rotated only for a request that saw the session  *)
(* open.  The first token of a chain (login, invite acceptance, second     *)
(* factor) may be granted on any session that was ever created; only       *)
(* rotation is promised to depend on the session being open.               *)
(***************************************************************************)

CONSTANTS
    Session,    \* session ids
    Token,      \* refresh token ids
    Request,    \* requests being served
    NoSession   \* "no session"

VARIABLES
    phase,      \* phase[s]: "none", "open" or "ended"
    first,      \* first[s]: tokens granted on s that start a chain
    rotated,    \* rotated[s]: tokens granted on s in exchange for another
    admitted    \* admitted[r]: the session r was seen open for, or NoSession

contractVars == <<phase, first, rotated, admitted>>

Granted == UNION {first[s] \cup rotated[s] : s \in Session}

Init ==
    /\ phase = [s \in Session |-> "none"]
    /\ first = [s \in Session |-> {}]
    /\ rotated = [s \in Session |-> {}]
    /\ admitted = [r \in Request |-> NoSession]

Open(s) ==
    /\ phase[s] = "none"
    /\ phase' = [phase EXCEPT ![s] = "open"]
    /\ UNCHANGED <<first, rotated, admitted>>

\* One statement may end any number of sessions: they stay ended.
End(S) ==
    /\ \A s \in S : phase[s] # "none"
    /\ phase' = [s \in Session |-> IF s \in S THEN "ended" ELSE phase[s]]
    /\ UNCHANGED <<first, rotated, admitted>>

GrantFirst(s, t) ==
    /\ phase[s] # "none"
    /\ t \notin Granted
    /\ first' = [first EXCEPT ![s] = @ \cup {t}]
    /\ UNCHANGED <<phase, rotated, admitted>>

Admit(r, s) ==
    /\ admitted[r] = NoSession
    /\ phase[s] = "open"
    /\ admitted' = [admitted EXCEPT ![r] = s]
    /\ UNCHANGED <<phase, first, rotated>>

Rotate(r, t) ==
    /\ admitted[r] # NoSession
    /\ t \notin Granted
    /\ rotated' = [rotated EXCEPT ![admitted[r]] = @ \cup {t}]
    /\ admitted' = [admitted EXCEPT ![r] = NoSession]
    /\ UNCHANGED <<phase, first>>

Withdraw(r) ==
    /\ admitted[r] # NoSession
    /\ admitted' = [admitted EXCEPT ![r] = NoSession]
    /\ UNCHANGED <<phase, first, rotated>>

Next ==
    \/ \E s \in Session : Open(s)
    \/ \E S \in SUBSET Session : End(S)
    \/ \E s \in Session, t \in Token : GrantFirst(s, t)
    \/ \E r \in Request, s \in Session : Admit(r, s)
    \/ \E r \in Request, t \in Token : Rotate(r, t)
    \/ \E r \in Request : Withdraw(r)

Spec == Init /\ [][Next]_contractVars
=============================================================================
