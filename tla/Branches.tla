------------------------------ MODULE Branches ------------------------------
(***************************************************************************)
(* The branches of one tenant, and the guard against deactivating the last *)
(* of them: it looks at the head office alone, and the branch, the count   *)
(* and the update are statements of their own.                             *)
(***************************************************************************)
EXTENDS Naturals, FiniteSets

CONSTANTS
    Branch,   \* ids the Branch table may allocate
    Request,  \* deactivations served at the same time
    NoBranch

VARIABLES
    branches,    \* branches created so far
    active,      \* those with isActive set and deletedAt unset
    headOffice,  \* those with isHeadOffice set
    request,     \* request[r]: the branch r deactivates and what comes next
    raced,       \* requests another deactivation overtook since they counted (no column)
    excused      \* whether the last deactivation was unguarded or raced (no column)

vars == <<branches, active, headOffice, request, raced, excused>>

Idle == <<"idle", NoBranch>>

TypeOK ==
    /\ branches \subseteq Branch /\ active \subseteq branches /\ headOffice \subseteq branches
    /\ request \in [Request -> {Idle} \cup {"count", "deactivate", "unguarded"} \X Branch]
    /\ raced \subseteq Request
    /\ excused \in BOOLEAN

Init ==
    /\ branches = {} /\ active = {} /\ headOffice = {} /\ raced = {}
    /\ request = [r \in Request |-> Idle]
    /\ excused = FALSE

-----------------------------------------------------------------------------

CreateBranch(b, isHeadOffice) ==
    /\ b \notin branches
    /\ branches' = branches \cup {b}
    /\ active' = active \cup {b}
    /\ headOffice' = IF isHeadOffice THEN headOffice \cup {b} ELSE headOffice
    /\ UNCHANGED <<request, raced, excused>>

\* Nothing keeps the number of head offices at one, or above zero.
UpdateBranch(b, isHeadOffice) ==
    /\ b \in active
    /\ headOffice' = IF isHeadOffice THEN headOffice \cup {b} ELSE headOffice \ {b}
    /\ UNCHANGED <<branches, active, request, raced, excused>>

At(r, step) == request[r][1] = step
Go(r, progress) == request' = [request EXCEPT ![r] = progress]

DeactivateBranch(r, b) ==
    /\ At(r, "idle")
    /\ b \in active
    /\ Go(r, <<IF b \in headOffice THEN "count" ELSE "unguarded", b>>)
    /\ UNCHANGED <<branches, active, headOffice, raced, excused>>

\* Mutant: the last branch may go.
CountActiveOffByOne(r) ==
    /\ At(r, "count")
    /\ Go(r, IF Cardinality(active) < 1 THEN Idle ELSE <<"deactivate", request[r][2]>>)
    /\ raced' = raced \ {r}
    /\ UNCHANGED <<branches, active, headOffice, excused>>

CountActive(r) ==
    /\ At(r, "count")
    /\ Go(r, IF Cardinality(active) <= 1 THEN Idle ELSE <<"deactivate", request[r][2]>>)
    /\ raced' = raced \ {r}
    /\ UNCHANGED <<branches, active, headOffice, excused>>

Deactivate(r) ==
    /\ At(r, "deactivate") \/ At(r, "unguarded")
    /\ active' = active \ {request[r][2]}
    /\ excused' = (At(r, "unguarded") \/ r \in raced)
    /\ raced' = {q \in Request : At(q, "deactivate")} \ {r}
    /\ Go(r, Idle)
    /\ UNCHANGED <<branches, headOffice>>

Next ==
    \/ \E b \in Branch, isHeadOffice \in BOOLEAN :
        CreateBranch(b, isHeadOffice) \/ UpdateBranch(b, isHeadOffice)
    \/ \E r \in Request : \/ \E b \in Branch : DeactivateBranch(r, b)
                          \/ CountActive(r) \/ Deactivate(r)

Spec == Init /\ [][Next]_vars

-----------------------------------------------------------------------------

\* Once it has a branch a tenant loses its last active one in two ways only: by
\* deactivating a branch that was not the head office when it was found, for
\* which nothing is counted, or by a deactivation that counted before another
\* took effect.
BranchRemains == branches # {} /\ active = {} => excused
=============================================================================
