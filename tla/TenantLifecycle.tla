-------------------------- MODULE TenantLifecycle --------------------------
(***************************************************************************)
(* What onboarding promises about a tenant, whatever verifications overlap *)
(* or stop half-way: its schema is completed once and for all, for the     *)
(* user who signed up, and it becomes active only after that.              *)
(***************************************************************************)

CONSTANTS
    Tenant,
    User,
    NoUser      \* "nobody"

VARIABLES
    status,     \* status[t]: "none", "provisioning", "active" or "suspended"
    founder,    \* founder[t]: the user who signed up
    ruler       \* ruler[t]: the first owner in the finished schema, or NoUser

lifecycleVars == <<status, founder, ruler>>

Init ==
    /\ status = [t \in Tenant |-> "none"]
    /\ founder = [t \in Tenant |-> NoUser]
    /\ ruler = [t \in Tenant |-> NoUser]

Found(t, u) ==
    /\ status[t] = "none"
    /\ status' = [status EXCEPT ![t] = "provisioning"]
    /\ founder' = [founder EXCEPT ![t] = u]
    /\ UNCHANGED ruler

Complete(t) ==
    /\ status[t] # "none"
    /\ ruler[t] = NoUser
    /\ ruler' = [ruler EXCEPT ![t] = founder[t]]
    /\ UNCHANGED <<status, founder>>

Open(t) ==
    /\ ruler[t] # NoUser
    /\ status' = [status EXCEPT ![t] = "active"]
    /\ UNCHANGED <<founder, ruler>>

\* A verification that finds the schema there suspends even a tenant that is
\* active.
Suspend(t) ==
    /\ status[t] # "none"
    /\ status' = [status EXCEPT ![t] = "suspended"]
    /\ UNCHANGED <<founder, ruler>>

Next ==
    \/ \E t \in Tenant, u \in User : Found(t, u)
    \/ \E t \in Tenant : Complete(t) \/ Open(t) \/ Suspend(t)

Spec == Init /\ [][Next]_lifecycleVars
=============================================================================
