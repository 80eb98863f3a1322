--------------------------- MODULE LeadAssignment ---------------------------
(***************************************************************************)
(* Round-robin assignment of the leads of one branch.  Each new lead is a  *)
(* job (crm.lead.created); the worker reads the branch's configuration and *)
(* the eligible agents, draws a number, sets the owner, and announces it.  *)
(* A job that is taken again starts from the beginning.                    *)
(***************************************************************************)
EXTENDS JobQueue, FiniteSets

CONSTANTS Agent  \* user ids of the agents, positive numbers

VARIABLES
    enabled,    \* isActive, in mode ROUND_ROBIN
    eligible,   \* available agents with a membership in an eligible role
    step,       \* step[j]: the statement of the worker that comes next
    agents,     \* agents[j]: the agents it has read
    chosen,     \* chosen[j]: the agent this run drew, 0 when none
    counter,    \* the branch's counter in Redis
    owner,      \* owner[j]: ownedByUserId of the lead, 0 when none
    announced,  \* announced[j]: the agents of its crm.lead.assigned jobs
    moved       \* leads whose owner was last set by a request (no column)

worker == <<queue, step, agents, chosen>>
vars == <<worker, enabled, eligible, counter, owner, announced, moved>>

NoAgent == 0

TypeOK ==
    /\ QueueTypeOK
    /\ enabled \in BOOLEAN /\ eligible \subseteq Agent
    /\ step \in [Job -> {"config", "agents", "draw", "assign", "announce", "end"}]
    /\ agents \in [Job -> SUBSET Agent]
    /\ chosen \in [Job -> Agent \cup {NoAgent}] /\ owner \in [Job -> Agent \cup {NoAgent}]
    /\ counter \in Nat
    /\ announced \in [Job -> SUBSET Agent]
    /\ moved \subseteq Job

\* A branch without configuration is not enabled, and has no eligible role.
Init ==
    /\ QueueInit
    /\ enabled = FALSE /\ eligible = {}
    /\ step = [j \in Job |-> "config"]
    /\ agents = [j \in Job |-> {}]
    /\ chosen = [j \in Job |-> NoAgent] /\ owner = [j \in Job |-> NoAgent]
    /\ counter = 0
    /\ announced = [j \in Job |-> {}]
    /\ moved = {}

-----------------------------------------------------------------------------

At(j, stmt) == Is(j, "active") /\ step[j] = stmt
Goto(j, stmt) == step' = [step EXCEPT ![j] = stmt]

UpsertConfig ==
    /\ enabled' = ~enabled
    /\ UNCHANGED <<worker, eligible, counter, owner, announced, moved>>

\* Roles of the configuration, memberships or availability change.
ChangeEligible(a) ==
    /\ eligible' = (eligible \ {a}) \/ eligible' = eligible \cup {a}
    /\ UNCHANGED <<worker, enabled, counter, owner, announced, moved>>

LeadCreated(j) ==
    /\ Add(j)
    /\ UNCHANGED <<step, agents, chosen, enabled, eligible, counter, owner, announced, moved>>

\* PATCH /leads/:id with an owner.
UpdateLead(j, a) ==
    /\ ~Is(j, "none")
    /\ owner' = [owner EXCEPT ![j] = a]
    /\ moved' = moved \cup {j}
    /\ UNCHANGED <<worker, enabled, eligible, counter, announced>>

TakeLead(j) ==
    /\ Take(j)
    /\ Goto(j, "config")
    /\ chosen' = [chosen EXCEPT ![j] = NoAgent]
    /\ UNCHANGED <<agents, enabled, eligible, counter, owner, announced, moved>>

FindConfig(j) ==
    /\ At(j, "config")
    /\ Goto(j, IF enabled THEN "agents" ELSE "end")
    /\ UNCHANGED <<queue, agents, chosen, enabled, eligible, counter, owner, announced, moved>>

FindEligibleAgents(j) ==
    /\ At(j, "agents")
    /\ agents' = [agents EXCEPT ![j] = eligible]
    /\ Goto(j, IF eligible = {} THEN "end" ELSE "draw")
    /\ UNCHANGED <<queue, chosen, enabled, eligible, counter, owner, announced, moved>>

\* The agent at place n % size, in the order of their ids.
Place(S, n) ==
    CHOOSE a \in S : Cardinality({b \in S : b < a}) = n % Cardinality(S)

Draw(j) ==
    /\ At(j, "draw")
    /\ counter' = counter + 1
    /\ chosen' = [chosen EXCEPT ![j] = Place(agents[j], counter)]
    /\ Goto(j, "assign")
    /\ UNCHANGED <<queue, agents, enabled, eligible, owner, announced, moved>>

\* The lead is named by its id: an owner set in the meantime is overwritten.
AssignOwner(j) ==
    /\ At(j, "assign")
    /\ owner' = [owner EXCEPT ![j] = chosen[j]]
    /\ moved' = moved \ {j}
    /\ Goto(j, "announce")
    /\ UNCHANGED <<queue, agents, chosen, enabled, eligible, counter, announced>>

\* Mutant: a lead that was announced before is not announced again.
AnnounceOnce(j) ==
    /\ At(j, "announce")
    /\ announced' = [announced EXCEPT ![j] = IF @ = {} THEN {chosen[j]} ELSE @]
    /\ Goto(j, "end")
    /\ UNCHANGED <<queue, agents, chosen, enabled, eligible, counter, owner, moved>>

AnnounceAssigned(j) ==
    /\ At(j, "announce")
    /\ announced' = [announced EXCEPT ![j] = @ \cup {chosen[j]}]
    /\ Goto(j, "end")
    /\ UNCHANGED <<queue, agents, chosen, enabled, eligible, counter, owner, moved>>

CompleteLead(j) ==
    /\ At(j, "end")
    /\ Complete(j)
    /\ UNCHANGED <<step, agents, chosen, enabled, eligible, counter, owner, announced, moved>>

\* A statement fails; at worst after it took effect, as when the worker stops.
AttemptFails(j) ==
    /\ step[j] # "end"
    /\ FailAttempt(j)
    /\ UNCHANGED <<step, agents, chosen, enabled, eligible, counter, owner, announced, moved>>

WorkerStops(j) ==
    /\ Stall(j)
    /\ UNCHANGED <<step, agents, chosen, enabled, eligible, counter, owner, announced, moved>>

Next ==
    \/ UpsertConfig
    \/ \E a \in Agent : ChangeEligible(a)
    \/ \E j \in Job :
        \/ LeadCreated(j) \/ TakeLead(j) \/ FindConfig(j) \/ FindEligibleAgents(j)
        \/ Draw(j) \/ AssignOwner(j) \/ AnnounceAssigned(j) \/ CompleteLead(j)
        \/ AttemptFails(j) \/ WorkerStops(j)
        \/ \E a \in Agent : UpdateLead(j, a)

Spec == Init /\ [][Next]_vars

-----------------------------------------------------------------------------

\* When a run that drew an agent completes, the lead's owner has been announced,
\* or was set by a request since.  (A run that finds assignment switched off by
\* then completes too, and leaves the owner of an earlier one unannounced.)
OwnerAnnounced ==
    \A j \in Job : Is(j, "completed") /\ chosen[j] # NoAgent /\ j \notin moved
                        => owner[j] \in announced[j]

\* The agents told of a lead in vain are no more than the times its job was repeated.
RepeatsBounded ==
    \A j \in Job : Cardinality(announced[j]) <= Retries(j) + 1

\* Repeating a job draws another agent and may overwrite the owner a request set,
\* but whoever owns the lead in the end was told, and each agent told in vain by a
\* run that did not complete.
AssignmentAccountedFor == OwnerAnnounced /\ RepeatsBounded
=============================================================================
