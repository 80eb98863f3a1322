--------------------------------- MODULE Crm ---------------------------------
(***************************************************************************)
(* The components of crm-core that share no state but run in one process.  *)
(* What one of them does is seen by none of the others, so a behaviour     *)
(* exercises one, chosen at first, while the others stand still.           *)
(***************************************************************************)
EXTENDS LeadActivities

CONSTANTS Webhook, MaxToken, Branch, Lead, Agent, AssignAttempts,
          Mail, Task, User, MailAttempts, MaxStalls

\* Users are numbered from 1, as tokens are; a job has an attempt at least.
ASSUME CrmAssumption ==
    /\ MaxToken \in Nat
    /\ Agent \subseteq Nat \ {0}
    /\ AssignAttempts \in Nat \ {0} /\ MailAttempts \in Nat \ {0}
    /\ MaxStalls \in Nat

VARIABLES
    focus,  \* the component this behaviour exercises
    allocated, token, inactive, keys, drawn, webhookRequest, lost,
    branches, active, headOffice, branchRequest, raced, excused,
    leadQueue, enabled, eligible, step, agents, chosen, counter, owner, announced, moved,
    mailQueue, taskIds, deletedTasks, assignees, call, run, outbound, handed, late

Hooks == INSTANCE LeadWebhooks WITH request <- webhookRequest

Offices == INSTANCE Branches WITH request <- branchRequest, NoBranch <- None

Routing == INSTANCE LeadAssignment
    WITH Job <- Lead, Attempts <- AssignAttempts, queue <- leadQueue

Notices == INSTANCE TaskMail
    WITH Job <- Mail, Attempts <- MailAttempts, queue <- mailQueue,
         tasks <- taskIds, deleted <- deletedTasks

hooks == <<allocated, token, inactive, keys, drawn, webhookRequest, lost>>
offices == <<branches, active, headOffice, branchRequest, raced, excused>>
routing == <<leadQueue, enabled, eligible, step, agents, chosen, counter, owner, announced, moved>>
notices == <<mailQueue, taskIds, deletedTasks, assignees, call, run, outbound, handed, late>>
crmVars == <<vars, hooks, offices, routing, notices, focus>>

CrmInit ==
    /\ Init /\ Hooks!Init /\ Offices!Init /\ Routing!Init /\ Notices!Init
    /\ focus \in {"activities", "webhooks", "branches", "assignment", "tasks"}

CrmNext ==
    /\ UNCHANGED focus
    /\ \/ focus = "activities" /\ Next /\ UNCHANGED <<hooks, offices, routing, notices>>
       \/ focus = "webhooks" /\ Hooks!Next /\ UNCHANGED <<vars, offices, routing, notices>>
       \/ focus = "branches" /\ Offices!Next /\ UNCHANGED <<vars, hooks, routing, notices>>
       \/ focus = "assignment" /\ Routing!Next /\ UNCHANGED <<vars, hooks, offices, notices>>
       \/ focus = "tasks" /\ Notices!Next /\ UNCHANGED <<vars, hooks, offices, routing>>

CrmSpec == CrmInit /\ [][CrmNext]_crmVars

\* The process itself: all of them go on, in any order.
InterleavedNext ==
    \/ Next /\ UNCHANGED <<hooks, offices, routing, notices>>
    \/ Hooks!Next /\ UNCHANGED <<vars, offices, routing, notices>>
    \/ Offices!Next /\ UNCHANGED <<vars, hooks, routing, notices>>
    \/ Routing!Next /\ UNCHANGED <<vars, hooks, offices, notices>>
    \/ Notices!Next /\ UNCHANGED <<vars, hooks, offices, routing>>

Interleaved ==
    /\ Init /\ Hooks!Init /\ Offices!Init /\ Routing!Init /\ Notices!Init
    /\ [][InterleavedNext]_<<vars, hooks, offices, routing, notices>>

\* Every component keeps its variables in their types.
TypesOK ==
    TypeOK /\ Hooks!TypeOK /\ Offices!TypeOK /\ Routing!TypeOK /\ Notices!TypeOK

LiveTokensResolve == Hooks!LiveTokensResolve
BranchRemains == Offices!BranchRemains
AssignmentAccountedFor == Routing!AssignmentAccountedFor
MailAccountedFor == Notices!MailAccountedFor
=============================================================================
