--------------------------- MODULE LeadActivities ---------------------------
(***************************************************************************)
(* The activities logged on one lead, and the three columns of the lead    *)
(* that summarise them: lastActivityAt, touchpointCount, nextFollowUpAt.   *)
(*                                                                         *)
(* No handler uses a transaction: the row, the count and each read and     *)
(* write of a recalculation are steps of their own, and what the code runs *)
(* under one Promise.all runs here in any order.                           *)
(***************************************************************************)
EXTENDS Integers, FiniteSets

CONSTANTS
    Activity,  \* ids the LeadActivity table may allocate
    Due,       \* instants a TASK may be due
    Request,   \* requests served at the same time
    None,
    MaxServed  \* requests in all

ASSUME NullAssumption == None \notin Activity /\ None \notin Due

ASSUME DueAssumption == Due \subseteq Nat

ASSUME MaxServedAssumption == MaxServed \in Nat

ASSUME FiniteAssumption == IsFiniteSet(Activity) /\ IsFiniteSet(Request)

VARIABLES
    logged,          \* ids of the rows there are
    deleted,         \* those whose deletedAt is set
    stamp,           \* stamp[a]: createdAt, as the number of the insertion
    tasks,           \* rows of type TASK
    due,             \* due[a]: dueAt of a TASK that is PENDING or IN_PROGRESS
    lastActivityAt,  \* the activity whose instant the column holds
    touchpointCount,
    nextFollowUpAt,
    request,         \* request[r]: what r still has to do and remembers
    unsure,          \* columns a race or a stop may have left wrong (no column)
    served           \* requests begun (bounds the model)

table == <<logged, deleted, stamp, tasks, due>>
columns == <<lastActivityAt, touchpointCount, nextFollowUpAt>>
vars == <<table, columns, request, unsure, served>>

Column == {"touchpoints", "last", "followUp"}
Statement == {"row", "count", "readLast", "writeLast", "readFollowUp", "writeFollowUp"}

Progress ==
    [kind : {"idle", "create", "update", "delete"},
     activity : Activity \cup {None},
     todo : SUBSET Statement,      \* statements that may run next
     owes : SUBSET Column,         \* columns its changes have put out of step
     outdated : SUBSET Column,     \* columns whose rows changed since it looked
     last : Activity \cup {None},  \* what a recalculation has read
     followUp : Due \cup {None}]

Serving(kind, a, todo) ==
    [kind |-> kind, activity |-> a, todo |-> todo, owes |-> {}, outdated |-> {},
     last |-> None, followUp |-> None]

Idle == Serving("idle", None, {})

TypeOK ==
    /\ logged \subseteq Activity
    /\ deleted \subseteq logged /\ tasks \subseteq logged
    /\ stamp \in [Activity -> Nat]
    /\ due \in [Activity -> Due \cup {None}]
    /\ lastActivityAt \in Activity \cup {None}
    /\ touchpointCount \in Int
    /\ nextFollowUpAt \in Due \cup {None}
    /\ request \in [Request -> Progress]
    /\ unsure \subseteq Column
    /\ served \in 0..MaxServed

Live == logged \ deleted

Latest ==
    IF Live = {} THEN None
    ELSE CHOOSE a \in Live : \A b \in Live : stamp[b] <= stamp[a]

Dues == {due[a] : a \in Live} \ {None}

EarliestDue ==
    IF Dues = {} THEN None ELSE CHOOSE d \in Dues : \A e \in Dues : d <= e

Init ==
    /\ logged = {} /\ deleted = {} /\ tasks = {}
    /\ stamp = [a \in Activity |-> 0]
    /\ due = [a \in Activity |-> None]
    /\ lastActivityAt = None /\ touchpointCount = 0 /\ nextFollowUpAt = None
    /\ request = [r \in Request |-> Idle]
    /\ unsure = {}
    /\ served = 0

-----------------------------------------------------------------------------

Todo(r) == request[r].todo
Is(r, kind) == request[r].kind = kind

\* Request q after another has changed what the columns cols summarise.
Overtaken(q, cols) ==
    IF Todo(q) = {} THEN request[q] ELSE [request[q] EXCEPT !.outdated = @ \cup cols]

\* Request r goes on with p, or is answered; each other q becomes other[q].
Proceed(r, p, other) ==
    request' = [q \in Request |-> IF q # r THEN other[q] ELSE IF p.todo = {} THEN Idle ELSE p]

Alone(r, p) == Proceed(r, p, request)

RowsChanged(cols) == [q \in Request |-> Overtaken(q, cols)]

\* createActivity compares nothing it has read: any other write of lastActivityAt
\* while it runs may undo its own.
LastWritten == [q \in Request |-> IF Is(q, "create") THEN Overtaken(q, {"last"}) ELSE request[q]]

\* Request r writes column c from what it knows.
Settle(r, c) ==
    unsure' = IF c \in request[r].outdated THEN unsure \cup {c} ELSE unsure \ {c}

Begin(r, p) ==
    /\ Is(r, "idle")
    /\ served < MaxServed
    /\ served' = served + 1
    /\ Alone(r, p)
    /\ UNCHANGED <<table, columns, unsure>>

CreateActivity(r, a) ==
    /\ a \in Activity \ logged
    /\ \A q \in Request : request[q].activity # a
    /\ Begin(r, Serving("create", a, {"row", "count"}))

\* Mutant: a TASK that is created is left out of nextFollowUpAt.
FollowingNothing(r, stmt, owes) == Todo(r) \ {stmt}

\* The statements of create that are left once stmt has run.
Following(r, stmt, owes) ==
    IF Todo(r) \ {stmt} # {} THEN Todo(r) \ {stmt}
    ELSE IF "followUp" \in owes THEN {"readFollowUp"} ELSE {}

\* d is the due date of a TASK (which must have one), None for any other type.
InsertActivity(r, d) ==
    LET a == request[r].activity
        owes == (IF "count" \in Todo(r) THEN {"touchpoints", "last"} ELSE {})
                    \cup (IF d # None THEN {"followUp"} ELSE {})
    IN  /\ Is(r, "create") /\ "row" \in Todo(r)
        /\ logged' = logged \cup {a}
        /\ stamp' = [stamp EXCEPT ![a] = Cardinality(logged) + 1]
        /\ tasks' = IF d = None THEN tasks ELSE tasks \cup {a}
        /\ due' = [due EXCEPT ![a] = d]
        /\ IF "count" \in Todo(r) THEN UNCHANGED unsure ELSE Settle(r, "last")
        /\ Proceed(r, [request[r] EXCEPT !.todo = Following(r, "row", owes), !.owes = owes],
                   RowsChanged({"last"} \cup (IF d # None THEN {"followUp"} ELSE {})))
        /\ UNCHANGED <<deleted, columns>>

CountActivity(r) ==
    LET owes == IF "row" \in Todo(r) THEN {"touchpoints", "last"}
                ELSE request[r].owes \ {"touchpoints", "last"}
    IN  /\ Is(r, "create") /\ "count" \in Todo(r)
        /\ lastActivityAt' = request[r].activity
        /\ touchpointCount' = touchpointCount + 1
        /\ IF "row" \in Todo(r) THEN UNCHANGED unsure ELSE Settle(r, "last")
        /\ Proceed(r, [request[r] EXCEPT !.todo = Following(r, "count", owes), !.owes = owes],
                   LastWritten)
        /\ UNCHANGED <<table, nextFollowUpAt>>

\* An update that gives neither taskStatus nor dueAt changes nothing modelled here.
UpdateActivity(r, a) ==
    /\ a \in Live
    /\ Begin(r, Serving("update", a, {"row"}))

\* The new status and due date of the row: d, or None when nothing is pending.
UpdateRow(r, d) ==
    LET a == request[r].activity
    IN  /\ Is(r, "update") /\ "row" \in Todo(r)
        /\ d # None => a \in tasks
        /\ due' = [due EXCEPT ![a] = d]
        /\ Proceed(r, [request[r] EXCEPT !.todo = {"readFollowUp"}, !.owes = {"followUp"}],
                   RowsChanged({"followUp"}))
        /\ UNCHANGED <<logged, deleted, stamp, tasks, columns, unsure>>

DeleteActivity(r, a) ==
    /\ a \in Live
    /\ Begin(r, Serving("delete", a, {"row"}))

\* The update names the row by its id alone: it may mark it a second time.
MarkDeleted(r) ==
    LET a == request[r].activity
    IN  /\ Is(r, "delete") /\ "row" \in Todo(r)
        /\ deleted' = deleted \cup {a}
        /\ unsure' = IF a \in deleted THEN unsure \cup {"touchpoints"} ELSE unsure
        /\ Proceed(r, [request[r] EXCEPT !.todo = {"count", "readLast", "readFollowUp"},
                                         !.owes = Column],
                   RowsChanged({"last", "followUp"}))
        /\ UNCHANGED <<logged, stamp, tasks, due, columns>>

DiscountActivity(r) ==
    /\ Is(r, "delete") /\ "count" \in Todo(r)
    /\ touchpointCount' = touchpointCount - 1
    /\ Alone(r, [request[r] EXCEPT !.todo = @ \ {"count"}, !.owes = @ \ {"touchpoints"}])
    /\ UNCHANGED <<table, lastActivityAt, nextFollowUpAt, unsure>>

ReadLast(r) ==
    /\ "readLast" \in Todo(r)
    /\ Alone(r, [request[r] EXCEPT !.todo = (@ \ {"readLast"}) \cup {"writeLast"},
                                   !.outdated = @ \ {"last"}, !.last = Latest])
    /\ UNCHANGED <<table, columns, unsure>>

WriteLast(r) ==
    /\ "writeLast" \in Todo(r)
    /\ lastActivityAt' = request[r].last
    /\ Settle(r, "last")
    /\ Proceed(r, [request[r] EXCEPT !.todo = @ \ {"writeLast"}, !.owes = @ \ {"last"}],
               LastWritten)
    /\ UNCHANGED <<table, touchpointCount, nextFollowUpAt>>

ReadFollowUp(r) ==
    /\ "readFollowUp" \in Todo(r)
    /\ Alone(r, [request[r] EXCEPT !.todo = (@ \ {"readFollowUp"}) \cup {"writeFollowUp"},
                                   !.outdated = @ \ {"followUp"}, !.followUp = EarliestDue])
    /\ UNCHANGED <<table, columns, unsure>>

WriteFollowUp(r) ==
    /\ "writeFollowUp" \in Todo(r)
    /\ nextFollowUpAt' = request[r].followUp
    /\ Settle(r, "followUp")
    /\ Alone(r, [request[r] EXCEPT !.todo = @ \ {"writeFollowUp"}, !.owes = @ \ {"followUp"}])
    /\ UNCHANGED <<table, lastActivityAt, touchpointCount>>

\* A statement fails or the process stops: what is left is never done.
CutShort(r) ==
    /\ ~Is(r, "idle")
    /\ unsure' = unsure \cup request[r].owes
    /\ Alone(r, Idle)
    /\ UNCHANGED <<table, columns>>

Step(r) ==
    \/ \E d \in Due \cup {None} : InsertActivity(r, d) \/ UpdateRow(r, d)
    \/ CountActivity(r) \/ MarkDeleted(r) \/ DiscountActivity(r)
    \/ ReadLast(r) \/ WriteLast(r) \/ ReadFollowUp(r) \/ WriteFollowUp(r)
    \/ CutShort(r)

Next ==
    \E r \in Request :
        \/ \E a \in Activity :
            CreateActivity(r, a) \/ UpdateActivity(r, a) \/ DeleteActivity(r, a)
        \/ Step(r) /\ UNCHANGED served

Spec == Init /\ [][Next]_vars

-----------------------------------------------------------------------------

Exact(c) ==
    CASE c = "touchpoints" -> touchpointCount = Cardinality(Live)
      [] c = "last" -> lastActivityAt = Latest
      [] c = "followUp" -> nextFollowUpAt = EarliestDue

\* Whenever no request that changed the rows has a column still to bring up to
\* date, the column summarises the rows exactly, unless one of three things left
\* it wrong: a recalculation was the last to write it and wrote what it had read
\* before the rows changed, an activity was deleted twice, or a request stopped
\* half-way.  A later recalculation that nothing overtakes repairs the first two
\* columns; nothing repairs the count.
ColumnsExplained ==
    \A c \in Column \ unsure : (\A r \in Request : c \notin request[r].owes) => Exact(c)
=============================================================================
