------------------------------ MODULE TaskMail ------------------------------
(***************************************************************************)
(* Tasks and their assignees, the mail that tells a user of a task, and    *)
(* the worker that hands mails to the provider and records each attempt.   *)
(*                                                                         *)
(* One call of addAssignee queues at most one mail, so calls and jobs have *)
(* the same names.  The call is answered once the assignee is stored: the  *)
(* notice is prepared behind it, and whatever fails there is swallowed.    *)
(***************************************************************************)
EXTENDS JobQueue, Sequences, SequencesExt

CONSTANTS Task, User

VARIABLES
    tasks,      \* ids of the tasks there are
    deleted,    \* those whose deletedAt is set
    assignees,  \* TaskAssignee rows: <<task, user>>
    call,       \* call[j]: how far addAssignee and its notice have come
    run,        \* run[j]: the statement of the worker that comes next
    outbound,   \* outbound[j]: status of the OutboundMessage of each attempt
    handed,     \* handed[j]: how many mails the provider took (no column)
    late        \* calls that stored their row after the deletion (no column)

taskTable == <<tasks, deleted, assignees>>
worker == <<queue, run, outbound, handed>>
vars == <<taskTable, call, worker, late>>

TypeOK ==
    /\ QueueTypeOK
    /\ tasks \subseteq Task /\ deleted \subseteq tasks
    /\ assignees \subseteq tasks \X User
    /\ call \in [Job -> {<<"none">>, <<"done">>} \cup
                            {"store", "read", "enqueue"} \X Task \X User]
    /\ run \in [Job -> {"record", "send", "mark", "note"}]
    /\ outbound \in [Job -> Seq({"sending", "sent", "failed"})]
    /\ handed \in [Job -> Nat]
    /\ late \subseteq Job

Init ==
    /\ QueueInit
    /\ tasks = {} /\ deleted = {} /\ assignees = {} /\ late = {}
    /\ call = [j \in Job |-> <<"none">>]
    /\ run = [j \in Job |-> "record"]
    /\ outbound = [j \in Job |-> <<>>]
    /\ handed = [j \in Job |-> 0]

-----------------------------------------------------------------------------

LiveTasks == tasks \ deleted

\* The assignees named when a task is created get no mail.
CreateTask(t, users) ==
    /\ t \notin tasks
    /\ tasks' = tasks \cup {t}
    /\ assignees' = assignees \cup ({t} \X users)
    /\ UNCHANGED <<deleted, call, worker, late>>

DeleteTask(t) ==
    /\ t \in LiveTasks
    /\ deleted' = deleted \cup {t}
    /\ UNCHANGED <<tasks, assignees, call, worker, late>>

RemoveAssignee(t, u) ==
    /\ t \in LiveTasks
    /\ assignees' = assignees \ {<<t, u>>}
    /\ UNCHANGED <<tasks, deleted, call, worker, late>>

AddAssignee(j, t, u) ==
    /\ call[j] = <<"none">>
    /\ t \in LiveTasks
    /\ call' = [call EXCEPT ![j] = <<"store", t, u>>]
    /\ UNCHANGED <<taskTable, worker, late>>

CallAt(j, step) == call[j][1] = step
Continue(j, step) == call' = [call EXCEPT ![j] = <<step, call[j][2], call[j][3]>>]
Return(j) == call' = [call EXCEPT ![j] = <<"done">>]

StoreAssignee(j) ==
    /\ CallAt(j, "store")
    /\ assignees' = assignees \cup {<<call[j][2], call[j][3]>>}
    /\ late' = IF call[j][2] \in deleted THEN late \cup {j} ELSE late
    /\ Continue(j, "read")
    /\ UNCHANGED <<tasks, deleted, worker>>

ReadTask(j) ==
    /\ CallAt(j, "read")
    /\ IF call[j][2] \in LiveTasks THEN Continue(j, "enqueue") ELSE Return(j)
    /\ UNCHANGED <<taskTable, worker, late>>

EnqueueNotice(j) ==
    /\ CallAt(j, "enqueue")
    /\ Add(j)
    /\ Return(j)
    /\ UNCHANGED <<taskTable, run, outbound, handed, late>>

\* A read or the queue fails, or the process stops, and nobody is told.
LoseNotice(j) ==
    /\ CallAt(j, "read") \/ CallAt(j, "enqueue")
    /\ Return(j)
    /\ UNCHANGED <<taskTable, worker, late>>

-----------------------------------------------------------------------------
(***************************************************************************)
(* MailProcessor.process.                                                  *)
(***************************************************************************)

At(j, stmt) == Is(j, "active") /\ run[j] = stmt
Then(j, stmt) == run' = [run EXCEPT ![j] = stmt]
MarkRow(j, status) == outbound' = [outbound EXCEPT ![j] = Front(@) \o <<status>>]

TakeMail(j) ==
    /\ Take(j)
    /\ Then(j, "record")
    /\ UNCHANGED <<taskTable, call, outbound, handed, late>>

RecordAttempt(j) ==
    /\ At(j, "record")
    /\ outbound' = [outbound EXCEPT ![j] = Append(@, "sending")]
    /\ Then(j, "send")
    /\ UNCHANGED <<taskTable, call, queue, handed, late>>

\* The provider takes the mail, and its answer arrives or is lost.
HandOver(j) ==
    /\ At(j, "send")
    /\ handed' = [handed EXCEPT ![j] = @ + 1]
    /\ Then(j, "mark") \/ Then(j, "note")
    /\ UNCHANGED <<taskTable, call, queue, outbound, late>>

\* Mutant: a mail that is refused counts as sent.
RefusedAsSent(j) ==
    /\ At(j, "send")
    /\ Then(j, "mark")
    /\ UNCHANGED <<taskTable, call, queue, outbound, handed, late>>

Refused(j) ==
    /\ At(j, "send")
    /\ Then(j, "note")
    /\ UNCHANGED <<taskTable, call, queue, outbound, handed, late>>

MarkSent(j) ==
    /\ At(j, "mark")
    /\ MarkRow(j, "sent")
    /\ Complete(j)
    /\ UNCHANGED <<taskTable, call, run, handed, late>>

\* The update to sent fails, before or after it took effect.
MarkFails(j) ==
    /\ At(j, "mark")
    /\ UNCHANGED outbound \/ MarkRow(j, "sent")
    /\ Then(j, "note")
    /\ UNCHANGED <<taskTable, call, queue, handed, late>>

\* The catch block; its own update may fail too, and the job fails either way.
NoteFailure(j) ==
    /\ At(j, "note")
    /\ MarkRow(j, "failed") \/ UNCHANGED outbound
    /\ FailAttempt(j)
    /\ UNCHANGED <<taskTable, call, run, handed, late>>

\* The insertion of the record is outside the try block.
RecordFails(j) ==
    /\ At(j, "record")
    /\ FailAttempt(j)
    /\ UNCHANGED <<taskTable, call, run, outbound, handed, late>>

WorkerStops(j) ==
    /\ Stall(j)
    /\ UNCHANGED <<taskTable, call, run, outbound, handed, late>>

Next ==
    \/ \E t \in Task : \/ \E users \in SUBSET User : CreateTask(t, users)
                       \/ DeleteTask(t)
                       \/ \E u \in User : RemoveAssignee(t, u)
    \/ \E j \in Job :
        \/ \E t \in Task, u \in User : AddAssignee(j, t, u)
        \/ StoreAssignee(j) \/ ReadTask(j) \/ EnqueueNotice(j) \/ LoseNotice(j)
        \/ TakeMail(j) \/ RecordAttempt(j) \/ HandOver(j) \/ Refused(j)
        \/ MarkSent(j) \/ MarkFails(j) \/ NoteFailure(j) \/ RecordFails(j)
        \/ WorkerStops(j)

Spec == Init /\ [][Next]_vars

-----------------------------------------------------------------------------

\* Every mail the provider took is a row of outbound: a mail is repeated only by
\* an attempt that left a row of its own.
HandedIsRecorded == \A j \in Job : handed[j] <= Len(outbound[j])

\* A row says sent only if a mail left, and a job completes only with such a row.
SentWasHanded ==
    \A j \in Job :
        /\ Contains(outbound[j], "sent") => handed[j] > 0
        /\ Is(j, "completed") => Last(outbound[j]) = "sent"

\* A mail leaves at most once more than the job was retried.
RepeatsBounded ==
    \A j \in Job : /\ handed[j] <= Retries(j) + 1
                   /\ Is(j, "waiting") => handed[j] <= Retries(j)

\* Nobody is told of a task that was already deleted when the assignment was stored.
NoLateNotice == \A j \in late : Is(j, "none")

\* A mail may leave several times: when the provider's answer or the record of it
\* is lost, or the worker stops.  But it never leaves unrecorded, is never recorded
\* as sent without having left, and leaves no more often than its job ran.
MailAccountedFor == HandedIsRecorded /\ SentWasHanded /\ RepeatsBounded /\ NoLateNotice
=============================================================================
