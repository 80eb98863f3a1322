------------------------------ MODULE JobQueue ------------------------------
(***************************************************************************)
(* A BullMQ queue as the workers of this system rely on it: a job waits,   *)
(* is taken by one worker, and ends completed, or failed once its attempts *)
(* are used up.  A worker that stops in the middle loses its lock: the job *)
(* is stalled and waits again, without counting as an attempt.             *)
(***************************************************************************)
EXTENDS Naturals

CONSTANTS
    Job,       \* jobs that may be added
    Attempts,  \* defaultJobOptions.attempts, at least 1
    MaxStalls  \* how often a job may stall before it fails

VARIABLE queue  \* queue[j]: the job as the queue stores it

Entry ==
    [state : {"none", "waiting", "active", "completed", "failed"},
     failures : 0..Attempts, stalls : 0..MaxStalls + 1]

QueueTypeOK == queue \in [Job -> Entry]

QueueInit == queue = [j \in Job |-> [state |-> "none", failures |-> 0, stalls |-> 0]]

Is(j, state) == queue[j].state = state
Move(j, state) == queue' = [queue EXCEPT ![j].state = state]

Add(j) == Is(j, "none") /\ Move(j, "waiting")
Take(j) == Is(j, "waiting") /\ Move(j, "active")
Complete(j) == Is(j, "active") /\ Move(j, "completed")

\* Mutant: one attempt more than the job has.
FailAttemptOffByOne(j) ==
    /\ Is(j, "active")
    /\ queue' = [queue EXCEPT ![j].failures = @ + 1,
                              ![j].state = IF queue[j].failures < Attempts THEN "waiting"
                                           ELSE "failed"]

\* The handler throws.
FailAttempt(j) ==
    /\ Is(j, "active")
    /\ queue' = [queue EXCEPT ![j].failures = @ + 1,
                              ![j].state = IF queue[j].failures + 1 < Attempts THEN "waiting"
                                           ELSE "failed"]

\* The worker stops.
Stall(j) ==
    /\ Is(j, "active")
    /\ queue' = [queue EXCEPT ![j].stalls = @ + 1,
                              ![j].state = IF queue[j].stalls < MaxStalls THEN "waiting"
                                           ELSE "failed"]

\* How often a worker has taken the job again.
Retries(j) == queue[j].failures + queue[j].stalls
=============================================================================
