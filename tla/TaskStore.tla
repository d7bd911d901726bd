----------------------------- MODULE TaskStore -----------------------------
(***************************************************************************)
(* The task record of entrypoints/server/task.py and the operations that   *)
(* entrypoints/server/task_store.py performs on it under its lock.  The    *)
(* module has no variables: a record is a value, an operation maps a       *)
(* record (or the whole table) to the next one, and a predicate named      *)
(* Can... or ...Refused is the condition under which the code raises.      *)
(*                                                                         *)
(* Left out: the progress percentage, the object and window counters and   *)
(* the metrics dictionary, which no decision of the service reads.         *)
(***************************************************************************)
EXTENDS Integers, Sequences, FiniteSets

CONSTANTS
    Tasks,              \* the task identifiers that clients may be given
    MaxTerminalTasks    \* how many terminal tasks cleanup_expired retains

ASSUME MaxTerminalAssumption == MaxTerminalTasks \in Nat \ {0}

Statuses == {"queued", "running", "completed", "failed", "cancelled"}

Phases == {"queued", "preparing", "processing", "finalizing", "terminal"}

TerminalStatuses == {"completed", "failed", "cancelled"}

Errors == {"none", "request_failed", "worker_group_fatal"}

Locations == {"none", "local", "remote"}

NoPosition == -1

\* The four kinds of things a task directory holds.
Artifacts == {"dir", "inputs", "partial", "result"}

\* The status changes TaskRecord.transition accepts.
AllowedTransitions ==
    [s \in Statuses |->
        CASE s = "queued"  -> {"running", "cancelled"}
          [] s = "running" -> TerminalStatuses
          [] OTHER         -> {}]

TaskRecords ==
    [status                 : Statuses,
     phase                  : Phases,
     cancellation_requested : BOOLEAN,
     storage_committed      : BOOLEAN,
     location               : Locations,
     error                  : Errors,
     queue_position         : Int,
     created_at             : Nat,
     completed_at           : Nat]

\* Bug seeded to test the checks: a phase is stored as the status.
Mut_NewRecord(now) ==
    [status                 |-> "preparing",
     phase                  |-> "queued",
     cancellation_requested |-> FALSE,
     storage_committed      |-> FALSE,
     location               |-> "none",
     error                  |-> "none",
     queue_position         |-> NoPosition,
     created_at             |-> now,
     completed_at           |-> 0]

\* A TaskRecord as create_video builds it, at time now.
NewRecord(now) ==
    [status                 |-> "queued",
     phase                  |-> "queued",
     cancellation_requested |-> FALSE,
     storage_committed      |-> FALSE,
     location               |-> "none",
     error                  |-> "none",
     queue_position         |-> NoPosition,
     created_at             |-> now,
     completed_at           |-> 0]

IsTerminal(r) == r.status \in TerminalStatuses

CanTransition(r, s) == s \in AllowedTransitions[r.status]

\* TaskRecord.transition once it has accepted the new status.
Transition(r, s, error, now) ==
    [r EXCEPT !.status         = s,
              !.error          = error,
              !.queue_position = NoPosition,
              !.phase          = IF s = "running" THEN "preparing" ELSE "terminal",
              !.completed_at   = IF s = "running" THEN @ ELSE now]

\* TaskRecord.update_progress: ignored unless the task is running.
UpdateProgress(r, phase) ==
    IF r.status = "running" THEN [r EXCEPT !.phase = phase] ELSE r

\* Bugs seeded to test the checks: one of the two refusals is missing.
Mut_CancellationAfterCommit(r) == IsTerminal(r)
Mut_CancellationAfterEnd(r) == r.storage_committed

\* request_cancellation raises task_already_terminal or task_finalizing.
CancellationRefused(r) == IsTerminal(r) \/ r.storage_committed

RequestCancellation(r) == [r EXCEPT !.cancellation_requested = TRUE]

\* begin_result_publication once it has found no cancellation request.
BeginResultPublication(r) ==
    UpdateProgress([r EXCEPT !.storage_committed = TRUE], "finalizing")

CanSetResultStorage(r) == r.storage_committed /\ r.status = "running"

\* set_result_storage once it has accepted the call.
SetResultStorage(r, location) == [r EXCEPT !.location = location]

\* The table after every task of the sequence q has been cancelled where it
\* stood in the queue, as shutdown and the fatal-error path do.
CancelAll(table, q, now) ==
    [t \in Tasks |->
        IF \E i \in DOMAIN q : q[i] = t
        THEN Transition(RequestCancellation(table[t]), "cancelled", "none", now)
        ELSE table[t]]

\* update_queue_positions: only tasks that are still queued are numbered.
UpdateQueuePositions(table, registered, q) ==
    [t \in Tasks |->
        IF t \in registered /\ table[t].status = "queued" /\ \E i \in DOMAIN q : q[i] = t
        THEN [table[t] EXCEPT !.queue_position = (CHOOSE i \in DOMAIN q : q[i] = t) - 1]
        ELSE table[t]]

\* t stands before u in the order in which cleanup_expired sorts.
OlderTerminal(table, t, u) ==
    \/ table[t].completed_at < table[u].completed_at
    \/ /\ table[t].completed_at = table[u].completed_at
       /\ table[t].created_at < table[u].created_at

\* The terminal tasks cleanup_expired purges when tasks completed at or
\* before the time cutoff have outlived their time to live.
ExpiredTasks(table, registered, cutoff) ==
    LET terminal == {t \in registered : IsTerminal(table[t])}
        expired  == {t \in terminal : table[t].completed_at <= cutoff}
        retained == terminal \ expired
        overflow == {t \in retained :
                        Cardinality({u \in retained : OlderTerminal(table, t, u)})
                            >= MaxTerminalTasks}
    IN  expired \cup overflow
=============================================================================
