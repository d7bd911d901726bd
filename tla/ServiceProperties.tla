------------------------- MODULE ServiceProperties -------------------------
(***************************************************************************)
(* What must hold of the service modelled in ServiceScheduler, and the     *)
(* claims of its documentation and comments that the code does not keep.   *)
(***************************************************************************)
EXTENDS ServiceScheduler

-----------------------------------------------------------------------------
(***************************************************************************)
(* Safety.                                                                 *)
(***************************************************************************)

\* A result whose publication has begun belongs to a task nobody asked to
\* cancel: the two decisions of TaskStore.request_cancellation and
\* begin_result_publication, taken by different threads, exclude each other.
CancelCommitExclusive ==
    \A t \in Tasks : ~(rec[t].cancellation_requested /\ rec[t].storage_committed)

\* A task shown as completed has its result where video_content will look
\* for it, whichever storage backend published it.
CompletedHasResult ==
    \A t \in registered : rec[t].status = "completed" =>
        /\ rec[t].storage_committed
        /\ rec[t].location # "none"
        /\ rec[t].location = "local" => "result" \in files[t]

\* Once the scheduler has let go of a failed or cancelled task, its inputs
\* and outputs are gone, also when DELETE and the scheduler thread both
\* thought the task was theirs to cancel.
EndedLeavesNothing ==
    \A t \in registered :
        rec[t].status \in {"failed", "cancelled"} /\ active # t => files[t] \subseteq {"dir"}

\* The files on the disk tell the same story as the record a client reads.
FilesMatchOutcome == CompletedHasResult /\ EndedLeavesNothing

\* The queue holds every waiting task once, never one that has started or
\* ended or that a client gave up: so the drains of shutdown and of the
\* fatal-error path, which stop at the first refusal, are never refused.
QueueSound ==
    /\ \A i, j \in DOMAIN queue : queue[i] = queue[j] => i = j
    /\ \A i \in DOMAIN queue :
          /\ queue[i] \in registered
          /\ rec[queue[i]].status = "queued"
          /\ ~rec[queue[i]].cancellation_requested
          /\ queue[i] # active
    /\ Len(queue) <= MaxQueuedTasks

\* A request flag is only ever up on the token of the active task, and only
\* if that very task has been asked to cancel: a DELETE that comes late never
\* stops the next request.
SignalHitsRequestedTask ==
    signalled => /\ token # NoTask
                 /\ token = active
                 /\ rec[token].cancellation_requested

\* Without environment faults one thing only ruins the service: a DELETE that
\* meets a task between its removal from the queue and its start.  Otherwise
\* the scheduler thread lives, and when shutdown has joined it no task is
\* left in limbo.
LimboOnlyByRace ==
    ~unlisted =>
        /\ sched # "dead"
        /\ main = "closed" => \A t \in registered : IsTerminal(rec[t])

\* Strict FIFO: a task that starts is older than all that still wait.
StartsInOrder ==
    [][\A t \in Tasks :
         rec[t].status = "queued" /\ rec'[t].status = "running" =>
             \A u \in registered : rec[u].status = "queued" =>
                 rec[t].created_at <= rec[u].created_at]_vars

-----------------------------------------------------------------------------
(***************************************************************************)
(* Refinement: the life of every task follows TaskContract.                *)
(***************************************************************************)

Stage(t) == IF rec[t].created_at = 0 THEN "absent"
            ELSE IF t \in registered THEN rec[t].status ELSE "purged"

Claim(t) == IF rec[t].storage_committed THEN "commit"
            ELSE IF rec[t].cancellation_requested THEN "cancel" ELSE "none"

Life == [t \in Tasks |-> [stage |-> Stage(t), claim |-> Claim(t)]]

Contract == INSTANCE TaskContract WITH life <- Life

\* The service, with all its threads, keeps the contract of every task: one
\* outcome, no result for a task asked to cancel, no cancellation of a task
\* whose publication has begun.
KeepsContract == Contract!Spec

-----------------------------------------------------------------------------
(***************************************************************************)
(* Liveness.  Threads are scheduled, the condition's lock is granted to a  *)
(* thread that keeps asking for it, and the pipeline's run, a finite       *)
(* loop over windows, ends.  Clients, faults and timers need do nothing.   *)
(***************************************************************************)

Steps ==
    \/ Starts \/ ChecksCancelled \/ Dispatches \/ RunEnds
    \/ BeginsPublication \/ PublishesLocally \/ Completes
    \/ HandlesCancelled \/ HandlesFailure

Locking == LoopHead \/ Wakes \/ SweepBreaks \/ DrainsAfterFatal \/ Finishes

ApiContinues ==
    \/ Submit \/ DeleteFlagsQueued \/ DeleteCancelsQueued
    \/ DeleteFlagsRunning \/ DeleteSignalsRunning

MainContinues ==
    ShutdownFlagsActive \/ ShutdownSignalsActive \/ ShutdownJoins

FairSpec ==
    /\ Spec
    /\ WF_vars(Steps) /\ SF_vars(Locking)
    /\ WF_vars(ApiContinues) /\ WF_vars(MainContinues)
    /\ WF_vars(WatchdogFires)

\* A task behind the one whose files shutdown could not remove: QUEUED, in no
\* queue, and nobody is left to see to it.
Stranded(t) ==
    /\ main = "raised"
    /\ rec[t].status = "queued"
    /\ ~InQueue(t) /\ t # active

\* Every accepted task ends, whether it is cancelled, fails or completes,
\* and whatever the group, the files and the watchdogs do, while the thread
\* lives and unless a shutdown that raised has stranded it.
EveryTaskEnds ==
    \A t \in Tasks :
        (rec[t].created_at > 0) ~> (IsTerminal(rec[t]) \/ sched = "dead" \/ Stranded(t))

\* Shutdown does not wait for ever: the scheduler thread notices that the
\* service is draining, from wherever it stands.
ShutdownTerminates == (main = "joining") ~> (main # "joining")

\* Neither the client of an accepted task nor shutdown waits for ever.
ServiceEnds == EveryTaskEnds /\ ShutdownTerminates

-----------------------------------------------------------------------------
(***************************************************************************)
(* A claim of the documentation that the code breaks.                      *)
(***************************************************************************)

\* docs/service_api.md has the operator cancel a task and confirm that the
\* service still completes new requests: the scheduler thread survives.
SurvivesCancellation == sched # "dead"
=============================================================================
