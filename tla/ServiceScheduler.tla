-------------------------- MODULE ServiceScheduler --------------------------
(***************************************************************************)
(* The HTTP service of entrypoints/server: the scheduler of scheduler.py,  *)
(* the task table of task_store.py, the owner rank's side of worker.py,    *)
(* the result storage of storage.py and the video routes of video_api.py.  *)
(*                                                                         *)
(* Four kinds of threads run concurrently:                                 *)
(*   - the event loop, which runs create_video and delete_video;           *)
(*   - the scheduler thread, which runs ServiceScheduler._run_loop;        *)
(*   - one watchdog thread per task under cancellation;                    *)
(*   - the main thread, which runs shutdown once the server has stopped.   *)
(* They share the condition variable's lock, which most of the scheduler's *)
(* state is read and written under, and the task table's own lock.  A step *)
(* is one critical section of the task table's lock, or one of the         *)
(* condition's lock in which no other thread's table access can matter.    *)
(* A thread that keeps the condition's lock over several table accesses    *)
(* takes several steps, and the scheduler thread, which works on the       *)
(* active task without that lock, may run in between.                      *)
(***************************************************************************)
EXTENDS TaskStore

CONSTANTS
    NoTask,             \* the Python None of a task identifier
    MaxQueuedTasks,     \* ServiceArgs.max_queued_tasks
    StorageModes,       \* result storage backends of the deployment
    Faults              \* environment faults: "collective", "filesystem"

ASSUME ServiceAssumption ==
    /\ NoTask \notin Tasks
    /\ MaxQueuedTasks \in Nat \ {0}
    /\ StorageModes \subseteq {"local", "s3"}
    /\ Faults \subseteq {"collective", "filesystem"}

VARIABLES
    rec,            \* TaskRecord of every identifier
    registered,     \* identifiers in TaskStore._records
    files,          \* what is on disk in every task's directory
    clock,          \* advances whenever a record is created or ends
    queue,          \* ServiceScheduler._queue
    accepting,      \* ServiceScheduler._accepting
    active,         \* ServiceScheduler._active_task_id
    watchdogs,      \* ServiceScheduler._cancel_watchdogs
    firing,         \* the task whose watchdog has found it overdue
    sched,          \* program counter of the scheduler thread
    creating,       \* progress of each create_video coroutine
    api,            \* what the event loop is in the middle of
    main,           \* program counter of the main thread
    token,          \* task of ResidentWorkerGroup._active_token
    signalled,      \* whether that token has been requested
    fatal,          \* why ResidentWorkerGroup._fatal_error is set
    broken,         \* the ranks' process group no longer works
    unlisted        \* history: a DELETE found a queued task outside the queue

storeVars  == <<rec, registered, files, clock>>
queueVars  == <<queue, accepting, active>>
dogVars    == <<watchdogs, firing>>
workerVars == <<token, signalled, fatal, broken>>
history    == <<unlisted>>
vars == <<storeVars, queueVars, dogVars, sched, creating, api, main,
          workerVars, history>>

SchedulerPoints == {"loop", "waiting", "popped", "started", "dispatch",
    "executing", "ran", "publishing", "completing", "cancelling",
    "failing", "draining", "finally", "dying", "stopped", "dead"}

\* Where the event loop can stand inside cancel_or_purge or submit.
ApiOps == {"idle", "submit", "drop_queued", "cancel_queued", "flag_running",
           "signal_running"}

MainPoints == {"serving", "cancel_active", "signal_active", "joining",
               "closed", "timed_out", "raised"}

ServiceTypeOK ==
    /\ rec \in [Tasks -> TaskRecords]
    /\ registered \in SUBSET Tasks
    /\ files \in [Tasks -> SUBSET Artifacts]
    /\ clock \in Nat
    /\ queue \in Seq(Tasks)
    /\ accepting \in BOOLEAN
    /\ active \in Tasks \cup {NoTask}
    /\ watchdogs \in SUBSET Tasks
    /\ firing \in Tasks \cup {NoTask}
    /\ sched \in SchedulerPoints
    /\ creating \in [Tasks -> {"unused", "uploading", "done"}]
    /\ api \in [op : ApiOps, task : Tasks \cup {NoTask}]
    /\ main \in MainPoints
    /\ token \in Tasks \cup {NoTask}
    /\ signalled \in BOOLEAN
    /\ fatal \in {"none", "error", "watchdog"}
    /\ broken \in BOOLEAN
    /\ unlisted \in BOOLEAN

Init ==
    /\ rec = [t \in Tasks |-> NewRecord(0)]
    /\ registered = {}
    /\ files = [t \in Tasks |-> {}]
    /\ clock = 0
    /\ queue = <<>>
    /\ accepting = TRUE
    /\ active = NoTask
    /\ watchdogs = {}
    /\ firing = NoTask
    /\ sched = "loop"
    /\ creating = [t \in Tasks |-> "unused"]
    /\ api = [op |-> "idle", task |-> NoTask]
    /\ main = "serving"
    /\ token = NoTask
    /\ signalled = FALSE
    /\ fatal = "none"
    /\ broken = FALSE
    /\ unlisted = FALSE

InQueue(t) == \E i \in DOMAIN queue : queue[i] = t

\* deque.remove, with its ValueError swallowed; no task is queued twice.
Without(q, t) ==
    IF \E i \in DOMAIN q : q[i] = t
    THEN LET i == CHOOSE i \in DOMAIN q : q[i] = t
         IN  [j \in 1..(Len(q) - 1) |-> IF j < i THEN q[j] ELSE q[j + 1]]
    ELSE q

ApiIdle == [op |-> "idle", task |-> NoTask]

\* Nobody is inside a multi-step critical section of the condition's lock.
LockFree ==
    /\ api.op \in {"idle", "submit"}
    /\ firing = NoTask
    /\ main \notin {"cancel_active", "signal_active"}

Serving == main = "serving" /\ api.op = "idle"

\* health_snapshot of the scheduler, less the heartbeat's age: the routes
\* may refuse for a stale heartbeat at any time (CreateAborted).
Ready == accepting /\ fatal = "none"

\* Bug seeded to test the checks: the outputs are forgotten.
Mut_AfterRemoval(t) == [files EXCEPT ![t] = @ \ {"inputs"}]

\* The artifacts that survive _remove_incomplete_artifacts.
AfterRemoval(t) == [files EXCEPT ![t] = @ \cap {"dir"}]

-----------------------------------------------------------------------------
(***************************************************************************)
(* The event loop: create_video.                                           *)
(***************************************************************************)

\* The first readiness check passes and the task directory is created.
CreateBegins(t) ==
    /\ Serving /\ LockFree
    /\ creating[t] = "unused"
    /\ Ready
    /\ creating' = [creating EXCEPT ![t] = "uploading"]
    /\ files' = [files EXCEPT ![t] = {"dir", "inputs"}]
    /\ UNCHANGED <<rec, registered, clock, queueVars, dogVars, sched, api,
                   main, workerVars, history>>

\* The request is invalid, an upload is too large or fails, or the service
\* is not ready after the upload: the directory is removed again.
CreateAborted(t) ==
    /\ Serving
    /\ creating[t] = "uploading"
    /\ creating' = [creating EXCEPT ![t] = "done"]
    /\ files' = [files EXCEPT ![t] = {}]
    /\ UNCHANGED <<rec, registered, clock, queueVars, dogVars, sched, api,
                   main, workerVars, history>>

\* Uploading has yielded to the event loop, so readiness is checked again.
CreateRechecks(t) ==
    /\ Serving /\ LockFree
    /\ creating[t] = "uploading"
    /\ Ready
    /\ api' = [op |-> "submit", task |-> t]
    /\ UNCHANGED <<storeVars, queueVars, dogVars, sched, creating, main,
                   workerVars, history>>

\* Bug seeded to test the checks: the bound is off by one.
Mut_QueueFull == Len(queue) > MaxQueuedTasks

\* submit answers queue_full.
QueueFull == Len(queue) >= MaxQueuedTasks

\* ServiceScheduler.submit; a refusal removes the directory.
Submit ==
    /\ api.op = "submit" /\ LockFree
    /\ LET t == api.task
       IN  /\ creating' = [creating EXCEPT ![t] = "done"]
           /\ IF accepting /\ ~QueueFull
              THEN /\ clock' = clock + 1
                   /\ registered' = registered \cup {t}
                   /\ queue' = Append(queue, t)
                   /\ rec' = UpdateQueuePositions(
                                [rec EXCEPT ![t] = NewRecord(clock + 1)],
                                registered \cup {t}, Append(queue, t))
                   /\ UNCHANGED files
              ELSE /\ files' = [files EXCEPT ![t] = {}]
                   /\ UNCHANGED <<rec, registered, clock, queue>>
    /\ api' = ApiIdle
    /\ UNCHANGED <<accepting, active, dogVars, sched, main, workerVars, history>>

-----------------------------------------------------------------------------
(***************************************************************************)
(* The event loop: delete_video, that is ServiceScheduler.cancel_or_purge. *)
(***************************************************************************)

\* A terminal task is purged: the record, then its directory, if that can be
\* removed.
DeletePurges(t) ==
    /\ Serving /\ LockFree
    /\ t \in registered /\ IsTerminal(rec[t])
    /\ registered' = registered \ {t}
    /\ \/ files' = [files EXCEPT ![t] = {}]
       \/ "filesystem" \in Faults /\ UNCHANGED files
    /\ UNCHANGED <<rec, clock, queueVars, dogVars, sched, creating, api, main,
                   workerVars, history>>

\* The status read is QUEUED: the task leaves the queue if it is there.  A
\* task the scheduler thread has popped but not yet started is not.
DeleteFindsQueued(t) ==
    /\ Serving /\ LockFree
    /\ t \in registered /\ rec[t].status = "queued"
    /\ queue' = Without(queue, t)
    /\ unlisted' = (unlisted \/ ~InQueue(t))
    /\ api' = [op |-> "drop_queued", task |-> t]
    /\ UNCHANGED <<storeVars, accepting, active, dogVars, sched, creating,
                   main, workerVars>>

\* ... then TaskStore.request_cancellation, which may refuse with 409.
DeleteFlagsQueued ==
    /\ api.op = "drop_queued"
    /\ LET t == api.task
       IN  IF CancellationRefused(rec[t])
           THEN api' = ApiIdle /\ UNCHANGED rec
           ELSE /\ api' = [api EXCEPT !.op = "cancel_queued"]
                /\ rec' = [rec EXCEPT ![t] = RequestCancellation(@)]
    /\ UNCHANGED <<registered, files, clock, queueVars, dogVars, sched,
                   creating, main, workerVars, history>>

\* ... then the transition to CANCELLED, which may refuse with 409, the
\* removal of the artifacts, and the new queue positions unless that failed.
DeleteCancelsQueued ==
    /\ api.op = "cancel_queued"
    /\ LET t == api.task
           cancelled == [rec EXCEPT ![t] = Transition(@, "cancelled", "none", clock + 1)]
       IN  IF CanTransition(rec[t], "cancelled")
           THEN /\ clock' = clock + 1
                /\ \/ /\ files' = AfterRemoval(t)
                      /\ rec' = UpdateQueuePositions(cancelled, registered, queue)
                   \/ /\ "filesystem" \in Faults
                      /\ rec' = cancelled
                      /\ UNCHANGED files
           ELSE UNCHANGED <<rec, files, clock>>
    /\ api' = ApiIdle
    /\ UNCHANGED <<registered, queueVars, dogVars, sched, creating, main,
                   workerVars, history>>

\* The status read is RUNNING.
DeleteFindsRunning(t) ==
    /\ Serving /\ LockFree
    /\ t \in registered /\ rec[t].status = "running"
    /\ api' = [op |-> "flag_running", task |-> t]
    /\ UNCHANGED <<storeVars, queueVars, dogVars, sched, creating, main,
                   workerVars, history>>

\* ... then TaskStore.request_cancellation, which may refuse with 409.
DeleteFlagsRunning ==
    /\ api.op = "flag_running"
    /\ LET t == api.task
       IN  IF CancellationRefused(rec[t])
           THEN api' = ApiIdle /\ UNCHANGED rec
           ELSE /\ api' = [api EXCEPT !.op = "signal_running"]
                /\ rec' = [rec EXCEPT ![t] = RequestCancellation(@)]
    /\ UNCHANGED <<registered, files, clock, queueVars, dogVars, sched,
                   creating, main, workerVars, history>>

\* ResidentWorkerGroup.request_cancellation: only the token of that very
\* task is set; the answer FALSE for any other is not looked at.
SignalWorker(t) == signalled' = (signalled \/ token = t)

\* ... then the worker group is told and the watchdog is started.
DeleteSignalsRunning ==
    /\ api.op = "signal_running"
    /\ SignalWorker(api.task)
    /\ watchdogs' = watchdogs \cup {api.task}
    /\ api' = ApiIdle
    /\ UNCHANGED <<storeVars, queueVars, firing, sched, creating, main, token,
                   fatal, broken, history>>

EventLoop ==
    \/ \E t \in Tasks : \/ CreateBegins(t) \/ CreateAborted(t) \/ CreateRechecks(t)
                        \/ DeletePurges(t) \/ DeleteFindsQueued(t) \/ DeleteFindsRunning(t)
    \/ Submit
    \/ DeleteFlagsQueued \/ DeleteCancelsQueued
    \/ DeleteFlagsRunning \/ DeleteSignalsRunning

-----------------------------------------------------------------------------
(***************************************************************************)
(* The scheduler thread: _run_loop.                                        *)
(***************************************************************************)

\* Bug seeded to test the checks: a draining service waits for work too.
Mut_Idle == queue = <<>>

\* The condition of the wait loop.
Idle == accepting /\ queue = <<>>

\* Bug seeded to test the checks: the newest task is taken, not the oldest.
Mut_TakeNext ==
    IF queue = <<>>
    THEN sched' = "stopped" /\ UNCHANGED <<queue, active>>
    ELSE /\ sched' = "popped"
         /\ queue' = SubSeq(queue, 1, Len(queue) - 1)
         /\ active' = queue[Len(queue)]

\* The head of the loop with something to do: return, or take the first task.
TakeNext ==
    IF queue = <<>>
    THEN sched' = "stopped" /\ UNCHANGED <<queue, active>>
    ELSE /\ sched' = "popped"
         /\ queue' = Tail(queue)
         /\ active' = Head(queue)

\* The loop is entered: wait for work, or go on at once.
LoopHead ==
    /\ sched = "loop" /\ LockFree
    /\ IF Idle
       THEN sched' = "waiting" /\ UNCHANGED <<queue, active>>
       ELSE TakeNext
    /\ rec' = UpdateQueuePositions(rec, registered, queue')
    /\ UNCHANGED <<registered, files, clock, accepting, dogVars, creating, api,
                   main, workerVars, history>>

\* The wait ends, by a notification or after a second: old results are swept
\* and, if there is still nothing to do, the other ranks are sent a
\* heartbeat, which raises out of the thread when the group is broken.
Wakes ==
    /\ sched = "waiting" /\ LockFree
    /\ \E cutoff \in 0..clock :
         LET swept == ExpiredTasks(rec, registered, cutoff)
         IN  /\ registered' = registered \ swept
             /\ files' = [t \in Tasks |-> IF t \in swept THEN {} ELSE files[t]]
    /\ IF Idle
       THEN sched' = (IF broken THEN "dead" ELSE "waiting") /\ UNCHANGED <<queue, active>>
       ELSE TakeNext
    /\ rec' = UpdateQueuePositions(rec, registered', queue')
    /\ UNCHANGED <<clock, accepting, dogVars, creating, api, main, workerVars, history>>

\* ... or the directory of a swept result cannot be removed, which ends the
\* thread: some records are gone, one of them with its files left behind.
SweepBreaks ==
    /\ sched = "waiting" /\ LockFree /\ "filesystem" \in Faults
    /\ \E cutoff \in 0..clock :
         \E swept \in SUBSET ExpiredTasks(rec, registered, cutoff) :
           \E stuck \in swept :
             /\ registered' = registered \ swept
             /\ files' = [t \in Tasks |-> IF t \in swept \ {stuck} THEN {} ELSE files[t]]
    /\ sched' = "dead"
    /\ UNCHANGED <<rec, clock, queueVars, dogVars, creating, api, main, workerVars,
                   history>>

\* TaskStore.transition(RUNNING), outside the lock and outside the try: a
\* refusal ends the thread.
Starts ==
    /\ sched = "popped"
    /\ IF active \in registered /\ CanTransition(rec[active], "running")
       THEN /\ rec' = [rec EXCEPT ![active] = Transition(@, "running", "none", clock)]
            /\ sched' = "started"
       ELSE sched' = "dead" /\ UNCHANGED rec
    /\ UNCHANGED <<registered, files, clock, queueVars, dogVars, creating, api,
                   main, workerVars, history>>

\* update_progress, still outside the try, and the check of the cancellation
\* flag that opens it.
ChecksCancelled ==
    /\ sched = "started"
    /\ IF active \in registered
       THEN /\ rec' = [rec EXCEPT ![active] = UpdateProgress(@, "preparing")]
            /\ sched' = IF rec[active].cancellation_requested THEN "cancelling" ELSE "dispatch"
       ELSE sched' = "dead" /\ UNCHANGED rec
    /\ UNCHANGED <<registered, files, clock, queueVars, dogVars, creating, api,
                   main, workerVars, history>>

\* ResidentWorkerGroup.execute: the RUN command is broadcast, which raises
\* when the group is broken; then the token is installed.
Dispatches ==
    /\ sched = "dispatch"
    /\ IF broken
       THEN sched' = "failing" /\ UNCHANGED <<token, signalled>>
       ELSE /\ sched' = "executing"
            /\ token' = active
            /\ signalled' = FALSE
    /\ UNCHANGED <<storeVars, queueVars, dogVars, creating, api, main, fatal,
                   broken, history>>

\* Bug seeded to test the checks: the request flag outlives the run.
Mut_Returns(point) ==
    /\ sched = "executing"
    /\ sched' = point
    /\ token' = NoTask
    /\ UNCHANGED signalled

\* _execute_run returns or raises: the token is cleared in its finally.
Returns(point) ==
    /\ sched = "executing"
    /\ sched' = point
    /\ token' = NoTask
    /\ signalled' = FALSE

\* A progress report; one for a deleted record raises out of the pipeline.
ReportsProgress ==
    /\ sched = "executing"
    /\ IF active \in registered
       THEN /\ rec[active] # UpdateProgress(rec[active], "processing")
            /\ rec' = [rec EXCEPT ![active] = UpdateProgress(@, "processing")]
            /\ UNCHANGED <<sched, token, signalled>>
       ELSE Returns("failing") /\ UNCHANGED rec
    /\ UNCHANGED <<registered, files, clock, queueVars, dogVars, creating, api,
                   main, fatal, broken, history>>

\* service_checkpoint sees the token requested on some rank.
CheckpointCancels ==
    /\ signalled
    /\ Returns("cancelling")
    /\ UNCHANGED <<storeVars, queueVars, dogVars, creating, api, main, fatal,
                   broken, history>>

\* The pipeline finishes and has written result.partial.mp4.
RunSucceeds ==
    /\ ~broken
    /\ Returns("ran")
    /\ files' = [files EXCEPT ![active] = @ \cup {"dir", "partial"}]
    /\ UNCHANGED <<rec, registered, clock, queueVars, dogVars, creating, api,
                   main, fatal, broken, history>>

\* The pipeline raises an ordinary error.
RunFails ==
    /\ Returns("failing")
    /\ UNCHANGED <<storeVars, queueVars, dogVars, creating, api, main, fatal,
                   broken, history>>

\* The pipeline raises an error whose text looks like that of a broken process
\* group, whether or not the group is broken.
RunFailsFatally ==
    /\ Returns("failing")
    /\ fatal' = "error"
    /\ UNCHANGED <<storeVars, queueVars, dogVars, creating, api, main, broken,
                   history>>

\* The output is where it should be and begin_result_publication crosses the
\* boundary after which the task cannot be cancelled.
BeginsPublication ==
    /\ sched = "ran"
    /\ IF \/ "partial" \notin files[active]
          \/ active \notin registered
          \/ rec[active].status # "running"
       THEN sched' = "failing" /\ UNCHANGED rec
       ELSE IF rec[active].cancellation_requested
            THEN sched' = "cancelling" /\ UNCHANGED rec
            ELSE /\ sched' = "publishing"
                 /\ rec' = [rec EXCEPT ![active] = BeginResultPublication(@)]
    /\ UNCHANGED <<registered, files, clock, queueVars, dogVars, creating, api,
                   main, workerVars, history>>

\* os.replace of the partial file raises OSError.
PublicationFails ==
    /\ sched = "publishing" /\ "filesystem" \in Faults
    /\ sched' = "failing"
    /\ UNCHANGED <<storeVars, queueVars, dogVars, creating, api, main,
                   workerVars, history>>

\* os.replace and LocalResultStorage.publish, or an S3 upload that failed
\* and keeps the local file; then set_result_storage.
PublishesLocally ==
    /\ sched = "publishing"
    /\ files' = [files EXCEPT ![active] = (@ \ {"partial"}) \cup {"result"}]
    /\ IF CanSetResultStorage(rec[active])
       THEN /\ rec' = [rec EXCEPT ![active] = SetResultStorage(@, "local")]
            /\ sched' = "completing"
       ELSE sched' = "failing" /\ UNCHANGED rec
    /\ UNCHANGED <<registered, clock, queueVars, dogVars, creating, api, main,
                   workerVars, history>>

\* os.replace and S3ResultStorage.publish: the local file is unlinked, or
\* stays if that fails; then set_result_storage.
PublishesRemotely ==
    /\ sched = "publishing" /\ "s3" \in StorageModes
    /\ \E left \in {{}, {"result"}} :
         files' = [files EXCEPT ![active] = (@ \ {"partial"}) \cup left]
    /\ IF CanSetResultStorage(rec[active])
       THEN /\ rec' = [rec EXCEPT ![active] = SetResultStorage(@, "remote")]
            /\ sched' = "completing"
       ELSE sched' = "failing" /\ UNCHANGED rec
    /\ UNCHANGED <<registered, clock, queueVars, dogVars, creating, api, main,
                   workerVars, history>>

\* A transition to a terminal status by the scheduler thread.  A refusal
\* raises: to the handler `otherwise` if there is one, else out of the
\* thread after the finally clause has run.
Ends(status, error, next, otherwise) ==
    IF active \in registered /\ CanTransition(rec[active], status)
    THEN /\ clock' = clock + 1
         /\ rec' = [rec EXCEPT ![active] = Transition(@, status, error, clock + 1)]
         /\ sched' = next
    ELSE sched' = otherwise /\ UNCHANGED <<rec, clock>>

Completes ==
    /\ sched = "completing"
    /\ Ends("completed", "none", "finally", "failing")
    /\ UNCHANGED <<registered, files, queueVars, dogVars, creating, api, main,
                   workerVars, history>>

\* except RequestCancelled.
HandlesCancelled ==
    /\ sched = "cancelling"
    /\ files' = AfterRemoval(active)
    /\ Ends("cancelled", "none", "finally", "dying")
    /\ UNCHANGED <<registered, queueVars, dogVars, creating, api, main,
                   workerVars, history>>

\* except BaseException.
HandlesFailure ==
    /\ sched = "failing"
    /\ files' = AfterRemoval(active)
    /\ IF fatal = "none"
       THEN Ends("failed", "request_failed", "finally", "dying")
       ELSE Ends("failed", "worker_group_fatal", "draining", "dying")
    /\ UNCHANGED <<registered, queueVars, dogVars, creating, api, main,
                   workerVars, history>>

\* Either handler fails to remove a file: the task is left as it is.
RemovalFails ==
    /\ sched \in {"cancelling", "failing"} /\ "filesystem" \in Faults
    /\ sched' = "dying"
    /\ UNCHANGED <<storeVars, queueVars, dogVars, creating, api, main,
                   workerVars, history>>

\* Bug seeded to test the checks: the queue is cleared, its tasks are not told.
Mut_DrainQueue ==
    /\ accepting' = FALSE
    /\ queue' = <<>>
    /\ UNCHANGED <<clock, rec, files>>

\* No more work is taken and the queue is cleared; of the waiting tasks those
\* in ended are cancelled, and those in cleaned lose their files.
Drain(ended, cleaned) ==
    /\ accepting' = FALSE
    /\ queue' = <<>>
    /\ clock' = clock + 1
    /\ rec' = CancelAll(rec, ended, clock + 1)
    /\ files' = [t \in Tasks |-> IF \E i \in DOMAIN cleaned : cleaned[i] = t
                                 THEN files[t] \cap {"dir"} ELSE files[t]]

\* Every waiting task is cancelled.
DrainQueue == Drain(queue, queue)

\* ... or a file of one cannot be removed: those behind it stay QUEUED and
\* are in no queue any more.
DrainBreaks ==
    /\ "filesystem" \in Faults
    /\ \E i \in DOMAIN queue : Drain(SubSeq(queue, 1, i), SubSeq(queue, 1, i - 1))

\* The group is beyond repair.
DrainsAfterFatal ==
    /\ sched = "draining" /\ LockFree
    /\ \/ DrainQueue /\ sched' = "finally"
       \/ DrainBreaks /\ sched' = "dying"
    /\ UNCHANGED <<registered, active, dogVars, creating, api, main, workerVars,
                   history>>

\* finally, on the way back to the loop or out of the thread.
Finishes ==
    /\ sched \in {"finally", "dying"} /\ LockFree
    /\ active' = NoTask
    /\ sched' = IF sched = "finally" THEN "loop" ELSE "dead"
    /\ UNCHANGED <<storeVars, queue, accepting, dogVars, creating, api, main,
                   workerVars, history>>

RunEnds == CheckpointCancels \/ RunSucceeds \/ RunFails \/ RunFailsFatally

SchedulerThread ==
    \/ LoopHead \/ Wakes \/ SweepBreaks \/ Starts \/ ChecksCancelled \/ Dispatches
    \/ ReportsProgress \/ RunEnds
    \/ BeginsPublication \/ PublicationFails \/ PublishesLocally \/ PublishesRemotely
    \/ Completes \/ HandlesCancelled \/ HandlesFailure \/ RemovalFails
    \/ DrainsAfterFatal \/ Finishes

-----------------------------------------------------------------------------
(***************************************************************************)
(* The watchdog threads, the main thread and the environment.              *)
(***************************************************************************)

\* The timeout has passed; the watchdog takes the lock and reads the record.
WatchdogWakes(t) ==
    /\ t \in watchdogs /\ LockFree
    /\ watchdogs' = watchdogs \ {t}
    /\ firing' = IF /\ t \in registered
                    /\ rec[t].status = "running"
                    /\ rec[t].cancellation_requested
                 THEN t ELSE NoTask
    /\ UNCHANGED <<storeVars, queueVars, sched, creating, api, main, workerVars,
                   history>>

\* ... and, still under the lock, retires the worker group.
WatchdogFires ==
    /\ firing # NoTask
    /\ firing' = NoTask
    /\ fatal' = "watchdog"
    /\ accepting' = FALSE
    /\ UNCHANGED <<storeVars, queue, active, watchdogs, sched, creating, api,
                   main, token, signalled, broken, history>>

\* The server has stopped and answered its last request: shutdown drains the
\* queue, which may raise, and looks for an active task.
ShutdownDrains ==
    /\ Serving /\ LockFree
    /\ \A t \in Tasks : creating[t] # "uploading"
    /\ \/ DrainQueue /\ main' = IF active = NoTask THEN "joining" ELSE "cancel_active"
       \/ DrainBreaks /\ main' = "raised"
    /\ UNCHANGED <<registered, active, dogVars, sched, creating, api, workerVars,
                   history>>

\* request_cancellation of the active task; of its errors only
\* task_finalizing is expected, any other leaves shutdown.
ShutdownFlagsActive ==
    /\ main = "cancel_active"
    /\ IF active \notin registered \/ IsTerminal(rec[active])
       THEN main' = "raised" /\ UNCHANGED rec
       ELSE IF rec[active].storage_committed
            THEN main' = "joining" /\ UNCHANGED rec
            ELSE /\ main' = "signal_active"
                 /\ rec' = [rec EXCEPT ![active] = RequestCancellation(@)]
    /\ UNCHANGED <<registered, files, clock, queueVars, dogVars, sched,
                   creating, api, workerVars, history>>

ShutdownSignalsActive ==
    /\ main = "signal_active"
    /\ SignalWorker(active)
    /\ main' = "joining"
    /\ UNCHANGED <<storeVars, queueVars, dogVars, sched, creating, api, token,
                   fatal, broken, history>>

\* The scheduler thread is joined and the worker group closed.
ShutdownJoins ==
    /\ main = "joining"
    /\ sched \in {"stopped", "dead"}
    /\ main' = "closed"
    /\ UNCHANGED <<storeVars, queueVars, dogVars, sched, creating, api,
                   workerVars, history>>

\* ... or the join times out and shutdown raises its RuntimeError.
ShutdownTimesOut ==
    /\ main = "joining"
    /\ sched \notin {"stopped", "dead"}
    /\ main' = "timed_out"
    /\ UNCHANGED <<storeVars, queueVars, dogVars, sched, creating, api,
                   workerVars, history>>

MainThread ==
    \/ ShutdownDrains \/ ShutdownFlagsActive \/ ShutdownSignalsActive
    \/ ShutdownJoins \/ ShutdownTimesOut

\* A rank is lost: from now on every collective operation raises.
GroupBreaks ==
    /\ "collective" \in Faults /\ ~broken
    /\ broken' = TRUE
    /\ UNCHANGED <<storeVars, queueVars, dogVars, sched, creating, api, main,
                   token, signalled, fatal, history>>

Next ==
    \/ EventLoop
    \/ SchedulerThread
    \/ \E t \in Tasks : WatchdogWakes(t)
    \/ WatchdogFires
    \/ MainThread
    \/ GroupBreaks

Spec == Init /\ [][Next]_vars
=============================================================================
