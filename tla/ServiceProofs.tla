--------------------------- MODULE ServiceProofs ---------------------------
(***************************************************************************)
(* Proofs about ServiceScheduler for any number of tasks, any queue bound  *)
(* and any set of environment faults: the invariant of the service, the    *)
(* contract of TaskContract, and how tasks end.                            *)
(***************************************************************************)
EXTENDS ServiceProperties, TLAPS

-----------------------------------------------------------------------------
(***************************************************************************)
(* The operators of TaskStore map records to records.                      *)
(***************************************************************************)


\* b is a well-formed record in which the same things have been decided as in
\* the record a; SameCore adds that its status is the same.
SameDecisions(a, b) ==
    /\ b \in TaskRecords
    /\ b.cancellation_requested = a.cancellation_requested
    /\ b.storage_committed = a.storage_committed
    /\ b.created_at = a.created_at

SameCore(a, b) == b.status = a.status /\ SameDecisions(a, b)

\* A new record is a task record, and carries neither decision.
LEMMA NewRecordFacts ==
    ASSUME NEW now \in Nat
    PROVE  /\ NewRecord(now) \in TaskRecords
           /\ NewRecord(now).status = "queued"
           /\ ~NewRecord(now).cancellation_requested
           /\ ~NewRecord(now).storage_committed
           /\ NewRecord(now).created_at = now
BY DEF NewRecord, TaskRecords, Statuses, Phases, Locations, Errors, NoPosition

\* TaskRecord.transition keeps the record well formed; it sets the status and
\* leaves both decisions and the creation time alone.
LEMMA TransitionFacts ==
    ASSUME NEW r \in TaskRecords, NEW s \in Statuses, NEW e \in Errors,
           NEW now \in Nat
    PROVE  LET n == Transition(r, s, e, now)
           IN  n.status = s /\ SameDecisions(r, n)
<1> DEFINE p  == IF s = "running" THEN "preparing" ELSE "terminal"
           c  == IF s = "running" THEN r.completed_at ELSE now
           n1 == [r EXCEPT !.status = s]
           n2 == [n1 EXCEPT !.error = e]
           n3 == [n2 EXCEPT !.queue_position = NoPosition]
           n4 == [n3 EXCEPT !.phase = p]
           n5 == [n4 EXCEPT !.completed_at = c]
<1>1. Transition(r, s, e, now) = n5
  BY DEF Transition
<1>2. p \in Phases /\ c \in Nat /\ NoPosition \in Int
  BY DEF Phases, NoPosition, TaskRecords
<1> HIDE DEF p, c
<1>3. n1.status = s /\ SameDecisions(r, n1)
  BY DEF TaskRecords, SameDecisions
<1> HIDE DEF n1
<1>4. n2.status = n1.status /\ SameDecisions(n1, n2)
  BY <1>3 DEF TaskRecords, SameDecisions
<1> HIDE DEF n2
<1>5. n3.status = n2.status /\ SameDecisions(n2, n3)
  BY <1>2, <1>4 DEF TaskRecords, SameDecisions
<1> HIDE DEF n3
<1>6. n4.status = n3.status /\ SameDecisions(n3, n4)
  BY <1>2, <1>5 DEF TaskRecords, SameDecisions
<1> HIDE DEF n4
<1>7. n5.status = n4.status /\ SameDecisions(n4, n5)
  BY <1>2, <1>6 DEF TaskRecords, SameDecisions
<1> HIDE DEF n5
<1> QED BY <1>1, <1>3, <1>4, <1>5, <1>6, <1>7 DEF SameDecisions

\* TaskRecord.update_progress touches nothing but the phase.
LEMMA UpdateProgressFacts ==
    ASSUME NEW r \in TaskRecords, NEW p \in Phases
    PROVE  SameCore(r, UpdateProgress(r, p))
BY DEF UpdateProgress, TaskRecords, SameCore, SameDecisions

\* TaskStore.request_cancellation, begin_result_publication and
\* set_result_storage: each takes its own decision and no other.
LEMMA SetterFacts ==
    ASSUME NEW r \in TaskRecords
    PROVE  /\ RequestCancellation(r) \in TaskRecords
           /\ RequestCancellation(r).cancellation_requested
           /\ RequestCancellation(r).status = r.status
           /\ RequestCancellation(r).storage_committed = r.storage_committed
           /\ RequestCancellation(r).created_at = r.created_at
           /\ BeginResultPublication(r) \in TaskRecords
           /\ BeginResultPublication(r).storage_committed
           /\ BeginResultPublication(r).status = r.status
           /\ BeginResultPublication(r).cancellation_requested = r.cancellation_requested
           /\ BeginResultPublication(r).created_at = r.created_at
           /\ \A l \in Locations : SameCore(r, SetResultStorage(r, l))
<1> DEFINE c == [r EXCEPT !.storage_committed = TRUE]
<1>1. /\ RequestCancellation(r) \in TaskRecords
      /\ RequestCancellation(r).cancellation_requested
      /\ RequestCancellation(r).status = r.status
      /\ RequestCancellation(r).storage_committed = r.storage_committed
      /\ RequestCancellation(r).created_at = r.created_at
  BY DEF RequestCancellation, TaskRecords
<1>2. /\ c \in TaskRecords
      /\ c.storage_committed
      /\ c.status = r.status
      /\ c.cancellation_requested = r.cancellation_requested
      /\ c.created_at = r.created_at
  BY DEF TaskRecords
<1>3. BeginResultPublication(r) = UpdateProgress(c, "finalizing")
  BY DEF BeginResultPublication
<1>4. "finalizing" \in Phases
  BY DEF Phases
<1> HIDE DEF c
<1>5. SameCore(c, BeginResultPublication(r))
  BY <1>2, <1>3, <1>4, UpdateProgressFacts
<1>6. \A l \in Locations : SameCore(r, SetResultStorage(r, l))
  BY DEF SetResultStorage, TaskRecords, SameCore, SameDecisions
<1> QED BY <1>1, <1>2, <1>5, <1>6 DEF SameCore, SameDecisions

\* update_queue_positions touches nothing but the queue positions.
LEMMA UpdateQueuePositionsFacts ==
    ASSUME NEW table \in [Tasks -> TaskRecords], NEW reg, NEW q \in Seq(Tasks)
    PROVE  LET new == UpdateQueuePositions(table, reg, q)
           IN  /\ new \in [Tasks -> TaskRecords]
               /\ \A t \in Tasks : SameCore(table[t], new[t])
<1> DEFINE new == UpdateQueuePositions(table, reg, q)
<1>1. ASSUME NEW t \in Tasks
      PROVE  SameCore(table[t], new[t])
  <2>1. CASE t \in reg /\ table[t].status = "queued" /\ \E i \in DOMAIN q : q[i] = t
    <3> DEFINE n == (CHOOSE i \in DOMAIN q : q[i] = t) - 1
    <3>1. n \in Int
      BY <2>1
    <3>2. new[t] = [table[t] EXCEPT !.queue_position = n]
      BY <2>1 DEF UpdateQueuePositions
    <3> HIDE DEF n
    <3>3. SameCore(table[t], [table[t] EXCEPT !.queue_position = n])
      BY <3>1 DEF TaskRecords, SameCore, SameDecisions
    <3> QED BY <3>2, <3>3
  <2>2. CASE ~(t \in reg /\ table[t].status = "queued" /\ \E i \in DOMAIN q : q[i] = t)
    <3>1. new[t] = table[t]
      BY <2>2 DEF UpdateQueuePositions
    <3> QED BY <3>1 DEF SameCore, SameDecisions
  <2> QED BY <2>1, <2>2
<1>2. new \in [Tasks -> TaskRecords]
  BY <1>1 DEF UpdateQueuePositions, SameCore, SameDecisions
<1> QED BY <1>1, <1>2

\* A drain cancels the tasks in the queue and touches no other.
LEMMA CancelAllFacts ==
    ASSUME NEW table \in [Tasks -> TaskRecords], NEW q \in Seq(Tasks),
           NEW now \in Nat
    PROVE  LET new == CancelAll(table, q, now)
           IN  /\ new \in [Tasks -> TaskRecords]
               /\ \A t \in Tasks : (~ \E i \in DOMAIN q : q[i] = t) => new[t] = table[t]
               /\ \A t \in Tasks : (\E i \in DOMAIN q : q[i] = t) =>
                    /\ new[t].status = "cancelled"
                    /\ new[t].cancellation_requested
                    /\ new[t].storage_committed = table[t].storage_committed
                    /\ new[t].created_at = table[t].created_at
<1> DEFINE new == CancelAll(table, q, now)
           n(t) == Transition(RequestCancellation(table[t]), "cancelled", "none", now)
<1>1. ASSUME NEW t \in Tasks
      PROVE  /\ n(t) \in TaskRecords
             /\ n(t).status = "cancelled"
             /\ n(t).cancellation_requested
             /\ n(t).storage_committed = table[t].storage_committed
             /\ n(t).created_at = table[t].created_at
  <2>1. "cancelled" \in Statuses /\ "none" \in Errors
    BY DEF Statuses, Errors
  <2>2. table[t] \in TaskRecords
    OBVIOUS
  <2> QED BY <2>1, <2>2, SetterFacts, TransitionFacts DEF SameDecisions
<1>2. \A t \in Tasks : (\E i \in DOMAIN q : q[i] = t) => new[t] = n(t)
  BY DEF CancelAll
<1>3. \A t \in Tasks : (~ \E i \in DOMAIN q : q[i] = t) => new[t] = table[t]
  BY DEF CancelAll
<1> HIDE DEF n
<1>4. \A t \in Tasks : new[t] \in TaskRecords
  BY <1>1, <1>2, <1>3
<1>5. new \in [Tasks -> TaskRecords]
  BY <1>4 DEF CancelAll
<1> QED BY <1>1, <1>2, <1>3, <1>5

\* Removing a task from a queue without repetitions leaves the other tasks,
\* each once and in their order.
LEMMA WithoutFacts ==
    ASSUME NEW q \in Seq(Tasks), NEW t \in Tasks,
           \A i, j \in DOMAIN q : q[i] = q[j] => i = j
    PROVE  /\ Without(q, t) \in Seq(Tasks)
           /\ \A i, j \in DOMAIN Without(q, t) : Without(q, t)[i] = Without(q, t)[j] => i = j
           /\ \A i \in DOMAIN Without(q, t) : /\ Without(q, t)[i] # t
                                              /\ \E j \in DOMAIN q : Without(q, t)[i] = q[j]
           /\ Len(Without(q, t)) <= Len(q)
<1>1. CASE ~ \E i \in DOMAIN q : q[i] = t
  BY <1>1 DEF Without
<1>2. CASE \E i \in DOMAIN q : q[i] = t
  <2> DEFINE c == CHOOSE i \in DOMAIN q : q[i] = t
             w == [j \in 1..(Len(q) - 1) |-> IF j < c THEN q[j] ELSE q[j + 1]]
  <2>1. c \in 1..Len(q) /\ q[c] = t
    BY <1>2
  <2>2. Without(q, t) = w
    BY <1>2 DEF Without
  <2> HIDE DEF c
  <2>3. w \in Seq(Tasks) /\ Len(w) = Len(q) - 1 /\ DOMAIN w = 1..(Len(q) - 1)
    <3>1. Len(q) - 1 \in Nat
      BY <2>1
    <3>2. \A j \in 1..(Len(q) - 1) : w[j] \in Tasks
      BY <2>1
    <3> QED BY <3>1, <3>2
  <2>4. \A i, j \in 1..(Len(q) - 1) : w[i] = w[j] => i = j
    BY <2>1
  <2>5. \A i \in 1..(Len(q) - 1) : w[i] # t /\ \E j \in DOMAIN q : w[i] = q[j]
    BY <2>1
  <2> HIDE DEF w
  <2>6. Len(q) - 1 <= Len(q)
    OBVIOUS
  <2> QED BY <2>2, <2>3, <2>4, <2>5, <2>6
<1> QED BY <1>1, <1>2

-----------------------------------------------------------------------------
(***************************************************************************)
(* The inductive invariant.                                                *)
(***************************************************************************)

\* A task that has not been submitted has a blank record, a registered one
\* has been submitted, and the two decisions exclude each other.
RecordsOK ==
    \A t \in Tasks :
        /\ creating[t] # "done" =>
              /\ t \notin registered
              /\ rec[t].created_at = 0
              /\ ~rec[t].cancellation_requested
              /\ ~rec[t].storage_committed
        /\ t \in registered => rec[t].created_at > 0
        /\ ~(rec[t].cancellation_requested /\ rec[t].storage_committed)
        /\ rec[t].storage_committed => rec[t].status # "queued"

\* What waits is registered, still queued, wanted, listed once and not being
\* run, and there is room for it.
QueueOK ==
    /\ \A i, j \in DOMAIN queue : queue[i] = queue[j] => i = j
    /\ \A i \in DOMAIN queue : /\ queue[i] \in registered
                               /\ rec[queue[i]].status = "queued"
                               /\ ~rec[queue[i]].cancellation_requested
                               /\ queue[i] # active
    /\ Len(queue) <= MaxQueuedTasks

DeleteOps == {"drop_queued", "cancel_queued", "flag_running", "signal_running"}

\* While cancel_or_purge holds the lock its task cannot be purged, and the
\* request it has made stands.
ApiOK ==
    /\ api.op = "submit" => api.task \in Tasks /\ creating[api.task] = "uploading"
    /\ api.op \in DeleteOps => api.task \in registered
    /\ api.op \in {"drop_queued", "cancel_queued"} =>
          \A i \in DOMAIN queue : queue[i] # api.task
    /\ api.op = "flag_running" => rec[api.task].status # "queued"
    /\ api.op \in {"cancel_queued", "signal_running"} =>
          rec[api.task].cancellation_requested

Working == SchedulerPoints \ {"loop", "waiting", "stopped", "dead"}

\* Where the scheduler thread stands says what it knows of the active task.
SchedOK ==
    /\ active # NoTask => creating[active] = "done"
    /\ sched \in Working => active # NoTask
    /\ sched = "cancelling" => rec[active].cancellation_requested
    /\ sched \in {"publishing", "completing"} => rec[active].storage_committed

\* The worker group's token is the active task's, during its run only.
TokenOK ==
    /\ sched = "executing" => token = active
    /\ token # NoTask => sched = "executing"
    /\ signalled => token # NoTask /\ rec[token].cancellation_requested

\* Shutdown keeps the lock, so the active task stays while it is cancelled.
MainOK ==
    /\ main \in {"cancel_active", "signal_active"} => active # NoTask
    /\ main = "signal_active" => rec[active].cancellation_requested

IInv == ServiceTypeOK /\ RecordsOK /\ QueueOK /\ ApiOK /\ SchedOK /\ TokenOK /\ MainOK

-----------------------------------------------------------------------------
(***************************************************************************)
(* Every step keeps the invariant: one lemma per action.                   *)
(***************************************************************************)

USE DEF storeVars, queueVars, dogVars, workerVars, history

\* create_video starts an upload.
LEMMA CreateBeginsInv ==
    ASSUME IInv, NEW t \in Tasks, CreateBegins(t)
    PROVE  IInv'
<1>0. ServiceTypeOK
  BY DEF IInv
<1>1. ServiceTypeOK'
  BY <1>0 DEF ServiceTypeOK, CreateBegins, Artifacts
<1>2. RecordsOK' /\ QueueOK' /\ ApiOK' /\ SchedOK' /\ TokenOK' /\ MainOK'
  BY <1>0, ServiceAssumption DEF IInv, ServiceTypeOK, RecordsOK, QueueOK,
      ApiOK, SchedOK, TokenOK, MainOK, CreateBegins, Serving, LockFree,
      Artifacts, DeleteOps, Working, SchedulerPoints
<1> QED BY <1>1, <1>2 DEF IInv

\* create_video gives up.
LEMMA CreateAbortedInv ==
    ASSUME IInv, NEW t \in Tasks, CreateAborted(t)
    PROVE  IInv'
<1>0. ServiceTypeOK
  BY DEF IInv
<1>1. ServiceTypeOK'
  BY <1>0 DEF ServiceTypeOK, CreateAborted
<1>2. RecordsOK' /\ QueueOK' /\ ApiOK' /\ SchedOK' /\ TokenOK' /\ MainOK'
  BY <1>0, ServiceAssumption DEF IInv, ServiceTypeOK, RecordsOK, QueueOK,
      ApiOK, SchedOK, TokenOK, MainOK, CreateAborted, Serving, LockFree,
      DeleteOps, Working, SchedulerPoints
<1> QED BY <1>1, <1>2 DEF IInv

\* create_video is about to submit.
LEMMA CreateRechecksInv ==
    ASSUME IInv, NEW t \in Tasks, CreateRechecks(t)
    PROVE  IInv'
<1>0. ServiceTypeOK
  BY DEF IInv
<1>1. ServiceTypeOK'
  BY <1>0 DEF ServiceTypeOK, CreateRechecks, ApiOps
<1>2. RecordsOK' /\ QueueOK' /\ ApiOK' /\ SchedOK' /\ TokenOK' /\ MainOK'
  BY <1>0, ServiceAssumption DEF IInv, ServiceTypeOK, RecordsOK, QueueOK,
      ApiOK, SchedOK, TokenOK, MainOK, CreateRechecks, Serving, LockFree,
      DeleteOps, Working, SchedulerPoints
<1> QED BY <1>1, <1>2 DEF IInv

\* ServiceScheduler.submit registers and queues a blank record, or refuses.
LEMMA SubmitInv ==
    ASSUME IInv, Submit
    PROVE  IInv'
<1> DEFINE t == api.task
           r == NewRecord(clock + 1)
           blank == [rec EXCEPT ![t] = r]
<1>1. ServiceTypeOK
  BY DEF IInv
<1>2. t \in Tasks /\ creating[t] = "uploading" /\ t \notin registered
  BY DEF IInv, ApiOK, RecordsOK, Submit
<1>3. /\ api' = ApiIdle
      /\ creating' = [creating EXCEPT ![t] = "done"]
      /\ UNCHANGED <<accepting, active, watchdogs, firing, sched, main, token,
                     signalled, fatal, broken, unlisted>>
  BY DEF Submit
<1>4. CASE ~(accepting /\ ~QueueFull)
  <2>1. files' = [files EXCEPT ![t] = {}] /\ UNCHANGED <<rec, registered, clock, queue>>
    BY <1>4 DEF Submit
  <2>2. ServiceTypeOK'
    BY <1>1, <1>2, <1>3, <2>1 DEF ServiceTypeOK, ApiIdle, ApiOps
  <2>3. RecordsOK'
    BY <1>1, <1>2, <1>3, <2>1 DEF IInv, ServiceTypeOK, RecordsOK
  <2>4. QueueOK' /\ ApiOK'
    BY <1>3, <2>1 DEF IInv, QueueOK, ApiOK, ApiIdle, DeleteOps
  <2>5. SchedOK' /\ TokenOK' /\ MainOK'
    BY <1>1, <1>2, <1>3, <2>1 DEF IInv, ServiceTypeOK, SchedOK, TokenOK, MainOK
  <2> QED BY <2>2, <2>3, <2>4, <2>5 DEF IInv
<1>5. CASE accepting /\ ~QueueFull
  <2>1. /\ clock' = clock + 1
        /\ registered' = registered \cup {t}
        /\ queue' = Append(queue, t)
        /\ rec' = UpdateQueuePositions(blank, registered', queue')
        /\ files' = files
    BY <1>5 DEF Submit
  <2>2. /\ r \in TaskRecords
        /\ r.status = "queued"
        /\ ~r.cancellation_requested
        /\ ~r.storage_committed
        /\ r.created_at = clock + 1
    BY <1>1, NewRecordFacts DEF ServiceTypeOK
  <2>3. /\ blank \in [Tasks -> TaskRecords]
        /\ blank[t] = r
        /\ \A u \in Tasks \ {t} : blank[u] = rec[u]
    BY <1>1, <1>2, <2>2 DEF ServiceTypeOK
  <2> HIDE DEF r, blank
  <2>4. /\ queue' \in Seq(Tasks)
        /\ Len(queue') = Len(queue) + 1
        /\ \A i \in 1..Len(queue) : queue'[i] = queue[i]
        /\ queue'[Len(queue) + 1] = t
    BY <1>1, <1>2, <2>1 DEF ServiceTypeOK
  <2>5. /\ rec' \in [Tasks -> TaskRecords]
        /\ \A u \in Tasks : SameCore(blank[u], rec'[u])
    BY <2>1, <2>3, <2>4, UpdateQueuePositionsFacts
  <2>6. \A u \in Tasks \ {t} :
           /\ rec'[u].status = rec[u].status
           /\ rec'[u].cancellation_requested = rec[u].cancellation_requested
           /\ rec'[u].storage_committed = rec[u].storage_committed
           /\ rec'[u].created_at = rec[u].created_at
    BY <2>3, <2>5 DEF SameCore, SameDecisions
  <2>7. /\ rec'[t].status = "queued"
        /\ ~rec'[t].cancellation_requested
        /\ ~rec'[t].storage_committed
        /\ rec'[t].created_at = clock + 1
    BY <1>2, <2>2, <2>3, <2>5 DEF SameCore, SameDecisions
  <2>8. ServiceTypeOK'
    <3>1. /\ registered' \in SUBSET Tasks
          /\ clock' \in Nat
          /\ api' \in [op : ApiOps, task : Tasks \cup {NoTask}]
          /\ creating' \in [Tasks -> {"unused", "uploading", "done"}]
      BY <1>1, <1>2, <1>3, <2>1 DEF ServiceTypeOK, ApiIdle, ApiOps
    <3> QED BY <1>1, <1>3, <2>1, <2>4, <2>5, <3>1 DEF ServiceTypeOK
  <2>9. RecordsOK'
    <3> SUFFICES ASSUME NEW u \in Tasks
                 PROVE  /\ creating'[u] # "done" =>
                              /\ u \notin registered'
                              /\ rec'[u].created_at = 0
                              /\ ~rec'[u].cancellation_requested
                              /\ ~rec'[u].storage_committed
                        /\ u \in registered' => rec'[u].created_at > 0
                        /\ ~(rec'[u].cancellation_requested /\ rec'[u].storage_committed)
                        /\ rec'[u].storage_committed => rec'[u].status # "queued"
      BY DEF RecordsOK
    <3>1. CASE u = t
      BY <1>1, <1>2, <1>3, <2>7, <3>1 DEF ServiceTypeOK
    <3>2. CASE u # t
      BY <1>1, <1>3, <2>1, <2>6, <3>2 DEF IInv, ServiceTypeOK, RecordsOK
    <3> QED BY <3>1, <3>2
  <2>10. QueueOK'
    <3>1. \A i \in DOMAIN queue : queue[i] # t /\ queue[i] \in Tasks
      BY <1>1, <1>2 DEF IInv, QueueOK, ServiceTypeOK
    <3>2. DOMAIN queue = 1..Len(queue) /\ DOMAIN queue' = 1..(Len(queue) + 1) /\ Len(queue) \in Nat
      BY <1>1, <2>4 DEF ServiceTypeOK
    <3>3. \A i, j \in DOMAIN queue' : queue'[i] = queue'[j] => i = j
      BY <2>4, <3>1, <3>2 DEF IInv, QueueOK
    <3>4. t # active
      BY <1>2, ServiceAssumption DEF IInv, SchedOK
    <3>5. \A i \in DOMAIN queue' : /\ queue'[i] \in registered'
                                   /\ rec'[queue'[i]].status = "queued"
                                   /\ ~rec'[queue'[i]].cancellation_requested
                                   /\ queue'[i] # active'
      <4> SUFFICES ASSUME NEW i \in DOMAIN queue'
                   PROVE  /\ queue'[i] \in registered'
                          /\ rec'[queue'[i]].status = "queued"
                          /\ ~rec'[queue'[i]].cancellation_requested
                          /\ queue'[i] # active'
        OBVIOUS
      <4>1. CASE i \in DOMAIN queue
        <5>1. queue'[i] = queue[i] /\ queue[i] \in Tasks \ {t}
          BY <2>4, <3>1, <3>2, <4>1
        <5>2. /\ queue[i] \in registered
              /\ rec[queue[i]].status = "queued"
              /\ ~rec[queue[i]].cancellation_requested
              /\ queue[i] # active
          BY <4>1 DEF IInv, QueueOK
        <5> QED BY <1>3, <2>1, <2>6, <5>1, <5>2
      <4>2. CASE i = Len(queue) + 1
        BY <1>3, <2>1, <2>4, <2>7, <3>4, <4>2
      <4> QED BY <3>2, <4>1, <4>2
    <3>6. Len(queue') <= MaxQueuedTasks
      BY <1>5, <2>4, <3>2, ServiceAssumption DEF QueueFull
    <3> QED BY <3>3, <3>5, <3>6 DEF QueueOK
  <2>11. ApiOK'
    BY <1>3 DEF ApiOK, ApiIdle, DeleteOps
  <2>12. SchedOK' /\ TokenOK' /\ MainOK'
    BY <1>1, <1>2, <1>3, <2>6 DEF IInv, ServiceTypeOK, SchedOK, TokenOK, MainOK, Working
  <2> QED BY <2>8, <2>9, <2>10, <2>11, <2>12 DEF IInv
<1> QED BY <1>4, <1>5

\* DELETE of an ended task.
LEMMA DeletePurgesInv ==
    ASSUME IInv, NEW t \in Tasks, DeletePurges(t)
    PROVE  IInv'
<1>0. ServiceTypeOK
  BY DEF IInv
<1>1. ServiceTypeOK'
  BY <1>0 DEF ServiceTypeOK, DeletePurges
<1>2. RecordsOK' /\ QueueOK' /\ ApiOK' /\ SchedOK' /\ TokenOK' /\ MainOK'
  BY <1>0, ServiceAssumption DEF IInv, ServiceTypeOK, RecordsOK, QueueOK,
      ApiOK, SchedOK, TokenOK, MainOK, DeletePurges, Serving, LockFree,
      IsTerminal, TerminalStatuses, DeleteOps, Working, SchedulerPoints
<1> QED BY <1>1, <1>2 DEF IInv

\* DELETE takes a task out of the queue.
LEMMA DeleteFindsQueuedInv ==
    ASSUME IInv, NEW t \in Tasks, DeleteFindsQueued(t)
    PROVE  IInv'
<1>0. ServiceTypeOK
  BY DEF IInv
<1>1. /\ queue' \in Seq(Tasks)
      /\ \A i, j \in DOMAIN queue' : queue'[i] = queue'[j] => i = j
      /\ \A i \in DOMAIN queue' : /\ queue'[i] # t
                                  /\ \E j \in DOMAIN queue : queue'[i] = queue[j]
      /\ Len(queue') <= Len(queue)
  BY WithoutFacts DEF IInv, ServiceTypeOK, QueueOK, DeleteFindsQueued
<1>2. ServiceTypeOK'
  BY <1>0, <1>1 DEF ServiceTypeOK, DeleteFindsQueued, ApiOps, InQueue
<1>3. RecordsOK' /\ QueueOK' /\ ApiOK' /\ SchedOK' /\ TokenOK' /\ MainOK'
  BY <1>0, <1>1, ServiceAssumption DEF IInv, ServiceTypeOK, RecordsOK,
      QueueOK, ApiOK, SchedOK, TokenOK, MainOK, DeleteFindsQueued, Serving,
      LockFree, InQueue, DeleteOps, Working, SchedulerPoints
<1> QED BY <1>2, <1>3 DEF IInv

\* DELETE flags a task it found queued.
LEMMA DeleteFlagsQueuedInv ==
    ASSUME IInv, DeleteFlagsQueued
    PROVE  IInv'
<1>0. ServiceTypeOK
  BY DEF IInv
<1>1. api.task \in Tasks
  BY DEF IInv, ServiceTypeOK, ApiOK, DeleteOps, DeleteFlagsQueued
<1>2. /\ RequestCancellation(rec[api.task]) \in TaskRecords
      /\ RequestCancellation(rec[api.task]).cancellation_requested
      /\ RequestCancellation(rec[api.task]).status = rec[api.task].status
      /\ RequestCancellation(rec[api.task]).storage_committed = rec[api.task].storage_committed
      /\ RequestCancellation(rec[api.task]).created_at = rec[api.task].created_at
  BY <1>1, SetterFacts DEF IInv, ServiceTypeOK
<1>ty. ServiceTypeOK'
  BY <1>0, <1>1, <1>2 DEF ServiceTypeOK, DeleteFlagsQueued, ApiIdle, ApiOps
<1>re. RecordsOK'
  <2>1. creating[api.task] = "done"
    BY <1>1 DEF IInv, ApiOK, RecordsOK, DeleteOps, DeleteFlagsQueued
  <2>2. CASE CancellationRefused(rec[api.task])
    BY <2>2 DEF IInv, RecordsOK, DeleteFlagsQueued
  <2>3. CASE ~CancellationRefused(rec[api.task])
    <3>1. ~rec[api.task].storage_committed
      BY <2>3 DEF CancellationRefused
    <3>2. /\ rec'[api.task] = RequestCancellation(rec[api.task])
          /\ \A u \in Tasks \ {api.task} : rec'[u] = rec[u]
      BY <1>0, <1>1, <2>3 DEF ServiceTypeOK, DeleteFlagsQueued
    <3>3. registered' = registered /\ creating' = creating
      BY DEF DeleteFlagsQueued
    <3> QED BY <1>2, <2>1, <3>1, <3>2, <3>3 DEF IInv, RecordsOK
  <2> QED BY <2>2, <2>3
<1>qu. QueueOK'
  BY <1>0, <1>1, <1>2, ServiceAssumption DEF IInv, ServiceTypeOK, RecordsOK,
      QueueOK, ApiOK, SchedOK, TokenOK, MainOK, DeleteFlagsQueued, ApiIdle,
      CancellationRefused
<1>ap. ApiOK'
  BY <1>0, <1>1, <1>2 DEF IInv, ServiceTypeOK, RecordsOK, QueueOK, ApiOK,
      SchedOK, TokenOK, MainOK, DeleteFlagsQueued, ApiIdle,
      CancellationRefused, DeleteOps
<1>sc. SchedOK'
  BY <1>0, <1>1, <1>2, ServiceAssumption DEF IInv, ServiceTypeOK, RecordsOK,
      QueueOK, ApiOK, SchedOK, TokenOK, MainOK, DeleteFlagsQueued, ApiIdle,
      CancellationRefused, Working, SchedulerPoints
<1>to. TokenOK'
  BY <1>0, <1>1, <1>2, ServiceAssumption DEF IInv, ServiceTypeOK, RecordsOK,
      QueueOK, ApiOK, SchedOK, TokenOK, MainOK, DeleteFlagsQueued, ApiIdle,
      CancellationRefused
<1>ma. MainOK'
  BY <1>0, <1>1, <1>2 DEF IInv, ServiceTypeOK, RecordsOK, QueueOK, ApiOK,
      SchedOK, TokenOK, MainOK, DeleteFlagsQueued, ApiIdle,
      CancellationRefused
<1> QED BY <1>ty, <1>re, <1>qu, <1>ap, <1>sc, <1>to, <1>ma DEF IInv

\* DELETE flags a task it found running.
LEMMA DeleteFlagsRunningInv ==
    ASSUME IInv, DeleteFlagsRunning
    PROVE  IInv'
<1>0. ServiceTypeOK
  BY DEF IInv
<1>1. api.task \in Tasks
  BY DEF IInv, ServiceTypeOK, ApiOK, DeleteOps, DeleteFlagsRunning
<1>2. /\ RequestCancellation(rec[api.task]) \in TaskRecords
      /\ RequestCancellation(rec[api.task]).cancellation_requested
      /\ RequestCancellation(rec[api.task]).status = rec[api.task].status
      /\ RequestCancellation(rec[api.task]).storage_committed = rec[api.task].storage_committed
      /\ RequestCancellation(rec[api.task]).created_at = rec[api.task].created_at
  BY <1>1, SetterFacts DEF IInv, ServiceTypeOK
<1>ty. ServiceTypeOK'
  BY <1>0, <1>1, <1>2 DEF ServiceTypeOK, DeleteFlagsRunning, ApiIdle, ApiOps
<1>re. RecordsOK'
  <2>1. creating[api.task] = "done"
    BY <1>1 DEF IInv, ApiOK, RecordsOK, DeleteOps, DeleteFlagsRunning
  <2>2. CASE CancellationRefused(rec[api.task])
    BY <2>2 DEF IInv, RecordsOK, DeleteFlagsRunning
  <2>3. CASE ~CancellationRefused(rec[api.task])
    <3>1. ~rec[api.task].storage_committed
      BY <2>3 DEF CancellationRefused
    <3>2. /\ rec'[api.task] = RequestCancellation(rec[api.task])
          /\ \A u \in Tasks \ {api.task} : rec'[u] = rec[u]
      BY <1>0, <1>1, <2>3 DEF ServiceTypeOK, DeleteFlagsRunning
    <3>3. registered' = registered /\ creating' = creating
      BY DEF DeleteFlagsRunning
    <3> QED BY <1>2, <2>1, <3>1, <3>2, <3>3 DEF IInv, RecordsOK
  <2> QED BY <2>2, <2>3
<1>qu. QueueOK'
  BY <1>0, <1>1, <1>2, ServiceAssumption DEF IInv, ServiceTypeOK, RecordsOK,
      QueueOK, ApiOK, SchedOK, TokenOK, MainOK, DeleteFlagsRunning, ApiIdle,
      CancellationRefused
<1>ap. ApiOK'
  BY <1>0, <1>1, <1>2 DEF IInv, ServiceTypeOK, RecordsOK, QueueOK, ApiOK,
      SchedOK, TokenOK, MainOK, DeleteFlagsRunning, ApiIdle,
      CancellationRefused, DeleteOps
<1>sc. SchedOK'
  BY <1>0, <1>1, <1>2, ServiceAssumption DEF IInv, ServiceTypeOK, RecordsOK,
      QueueOK, ApiOK, SchedOK, TokenOK, MainOK, DeleteFlagsRunning, ApiIdle,
      CancellationRefused, Working, SchedulerPoints
<1>to. TokenOK'
  BY <1>0, <1>1, <1>2, ServiceAssumption DEF IInv, ServiceTypeOK, RecordsOK,
      QueueOK, ApiOK, SchedOK, TokenOK, MainOK, DeleteFlagsRunning, ApiIdle,
      CancellationRefused
<1>ma. MainOK'
  BY <1>0, <1>1, <1>2 DEF IInv, ServiceTypeOK, RecordsOK, QueueOK, ApiOK,
      SchedOK, TokenOK, MainOK, DeleteFlagsRunning, ApiIdle,
      CancellationRefused
<1> QED BY <1>ty, <1>re, <1>qu, <1>ap, <1>sc, <1>to, <1>ma DEF IInv

\* DELETE finds a running task.
LEMMA DeleteFindsRunningInv ==
    ASSUME IInv, NEW t \in Tasks, DeleteFindsRunning(t)
    PROVE  IInv'
<1>0. ServiceTypeOK
  BY DEF IInv
<1>1. ServiceTypeOK'
  BY <1>0 DEF ServiceTypeOK, DeleteFindsRunning, ApiOps
<1>2. RecordsOK' /\ QueueOK' /\ ApiOK' /\ SchedOK' /\ TokenOK' /\ MainOK'
  BY <1>0, ServiceAssumption DEF IInv, ServiceTypeOK, RecordsOK, QueueOK,
      ApiOK, SchedOK, TokenOK, MainOK, DeleteFindsRunning, Serving, LockFree,
      DeleteOps, Working, SchedulerPoints
<1> QED BY <1>1, <1>2 DEF IInv

\* DELETE tells the worker group.
LEMMA DeleteSignalsRunningInv ==
    ASSUME IInv, DeleteSignalsRunning
    PROVE  IInv'
<1>0. ServiceTypeOK
  BY DEF IInv
<1>1. signalled' \in BOOLEAN /\ (signalled' => signalled \/ token = api.task)
  BY <1>0 DEF ServiceTypeOK, DeleteSignalsRunning, SignalWorker
<1>2. api.task \in Tasks
  BY <1>0 DEF IInv, ServiceTypeOK, ApiOK, DeleteOps, DeleteSignalsRunning
<1>3. ServiceTypeOK'
  BY <1>0, <1>1, <1>2 DEF ServiceTypeOK, DeleteSignalsRunning, ApiIdle, ApiOps
<1>4. RecordsOK' /\ QueueOK' /\ ApiOK' /\ SchedOK' /\ TokenOK' /\ MainOK'
  BY <1>0, <1>1, <1>2, ServiceAssumption DEF IInv, ServiceTypeOK, RecordsOK,
      QueueOK, ApiOK, SchedOK, TokenOK, MainOK, DeleteSignalsRunning, ApiIdle,
      DeleteOps, Working, SchedulerPoints
<1> QED BY <1>3, <1>4 DEF IInv

\* The run is handed to the worker group.
LEMMA DispatchesInv ==
    ASSUME IInv, Dispatches
    PROVE  IInv'
<1>0. ServiceTypeOK
  BY DEF IInv
<1>1. ServiceTypeOK'
  BY <1>0 DEF ServiceTypeOK, Dispatches, SchedulerPoints
<1>2. RecordsOK' /\ QueueOK' /\ ApiOK' /\ SchedOK' /\ TokenOK' /\ MainOK'
  BY <1>0, ServiceAssumption DEF IInv, ServiceTypeOK, RecordsOK, QueueOK,
      ApiOK, SchedOK, TokenOK, MainOK, Dispatches, DeleteOps, Working,
      SchedulerPoints
<1> QED BY <1>1, <1>2 DEF IInv

\* A checkpoint sees the request.
LEMMA CheckpointCancelsInv ==
    ASSUME IInv, CheckpointCancels
    PROVE  IInv'
<1>0. ServiceTypeOK
  BY DEF IInv
<1>1. ServiceTypeOK'
  BY <1>0 DEF ServiceTypeOK, CheckpointCancels, Returns, SchedulerPoints
<1>2. RecordsOK' /\ QueueOK' /\ ApiOK' /\ SchedOK' /\ TokenOK' /\ MainOK'
  BY <1>0, ServiceAssumption DEF IInv, ServiceTypeOK, RecordsOK, QueueOK,
      ApiOK, SchedOK, TokenOK, MainOK, CheckpointCancels, Returns, DeleteOps,
      Working, SchedulerPoints
<1> QED BY <1>1, <1>2 DEF IInv

\* The run succeeds.
LEMMA RunSucceedsInv ==
    ASSUME IInv, RunSucceeds
    PROVE  IInv'
<1>0. ServiceTypeOK
  BY DEF IInv
<1>1. ServiceTypeOK'
  BY <1>0 DEF ServiceTypeOK, RunSucceeds, Returns, SchedulerPoints, Artifacts
<1>2. RecordsOK' /\ QueueOK' /\ ApiOK' /\ SchedOK' /\ TokenOK' /\ MainOK'
  BY <1>0, ServiceAssumption DEF IInv, ServiceTypeOK, RecordsOK, QueueOK,
      ApiOK, SchedOK, TokenOK, MainOK, RunSucceeds, Returns, DeleteOps,
      Working, SchedulerPoints
<1> QED BY <1>1, <1>2 DEF IInv

\* The run fails.
LEMMA RunFailsInv ==
    ASSUME IInv, RunFails
    PROVE  IInv'
<1>0. ServiceTypeOK
  BY DEF IInv
<1>1. ServiceTypeOK'
  BY <1>0 DEF ServiceTypeOK, RunFails, Returns, SchedulerPoints
<1>2. RecordsOK' /\ QueueOK' /\ ApiOK' /\ SchedOK' /\ TokenOK' /\ MainOK'
  BY <1>0, ServiceAssumption DEF IInv, ServiceTypeOK, RecordsOK, QueueOK,
      ApiOK, SchedOK, TokenOK, MainOK, RunFails, Returns, DeleteOps, Working,
      SchedulerPoints
<1> QED BY <1>1, <1>2 DEF IInv

\* The run fails for good.
LEMMA RunFailsFatallyInv ==
    ASSUME IInv, RunFailsFatally
    PROVE  IInv'
<1>0. ServiceTypeOK
  BY DEF IInv
<1>1. ServiceTypeOK'
  BY <1>0 DEF ServiceTypeOK, RunFailsFatally, Returns, SchedulerPoints
<1>2. RecordsOK' /\ QueueOK' /\ ApiOK' /\ SchedOK' /\ TokenOK' /\ MainOK'
  BY <1>0, ServiceAssumption DEF IInv, ServiceTypeOK, RecordsOK, QueueOK,
      ApiOK, SchedOK, TokenOK, MainOK, RunFailsFatally, Returns, DeleteOps,
      Working, SchedulerPoints
<1> QED BY <1>1, <1>2 DEF IInv

\* The result cannot be moved.
LEMMA PublicationFailsInv ==
    ASSUME IInv, PublicationFails
    PROVE  IInv'
<1>0. ServiceTypeOK
  BY DEF IInv
<1>1. ServiceTypeOK'
  BY <1>0 DEF ServiceTypeOK, PublicationFails, SchedulerPoints
<1>2. RecordsOK' /\ QueueOK' /\ ApiOK' /\ SchedOK' /\ TokenOK' /\ MainOK'
  BY <1>0, ServiceAssumption DEF IInv, ServiceTypeOK, RecordsOK, QueueOK,
      ApiOK, SchedOK, TokenOK, MainOK, PublicationFails, DeleteOps, Working,
      SchedulerPoints
<1> QED BY <1>1, <1>2 DEF IInv

\* A file cannot be removed.
LEMMA RemovalFailsInv ==
    ASSUME IInv, RemovalFails
    PROVE  IInv'
<1>0. ServiceTypeOK
  BY DEF IInv
<1>1. ServiceTypeOK'
  BY <1>0 DEF ServiceTypeOK, RemovalFails, SchedulerPoints
<1>2. RecordsOK' /\ QueueOK' /\ ApiOK' /\ SchedOK' /\ TokenOK' /\ MainOK'
  BY <1>0, ServiceAssumption DEF IInv, ServiceTypeOK, RecordsOK, QueueOK,
      ApiOK, SchedOK, TokenOK, MainOK, RemovalFails, DeleteOps, Working,
      SchedulerPoints
<1> QED BY <1>1, <1>2 DEF IInv

\* The scheduler thread lets go of the task.
LEMMA FinishesInv ==
    ASSUME IInv, Finishes
    PROVE  IInv'
<1>0. ServiceTypeOK
  BY DEF IInv
<1>1. ServiceTypeOK'
  BY <1>0 DEF ServiceTypeOK, Finishes, SchedulerPoints
<1>2. RecordsOK' /\ QueueOK' /\ ApiOK' /\ SchedOK' /\ TokenOK' /\ MainOK'
  BY <1>0, ServiceAssumption DEF IInv, ServiceTypeOK, RecordsOK, QueueOK,
      ApiOK, SchedOK, TokenOK, MainOK, Finishes, LockFree, DeleteOps, Working,
      SchedulerPoints
<1> QED BY <1>1, <1>2 DEF IInv

\* A watchdog wakes.
LEMMA WatchdogWakesInv ==
    ASSUME IInv, NEW t \in Tasks, WatchdogWakes(t)
    PROVE  IInv'
<1>0. ServiceTypeOK
  BY DEF IInv
<1>1. ServiceTypeOK'
  BY <1>0 DEF ServiceTypeOK, WatchdogWakes
<1>2. RecordsOK' /\ QueueOK' /\ ApiOK' /\ SchedOK' /\ TokenOK' /\ MainOK'
  BY <1>0, ServiceAssumption DEF IInv, ServiceTypeOK, RecordsOK, QueueOK,
      ApiOK, SchedOK, TokenOK, MainOK, WatchdogWakes, LockFree, DeleteOps,
      Working, SchedulerPoints
<1> QED BY <1>1, <1>2 DEF IInv

\* A watchdog retires the group.
LEMMA WatchdogFiresInv ==
    ASSUME IInv, WatchdogFires
    PROVE  IInv'
<1>0. ServiceTypeOK
  BY DEF IInv
<1>1. ServiceTypeOK'
  BY <1>0 DEF ServiceTypeOK, WatchdogFires
<1>2. RecordsOK' /\ QueueOK' /\ ApiOK' /\ SchedOK' /\ TokenOK' /\ MainOK'
  BY <1>0, ServiceAssumption DEF IInv, ServiceTypeOK, RecordsOK, QueueOK,
      ApiOK, SchedOK, TokenOK, MainOK, WatchdogFires, DeleteOps, Working,
      SchedulerPoints
<1> QED BY <1>1, <1>2 DEF IInv

\* Shutdown tells the worker group.
LEMMA ShutdownSignalsActiveInv ==
    ASSUME IInv, ShutdownSignalsActive
    PROVE  IInv'
<1>0. ServiceTypeOK
  BY DEF IInv
<1>1. ServiceTypeOK'
  BY <1>0 DEF ServiceTypeOK, ShutdownSignalsActive, SignalWorker, MainPoints
<1>2. RecordsOK' /\ QueueOK' /\ ApiOK' /\ SchedOK' /\ TokenOK' /\ MainOK'
  BY <1>0, ServiceAssumption DEF IInv, ServiceTypeOK, RecordsOK, QueueOK,
      ApiOK, SchedOK, TokenOK, MainOK, ShutdownSignalsActive, SignalWorker,
      DeleteOps, Working, SchedulerPoints
<1> QED BY <1>1, <1>2 DEF IInv

\* Shutdown joins the thread.
LEMMA ShutdownJoinsInv ==
    ASSUME IInv, ShutdownJoins
    PROVE  IInv'
<1>0. ServiceTypeOK
  BY DEF IInv
<1>1. ServiceTypeOK'
  BY <1>0 DEF ServiceTypeOK, ShutdownJoins, MainPoints
<1>2. RecordsOK' /\ QueueOK' /\ ApiOK' /\ SchedOK' /\ TokenOK' /\ MainOK'
  BY <1>0, ServiceAssumption DEF IInv, ServiceTypeOK, RecordsOK, QueueOK,
      ApiOK, SchedOK, TokenOK, MainOK, ShutdownJoins, DeleteOps, Working,
      SchedulerPoints
<1> QED BY <1>1, <1>2 DEF IInv

\* Shutdown gives up waiting.
LEMMA ShutdownTimesOutInv ==
    ASSUME IInv, ShutdownTimesOut
    PROVE  IInv'
<1>0. ServiceTypeOK
  BY DEF IInv
<1>1. ServiceTypeOK'
  BY <1>0 DEF ServiceTypeOK, ShutdownTimesOut, MainPoints
<1>2. RecordsOK' /\ QueueOK' /\ ApiOK' /\ SchedOK' /\ TokenOK' /\ MainOK'
  BY <1>0, ServiceAssumption DEF IInv, ServiceTypeOK, RecordsOK, QueueOK,
      ApiOK, SchedOK, TokenOK, MainOK, ShutdownTimesOut, DeleteOps, Working,
      SchedulerPoints
<1> QED BY <1>1, <1>2 DEF IInv

\* A rank is lost.
LEMMA GroupBreaksInv ==
    ASSUME IInv, GroupBreaks
    PROVE  IInv'
<1>0. ServiceTypeOK
  BY DEF IInv
<1>1. ServiceTypeOK'
  BY <1>0 DEF ServiceTypeOK, GroupBreaks
<1>2. RecordsOK' /\ QueueOK' /\ ApiOK' /\ SchedOK' /\ TokenOK' /\ MainOK'
  BY <1>0, ServiceAssumption DEF IInv, ServiceTypeOK, RecordsOK, QueueOK,
      ApiOK, SchedOK, TokenOK, MainOK, GroupBreaks, DeleteOps, Working,
      SchedulerPoints
<1> QED BY <1>1, <1>2 DEF IInv

\* What a step of the scheduler thread on the active record has to respect.
ActiveStep ==
    /\ active \in Tasks
    /\ rec' \in [Tasks -> TaskRecords]
    /\ \A u \in Tasks \ {active} : rec'[u] = rec[u]
    /\ rec'[active].cancellation_requested = rec[active].cancellation_requested
    /\ rec'[active].created_at = rec[active].created_at
    /\ rec'[active].status = "queued" => rec[active].status = "queued"
    /\ rec[active].storage_committed => rec'[active].storage_committed
    /\ rec'[active].storage_committed =>
          /\ ~rec'[active].cancellation_requested
          /\ rec'[active].status # "queued"
    /\ UNCHANGED <<registered, creating, queue, active, api, main>>

\* A step that respects this keeps every part of the invariant that does not
\* speak of the scheduler thread's own program counter.
LEMMA ActiveStepKeeps ==
    ASSUME IInv, ActiveStep
    PROVE  /\ RecordsOK' /\ QueueOK' /\ ApiOK' /\ MainOK'
           /\ \A u \in Tasks :
                 rec[u].cancellation_requested => rec'[u].cancellation_requested
<1>1. ServiceTypeOK
  BY DEF IInv
<1>2. RecordsOK'
  <2> SUFFICES ASSUME NEW u \in Tasks
               PROVE  /\ creating'[u] # "done" =>
                            /\ u \notin registered'
                            /\ rec'[u].created_at = 0
                            /\ ~rec'[u].cancellation_requested
                            /\ ~rec'[u].storage_committed
                      /\ u \in registered' => rec'[u].created_at > 0
                      /\ ~(rec'[u].cancellation_requested /\ rec'[u].storage_committed)
                      /\ rec'[u].storage_committed => rec'[u].status # "queued"
    BY DEF RecordsOK
  <2>1. creating[active] = "done"
    BY ServiceAssumption DEF IInv, SchedOK, ActiveStep
  <2>2. CASE u = active
    BY <2>1, <2>2 DEF IInv, RecordsOK, ActiveStep
  <2>3. CASE u # active
    BY <2>3 DEF IInv, RecordsOK, ActiveStep
  <2> QED BY <2>2, <2>3
<1>3. QueueOK'
  BY <1>1 DEF IInv, ServiceTypeOK, QueueOK, ActiveStep
<1>4. \A u \in Tasks : rec[u].cancellation_requested => rec'[u].cancellation_requested
  BY DEF ActiveStep
<1>5. ApiOK'
  BY <1>1, <1>4 DEF IInv, ServiceTypeOK, ApiOK, ActiveStep, DeleteOps
<1>6. MainOK'
  BY <1>1, <1>4 DEF IInv, ServiceTypeOK, MainOK, ActiveStep
<1> QED BY <1>2, <1>3, <1>4, <1>5, <1>6

\* So does a step that changes the active record, if at all, without taking a
\* decision and without putting the task back in the queue.
LEMMA RecordChange ==
    ASSUME IInv, active \in Tasks,
           \/ rec' = rec
           \/ \E n : /\ rec' = [rec EXCEPT ![active] = n]
                     /\ SameDecisions(rec[active], n)
                     /\ n.status # "queued" \/ n.status = rec[active].status,
           UNCHANGED <<registered, creating, queue, active, api, main>>
    PROVE  ActiveStep
<1>1. rec \in [Tasks -> TaskRecords]
  BY DEF IInv, ServiceTypeOK
<1>2. CASE rec' = rec
  BY <1>1, <1>2 DEF IInv, RecordsOK, ActiveStep
<1>3. ASSUME NEW n, rec' = [rec EXCEPT ![active] = n], SameDecisions(rec[active], n),
             n.status # "queued" \/ n.status = rec[active].status
      PROVE  ActiveStep
  <2>1. rec' \in [Tasks -> TaskRecords] /\ rec'[active] = n
    BY <1>1, <1>3 DEF SameDecisions
  <2>2. \A u \in Tasks \ {active} : rec'[u] = rec[u]
    BY <1>1, <1>3
  <2> QED BY <1>3, <2>1, <2>2 DEF IInv, RecordsOK, ActiveStep, SameDecisions
<1> QED BY <1>2, <1>3

\* The active task becomes RUNNING, or the thread dies.
LEMMA StartsInv ==
    ASSUME IInv, Starts
    PROVE  IInv'
<1>1. ServiceTypeOK
  BY DEF IInv
<1>2. active \in Tasks
  BY <1>1 DEF IInv, ServiceTypeOK, SchedOK, Working, SchedulerPoints, Starts
<1>3. LET n == Transition(rec[active], "running", "none", clock)
      IN  n.status = "running" /\ SameDecisions(rec[active], n)
  BY <1>1, <1>2, TransitionFacts DEF ServiceTypeOK, Statuses, Errors
<1>4. ActiveStep
  BY <1>2, <1>3, RecordChange DEF Starts
<1>5. RecordsOK' /\ QueueOK' /\ ApiOK' /\ MainOK'
  BY <1>4, ActiveStepKeeps
<1>6. ServiceTypeOK'
  BY <1>1, <1>2, <1>3, <1>4 DEF ServiceTypeOK, ActiveStep, Starts, SchedulerPoints
<1>7. SchedOK'
  BY <1>1, <1>2, <1>3, <1>4 DEF IInv, SchedOK, ActiveStep, Starts, Working, SchedulerPoints
<1>8. TokenOK'
  BY <1>1, <1>3, <1>4 DEF IInv, ServiceTypeOK, TokenOK, ActiveStep, Starts
<1> QED BY <1>5, <1>6, <1>7, <1>8 DEF IInv

\* The flag is read before the run.
LEMMA ChecksCancelledInv ==
    ASSUME IInv, ChecksCancelled
    PROVE  IInv'
<1>1. ServiceTypeOK
  BY DEF IInv
<1>2. active \in Tasks
  BY <1>1 DEF IInv, ServiceTypeOK, SchedOK, Working, SchedulerPoints, ChecksCancelled
<1>3. SameCore(rec[active], UpdateProgress(rec[active], "preparing"))
  BY <1>1, <1>2, UpdateProgressFacts DEF ServiceTypeOK, Phases
<1>4. ActiveStep
  BY <1>2, <1>3, RecordChange DEF ChecksCancelled, SameCore
<1>5. RecordsOK' /\ QueueOK' /\ ApiOK' /\ MainOK'
  BY <1>4, ActiveStepKeeps
<1>6. ServiceTypeOK'
  BY <1>1, <1>2, <1>3, <1>4 DEF ServiceTypeOK, ActiveStep, ChecksCancelled, SchedulerPoints
<1>7. SchedOK'
  BY <1>1, <1>2, <1>3, <1>4 DEF IInv, SchedOK, ActiveStep, ChecksCancelled, Working, SchedulerPoints
<1>8. TokenOK'
  BY <1>1, <1>3, <1>4 DEF IInv, ServiceTypeOK, TokenOK, ActiveStep, ChecksCancelled
<1> QED BY <1>5, <1>6, <1>7, <1>8 DEF IInv

\* The pipeline reports progress.
LEMMA ReportsProgressInv ==
    ASSUME IInv, ReportsProgress
    PROVE  IInv'
<1>1. ServiceTypeOK
  BY DEF IInv
<1>2. active \in Tasks
  BY <1>1 DEF IInv, ServiceTypeOK, SchedOK, Working, SchedulerPoints, ReportsProgress
<1>3. SameCore(rec[active], UpdateProgress(rec[active], "processing"))
  BY <1>1, <1>2, UpdateProgressFacts DEF ServiceTypeOK, Phases
<1>4. ActiveStep
  BY <1>2, <1>3, RecordChange DEF ReportsProgress, SameCore
<1>5. RecordsOK' /\ QueueOK' /\ ApiOK' /\ MainOK'
  BY <1>4, ActiveStepKeeps
<1>6. ServiceTypeOK'
  BY <1>1, <1>2, <1>3, <1>4 DEF ServiceTypeOK, ActiveStep, ReportsProgress, SchedulerPoints, Returns
<1>7. SchedOK'
  BY <1>1, <1>2, <1>3, <1>4 DEF IInv, SchedOK, ActiveStep, ReportsProgress, Working, SchedulerPoints, Returns
<1>8. TokenOK'
  BY <1>1, <1>3, <1>4 DEF IInv, ServiceTypeOK, TokenOK, ActiveStep, ReportsProgress, Returns
<1> QED BY <1>5, <1>6, <1>7, <1>8 DEF IInv

\* Publication begins if nobody has asked to cancel.
LEMMA BeginsPublicationInv ==
    ASSUME IInv, BeginsPublication
    PROVE  IInv'
<1>1. ServiceTypeOK
  BY DEF IInv
<1>2. active \in Tasks
  BY <1>1 DEF IInv, ServiceTypeOK, SchedOK, Working, SchedulerPoints, BeginsPublication
<1>3. LET n == BeginResultPublication(rec[active])
      IN  /\ n \in TaskRecords
          /\ n.storage_committed
          /\ n.status = rec[active].status
          /\ n.cancellation_requested = rec[active].cancellation_requested
          /\ n.created_at = rec[active].created_at
  BY <1>1, <1>2, SetterFacts DEF ServiceTypeOK
<1>4. ActiveStep
  <2>1. CASE rec' = rec
    BY <1>2, <2>1, RecordChange DEF BeginsPublication
  <2>2. CASE rec' # rec
    BY <1>1, <1>2, <1>3, <2>2 DEF ServiceTypeOK, ActiveStep, BeginsPublication
  <2> QED BY <2>1, <2>2
<1>5. RecordsOK' /\ QueueOK' /\ ApiOK' /\ MainOK'
  BY <1>4, ActiveStepKeeps
<1>6. ServiceTypeOK'
  BY <1>1, <1>2, <1>3, <1>4 DEF ServiceTypeOK, ActiveStep, BeginsPublication, SchedulerPoints
<1>7. SchedOK'
  BY <1>1, <1>2, <1>3, <1>4 DEF IInv, SchedOK, ActiveStep, BeginsPublication, Working, SchedulerPoints
<1>8. TokenOK'
  BY <1>1, <1>3, <1>4 DEF IInv, ServiceTypeOK, TokenOK, ActiveStep, BeginsPublication
<1> QED BY <1>5, <1>6, <1>7, <1>8 DEF IInv

\* The result stays on this host.
LEMMA PublishesLocallyInv ==
    ASSUME IInv, PublishesLocally
    PROVE  IInv'
<1>1. ServiceTypeOK
  BY DEF IInv
<1>2. active \in Tasks
  BY <1>1 DEF IInv, ServiceTypeOK, SchedOK, Working, SchedulerPoints, PublishesLocally
<1>3. SameCore(rec[active], SetResultStorage(rec[active], "local"))
  BY <1>1, <1>2, SetterFacts DEF ServiceTypeOK, Locations
<1>4. ActiveStep
  BY <1>2, <1>3, RecordChange DEF PublishesLocally, SameCore
<1>5. RecordsOK' /\ QueueOK' /\ ApiOK' /\ MainOK'
  BY <1>4, ActiveStepKeeps
<1>6. ServiceTypeOK'
  BY <1>1, <1>2, <1>3, <1>4 DEF ServiceTypeOK, ActiveStep, PublishesLocally, SchedulerPoints, Artifacts
<1>7. SchedOK'
  BY <1>1, <1>2, <1>3, <1>4 DEF IInv, SchedOK, ActiveStep, PublishesLocally, Working, SchedulerPoints
<1>8. TokenOK'
  BY <1>1, <1>3, <1>4 DEF IInv, ServiceTypeOK, TokenOK, ActiveStep, PublishesLocally
<1> QED BY <1>5, <1>6, <1>7, <1>8 DEF IInv

\* The result is uploaded.
LEMMA PublishesRemotelyInv ==
    ASSUME IInv, PublishesRemotely
    PROVE  IInv'
<1>1. ServiceTypeOK
  BY DEF IInv
<1>2. active \in Tasks
  BY <1>1 DEF IInv, ServiceTypeOK, SchedOK, Working, SchedulerPoints, PublishesRemotely
<1>3. SameCore(rec[active], SetResultStorage(rec[active], "remote"))
  BY <1>1, <1>2, SetterFacts DEF ServiceTypeOK, Locations
<1>4. ActiveStep
  BY <1>2, <1>3, RecordChange DEF PublishesRemotely, SameCore
<1>5. RecordsOK' /\ QueueOK' /\ ApiOK' /\ MainOK'
  BY <1>4, ActiveStepKeeps
<1>6. ServiceTypeOK'
  BY <1>1, <1>2, <1>3, <1>4 DEF ServiceTypeOK, ActiveStep, PublishesRemotely, SchedulerPoints, Artifacts
<1>7. SchedOK'
  BY <1>1, <1>2, <1>3, <1>4 DEF IInv, SchedOK, ActiveStep, PublishesRemotely, Working, SchedulerPoints
<1>8. TokenOK'
  BY <1>1, <1>3, <1>4 DEF IInv, ServiceTypeOK, TokenOK, ActiveStep, PublishesRemotely
<1> QED BY <1>5, <1>6, <1>7, <1>8 DEF IInv

\* The task completes.
LEMMA CompletesInv ==
    ASSUME IInv, Completes
    PROVE  IInv'
<1>1. ServiceTypeOK
  BY DEF IInv
<1>2. active \in Tasks
  BY <1>1 DEF IInv, ServiceTypeOK, SchedOK, Working, SchedulerPoints, Completes
<1>3. LET n == Transition(rec[active], "completed", "none", clock + 1)
      IN  n.status = "completed" /\ SameDecisions(rec[active], n)
  BY <1>1, <1>2, TransitionFacts DEF ServiceTypeOK, Statuses, Errors
<1>4. ActiveStep
  BY <1>2, <1>3, RecordChange DEF Completes, Ends
<1>5. RecordsOK' /\ QueueOK' /\ ApiOK' /\ MainOK'
  BY <1>4, ActiveStepKeeps
<1>6. ServiceTypeOK'
  BY <1>1, <1>2, <1>3, <1>4 DEF ServiceTypeOK, ActiveStep, Completes, SchedulerPoints, Ends, AfterRemoval, Artifacts
<1>7. SchedOK'
  BY <1>1, <1>2, <1>3, <1>4 DEF IInv, SchedOK, ActiveStep, Completes, Working, SchedulerPoints, Ends
<1>8. TokenOK'
  BY <1>1, <1>3, <1>4 DEF IInv, ServiceTypeOK, TokenOK, ActiveStep, Completes, Ends
<1> QED BY <1>5, <1>6, <1>7, <1>8 DEF IInv

\* The cancelled task is closed.
LEMMA HandlesCancelledInv ==
    ASSUME IInv, HandlesCancelled
    PROVE  IInv'
<1>1. ServiceTypeOK
  BY DEF IInv
<1>2. active \in Tasks
  BY <1>1 DEF IInv, ServiceTypeOK, SchedOK, Working, SchedulerPoints, HandlesCancelled
<1>3. LET n == Transition(rec[active], "cancelled", "none", clock + 1)
      IN  n.status = "cancelled" /\ SameDecisions(rec[active], n)
  BY <1>1, <1>2, TransitionFacts DEF ServiceTypeOK, Statuses, Errors
<1>4. ActiveStep
  BY <1>2, <1>3, RecordChange DEF HandlesCancelled, Ends
<1>5. RecordsOK' /\ QueueOK' /\ ApiOK' /\ MainOK'
  BY <1>4, ActiveStepKeeps
<1>6. ServiceTypeOK'
  BY <1>1, <1>2, <1>3, <1>4 DEF ServiceTypeOK, ActiveStep, HandlesCancelled, SchedulerPoints, Ends, AfterRemoval, Artifacts
<1>7. SchedOK'
  BY <1>1, <1>2, <1>3, <1>4 DEF IInv, SchedOK, ActiveStep, HandlesCancelled, Working, SchedulerPoints, Ends
<1>8. TokenOK'
  BY <1>1, <1>3, <1>4 DEF IInv, ServiceTypeOK, TokenOK, ActiveStep, HandlesCancelled, Ends
<1> QED BY <1>5, <1>6, <1>7, <1>8 DEF IInv

\* The failed task is closed.
LEMMA HandlesFailureInv ==
    ASSUME IInv, HandlesFailure
    PROVE  IInv'
<1>1. ServiceTypeOK
  BY DEF IInv
<1>2. active \in Tasks
  BY <1>1 DEF IInv, ServiceTypeOK, SchedOK, Working, SchedulerPoints, HandlesFailure
<1>3. \A e \in Errors :
         LET n == Transition(rec[active], "failed", e, clock + 1)
         IN  n.status = "failed" /\ SameDecisions(rec[active], n)
  BY <1>1, <1>2, TransitionFacts DEF ServiceTypeOK, Statuses
<1>4. ActiveStep
  BY <1>2, <1>3, RecordChange DEF HandlesFailure, Ends, Errors
<1>5. RecordsOK' /\ QueueOK' /\ ApiOK' /\ MainOK'
  BY <1>4, ActiveStepKeeps
<1>6. ServiceTypeOK'
  BY <1>1, <1>2, <1>3, <1>4 DEF ServiceTypeOK, ActiveStep, HandlesFailure, SchedulerPoints, Ends, AfterRemoval, Artifacts
<1>7. SchedOK'
  BY <1>1, <1>2, <1>3, <1>4 DEF IInv, SchedOK, ActiveStep, HandlesFailure, Working, SchedulerPoints, Ends
<1>8. TokenOK'
  BY <1>1, <1>3, <1>4 DEF IInv, ServiceTypeOK, TokenOK, ActiveStep, HandlesFailure, Ends
<1> QED BY <1>5, <1>6, <1>7, <1>8 DEF IInv

\* The head of the loop: positions are renumbered, and the first task, if
\* the thread takes one, is the only one that leaves the queue.
LEMMA TakesWork ==
    ASSUME IInv, LockFree, sched \in {"loop", "waiting"},
           \/ UNCHANGED <<queue, active>> /\ sched' \in {"waiting", "stopped", "dead"}
           \/ /\ queue # <<>> /\ queue' = Tail(queue) /\ active' = Head(queue)
              /\ sched' = "popped",
           registered' \subseteq registered,
           \A u \in registered \ registered' : IsTerminal(rec[u]),
           rec' = UpdateQueuePositions(rec, registered', queue'),
           files' \in [Tasks -> SUBSET Artifacts],
           UNCHANGED <<clock, accepting, watchdogs, firing, creating, api, main,
                       token, signalled, fatal, broken, unlisted>>
    PROVE  IInv'
<1>1. ServiceTypeOK
  BY DEF IInv
<1>2. queue' \in Seq(Tasks) /\ active' \in Tasks \cup {NoTask}
  BY <1>1 DEF ServiceTypeOK
<1>3. rec' \in [Tasks -> TaskRecords] /\ \A u \in Tasks : SameCore(rec[u], rec'[u])
  BY <1>1, <1>2, UpdateQueuePositionsFacts DEF ServiceTypeOK
<1>4. ServiceTypeOK'
  BY <1>1, <1>2, <1>3 DEF ServiceTypeOK, SchedulerPoints
<1>5. RecordsOK'
  BY <1>1, <1>3 DEF IInv, ServiceTypeOK, RecordsOK, SameCore, SameDecisions
<1>6. \A i \in DOMAIN queue : /\ queue[i] \in registered'
                              /\ queue[i] \in Tasks
                              /\ creating[queue[i]] = "done"
                              /\ rec'[queue[i]].status = "queued"
                              /\ ~rec'[queue[i]].cancellation_requested
  BY <1>1, <1>3 DEF IInv, ServiceTypeOK, QueueOK, RecordsOK, IsTerminal,
        TerminalStatuses, SameCore, SameDecisions
<1>7. CASE UNCHANGED <<queue, active>> /\ sched' \in {"waiting", "stopped", "dead"}
  <2>1. QueueOK'
    BY <1>6, <1>7 DEF IInv, QueueOK
  <2>2. ApiOK' /\ MainOK'
    BY <1>7 DEF IInv, ApiOK, MainOK, LockFree, DeleteOps
  <2>3. SchedOK' /\ TokenOK'
    BY <1>7 DEF IInv, SchedOK, TokenOK, Working
  <2> QED BY <1>4, <1>5, <2>1, <2>2, <2>3 DEF IInv
<1>8. CASE /\ queue # <<>> /\ queue' = Tail(queue) /\ active' = Head(queue)
           /\ sched' = "popped"
  <2>1. /\ Len(queue) \in Nat \ {0}
        /\ DOMAIN queue = 1..Len(queue)
        /\ DOMAIN queue' = 1..(Len(queue) - 1)
        /\ \A i \in DOMAIN queue' : queue'[i] = queue[i + 1]
        /\ active' = queue[1]
        /\ Len(queue') <= Len(queue)
    BY <1>1, <1>8 DEF ServiceTypeOK
  <2>2. active' \in Tasks /\ creating'[active'] = "done"
    BY <1>6, <2>1
  <2>3. QueueOK'
    <3>1. \A i \in DOMAIN queue' : i + 1 \in DOMAIN queue /\ i + 1 # 1
      BY <2>1
    <3>2. \A i, j \in DOMAIN queue' : queue'[i] = queue'[j] => i = j
      BY <2>1, <3>1 DEF IInv, QueueOK
    <3>3. \A i \in DOMAIN queue' : /\ queue'[i] \in registered'
                                   /\ rec'[queue'[i]].status = "queued"
                                   /\ ~rec'[queue'[i]].cancellation_requested
                                   /\ queue'[i] # active'
      BY <1>6, <2>1, <3>1 DEF IInv, QueueOK
    <3>4. Len(queue') <= MaxQueuedTasks
      <4>1. Len(queue) \in Nat /\ Len(queue') \in Nat /\ Len(queue) <= MaxQueuedTasks
        BY <1>1, <1>2 DEF IInv, ServiceTypeOK, QueueOK
      <4> QED BY <2>1, <4>1, ServiceAssumption
    <3> QED BY <3>2, <3>3, <3>4 DEF QueueOK
  <2>4. ApiOK' /\ MainOK'
    BY <2>2 DEF IInv, ApiOK, MainOK, LockFree, DeleteOps
  <2>5. SchedOK' /\ TokenOK'
    BY <1>8, <2>2, ServiceAssumption DEF IInv, SchedOK, TokenOK, Working
  <2> QED BY <1>4, <1>5, <2>3, <2>4, <2>5 DEF IInv
<1> QED BY <1>7, <1>8

\* The loop is entered.
LEMMA LoopHeadInv ==
    ASSUME IInv, LoopHead
    PROVE  IInv'
<1>1. files' \in [Tasks -> SUBSET Artifacts]
  BY DEF IInv, ServiceTypeOK, LoopHead
<1>2. \/ UNCHANGED <<queue, active>> /\ sched' \in {"waiting", "stopped", "dead"}
      \/ /\ queue # <<>> /\ queue' = Tail(queue) /\ active' = Head(queue)
         /\ sched' = "popped"
  BY DEF LoopHead, TakeNext
<1>3. /\ LockFree /\ sched \in {"loop", "waiting"} /\ registered' = registered
      /\ rec' = UpdateQueuePositions(rec, registered', queue')
      /\ UNCHANGED <<clock, accepting, watchdogs, firing, creating, api, main,
                     token, signalled, fatal, broken, unlisted>>
  BY DEF LoopHead
<1> QED BY <1>1, <1>2, <1>3, TakesWork

\* A sweep purges only ended tasks.
LEMMA ExpiredAreTerminal ==
    ASSUME NEW table, NEW reg, NEW cutoff
    PROVE  /\ ExpiredTasks(table, reg, cutoff) \subseteq reg
           /\ \A u \in ExpiredTasks(table, reg, cutoff) : IsTerminal(table[u])
BY DEF ExpiredTasks

\* The wait ends.
LEMMA WakesInv ==
    ASSUME IInv, Wakes
    PROVE  IInv'
<1>1. PICK cutoff \in 0..clock :
        LET swept == ExpiredTasks(rec, registered, cutoff)
        IN  /\ registered' = registered \ swept
            /\ files' = [t \in Tasks |-> IF t \in swept THEN {} ELSE files[t]]
  BY DEF Wakes
<1>2. /\ files' \in [Tasks -> SUBSET Artifacts]
      /\ registered' \subseteq registered
      /\ \A u \in registered \ registered' : IsTerminal(rec[u])
  BY <1>1, ExpiredAreTerminal DEF IInv, ServiceTypeOK
<1>3. \/ UNCHANGED <<queue, active>> /\ sched' \in {"waiting", "stopped", "dead"}
      \/ /\ queue # <<>> /\ queue' = Tail(queue) /\ active' = Head(queue)
         /\ sched' = "popped"
  BY DEF Wakes, TakeNext
<1>4. /\ LockFree /\ sched \in {"loop", "waiting"}
      /\ rec' = UpdateQueuePositions(rec, registered', queue')
      /\ UNCHANGED <<clock, accepting, watchdogs, firing, creating, api, main,
                     token, signalled, fatal, broken, unlisted>>
  BY DEF Wakes
<1> QED BY <1>2, <1>3, <1>4, TakesWork

\* The sweep raises: only ended tasks are gone.
LEMMA SweepBreaksInv ==
    ASSUME IInv, SweepBreaks
    PROVE  IInv'
<1>1. ServiceTypeOK
  BY DEF IInv
<1>2. /\ registered' \subseteq registered
      /\ \A u \in registered \ registered' : IsTerminal(rec[u])
      /\ files' \in [Tasks -> SUBSET Artifacts]
  BY <1>1, ExpiredAreTerminal DEF SweepBreaks, ServiceTypeOK
<1>3. /\ sched' = "dead" /\ sched = "waiting" /\ api.op \in {"idle", "submit"}
      /\ UNCHANGED <<rec, clock, queue, accepting, active, watchdogs, firing, creating, api,
                     main, token, signalled, fatal, broken, unlisted>>
  BY DEF SweepBreaks, LockFree
<1>4. ServiceTypeOK'
  BY <1>1, <1>2, <1>3 DEF ServiceTypeOK, SchedulerPoints
<1>5. RecordsOK' /\ QueueOK'
  BY <1>1, <1>2, <1>3 DEF IInv, ServiceTypeOK, RecordsOK, QueueOK, IsTerminal, TerminalStatuses
<1>6. ApiOK' /\ SchedOK' /\ TokenOK' /\ MainOK'
  BY <1>3 DEF IInv, ApiOK, SchedOK, TokenOK, MainOK, DeleteOps, Working
<1> QED BY <1>4, <1>5, <1>6 DEF IInv

\* DELETE cancels a task it found queued and has taken out of the queue.
LEMMA DeleteCancelsQueuedInv ==
    ASSUME IInv, DeleteCancelsQueued
    PROVE  IInv'
<1> DEFINE t == api.task
           n == Transition(rec[t], "cancelled", "none", clock + 1)
           ended == [rec EXCEPT ![t] = n]
<1>1. ServiceTypeOK
  BY DEF IInv
<1>2. /\ t \in Tasks
      /\ \A i \in DOMAIN queue : queue[i] # t
  BY <1>1 DEF IInv, ApiOK, ServiceTypeOK, DeleteOps, DeleteCancelsQueued
<1>3. n.status = "cancelled" /\ SameDecisions(rec[t], n)
  BY <1>1, <1>2, TransitionFacts DEF ServiceTypeOK, Statuses, Errors
<1>4. /\ ended \in [Tasks -> TaskRecords]
      /\ ended[t] = n
      /\ \A u \in Tasks \ {t} : ended[u] = rec[u]
  BY <1>1, <1>2, <1>3 DEF ServiceTypeOK, SameDecisions
<1>5. rec' = rec \/ rec' = ended \/ rec' = UpdateQueuePositions(ended, registered, queue)
  BY DEF DeleteCancelsQueued
<1> HIDE DEF n, ended
<1>6. /\ rec' \in [Tasks -> TaskRecords]
      /\ \A u \in Tasks : SameDecisions(rec[u], rec'[u])
      /\ \A u \in Tasks \ {t} : SameCore(rec[u], rec'[u])
      /\ SameCore(rec[t], rec'[t]) \/ rec'[t].status = "cancelled"
  <2>1. CASE rec' = rec
    BY <1>1, <1>2, <2>1 DEF ServiceTypeOK, SameCore, SameDecisions
  <2>3. CASE rec' = ended
    BY <1>1, <1>2, <1>3, <1>4, <2>3 DEF SameCore, SameDecisions
  <2>2. CASE rec' = UpdateQueuePositions(ended, registered, queue)
    <3>1. rec' \in [Tasks -> TaskRecords] /\ \A u \in Tasks : SameCore(ended[u], rec'[u])
      BY <1>1, <1>4, <2>2, UpdateQueuePositionsFacts DEF ServiceTypeOK
    <3> QED BY <1>2, <1>3, <1>4, <3>1 DEF SameCore, SameDecisions
  <2> QED BY <1>5, <2>1, <2>2, <2>3
<1>7. /\ api' = ApiIdle
      /\ files' \in [Tasks -> SUBSET Artifacts]
      /\ clock' \in Nat
      /\ UNCHANGED <<registered, queue, accepting, active, watchdogs, firing, sched,
                     creating, main, token, signalled, fatal, broken, unlisted>>
  BY <1>1 DEF ServiceTypeOK, DeleteCancelsQueued, AfterRemoval
<1>8. ServiceTypeOK'
  BY <1>1, <1>6, <1>7 DEF ServiceTypeOK, ApiIdle, ApiOps
<1>9. RecordsOK'
  BY <1>6, <1>7 DEF IInv, RecordsOK, SameCore, SameDecisions
<1>10. QueueOK'
  BY <1>1, <1>2, <1>6, <1>7 DEF IInv, QueueOK, ServiceTypeOK, SameCore, SameDecisions
<1>11. ApiOK'
  BY <1>7 DEF ApiOK, ApiIdle, DeleteOps
<1>12. SchedOK' /\ TokenOK' /\ MainOK'
  BY <1>1, <1>6, <1>7 DEF IInv, SchedOK, TokenOK, MainOK, ServiceTypeOK, Working,
        SchedulerPoints, SameDecisions
<1> QED BY <1>8, <1>9, <1>10, <1>11, <1>12 DEF IInv

\* A drain, of the whole queue or up to a removal that fails, leaves the
\* active record alone and never meets a committed task.
LEMMA DrainFacts ==
    ASSUME IInv, DrainQueue \/ DrainBreaks
    PROVE  /\ rec' \in [Tasks -> TaskRecords]
           /\ files' \in [Tasks -> SUBSET Artifacts]
           /\ clock' = clock + 1 /\ clock' \in Nat
           /\ queue' = <<>> /\ accepting' = FALSE
           /\ active # NoTask => rec'[active] = rec[active]
           /\ \A t \in Tasks : ~InQueue(t) => rec'[t] = rec[t] /\ files'[t] = files[t]
           /\ \A t \in Tasks : InQueue(t) =>
                 /\ t \in registered
                 /\ rec[t].status = "queued"
                 /\ ~rec'[t].storage_committed
                 /\ rec'[t].created_at = rec[t].created_at
                 /\ \/ "filesystem" \in Faults /\ rec'[t] = rec[t]
                    \/ /\ rec'[t].status = "cancelled"
                       /\ rec'[t].cancellation_requested
                 /\ "filesystem" \in Faults \/ files'[t] \subseteq {"dir"}
<1>1. /\ rec \in [Tasks -> TaskRecords] /\ queue \in Seq(Tasks) /\ clock + 1 \in Nat
      /\ active \in Tasks \cup {NoTask} /\ files \in [Tasks -> SUBSET Artifacts]
  BY DEF IInv, ServiceTypeOK
<1>2. PICK ended \in Seq(Tasks), cleaned \in Seq(Tasks) :
         /\ Drain(ended, cleaned)
         /\ \A i \in DOMAIN ended : \E j \in DOMAIN queue : ended[i] = queue[j]
         /\ \A i \in DOMAIN cleaned : \E j \in DOMAIN queue : cleaned[i] = queue[j]
         /\ "filesystem" \in Faults \/ (ended = queue /\ cleaned = queue)
  <2>1. CASE DrainQueue
    BY <1>1, <2>1 DEF DrainQueue
  <2>2. CASE DrainBreaks
    <3>1. PICK i \in DOMAIN queue : Drain(SubSeq(queue, 1, i), SubSeq(queue, 1, i - 1))
      BY <2>2 DEF DrainBreaks
    <3>2. i \in 1..Len(queue) /\ Len(queue) \in Nat
      BY <1>1
    <3>3. ASSUME NEW n \in 0..Len(queue)
          PROVE  /\ SubSeq(queue, 1, n) \in Seq(Tasks)
                 /\ \A k \in DOMAIN SubSeq(queue, 1, n) :
                       \E j \in DOMAIN queue : SubSeq(queue, 1, n)[k] = queue[j]
      BY <1>1
    <3>4. i \in 0..Len(queue) /\ i - 1 \in 0..Len(queue)
      BY <3>2
    <3> QED BY <2>2, <3>1, <3>3, <3>4 DEF DrainBreaks
  <2> QED BY <2>1, <2>2
<1>3. /\ rec' = CancelAll(rec, ended, clock + 1)
      /\ files' = [t \in Tasks |-> IF \E i \in DOMAIN cleaned : cleaned[i] = t
                                   THEN files[t] \cap {"dir"} ELSE files[t]]
      /\ clock' = clock + 1 /\ queue' = <<>> /\ accepting' = FALSE
  BY <1>2 DEF Drain
<1>4. /\ rec' \in [Tasks -> TaskRecords]
      /\ \A t \in Tasks : (~ \E i \in DOMAIN ended : ended[i] = t) => rec'[t] = rec[t]
      /\ \A t \in Tasks : (\E i \in DOMAIN ended : ended[i] = t) =>
            /\ rec'[t].status = "cancelled"
            /\ rec'[t].cancellation_requested
            /\ rec'[t].storage_committed = rec[t].storage_committed
            /\ rec'[t].created_at = rec[t].created_at
  <2> DEFINE new == CancelAll(rec, ended, clock + 1)
  <2>1. rec' = new
    BY <1>3
  <2>2. /\ new \in [Tasks -> TaskRecords]
        /\ \A t \in Tasks : (~ \E i \in DOMAIN ended : ended[i] = t) => new[t] = rec[t]
        /\ \A t \in Tasks : (\E i \in DOMAIN ended : ended[i] = t) =>
              /\ new[t].status = "cancelled"
              /\ new[t].cancellation_requested
              /\ new[t].storage_committed = rec[t].storage_committed
              /\ new[t].created_at = rec[t].created_at
    <3>1. ended \in Seq(Tasks)
      OBVIOUS
    <3> QED BY ONLY <1>1, <3>1, CancelAllFacts, Zenon
  <2> HIDE DEF new
  <2> QED BY <2>1, <2>2
<1>5. /\ \A t \in Tasks : (\E i \in DOMAIN ended : ended[i] = t) => InQueue(t)
      /\ \A t \in Tasks : (\E i \in DOMAIN cleaned : cleaned[i] = t) => InQueue(t)
      /\ \/ "filesystem" \in Faults
         \/ \A t \in Tasks : InQueue(t) => /\ \E i \in DOMAIN ended : ended[i] = t
                                           /\ \E i \in DOMAIN cleaned : cleaned[i] = t
  BY <1>2 DEF InQueue
<1>6. \A t \in Tasks : InQueue(t) =>
         t \in registered /\ rec[t].status = "queued" /\ ~rec[t].storage_committed
  BY DEF IInv, QueueOK, RecordsOK, InQueue
<1>7. active # NoTask => active \in Tasks /\ ~InQueue(active)
  BY <1>1 DEF IInv, QueueOK, InQueue
<1>8. files' \in [Tasks -> SUBSET Artifacts]
  BY <1>1, <1>3
<1>9. \A t \in Tasks : ~InQueue(t) => rec'[t] = rec[t] /\ files'[t] = files[t]
  BY <1>3, <1>4, <1>5
<1>10. ASSUME NEW t \in Tasks, InQueue(t)
       PROVE  /\ t \in registered
              /\ rec[t].status = "queued"
              /\ ~rec'[t].storage_committed
              /\ rec'[t].created_at = rec[t].created_at
              /\ \/ "filesystem" \in Faults /\ rec'[t] = rec[t]
                 \/ /\ rec'[t].status = "cancelled"
                    /\ rec'[t].cancellation_requested
              /\ "filesystem" \in Faults \/ files'[t] \subseteq {"dir"}
  <2>1. "filesystem" \in Faults \/ files'[t] \subseteq {"dir"}
    BY <1>3, <1>5, <1>10
  <2> QED BY <1>4, <1>5, <1>6, <1>10, <2>1
<1> QED BY <1>1, <1>3, <1>4, <1>7, <1>8, <1>9, <1>10

\* The fatal-error path drains the queue.
LEMMA DrainsAfterFatalInv ==
    ASSUME IInv, DrainsAfterFatal
    PROVE  IInv'
<1>1. ServiceTypeOK
  BY DEF IInv
<1>2. /\ rec' \in [Tasks -> TaskRecords]
      /\ files' \in [Tasks -> SUBSET Artifacts]
      /\ clock' \in Nat
      /\ active # NoTask => rec'[active] = rec[active]
      /\ \A t \in Tasks : ~InQueue(t) => rec'[t] = rec[t]
      /\ \A t \in Tasks : InQueue(t) =>
            /\ t \in registered
            /\ rec[t].status = "queued"
            /\ ~rec'[t].storage_committed
            /\ rec'[t].created_at = rec[t].created_at
            /\ rec'[t] = rec[t] \/ rec'[t].status = "cancelled"
  BY DrainFacts DEF DrainsAfterFatal
<1>3. /\ queue' = <<>> /\ accepting' = FALSE
      /\ UNCHANGED <<registered, active, watchdogs, firing, creating, api, main,
                     token, signalled, fatal, broken, unlisted>>
  BY DrainFacts DEF DrainsAfterFatal
<1>4. ServiceTypeOK'
  <2>1. queue' \in Seq(Tasks)
    BY <1>3
  <2>2. sched' \in SchedulerPoints /\ main' \in MainPoints
    BY <1>1 DEF ServiceTypeOK, DrainsAfterFatal, SchedulerPoints
  <2> QED BY <1>1, <1>2, <1>3, <2>1, <2>2 DEF ServiceTypeOK
<1>5. RecordsOK'
  BY <1>2, <1>3 DEF IInv, RecordsOK
<1>6. QueueOK'
  BY <1>3, ServiceAssumption DEF QueueOK
<1>7. ApiOK'
  BY <1>3 DEF IInv, ApiOK, DrainsAfterFatal, LockFree, DeleteOps
<1>8. SchedOK'
  BY <1>1, <1>2, <1>3 DEF IInv, SchedOK, DrainsAfterFatal, Working, SchedulerPoints
<1>9. TokenOK'
  BY <1>1, <1>2, <1>3 DEF IInv, ServiceTypeOK, TokenOK, DrainsAfterFatal
<1>10. MainOK'
  BY <1>2, <1>3 DEF IInv, MainOK, DrainsAfterFatal
<1> QED BY <1>4, <1>5, <1>6, <1>7, <1>8, <1>9, <1>10 DEF IInv

\* Shutdown drains the queue.
LEMMA ShutdownDrainsInv ==
    ASSUME IInv, ShutdownDrains
    PROVE  IInv'
<1>1. ServiceTypeOK
  BY DEF IInv
<1>2. /\ rec' \in [Tasks -> TaskRecords]
      /\ files' \in [Tasks -> SUBSET Artifacts]
      /\ clock' \in Nat
      /\ active # NoTask => rec'[active] = rec[active]
      /\ \A t \in Tasks : ~InQueue(t) => rec'[t] = rec[t]
      /\ \A t \in Tasks : InQueue(t) =>
            /\ t \in registered
            /\ rec[t].status = "queued"
            /\ ~rec'[t].storage_committed
            /\ rec'[t].created_at = rec[t].created_at
            /\ rec'[t] = rec[t] \/ rec'[t].status = "cancelled"
  BY DrainFacts DEF ShutdownDrains
<1>3. /\ queue' = <<>> /\ accepting' = FALSE
      /\ UNCHANGED <<registered, active, watchdogs, firing, creating, api, sched,
                     token, signalled, fatal, broken, unlisted>>
  BY DrainFacts DEF ShutdownDrains
<1>4. ServiceTypeOK'
  <2>1. queue' \in Seq(Tasks)
    BY <1>3
  <2>2. sched' \in SchedulerPoints /\ main' \in MainPoints
    BY <1>1 DEF ServiceTypeOK, ShutdownDrains, MainPoints
  <2> QED BY <1>1, <1>2, <1>3, <2>1, <2>2 DEF ServiceTypeOK
<1>5. RecordsOK'
  BY <1>2, <1>3 DEF IInv, RecordsOK
<1>6. QueueOK'
  BY <1>3, ServiceAssumption DEF QueueOK
<1>7. ApiOK'
  BY <1>3 DEF IInv, ApiOK, ShutdownDrains, LockFree, DeleteOps
<1>8. SchedOK'
  BY <1>1, <1>2, <1>3 DEF IInv, SchedOK, ShutdownDrains, Working, SchedulerPoints
<1>9. TokenOK'
  BY <1>1, <1>2, <1>3 DEF IInv, ServiceTypeOK, TokenOK, ShutdownDrains
<1>10. MainOK'
  BY <1>2, <1>3 DEF IInv, MainOK, ShutdownDrains
<1> QED BY <1>4, <1>5, <1>6, <1>7, <1>8, <1>9, <1>10 DEF IInv

\* Shutdown flags the active task unless it has ended or is committed.
LEMMA ShutdownFlagsActiveInv ==
    ASSUME IInv, ShutdownFlagsActive
    PROVE  IInv'
<1> DEFINE n == RequestCancellation(rec[active])
<1>1. ServiceTypeOK
  BY DEF IInv
<1>2. active \in Tasks /\ creating[active] = "done"
  BY <1>1 DEF IInv, ServiceTypeOK, MainOK, SchedOK, ShutdownFlagsActive
<1>3. /\ n \in TaskRecords
      /\ n.cancellation_requested
      /\ n.status = rec[active].status
      /\ n.storage_committed = rec[active].storage_committed
      /\ n.created_at = rec[active].created_at
  BY <1>1, <1>2, SetterFacts DEF ServiceTypeOK
<1>4. \/ rec' = rec /\ main' \in {"raised", "joining"}
      \/ /\ rec' = [rec EXCEPT ![active] = n]
         /\ ~rec[active].storage_committed
         /\ main' = "signal_active"
  BY DEF ShutdownFlagsActive
<1>5. UNCHANGED <<registered, files, clock, queue, accepting, active, watchdogs, firing,
                  sched, creating, api, token, signalled, fatal, broken, unlisted>>
  BY DEF ShutdownFlagsActive
<1> HIDE DEF n
<1>6. /\ rec' \in [Tasks -> TaskRecords]
      /\ \A u \in Tasks \ {active} : rec'[u] = rec[u]
      /\ rec'[active] \in {rec[active], n}
      /\ rec'[active] # rec[active] => ~rec[active].storage_committed
      /\ main' = "signal_active" => rec'[active].cancellation_requested
  BY <1>1, <1>2, <1>3, <1>4 DEF ServiceTypeOK
<1>7. ServiceTypeOK'
  BY <1>1, <1>4, <1>5, <1>6 DEF ServiceTypeOK, MainPoints
<1>8. RecordsOK'
  BY <1>2, <1>3, <1>5, <1>6 DEF IInv, RecordsOK
<1>9. QueueOK'
  BY <1>1, <1>5, <1>6 DEF IInv, ServiceTypeOK, QueueOK
<1>10. ApiOK'
  BY <1>1, <1>3, <1>5, <1>6 DEF IInv, ServiceTypeOK, ApiOK, DeleteOps
<1>11. SchedOK' /\ TokenOK'
  BY <1>1, <1>3, <1>5, <1>6 DEF IInv, ServiceTypeOK, SchedOK, TokenOK
<1>12. MainOK'
  BY <1>2, <1>4, <1>5, <1>6, ServiceAssumption DEF MainOK
<1> QED BY <1>7, <1>8, <1>9, <1>10, <1>11, <1>12 DEF IInv


-----------------------------------------------------------------------------
(***************************************************************************)
(* The theorems.                                                           *)
(***************************************************************************)

\* The invariant holds when the service starts.
LEMMA InitInv == Init => IInv
<1> SUFFICES ASSUME Init PROVE IInv
  OBVIOUS
<1>1. NewRecord(0) \in TaskRecords
  BY NewRecordFacts
<1>2. \A t \in Tasks : /\ rec[t] = NewRecord(0)
                       /\ creating[t] = "unused"
  BY DEF Init
<1>3. /\ ~NewRecord(0).cancellation_requested
      /\ ~NewRecord(0).storage_committed
      /\ NewRecord(0).created_at = 0
  BY NewRecordFacts
<1>4. ServiceTypeOK
  <2>1. rec \in [Tasks -> TaskRecords] /\ queue \in Seq(Tasks) /\ clock \in Nat
    BY <1>1 DEF Init
  <2> QED BY <2>1 DEF Init, ServiceTypeOK, SchedulerPoints, ApiOps, MainPoints
<1>5. RecordsOK
  BY <1>2, <1>3 DEF Init, RecordsOK
<1>6. QueueOK /\ ApiOK /\ SchedOK /\ TokenOK /\ MainOK
  BY ServiceAssumption DEF Init, QueueOK, ApiOK, SchedOK, TokenOK, MainOK, DeleteOps, Working
<1> QED BY <1>4, <1>5, <1>6 DEF IInv

\* Every step of every thread keeps it.
LEMMA NextInv == IInv /\ [Next]_vars => IInv'
<1> SUFFICES ASSUME IInv, [Next]_vars PROVE IInv'
  OBVIOUS
<1>1. CASE EventLoop
  BY <1>1, CreateBeginsInv, CreateAbortedInv, CreateRechecksInv,
     DeletePurgesInv, DeleteFindsQueuedInv, DeleteFindsRunningInv, SubmitInv,
     DeleteFlagsQueuedInv, DeleteCancelsQueuedInv, DeleteFlagsRunningInv,
     DeleteSignalsRunningInv DEF EventLoop
<1>2. CASE SchedulerThread
  BY <1>2, LoopHeadInv, WakesInv, SweepBreaksInv, StartsInv, ChecksCancelledInv,
     DispatchesInv, ReportsProgressInv,
     CheckpointCancelsInv, RunSucceedsInv, RunFailsInv, RunFailsFatallyInv,
     BeginsPublicationInv, PublicationFailsInv, PublishesLocallyInv,
     PublishesRemotelyInv, CompletesInv, HandlesCancelledInv,
     HandlesFailureInv, RemovalFailsInv, DrainsAfterFatalInv, FinishesInv
     DEF SchedulerThread, RunEnds
<1>3. CASE MainThread
  BY <1>3, ShutdownDrainsInv, ShutdownFlagsActiveInv,
     ShutdownSignalsActiveInv, ShutdownJoinsInv, ShutdownTimesOutInv
     DEF MainThread
<1>4. CASE \E t \in Tasks : WatchdogWakes(t)
  BY <1>4, WatchdogWakesInv
<1>5. CASE WatchdogFires \/ GroupBreaks
  BY <1>5, WatchdogFiresInv, GroupBreaksInv
<1>6. CASE UNCHANGED vars
  <2>1. /\ UNCHANGED <<rec, registered, files, clock, queue, accepting, active>>
        /\ UNCHANGED <<watchdogs, firing, sched, creating, api, main>>
        /\ UNCHANGED <<token, signalled, fatal, broken, unlisted>>
    BY <1>6 DEF vars
  <2> QED BY <2>1 DEF IInv, ServiceTypeOK, RecordsOK, QueueOK, ApiOK, SchedOK, TokenOK, MainOK
<1> QED BY <1>1, <1>2, <1>3, <1>4, <1>5, <1>6 DEF Next

\* The service stays inside the invariant whatever its threads do.
LEMMA SpecInv == Spec => []IInv
BY InitInv, NextInv, PTL DEF Spec

\* Every variable of the service keeps its type.
THEOREM TypeCorrect == Spec => []ServiceTypeOK
<1>1. IInv => ServiceTypeOK
  BY DEF IInv
<1> QED BY <1>1, SpecInv, PTL

\* For any number of tasks and threads: a task whose result is being or has
\* been published was never asked to cancel, and never will be.
THEOREM CancelOrCommit == Spec => []CancelCommitExclusive
<1>1. IInv => CancelCommitExclusive
  BY DEF IInv, RecordsOK, CancelCommitExclusive
<1> QED BY <1>1, SpecInv, PTL

\* The queue never outgrows its bound and never holds a task twice, one that
\* runs, has ended or was asked to cancel: no drain is ever refused half-way.
THEOREM QueueIsSound == Spec => []QueueSound
<1>1. IInv => QueueSound
  BY DEF IInv, QueueOK, QueueSound
<1> QED BY <1>1, SpecInv, PTL

\* The worker group is only ever told to stop the task it is running, and
\* only when that task was asked to cancel: a late DELETE cannot stop the
\* request that runs next.
THEOREM SignalIsAimed == Spec => []SignalHitsRequestedTask
<1>1. IInv => SignalHitsRequestedTask
  BY DEF IInv, TokenOK, SignalHitsRequestedTask
<1> QED BY <1>1, SpecInv, PTL

-----------------------------------------------------------------------------
(***************************************************************************)
(* The service implements TaskContract: every step of every thread moves   *)
(* the life of each task along the contract or leaves it alone.            *)
(***************************************************************************)

\* The life of t makes at most one move of the contract.
LifeStep(t) == Life'[t] = Life[t] \/ Contract!Moves(Life[t], Life'[t])

\* The life of t, in the terms of its record.
LEMMA LifeOf ==
    ASSUME NEW t \in Tasks
    PROVE  /\ Life[t] = [stage |-> Stage(t), claim |-> Claim(t)]
           /\ Life'[t] = [stage |-> Stage(t)', claim |-> Claim(t)']
BY DEF Life

\* The moves of the contract, field by field.
FieldMoves(s, c, s2, c2) ==
    \/ s = "queued" /\ s2 = "running" /\ c2 = c
    \/ s \in {"queued", "running"} /\ c = "none" /\ s2 = s /\ c2 = "cancel"
    \/ s = "running" /\ c = "none" /\ s2 = s /\ c2 = "commit"
    \/ s = "running" /\ c = "commit" /\ s2 = "completed" /\ c2 = c
    \/ s = "running" /\ s2 = "failed" /\ c2 = c
    \/ s \in {"queued", "running"} /\ c = "cancel" /\ s2 = "cancelled" /\ c2 = c
    \/ s = "queued" /\ c # "commit" /\ s2 = "cancelled" /\ c2 = "cancel"
    \/ s \in {"completed", "failed", "cancelled"} /\ s2 = "purged" /\ c2 = c

\* A change of stage and claim that is one of these is a move.
LEMMA FieldMovesAreMoves ==
    ASSUME NEW t \in Tasks, FieldMoves(Stage(t), Claim(t), Stage(t)', Claim(t)')
    PROVE  LifeStep(t)
<1> DEFINE s == Stage(t)   s2 == Stage(t)'
           c == Claim(t)   c2 == Claim(t)'
           l == [stage |-> s, claim |-> c]
           n == [stage |-> s2, claim |-> c2]
<1>1. Life[t] = l /\ Life'[t] = n
  BY LifeOf
<1>2. FieldMoves(s, c, s2, c2)
  OBVIOUS
<1> HIDE DEF s, c, s2, c2
<1>3. l.stage = s /\ l.claim = c
  OBVIOUS
<1>4. c2 = c => n = [l EXCEPT !.stage = s2]
  OBVIOUS
<1>5. s2 = s => n = [l EXCEPT !.claim = c2]
  OBVIOUS
<1> HIDE DEF l
<1>6. n = [stage |-> s2, claim |-> c2]
  OBVIOUS
<1> HIDE DEF n
<1>7. Contract!Moves(l, n)
  BY <1>2, <1>3, <1>4, <1>5, <1>6, Zenon DEF FieldMoves, Contract!Moves, Contract!Ended
<1> QED BY <1>1, <1>7 DEF LifeStep

\* The record of t decides the same and t is registered if it was before.
Unmoved(t) ==
    /\ rec'[t].status = rec[t].status
    /\ rec'[t].cancellation_requested = rec[t].cancellation_requested
    /\ rec'[t].storage_committed = rec[t].storage_committed
    /\ rec'[t].created_at = rec[t].created_at
    /\ t \in registered' <=> t \in registered

\* Then its life is what it was.
LEMMA UnmovedStays ==
    ASSUME NEW t \in Tasks, Unmoved(t)
    PROVE  LifeStep(t)
<1>1. Stage(t)' = Stage(t)
  BY DEF Unmoved, Stage
<1>2. Claim(t)' = Claim(t)
  BY DEF Unmoved, Claim
<1> QED BY <1>1, <1>2, LifeOf DEF LifeStep

\* A record with the same core is unmoved while t stays registered.
LEMMA SameCoreUnmoved ==
    ASSUME NEW t \in Tasks, SameCore(rec[t], rec'[t]), t \in registered' <=> t \in registered
    PROVE  LifeStep(t)
BY UnmovedStays DEF Unmoved, SameCore, SameDecisions

\* t, still registered and not ended, is asked to cancel.
LEMMA RequestIsAMove ==
    ASSUME NEW t \in Tasks, IInv,
           t \in registered, t \in registered',
           rec[t].status \in {"queued", "running"},
           rec'[t].status = rec[t].status,
           rec'[t].created_at = rec[t].created_at,
           rec'[t].cancellation_requested,
           ~rec[t].storage_committed, ~rec'[t].storage_committed
    PROVE  LifeStep(t)
<1>1. rec[t].created_at > 0 /\ rec[t].created_at # 0
  BY DEF IInv, ServiceTypeOK, TaskRecords, RecordsOK
<1>2. Stage(t) = rec[t].status /\ Stage(t)' = rec[t].status
  BY <1>1 DEF Stage
<1>3. Claim(t) \in {"none", "cancel"} /\ Claim(t)' = "cancel"
  BY DEF Claim
<1>4. CASE Claim(t) = "cancel"
  BY <1>2, <1>3, <1>4, LifeOf DEF LifeStep
<1>5. CASE Claim(t) = "none"
  BY <1>2, <1>3, <1>5, FieldMovesAreMoves DEF FieldMoves
<1> QED BY <1>3, <1>4, <1>5

\* t changes its status, in a way the contract allows for what was decided.
LEMMA StatusIsAMove ==
    ASSUME NEW t \in Tasks, IInv,
           t \in registered, t \in registered',
           SameDecisions(rec[t], rec'[t]),
           \/ rec[t].status = "queued" /\ rec'[t].status = "running"
           \/ /\ rec[t].status = "running" /\ rec'[t].status = "completed"
              /\ rec[t].storage_committed
           \/ rec[t].status = "running" /\ rec'[t].status = "failed"
           \/ /\ rec[t].status \in {"queued", "running"} /\ rec'[t].status = "cancelled"
              /\ rec[t].cancellation_requested
    PROVE  LifeStep(t)
<1>1. rec[t].created_at > 0 /\ rec[t].created_at # 0
  BY DEF IInv, ServiceTypeOK, TaskRecords, RecordsOK
<1>2. Stage(t) = rec[t].status /\ Stage(t)' = rec'[t].status
  BY <1>1 DEF Stage, SameDecisions
<1>3. Claim(t)' = Claim(t)
  BY DEF Claim, SameDecisions
<1>4. /\ rec[t].storage_committed => Claim(t) = "commit"
      /\ rec[t].cancellation_requested => Claim(t) = "cancel"
  BY DEF Claim, IInv, RecordsOK
<1> QED BY <1>2, <1>3, <1>4, FieldMovesAreMoves DEF FieldMoves

\* An ended task is deleted.
LEMMA PurgeIsAMove ==
    ASSUME NEW t \in Tasks, IInv,
           t \in registered, t \notin registered',
           IsTerminal(rec[t]), SameCore(rec[t], rec'[t])
    PROVE  LifeStep(t)
<1>1. rec[t].created_at > 0 /\ rec[t].created_at # 0
  BY DEF IInv, ServiceTypeOK, TaskRecords, RecordsOK
<1>2. Stage(t) = rec[t].status /\ Stage(t)' = "purged"
  BY <1>1 DEF Stage, SameCore, SameDecisions
<1>3. Claim(t)' = Claim(t)
  BY DEF Claim, SameCore, SameDecisions
<1> QED BY <1>2, <1>3, FieldMovesAreMoves DEF FieldMoves, IsTerminal, TerminalStatuses

-----------------------------------------------------------------------------
(***************************************************************************)
(* The actions that change a record or the table.                          *)
(***************************************************************************)

\* Admission.
LEMMA SubmitMoves ==
    ASSUME IInv, Submit, NEW u \in Tasks
    PROVE  LifeStep(u)
<1> DEFINE t == api.task
           r == NewRecord(clock + 1)
           blank == [rec EXCEPT ![t] = r]
<1>1. ServiceTypeOK
  BY DEF IInv
<1>2. /\ t \in Tasks /\ t \notin registered
      /\ rec[t].created_at = 0
      /\ ~rec[t].cancellation_requested
      /\ ~rec[t].storage_committed
  BY DEF IInv, ApiOK, RecordsOK, Submit
<1>3. CASE ~(accepting /\ ~QueueFull)
  BY <1>3, UnmovedStays DEF Submit, Unmoved
<1>4. CASE accepting /\ ~QueueFull
  <2>1. /\ registered' = registered \cup {t}
        /\ rec' = UpdateQueuePositions(blank, registered \cup {t}, Append(queue, t))
        /\ Append(queue, t) \in Seq(Tasks)
        /\ clock + 1 \in Nat /\ clock + 1 # 0
    BY <1>1, <1>2, <1>4 DEF Submit, ServiceTypeOK
  <2>2. /\ r \in TaskRecords
        /\ r.status = "queued"
        /\ ~r.cancellation_requested
        /\ ~r.storage_committed
        /\ r.created_at = clock + 1
    BY <2>1, NewRecordFacts
  <2>3. /\ blank \in [Tasks -> TaskRecords]
        /\ blank[t] = r
        /\ \A v \in Tasks \ {t} : blank[v] = rec[v]
    BY <1>1, <1>2, <2>2 DEF ServiceTypeOK
  <2> HIDE DEF r, blank
  <2>4. SameCore(blank[u], rec'[u])
    BY <2>1, <2>3, UpdateQueuePositionsFacts
  <2>5. CASE u # t
    BY <2>1, <2>3, <2>4, <2>5, SameCoreUnmoved
  <2>6. CASE u = t
    <3>1. Stage(u) = "absent" /\ Claim(u) = "none"
      BY <1>2, <2>6 DEF Stage, Claim
    <3>2. Stage(u)' = "queued" /\ Claim(u)' = "none"
      BY <2>1, <2>2, <2>3, <2>4, <2>6 DEF Stage, Claim, SameCore, SameDecisions
    <3> QED BY <3>1, <3>2, LifeOf DEF LifeStep, Contract!Moves, Contract!Fresh
  <2> QED BY <2>5, <2>6
<1> QED BY <1>3, <1>4

\* A record whose task is flagged by request_cancellation.
LEMMA FlagMoves ==
    ASSUME IInv, NEW t \in registered, NEW u \in Tasks,
           ~IsTerminal(rec[t]), ~rec[t].storage_committed,
           rec' = [rec EXCEPT ![t] = RequestCancellation(@)],
           registered' = registered
    PROVE  LifeStep(u)
<1> DEFINE n == RequestCancellation(rec[t])
<1>1. t \in Tasks /\ rec \in [Tasks -> TaskRecords]
  BY DEF IInv, ServiceTypeOK
<1>2. rec' = [rec EXCEPT ![t] = n]
  OBVIOUS
<1>3. /\ n \in TaskRecords
      /\ n.cancellation_requested
      /\ n.status = rec[t].status
      /\ n.storage_committed = rec[t].storage_committed
      /\ n.created_at = rec[t].created_at
  BY <1>1, SetterFacts
<1> HIDE DEF n
<1>4. rec[t].status \in {"queued", "running"}
  BY <1>1 DEF TaskRecords, Statuses, IsTerminal, TerminalStatuses
<1>5. rec'[t] = n /\ \A v \in Tasks \ {t} : rec'[v] = rec[v]
  BY <1>1, <1>2
<1>6. CASE u = t
  BY <1>1, <1>3, <1>4, <1>5, <1>6, RequestIsAMove
<1>7. CASE u # t
  BY <1>5, <1>7, UnmovedStays DEF Unmoved
<1> QED BY <1>6, <1>7

\* DELETE and shutdown ask for cancellation.
LEMMA RequestMoves ==
    ASSUME IInv, DeleteFlagsQueued \/ DeleteFlagsRunning \/ ShutdownFlagsActive,
           NEW u \in Tasks
    PROVE  LifeStep(u)
<1>1. CASE rec' = rec
  <2>1. registered' = registered
    BY DEF DeleteFlagsQueued, DeleteFlagsRunning, ShutdownFlagsActive
  <2> QED BY <1>1, <2>1, UnmovedStays DEF Unmoved
<1>2. CASE rec' # rec
  <2>1. CASE DeleteFlagsQueued
    BY <1>2, <2>1, FlagMoves DEF DeleteFlagsQueued, CancellationRefused, IInv, ApiOK, DeleteOps
  <2>2. CASE DeleteFlagsRunning
    BY <1>2, <2>2, FlagMoves DEF DeleteFlagsRunning, CancellationRefused, IInv, ApiOK, DeleteOps
  <2>3. CASE ShutdownFlagsActive
    BY <1>2, <2>3, FlagMoves DEF ShutdownFlagsActive
  <2> QED BY <2>1, <2>2, <2>3
<1> QED BY <1>1, <1>2

\* DELETE cancels a task that has not started, or has just started.
LEMMA DeleteCancelsQueuedMoves ==
    ASSUME IInv, DeleteCancelsQueued, NEW u \in Tasks
    PROVE  LifeStep(u)
<1> DEFINE t == api.task
           n == Transition(rec[t], "cancelled", "none", clock + 1)
           ended == [rec EXCEPT ![t] = n]
<1>1. ServiceTypeOK
  BY DEF IInv
<1>2. t \in registered /\ t \in Tasks /\ rec[t].cancellation_requested /\ registered' = registered
  BY <1>1 DEF IInv, ApiOK, ServiceTypeOK, DeleteOps, DeleteCancelsQueued
<1>3. n.status = "cancelled" /\ SameDecisions(rec[t], n)
  BY <1>1, <1>2, TransitionFacts DEF ServiceTypeOK, Statuses, Errors
<1>4. /\ ended \in [Tasks -> TaskRecords]
      /\ ended[t] = n
      /\ \A v \in Tasks \ {t} : ended[v] = rec[v]
  BY <1>1, <1>2, <1>3 DEF ServiceTypeOK, SameDecisions
<1>5. \/ rec' = rec
      \/ /\ CanTransition(rec[t], "cancelled")
         /\ rec' \in {ended, UpdateQueuePositions(ended, registered, queue)}
  BY DEF DeleteCancelsQueued
<1> HIDE DEF n, ended
<1>6. CASE rec' = rec
  BY <1>2, <1>6, UnmovedStays DEF Unmoved
<1>7. CASE /\ CanTransition(rec[t], "cancelled")
           /\ rec' \in {ended, UpdateQueuePositions(ended, registered, queue)}
  <2>1. \A v \in Tasks : SameCore(ended[v], rec'[v])
    <3>1. \A v \in Tasks : SameCore(ended[v], ended[v])
      BY <1>4 DEF SameCore, SameDecisions
    <3> QED BY <1>1, <1>4, <1>7, <3>1, UpdateQueuePositionsFacts DEF ServiceTypeOK
  <2>2. rec[t].status \in {"queued", "running"}
    BY <1>1, <1>2, <1>7 DEF ServiceTypeOK, TaskRecords, CanTransition, AllowedTransitions, Statuses
  <2>3. CASE u = t
    <3>1. rec'[t].status = "cancelled" /\ SameDecisions(rec[t], rec'[t])
      BY <1>2, <1>3, <1>4, <2>1 DEF SameCore, SameDecisions
    <3> QED BY <1>2, <2>2, <2>3, <3>1, StatusIsAMove
  <2>4. CASE u # t
    BY <1>2, <1>4, <2>1, <2>4, SameCoreUnmoved
  <2> QED BY <2>3, <2>4
<1> QED BY <1>5, <1>6, <1>7

\* DELETE of an ended task.
LEMMA DeletePurgesMoves ==
    ASSUME IInv, NEW t \in Tasks, DeletePurges(t), NEW u \in Tasks
    PROVE  LifeStep(u)
<1>1. rec' = rec /\ registered' = registered \ {t} /\ t \in registered /\ IsTerminal(rec[t])
  BY DEF DeletePurges
<1>2. SameCore(rec[u], rec'[u])
  BY <1>1 DEF IInv, ServiceTypeOK, SameCore, SameDecisions
<1>3. CASE u = t
  BY <1>1, <1>2, <1>3, PurgeIsAMove
<1>4. CASE u # t
  BY <1>1, <1>2, <1>4, SameCoreUnmoved
<1> QED BY <1>3, <1>4

\* The head of the loop purges ended tasks and renumbers the queue.
LEMMA LoopMoves ==
    ASSUME IInv, LoopHead \/ Wakes \/ SweepBreaks, NEW u \in Tasks
    PROVE  LifeStep(u)
<1>1. /\ registered' \subseteq registered
      /\ \A v \in registered \ registered' : IsTerminal(rec[v])
  <2>1. CASE LoopHead
    BY <2>1 DEF LoopHead
  <2>2. CASE Wakes
    BY <2>2, ExpiredAreTerminal DEF Wakes
  <2>3. CASE SweepBreaks
    BY <2>3, ExpiredAreTerminal DEF SweepBreaks
  <2> QED BY <2>1, <2>2, <2>3
<1>2. rec' = rec \/ rec' = UpdateQueuePositions(rec, registered', queue')
  BY DEF LoopHead, Wakes, SweepBreaks
<1>3. queue' \in Seq(Tasks)
  BY LoopHeadInv, WakesInv, SweepBreaksInv DEF IInv, ServiceTypeOK
<1>4. SameCore(rec[u], rec'[u])
  <2>1. SameCore(rec[u], rec[u])
    BY DEF IInv, ServiceTypeOK, SameCore, SameDecisions
  <2> QED BY <1>2, <1>3, <2>1, UpdateQueuePositionsFacts DEF IInv, ServiceTypeOK
<1>5. CASE u \in registered \ registered'
  BY <1>1, <1>4, <1>5, PurgeIsAMove
<1>6. CASE u \notin registered \ registered'
  BY <1>1, <1>4, <1>6, SameCoreUnmoved
<1> QED BY <1>5, <1>6

\* A drain cancels waiting tasks, all of them unless it raises.
LEMMA DrainMoves ==
    ASSUME IInv, DrainQueue \/ DrainBreaks, registered' = registered, NEW u \in Tasks
    PROVE  LifeStep(u)
<1>1. CASE ~InQueue(u)
  BY <1>1, DrainFacts, UnmovedStays DEF Unmoved
<1>3. CASE rec'[u] = rec[u]
  BY <1>3, UnmovedStays DEF Unmoved
<1>2. CASE InQueue(u) /\ rec'[u] # rec[u]
  <2>1. /\ u \in registered
        /\ rec[u].status = "queued"
        /\ ~rec'[u].storage_committed
        /\ rec'[u].status = "cancelled"
        /\ rec'[u].cancellation_requested
        /\ rec'[u].created_at = rec[u].created_at
    BY <1>2, DrainFacts
  <2>2. rec[u].created_at # 0 /\ ~rec[u].storage_committed
    BY <2>1 DEF IInv, ServiceTypeOK, TaskRecords, RecordsOK
  <2>3. Stage(u) = "queued" /\ Claim(u) \in {"none", "cancel"}
    BY <2>1, <2>2 DEF Stage, Claim
  <2>4. Stage(u)' = "cancelled" /\ Claim(u)' = "cancel"
    BY <2>1, <2>2 DEF Stage, Claim
  <2> QED BY <2>3, <2>4, FieldMovesAreMoves DEF FieldMoves
<1> QED BY <1>1, <1>2, <1>3

\* The scheduler thread starts the active task or ends it.
LEMMA StatusMoves ==
    ASSUME IInv, Starts \/ Completes \/ HandlesCancelled \/ HandlesFailure,
           NEW u \in Tasks
    PROVE  LifeStep(u)
<1>1. /\ active \in Tasks /\ rec \in [Tasks -> TaskRecords] /\ clock \in Nat /\ clock + 1 \in Nat
  BY DEF IInv, ServiceTypeOK, SchedOK, Working, SchedulerPoints, Starts, Completes,
        HandlesCancelled, HandlesFailure
<1>2. registered' = registered
  BY DEF Starts, Completes, HandlesCancelled, HandlesFailure
<1>3. CASE rec' = rec
  BY <1>2, <1>3, UnmovedStays DEF Unmoved
<1>4. ASSUME NEW s \in Statuses, NEW e \in Errors, NEW now \in Nat,
             rec' = [rec EXCEPT ![active] = Transition(@, s, e, now)],
             active \in registered, CanTransition(rec[active], s),
             s \in {"running", "failed"} \/ (s = "completed" /\ rec[active].storage_committed)
                \/ (s = "cancelled" /\ rec[active].cancellation_requested)
      PROVE  LifeStep(u)
  <2> DEFINE n == Transition(rec[active], s, e, now)
  <2>1. n.status = s /\ SameDecisions(rec[active], n)
    BY <1>1, <1>4, TransitionFacts
  <2>2. rec' = [rec EXCEPT ![active] = n]
    BY <1>4
  <2> HIDE DEF n
  <2>3. rec'[active] = n /\ \A v \in Tasks \ {active} : rec'[v] = rec[v]
    BY <1>1, <2>2
  <2>4. \/ rec[active].status = "queued" /\ s \in {"running", "cancelled"}
        \/ rec[active].status = "running" /\ s \in TerminalStatuses
    <3>1. rec[active].status \in Statuses
      BY <1>1 DEF TaskRecords
    <3>2. AllowedTransitions[rec[active].status] =
            CASE rec[active].status = "queued"  -> {"running", "cancelled"}
              [] rec[active].status = "running" -> TerminalStatuses
              [] OTHER -> {}
      BY <3>1 DEF AllowedTransitions
    <3>3. s \in AllowedTransitions[rec[active].status]
      BY <1>4 DEF CanTransition
    <3>4. CASE rec[active].status = "queued"
      BY <3>2, <3>3, <3>4
    <3>5. CASE rec[active].status = "running"
      BY <3>2, <3>3, <3>5
    <3>6. rec[active].status \in {"queued", "running"}
      BY <3>2, <3>3
    <3> QED BY <3>4, <3>5, <3>6
  <2>5. CASE u = active
    BY <1>1, <1>2, <1>4, <2>1, <2>3, <2>4, <2>5, StatusIsAMove DEF TerminalStatuses
  <2>6. CASE u # active
    BY <1>2, <2>3, <2>6, UnmovedStays DEF Unmoved
  <2> QED BY <2>5, <2>6
<1>5. {"running", "completed", "cancelled", "failed"} \subseteq Statuses
  BY DEF Statuses
<1>6. {"none", "request_failed", "worker_group_fatal"} \subseteq Errors
  BY DEF Errors
<1>7. CASE Starts
  BY <1>1, <1>3, <1>4, <1>5, <1>6, <1>7 DEF Starts
<1>8. CASE Completes
  BY <1>1, <1>3, <1>4, <1>5, <1>6, <1>8 DEF Completes, Ends, IInv, SchedOK
<1>9. CASE HandlesCancelled
  BY <1>1, <1>3, <1>4, <1>5, <1>6, <1>9 DEF HandlesCancelled, Ends, IInv, SchedOK
<1>10. CASE HandlesFailure
  BY <1>1, <1>3, <1>4, <1>5, <1>6, <1>10 DEF HandlesFailure, Ends
<1> QED BY <1>7, <1>8, <1>9, <1>10

\* Publication begins.
LEMMA BeginsPublicationMoves ==
    ASSUME IInv, BeginsPublication, NEW u \in Tasks
    PROVE  LifeStep(u)
<1> DEFINE n == BeginResultPublication(rec[active])
<1>1. active \in Tasks /\ rec \in [Tasks -> TaskRecords]
  BY DEF IInv, ServiceTypeOK, SchedOK, Working, SchedulerPoints, BeginsPublication
<1>2. /\ n \in TaskRecords
      /\ n.storage_committed
      /\ n.status = rec[active].status
      /\ n.cancellation_requested = rec[active].cancellation_requested
      /\ n.created_at = rec[active].created_at
  BY <1>1, SetterFacts
<1>3. registered' = registered
  BY DEF BeginsPublication
<1>4. CASE rec' = rec
  BY <1>3, <1>4, UnmovedStays DEF Unmoved
<1>5. CASE rec' # rec
  <2>1. /\ active \in registered
        /\ rec[active].status = "running"
        /\ ~rec[active].cancellation_requested
        /\ rec' = [rec EXCEPT ![active] = n]
    BY <1>5 DEF BeginsPublication
  <2> HIDE DEF n
  <2>2. rec'[active] = n /\ \A v \in Tasks \ {active} : rec'[v] = rec[v]
    BY <1>1, <2>1
  <2>3. CASE u # active
    BY <1>3, <2>2, <2>3, UnmovedStays DEF Unmoved
  <2>4. CASE u = active
    <3>1. rec[u].created_at # 0
      BY <2>1, <2>4 DEF IInv, ServiceTypeOK, TaskRecords, RecordsOK
    <3>2. Stage(u) = "running" /\ Stage(u)' = "running"
      BY <1>2, <1>3, <2>1, <2>2, <2>4, <3>1 DEF Stage
    <3>3. Claim(u) \in {"none", "commit"} /\ Claim(u)' = "commit"
      BY <1>2, <2>1, <2>2, <2>4 DEF Claim
    <3>4. CASE Claim(u) = "none"
      BY <3>2, <3>3, <3>4, FieldMovesAreMoves DEF FieldMoves
    <3>5. CASE Claim(u) = "commit"
      BY <3>2, <3>3, <3>5, LifeOf DEF LifeStep
    <3> QED BY <3>3, <3>4, <3>5
  <2> QED BY <2>3, <2>4
<1> QED BY <1>4, <1>5

\* Progress reports and the storage location are no part of a task's life.
LEMMA ProgressMoves ==
    ASSUME IInv, ChecksCancelled \/ ReportsProgress \/ PublishesLocally \/ PublishesRemotely,
           NEW u \in Tasks
    PROVE  LifeStep(u)
<1>1. active \in Tasks /\ rec \in [Tasks -> TaskRecords]
  BY DEF IInv, ServiceTypeOK, SchedOK, Working, SchedulerPoints, ChecksCancelled,
        ReportsProgress, PublishesLocally, PublishesRemotely
<1>2. registered' = registered
  BY DEF ChecksCancelled, ReportsProgress, PublishesLocally, PublishesRemotely
<1>3. CASE rec' = rec
  BY <1>2, <1>3, UnmovedStays DEF Unmoved
<1>4. ASSUME NEW n, SameCore(rec[active], n), rec' = [rec EXCEPT ![active] = n]
      PROVE  LifeStep(u)
  <2>1. rec'[active] = n /\ \A v \in Tasks \ {active} : rec'[v] = rec[v]
    BY <1>1, <1>4
  <2>2. CASE u = active
    BY <1>2, <1>4, <2>1, <2>2, SameCoreUnmoved
  <2>3. CASE u # active
    BY <1>2, <2>1, <2>3, UnmovedStays DEF Unmoved
  <2> QED BY <2>2, <2>3
<1>5. /\ SameCore(rec[active], UpdateProgress(rec[active], "preparing"))
      /\ SameCore(rec[active], UpdateProgress(rec[active], "processing"))
  BY <1>1, UpdateProgressFacts DEF Phases
<1>6. /\ SameCore(rec[active], SetResultStorage(rec[active], "local"))
      /\ SameCore(rec[active], SetResultStorage(rec[active], "remote"))
  BY <1>1, SetterFacts DEF Locations
<1> QED BY <1>3, <1>4, <1>5, <1>6
       DEF ChecksCancelled, ReportsProgress, PublishesLocally, PublishesRemotely

\* The other actions touch neither the records nor the table.
LEMMA OthersMoves ==
    ASSUME UNCHANGED <<rec, registered>>, NEW u \in Tasks
    PROVE  LifeStep(u)
BY UnmovedStays DEF Unmoved

-----------------------------------------------------------------------------
(***************************************************************************)
(* The refinement.                                                         *)
(***************************************************************************)

\* After a step, lives are lives of the contract.
LEMMA LifeType ==
    ASSUME IInv'
    PROVE  Life' \in [Tasks -> Contract!Lives]
<1>1. ASSUME NEW t \in Tasks
      PROVE  Life'[t] \in Contract!Lives
  <2>1. rec'[t].status \in Statuses
    BY DEF IInv, ServiceTypeOK, TaskRecords
  <2>2. Stage(t)' \in {"absent", "queued", "running", "completed", "failed", "cancelled", "purged"}
    BY <2>1 DEF Stage, Statuses
  <2>3. Claim(t)' \in {"none", "cancel", "commit"}
    BY DEF Claim
  <2>4. Life'[t] = [stage |-> Stage(t)', claim |-> Claim(t)']
    BY LifeOf
  <2> QED BY <2>2, <2>3, <2>4 DEF Contract!Lives
<1> QED BY <1>1 DEF Life

\* When the service starts, no task has begun its life.
LEMMA InitRefines == Init => Contract!Init
<1> SUFFICES ASSUME Init PROVE Life = [t \in Tasks |-> Contract!Fresh]
  BY DEF Contract!Init
<1>1. ASSUME NEW t \in Tasks
      PROVE  [stage |-> Stage(t), claim |-> Claim(t)] = Contract!Fresh
  <2>1. rec[t] = NewRecord(0)
    BY DEF Init
  <2>2. /\ ~rec[t].cancellation_requested
        /\ ~rec[t].storage_committed
        /\ rec[t].created_at = 0
    BY <2>1, NewRecordFacts
  <2> QED BY <2>2 DEF Stage, Claim, Contract!Fresh
<1> QED BY <1>1 DEF Life

\* Every step moves every life along the contract or leaves it alone.
LEMMA NextRefines == IInv /\ [Next]_vars => [Contract!Next]_Life
<1> SUFFICES ASSUME IInv, [Next]_vars PROVE Contract!Next
  OBVIOUS
<1>1. Life' \in [Tasks -> Contract!Lives]
  <2>1. IInv'
    BY NextInv
  <2> QED BY <2>1, LifeType
<1>2. ASSUME NEW u \in Tasks PROVE LifeStep(u)
  <2>1. CASE EventLoop
    <3>1. CASE \E t \in Tasks : DeletePurges(t)
      BY <3>1, DeletePurgesMoves
    <3>2. CASE Submit \/ DeleteFlagsQueued \/ DeleteCancelsQueued \/ DeleteFlagsRunning
      BY <3>2, SubmitMoves, RequestMoves, DeleteCancelsQueuedMoves
    <3>3. CASE \E t \in Tasks : \/ CreateBegins(t) \/ CreateAborted(t) \/ CreateRechecks(t)
                                \/ DeleteFindsQueued(t) \/ DeleteFindsRunning(t)
      BY <3>3, OthersMoves DEF CreateBegins, CreateAborted, CreateRechecks,
            DeleteFindsQueued, DeleteFindsRunning
    <3>4. CASE DeleteSignalsRunning
      BY <3>4, OthersMoves DEF DeleteSignalsRunning
    <3> QED BY <2>1, <3>1, <3>2, <3>3, <3>4 DEF EventLoop
  <2>2. CASE SchedulerThread
    <3>1. CASE DrainsAfterFatal
      BY <3>1, DrainMoves DEF DrainsAfterFatal
    <3>2. CASE \/ Dispatches \/ RunEnds \/ PublicationFails
               \/ RemovalFails \/ Finishes
      BY <3>2, OthersMoves DEF Dispatches, RunEnds, CheckpointCancels,
            RunSucceeds, RunFails, RunFailsFatally, PublicationFails, RemovalFails, Finishes
    <3>3. CASE LoopHead \/ Wakes \/ SweepBreaks
      BY <3>3, LoopMoves
    <3>4. CASE Starts \/ Completes \/ HandlesCancelled \/ HandlesFailure
      BY <3>4, StatusMoves
    <3>5. CASE ChecksCancelled \/ ReportsProgress \/ PublishesLocally \/ PublishesRemotely
      BY <3>5, ProgressMoves
    <3>6. CASE BeginsPublication
      BY <3>6, BeginsPublicationMoves
    <3> QED BY <2>2, <3>1, <3>2, <3>3, <3>4, <3>5, <3>6 DEF SchedulerThread
  <2>3. CASE MainThread
    <3>1. CASE ShutdownDrains
      BY <3>1, DrainMoves DEF ShutdownDrains
    <3>2. CASE ShutdownFlagsActive
      BY <3>2, RequestMoves
    <3>3. CASE ShutdownSignalsActive \/ ShutdownJoins \/ ShutdownTimesOut
      BY <3>3, OthersMoves DEF ShutdownSignalsActive, ShutdownJoins, ShutdownTimesOut
    <3> QED BY <2>3, <3>1, <3>2, <3>3 DEF MainThread
  <2>4. CASE (\E t \in Tasks : WatchdogWakes(t)) \/ WatchdogFires \/ GroupBreaks
    BY <2>4, OthersMoves DEF WatchdogWakes, WatchdogFires, GroupBreaks
  <2>5. CASE UNCHANGED vars
    BY <2>5, OthersMoves DEF vars
  <2> QED BY <2>1, <2>2, <2>3, <2>4, <2>5 DEF Next
<1> QED BY <1>1, <1>2 DEF Contract!Next, LifeStep

\* The service, for any number of tasks and with all its threads and faults,
\* implements the contract: a task ends once, publishes only if nobody asked
\* to cancel it, and cannot be cancelled once publication has begun.
THEOREM ServiceKeepsContract == Spec => KeepsContract
<1>1. Init => Contract!Init
  BY InitRefines
<1>2. IInv /\ [Next]_vars => [Contract!Next]_Life
  BY NextRefines
<1> QED BY <1>1, <1>2, SpecInv, PTL DEF Spec, KeepsContract, Contract!Spec

-----------------------------------------------------------------------------
(***************************************************************************)
(* How tasks end: in the order in which they were accepted, with the files *)
(* on the disk that their record promises, and, when no environment fault  *)
(* and no early DELETE interferes, all of them.                            *)
(***************************************************************************)

(***************************************************************************)
(* The invariant, which leans on IInv of ServiceProofs.                    *)
(***************************************************************************)

\* cancel_or_purge has found t queued and still holds the lock.
HeldByDelete(t) == api.op \in {"drop_queued", "cancel_queued"} /\ api.task = t

\* A drain may have raised between clearing the queue and the last of its
\* tasks: from then on nothing is queued or started any more.
Cleared == "filesystem" \in Faults /\ queue = <<>> /\ ~accepting

\* The queue is in the order of creation, the task the thread has popped is
\* older than all that wait, and a queued task is in the queue or in hand.
OrderOK ==
    /\ \A t \in Tasks : rec[t].created_at <= clock
    /\ \A i, j \in DOMAIN queue :
          i < j => rec[queue[i]].created_at <= rec[queue[j]].created_at
    /\ sched = "popped" =>
          \A t \in registered : rec[t].status = "queued" =>
              rec[active].created_at <= rec[t].created_at
    /\ \/ Cleared
       \/ \A t \in registered : rec[t].status = "queued" =>
             InQueue(t) \/ HeldByDelete(t) \/ (sched = "popped" /\ t = active)

\* A completed task has its result; the thread works on the active task only
\* before it completes, and nobody takes it away once it is being published.
ResultOK ==
    /\ CompletedHasResult
    /\ sched \in Working \ {"finally"} => rec[active].status # "completed"
    /\ sched \in {"publishing", "completing"} =>
          active \in registered /\ rec[active].status = "running"
    /\ sched = "completing" =>
          /\ rec[active].location # "none"
          /\ rec[active].location = "local" => "result" \in files[active]

\* Where the scheduler thread stands once it has removed the artifacts.
Removed == {"finally", "draining", "dying"}

\* If files can be removed, a failed or cancelled task that the thread does
\* not work on, or has done with, has left nothing.
LeftoversOK ==
    /\ sched \in {"loop", "waiting", "stopped"} => active = NoTask
    /\ "filesystem" \notin Faults =>
          \A t \in registered :
             rec[t].status \in {"failed", "cancelled"} /\ (t = active => sched \in Removed)
                => files[t] \subseteq {"dir"}

\* From the transition to RUNNING to the one to a terminal status.
Started == {"started", "dispatch", "executing", "ran", "publishing", "completing",
            "cancelling", "failing"}

\* Nothing is accepted after the drain of shutdown.  Without faults and as
\* long as no DELETE has met a task between queue and start, the thread
\* lives and every running task is the one it works on.
LimboOK ==
    /\ main # "serving" => queue = <<>> /\ ~accepting /\ api.op = "idle"
    /\ main = "closed" => sched \in {"stopped", "dead"}
    /\ sched \in {"finally", "draining"} => IsTerminal(rec[active])
    /\ Faults = {} => ~broken
    /\ Faults = {} /\ ~unlisted =>
          /\ sched \notin {"dying", "dead"}
          /\ sched = "popped" => active \in registered /\ rec[active].status = "queued"
          /\ sched \in Started => active \in registered /\ rec[active].status = "running"
          /\ \A t \in Tasks : HeldByDelete(t) => t # active /\ rec[t].status = "queued"
          /\ \A t \in registered : rec[t].status = "running" => t = active /\ sched \in Started

OInv == OrderOK /\ ResultOK /\ LeftoversOK /\ LimboOK

-----------------------------------------------------------------------------
(***************************************************************************)
(* Steps that leave the records, the table and the queue alone.            *)
(***************************************************************************)

\* Steps of the event loop, of the watchdogs and of shutdown that touch none
\* of what the invariant speaks of but their own counters.
LEMMA AsideOut ==
    ASSUME IInv, OInv,
           UNCHANGED <<rec, registered, files, clock, queue, active, sched, unlisted, broken>>,
           api' = api \/ (api.op \notin {"drop_queued", "cancel_queued"}
                           /\ api'.op \notin {"drop_queued", "cancel_queued"}),
           accepting' = accepting \/ ~accepting',
           api' = api \/ main = "serving",
           main' = main \/ (main # "serving" /\ main' # "serving"),
           main' = "closed" => main = "closed" \/ sched \in {"stopped", "dead"}
    PROVE  OInv'
<1>1. \A t \in Tasks : HeldByDelete(t)' <=> HeldByDelete(t)
  BY DEF HeldByDelete
<1>2. \A t \in Tasks : InQueue(t)' <=> InQueue(t)
  BY DEF InQueue
<1>3. registered \subseteq Tasks
  BY DEF IInv, ServiceTypeOK
<1>4. OrderOK'
  BY <1>1, <1>2, <1>3 DEF OInv, OrderOK, Cleared
<1>5. ResultOK'
  BY DEF OInv, ResultOK, CompletedHasResult
<1>6. LeftoversOK'
  BY DEF OInv, LeftoversOK
<1>7. LimboOK'
  BY <1>1 DEF OInv, LimboOK
<1> QED BY <1>4, <1>5, <1>6, <1>7 DEF OInv

\* create_video touches files of a task that has no record yet.
LEMMA CreateOut ==
    ASSUME IInv, OInv, NEW t \in Tasks, CreateBegins(t) \/ CreateAborted(t)
    PROVE  OInv'
<1>1. /\ t \notin registered
      /\ active # t
      /\ registered \subseteq Tasks
      /\ \A u \in Tasks \ {t} : files'[u] = files[u]
  BY ServiceAssumption DEF IInv, ServiceTypeOK, RecordsOK, SchedOK, CreateBegins, CreateAborted
<1>2. UNCHANGED <<rec, registered, clock, queue, active, sched, unlisted, broken,
                  accepting, api, main>>
  BY DEF CreateBegins, CreateAborted
<1>3. OrderOK'
  BY <1>2 DEF OInv, OrderOK, Cleared, HeldByDelete, InQueue
<1>4. ResultOK'
  BY <1>1, <1>2 DEF OInv, ResultOK, CompletedHasResult
<1>5. LeftoversOK'
  BY <1>1, <1>2 DEF OInv, LeftoversOK
<1>6. LimboOK'
  BY <1>2 DEF OInv, LimboOK, HeldByDelete
<1> QED BY <1>3, <1>4, <1>5, <1>6 DEF OInv

\* Steps of the scheduler thread that leave the record alone.
LEMMA RunOut ==
    ASSUME IInv, OInv,
           \/ Dispatches \/ CheckpointCancels \/ RunSucceeds \/ RunFails \/ RunFailsFatally
           \/ PublicationFails \/ RemovalFails
    PROVE  OInv'
<1>1. /\ sched \in Started /\ sched # "completing"
      /\ sched' \in {"failing", "executing", "cancelling", "ran", "dying"}
      /\ sched' = "dying" => "filesystem" \in Faults
  BY DEF Dispatches, CheckpointCancels, RunSucceeds, RunFails, RunFailsFatally,
         PublicationFails, RemovalFails, Returns, Started
<1>2. /\ UNCHANGED <<rec, registered, clock, queue, active>>
      /\ UNCHANGED <<unlisted, broken, accepting, api, main>>
      /\ \A u \in Tasks \ {active} : files'[u] = files[u]
  BY DEF IInv, ServiceTypeOK, Dispatches, CheckpointCancels, RunSucceeds, RunFails,
         RunFailsFatally, PublicationFails, RemovalFails, Returns
<1>3. active \in Tasks /\ registered \subseteq Tasks
  BY <1>1 DEF IInv, ServiceTypeOK, SchedOK, Working, SchedulerPoints, Started
<1>4. OrderOK'
  BY <1>1, <1>2 DEF OInv, OrderOK, Cleared, HeldByDelete, InQueue, Started
<1>5. ResultOK'
  <2>1. rec[active].status # "completed"
    BY <1>1 DEF OInv, ResultOK, Working, SchedulerPoints, Started
  <2> QED BY <1>1, <1>2, <1>3, <2>1 DEF OInv, ResultOK, CompletedHasResult
<1>6. LeftoversOK'
  <2>1. sched' \notin {"loop", "waiting", "stopped"}
    BY <1>1
  <2>2. "filesystem" \notin Faults => sched' \notin Removed /\ sched \notin Removed
    BY <1>1 DEF Removed, Started
  <2> QED BY <1>2, <1>3, <2>1, <2>2 DEF OInv, LeftoversOK
<1>7. LimboOK'
  <2>1. Faults = {} => sched' \in Started
    BY <1>1 DEF Started
  <2>2. sched' \notin {"finally", "draining", "stopped", "popped"} /\ sched \notin {"stopped", "dead"}
    BY <1>1 DEF Started
  <2> QED BY <1>1, <1>2, <2>1, <2>2 DEF OInv, LimboOK, HeldByDelete, Started
<1> QED BY <1>4, <1>5, <1>6, <1>7 DEF OInv

\* The thread lets go of the task.
LEMMA FinishesOut ==
    ASSUME IInv, OInv, Finishes
    PROVE  OInv'
<1>1. /\ sched \in {"finally", "dying"}
      /\ sched' = (IF sched = "finally" THEN "loop" ELSE "dead")
      /\ active' = NoTask
      /\ UNCHANGED <<rec, registered, files, clock, queue, accepting, api, main, unlisted, broken>>
      /\ api.op \in {"idle", "submit"}
  BY DEF Finishes, LockFree
<1>2. NoTask \notin registered /\ registered \subseteq Tasks /\ NoTask \notin Tasks
  BY ServiceAssumption DEF IInv, ServiceTypeOK
<1>3. OrderOK'
  BY <1>1 DEF OInv, OrderOK, Cleared, HeldByDelete, InQueue
<1>4. ResultOK'
  BY <1>1 DEF OInv, ResultOK, CompletedHasResult, Working
<1>5. LeftoversOK'
  BY <1>1, <1>2 DEF OInv, LeftoversOK, Removed
<1>6. LimboOK'
  BY <1>1, <1>2 DEF OInv, LimboOK, HeldByDelete, Started, IsTerminal
<1> QED BY <1>3, <1>4, <1>5, <1>6 DEF OInv

-----------------------------------------------------------------------------
(***************************************************************************)
(* Steps of the scheduler thread on the record of the active task.         *)
(***************************************************************************)

\* The active record takes a new status and keeps all else that matters.
LEMMA TransitionStep ==
    ASSUME IInv, active \in Tasks,
           NEW s \in Statuses \ {"queued"}, NEW e \in Errors, NEW now \in Nat,
           rec' = [rec EXCEPT ![active] = Transition(@, s, e, now)],
           UNCHANGED <<registered, creating, queue, active, api, main>>
    PROVE  /\ ActiveStep
           /\ rec'[active].status = s
           /\ rec'[active].location = rec[active].location
           /\ rec'[active].storage_committed = rec[active].storage_committed
<1> DEFINE n == Transition(rec[active], s, e, now)
<1>1. rec \in [Tasks -> TaskRecords]
  BY DEF IInv, ServiceTypeOK
<1>2. n.status = s /\ SameDecisions(rec[active], n)
  BY <1>1, TransitionFacts
<1>3. n.location = rec[active].location
  <2>1. rec[active] \in TaskRecords
    BY <1>1
  <2> QED BY <2>1 DEF Transition, TaskRecords
<1>4. rec' = [rec EXCEPT ![active] = n]
  OBVIOUS
<1> HIDE DEF n
<1>5. rec'[active] = n
  BY <1>1, <1>4
<1> QED BY <1>2, <1>3, <1>4, <1>5, RecordChange DEF SameDecisions

\* A step on the active record leaves the order of the others alone.
LEMMA ActiveOrder ==
    ASSUME IInv, OInv, ActiveStep, clock' \in {clock, clock + 1}, sched' # "popped",
           accepting' = accepting,
           sched = "popped" /\ active \in registered => rec'[active].status # "queued"
    PROVE  OrderOK'
<1>1. /\ rec \in [Tasks -> TaskRecords] /\ rec' \in [Tasks -> TaskRecords] /\ clock \in Nat
      /\ registered \subseteq Tasks /\ queue \in Seq(Tasks)
  BY DEF IInv, ServiceTypeOK, ActiveStep
<1>2. \A u \in Tasks : /\ rec'[u].created_at = rec[u].created_at
                       /\ rec'[u].created_at \in Nat
                       /\ rec'[u].status = "queued" => rec[u].status = "queued"
  BY <1>1 DEF ActiveStep, TaskRecords
<1>3. \A u \in Tasks : (InQueue(u)' <=> InQueue(u)) /\ (HeldByDelete(u)' <=> HeldByDelete(u))
  BY DEF InQueue, HeldByDelete, ActiveStep
<1>4. \A t \in Tasks : rec'[t].created_at <= clock'
  BY <1>1, <1>2 DEF OInv, OrderOK, ActiveStep
<1>5. \A i \in DOMAIN queue : queue[i] \in Tasks
  BY <1>1
<1>6. \A i, j \in DOMAIN queue' :
         i < j => rec'[queue'[i]].created_at <= rec'[queue'[j]].created_at
  BY <1>2, <1>5 DEF OInv, OrderOK, ActiveStep
<1>7. \/ Cleared'
      \/ \A t \in registered' : rec'[t].status = "queued" =>
            InQueue(t)' \/ HeldByDelete(t)' \/ (sched' = "popped" /\ t = active')
  <2>1. Cleared => Cleared'
    BY DEF Cleared, ActiveStep
  <2> QED BY <1>1, <1>2, <1>3, <2>1 DEF OInv, OrderOK, ActiveStep
<1> QED BY <1>4, <1>6, <1>7 DEF OrderOK

\* Nor does it touch the result of another task.
LEMMA ActiveResult ==
    ASSUME IInv, OInv, ActiveStep,
           \A u \in Tasks \ {active} : files'[u] = files[u],
           active \in registered /\ rec'[active].status = "completed" =>
               /\ rec'[active].storage_committed
               /\ rec'[active].location # "none"
               /\ rec'[active].location = "local" => "result" \in files'[active],
           sched' \in Working \ {"finally"} => rec'[active].status # "completed",
           sched' \in {"publishing", "completing"} =>
               active \in registered /\ rec'[active].status = "running",
           sched' = "completing" =>
               /\ rec'[active].location # "none"
               /\ rec'[active].location = "local" => "result" \in files'[active]
    PROVE  ResultOK'
<1>1. active' = active /\ registered' = registered /\ registered \subseteq Tasks
  BY DEF ActiveStep, IInv, ServiceTypeOK
<1>2. CompletedHasResult'
  <2> SUFFICES ASSUME NEW t \in registered, rec'[t].status = "completed"
               PROVE  /\ rec'[t].storage_committed
                      /\ rec'[t].location # "none"
                      /\ rec'[t].location = "local" => "result" \in files'[t]
    BY <1>1 DEF CompletedHasResult
  <2>1. CASE t = active
    BY <2>1
  <2>2. CASE t # active
    BY <1>1, <2>2 DEF OInv, ResultOK, CompletedHasResult, ActiveStep
  <2> QED BY <2>1, <2>2
<1> QED BY <1>1, <1>2 DEF ResultOK

\* Nor to what another task has left.
LEMMA ActiveLeftovers ==
    ASSUME IInv, OInv, ActiveStep,
           \A u \in Tasks \ {active} : files'[u] = files[u],
           sched' \notin {"loop", "waiting", "stopped"},
           "filesystem" \notin Faults /\ sched' \in Removed
             /\ rec'[active].status \in {"failed", "cancelled"} => files'[active] \subseteq {"dir"}
    PROVE  LeftoversOK'
<1>1. active' = active /\ registered' = registered /\ registered \subseteq Tasks
  BY DEF ActiveStep, IInv, ServiceTypeOK
<1>2. ASSUME "filesystem" \notin Faults, NEW t \in registered,
             rec'[t].status \in {"failed", "cancelled"}, t = active => sched' \in Removed
      PROVE  files'[t] \subseteq {"dir"}
  <2>1. CASE t = active
    BY <1>2, <2>1
  <2>2. CASE t # active
    <3>1. rec'[t] = rec[t] /\ files'[t] = files[t]
      BY <1>1, <2>2 DEF ActiveStep
    <3> QED BY <1>2, <2>2, <3>1 DEF OInv, LeftoversOK
  <2> QED BY <2>1, <2>2
<1> QED BY <1>1, <1>2 DEF LeftoversOK

\* Nor does it start another task.
LEMMA ActiveLimbo ==
    ASSUME IInv, OInv, ActiveStep, UNCHANGED <<accepting, broken, unlisted>>,
           sched \notin {"stopped", "dead"}, sched' \notin {"stopped", "popped"},
           sched' \in {"finally", "draining"} => IsTerminal(rec'[active]),
           Faults = {} /\ ~unlisted =>
             /\ sched' \notin {"dying", "dead"}
             /\ sched' \in Started => active \in registered /\ rec'[active].status = "running"
             /\ rec'[active].status = "running" => sched' \in Started
    PROVE  LimboOK'
<1>1. UNCHANGED <<active, registered, queue, api, main>> /\ registered \subseteq Tasks
  BY DEF ActiveStep, IInv, ServiceTypeOK
<1>2. \A t \in Tasks : HeldByDelete(t)' <=> HeldByDelete(t)
  BY <1>1 DEF HeldByDelete
<1>3. \A t \in Tasks : t # active => rec'[t] = rec[t]
  BY DEF ActiveStep
<1>4. Faults = {} /\ ~unlisted =>
        /\ \A t \in Tasks : HeldByDelete(t)' => t # active' /\ rec'[t].status = "queued"
        /\ \A t \in registered' : rec'[t].status = "running" => t = active' /\ sched' \in Started
  BY <1>1, <1>2, <1>3 DEF OInv, LimboOK
<1> QED BY <1>1, <1>4 DEF OInv, LimboOK

\* The active task becomes RUNNING, or the thread dies.
LEMMA StartsOut ==
    ASSUME IInv, OInv, Starts
    PROVE  OInv'
<1>1. active \in Tasks /\ clock \in Nat
  BY DEF IInv, ServiceTypeOK, SchedOK, Working, SchedulerPoints, Starts
<1>2. UNCHANGED <<registered, files, clock, queue, accepting, active, creating, api, main,
                  broken, unlisted>>
  BY DEF Starts
<1>3. /\ {"running"} \subseteq Statuses /\ "none" \in Errors
      /\ rec[active].status \in Statuses
  BY <1>1 DEF Statuses, Errors, IInv, ServiceTypeOK, TaskRecords
<1>4. CASE active \in registered /\ CanTransition(rec[active], "running")
  <2>1. sched' = "started" /\ rec' = [rec EXCEPT ![active] = Transition(@, "running", "none", clock)]
    BY <1>4 DEF Starts
  <2>2. ActiveStep /\ rec'[active].status = "running"
    BY <1>1, <1>2, <1>3, <2>1, TransitionStep
  <2>3. OrderOK'
    BY <1>2, <2>1, <2>2, ActiveOrder
  <2>4. ResultOK'
    BY <1>2, <2>1, <2>2, ActiveResult
  <2>5. LeftoversOK'
    BY <1>2, <2>1, <2>2, ActiveLeftovers DEF Removed
  <2>6. LimboOK'
    BY <1>2, <1>4, <2>1, <2>2, ActiveLimbo DEF Starts, Started
  <2> QED BY <2>3, <2>4, <2>5, <2>6 DEF OInv
<1>5. CASE ~(active \in registered /\ CanTransition(rec[active], "running"))
  <2>1. sched = "popped" /\ sched' = "dead" /\ rec' = rec
    BY <1>5 DEF Starts
  <2>2. ActiveStep
    BY <1>1, <1>2, <2>1, RecordChange
  <2>3. active \in registered => rec[active].status # "queued"
    BY <1>3, <1>5 DEF CanTransition, AllowedTransitions
  <2>4. OrderOK'
    BY <1>2, <2>1, <2>2, <2>3, ActiveOrder
  <2>5. ResultOK'
    BY <1>2, <2>1, <2>2, ActiveResult DEF Working, OInv, ResultOK, CompletedHasResult
  <2>6. LeftoversOK'
    BY <1>2, <2>1, <2>2, ActiveLeftovers DEF Removed
  <2>7. ~(Faults = {} /\ ~unlisted)
    BY <2>1, <2>3 DEF OInv, LimboOK
  <2>8. LimboOK'
    BY <1>2, <2>1, <2>2, <2>7, ActiveLimbo
  <2> QED BY <2>4, <2>5, <2>6, <2>8 DEF OInv
<1> QED BY <1>4, <1>5

\* The flag is read before the run, and the pipeline reports progress.
LEMMA ProgressOut ==
    ASSUME IInv, OInv, ChecksCancelled \/ ReportsProgress
    PROVE  OInv'
<1>1. active \in Tasks /\ rec \in [Tasks -> TaskRecords]
  BY DEF IInv, ServiceTypeOK, SchedOK, Working, SchedulerPoints, ChecksCancelled, ReportsProgress
<1>2. UNCHANGED <<registered, files, clock, queue, accepting, active, creating, api, main,
                  broken, unlisted>>
  BY DEF ChecksCancelled, ReportsProgress
<1>3. /\ SameCore(rec[active], UpdateProgress(rec[active], "preparing"))
      /\ SameCore(rec[active], UpdateProgress(rec[active], "processing"))
  BY <1>1, UpdateProgressFacts DEF Phases
<1>4. \/ rec' = rec
      \/ \E n : rec' = [rec EXCEPT ![active] = n] /\ SameCore(rec[active], n)
  BY <1>3 DEF ChecksCancelled, ReportsProgress
<1>5. ActiveStep
  BY <1>1, <1>2, <1>4, RecordChange DEF SameCore
<1>6. rec'[active].status = rec[active].status
  BY <1>1, <1>4 DEF SameCore
<1>7. /\ sched \in {"started", "executing"}
      /\ sched' \in {"cancelling", "dispatch", "dead", "executing", "failing"}
      /\ active \in registered => sched' # "dead"
  BY DEF ChecksCancelled, ReportsProgress, Returns
<1>8. rec[active].status # "completed"
  BY <1>7 DEF OInv, ResultOK, Working, SchedulerPoints
<1>9. OrderOK'
  BY <1>2, <1>5, <1>7, ActiveOrder
<1>10. ResultOK'
  BY <1>2, <1>5, <1>6, <1>7, <1>8, ActiveResult
<1>11. LeftoversOK'
  BY <1>2, <1>5, <1>7, ActiveLeftovers DEF Removed
<1>12. LimboOK'
  <2>1. Faults = {} /\ ~unlisted => active \in registered /\ rec[active].status = "running"
    BY <1>7 DEF OInv, LimboOK, Started
  <2> QED BY <1>2, <1>5, <1>6, <1>7, <2>1, ActiveLimbo DEF Started
<1> QED BY <1>9, <1>10, <1>11, <1>12 DEF OInv

\* Publication begins if nobody has asked to cancel.
LEMMA BeginsPublicationOut ==
    ASSUME IInv, OInv, BeginsPublication
    PROVE  OInv'
<1> DEFINE n == BeginResultPublication(rec[active])
<1>1. active \in Tasks /\ rec \in [Tasks -> TaskRecords]
  BY DEF IInv, ServiceTypeOK, SchedOK, Working, SchedulerPoints, BeginsPublication
<1>2. UNCHANGED <<registered, files, clock, queue, accepting, active, creating, api, main,
                  broken, unlisted>>
  BY DEF BeginsPublication
<1>3. /\ n \in TaskRecords
      /\ n.storage_committed
      /\ n.status = rec[active].status
      /\ n.cancellation_requested = rec[active].cancellation_requested
      /\ n.created_at = rec[active].created_at
  BY <1>1, SetterFacts
<1>4. \/ rec' = rec /\ sched' \in {"failing", "cancelling"}
      \/ /\ rec' = [rec EXCEPT ![active] = n] /\ sched' = "publishing"
         /\ active \in registered /\ rec[active].status = "running"
         /\ ~rec[active].cancellation_requested
  BY DEF BeginsPublication
<1> HIDE DEF n
<1>5. sched = "ran" /\ rec'[active].status = rec[active].status /\ rec[active].status # "completed"
  BY <1>1, <1>3, <1>4 DEF BeginsPublication, OInv, ResultOK, Working, SchedulerPoints
<1>6. ActiveStep
  <2>1. CASE rec' = rec
    BY <1>1, <1>2, <2>1, RecordChange
  <2>2. CASE rec' # rec
    BY <1>1, <1>2, <1>3, <1>4, <2>2 DEF ActiveStep
  <2> QED BY <2>1, <2>2
<1>7. OrderOK'
  BY <1>2, <1>4, <1>5, <1>6, ActiveOrder
<1>8. ResultOK'
  BY <1>2, <1>4, <1>5, <1>6, ActiveResult
<1>9. LeftoversOK'
  BY <1>2, <1>4, <1>6, ActiveLeftovers DEF Removed
<1>10. LimboOK'
  <2>1. Faults = {} /\ ~unlisted => active \in registered /\ rec[active].status = "running"
    BY <1>5 DEF OInv, LimboOK, Started
  <2> QED BY <1>2, <1>4, <1>5, <1>6, <2>1, ActiveLimbo DEF Started
<1> QED BY <1>7, <1>8, <1>9, <1>10 DEF OInv

\* The result is where the record says, before the task completes.
LEMMA PublishesOut ==
    ASSUME IInv, OInv, PublishesLocally \/ PublishesRemotely
    PROVE  OInv'
<1>1. active \in Tasks /\ rec \in [Tasks -> TaskRecords] /\ files \in [Tasks -> SUBSET Artifacts]
  BY DEF IInv, ServiceTypeOK, SchedOK, Working, SchedulerPoints, PublishesLocally, PublishesRemotely
<1>2. UNCHANGED <<registered, clock, queue, accepting, active, creating, api, main,
                  broken, unlisted>>
  BY DEF PublishesLocally, PublishesRemotely
<1>3. /\ sched = "publishing"
      /\ active \in registered /\ rec[active].status = "running"
      /\ rec[active].storage_committed
  BY DEF OInv, ResultOK, IInv, SchedOK, PublishesLocally, PublishesRemotely
<1>4. \A u \in Tasks \ {active} : files'[u] = files[u]
  BY <1>1 DEF PublishesLocally, PublishesRemotely
<1>5. /\ sched' = "completing"
      /\ \/ /\ rec' = [rec EXCEPT ![active] = SetResultStorage(@, "local")]
            /\ "result" \in files'[active]
         \/ rec' = [rec EXCEPT ![active] = SetResultStorage(@, "remote")]
  BY <1>1, <1>3 DEF PublishesLocally, PublishesRemotely, CanSetResultStorage
<1>6. \A l \in {"local", "remote"} :
         /\ SameCore(rec[active], SetResultStorage(rec[active], l))
         /\ SetResultStorage(rec[active], l).location = l
  <2>1. \A l \in Locations : SameCore(rec[active], SetResultStorage(rec[active], l))
    BY <1>1, SetterFacts
  <2>2. rec[active] \in TaskRecords
    BY <1>1
  <2> QED BY <2>1, <2>2 DEF Locations, SetResultStorage, TaskRecords
<1>7. PICK l \in {"local", "remote"} :
         /\ rec' = [rec EXCEPT ![active] = SetResultStorage(rec[active], l)]
         /\ l = "local" => "result" \in files'[active]
  BY <1>5
<1>8. ActiveStep
  BY <1>1, <1>2, <1>6, <1>7, RecordChange DEF SameCore
<1>9. rec'[active].status = "running" /\ rec'[active].location = l
  BY <1>1, <1>3, <1>6, <1>7 DEF SameCore
<1>10. OrderOK'
  BY <1>2, <1>3, <1>5, <1>8, ActiveOrder
<1>11. ResultOK'
  BY <1>2, <1>3, <1>4, <1>5, <1>7, <1>8, <1>9, ActiveResult
<1>12. LeftoversOK'
  BY <1>2, <1>4, <1>5, <1>8, ActiveLeftovers DEF Removed
<1>13. LimboOK'
  BY <1>2, <1>3, <1>5, <1>8, <1>9, ActiveLimbo DEF Started
<1> QED BY <1>10, <1>11, <1>12, <1>13 DEF OInv

\* The three ways in which the thread ends the active task.  A task that is
\* no longer the thread's to end has been cancelled by an early DELETE.
LEMMA EndsOut ==
    ASSUME IInv, OInv,
           \/ Completes
           \/ HandlesCancelled
           \/ HandlesFailure
    PROVE  OInv'
<1>1. active \in Tasks /\ rec \in [Tasks -> TaskRecords] /\ clock + 1 \in Nat
  BY DEF IInv, ServiceTypeOK, SchedOK, Working, SchedulerPoints, Completes,
         HandlesCancelled, HandlesFailure
<1>2. UNCHANGED <<registered, queue, accepting, active, creating, api, main, broken, unlisted>>
  BY DEF Completes, HandlesCancelled, HandlesFailure
<1>3. /\ sched \in {"completing", "cancelling", "failing"}
      /\ rec[active].status # "completed"
      /\ sched = "completing" =>
           /\ active \in registered /\ rec[active].status = "running"
           /\ rec[active].storage_committed
           /\ rec[active].location # "none"
           /\ rec[active].location = "local" => "result" \in files[active]
  BY DEF Completes, HandlesCancelled, HandlesFailure, OInv, ResultOK, IInv, SchedOK,
         Working, SchedulerPoints
<1>4. Faults = {} /\ ~unlisted => active \in registered /\ rec[active].status = "running"
  BY <1>3 DEF OInv, LimboOK, Started
<1>5. /\ \A u \in Tasks \ {active} : files'[u] = files[u]
      /\ sched = "completing" => files' = files
      /\ sched # "completing" => files'[active] \subseteq {"dir"}
  BY <1>1 DEF Completes, HandlesCancelled, HandlesFailure, AfterRemoval, IInv, ServiceTypeOK
<1>6. {"completed", "cancelled", "failed"} \subseteq Statuses \ {"queued"}
  BY DEF Statuses
<1>7. {"none", "request_failed", "worker_group_fatal"} \subseteq Errors
  BY DEF Errors
<1>8. \/ \E s \in {"completed", "cancelled", "failed"} :
         \E e \in {"none", "request_failed", "worker_group_fatal"} :
           /\ rec' = [rec EXCEPT ![active] = Transition(@, s, e, clock + 1)]
           /\ sched' \in {"finally", "draining"}
           /\ clock' = clock + 1
           /\ s = "completed" <=> sched = "completing"
           /\ s = "completed" => sched' = "finally"
      \/ /\ rec' = rec /\ clock' = clock
         /\ sched' \in {"failing", "dying"}
         /\ sched' = "dying" => sched # "completing"
         /\ ~(active \in registered /\ rec[active].status = "running")
  <2>1. rec[active].status = "running" =>
           \A s \in {"completed", "cancelled", "failed"} : CanTransition(rec[active], s)
    BY DEF CanTransition, AllowedTransitions, Statuses, TerminalStatuses
  <2>2. CASE Completes
    BY <2>1, <2>2 DEF Completes, Ends
  <2>3. CASE HandlesCancelled
    BY <2>1, <2>3 DEF HandlesCancelled, Ends
  <2>4. CASE HandlesFailure
    BY <2>1, <2>4 DEF HandlesFailure, Ends
  <2> QED BY <2>2, <2>3, <2>4
<1>9. ASSUME NEW s \in {"completed", "cancelled", "failed"},
             NEW e \in {"none", "request_failed", "worker_group_fatal"},
             rec' = [rec EXCEPT ![active] = Transition(@, s, e, clock + 1)],
             sched' \in {"finally", "draining"}, clock' = clock + 1,
             s = "completed" <=> sched = "completing",
             s = "completed" => sched' = "finally"
      PROVE  OInv'
  <2>1. /\ ActiveStep
        /\ rec'[active].status = s
        /\ rec'[active].location = rec[active].location
        /\ rec'[active].storage_committed = rec[active].storage_committed
    BY <1>1, <1>2, <1>6, <1>7, <1>9, TransitionStep
  <2>2. OrderOK'
    BY <1>2, <1>3, <1>9, <2>1, ActiveOrder
  <2>3. ResultOK'
    <3>1. sched' \in Working \ {"finally"} => rec'[active].status # "completed"
      BY <1>9, <2>1
    <3>2. active \in registered /\ rec'[active].status = "completed" =>
               /\ rec'[active].storage_committed
               /\ rec'[active].location # "none"
               /\ rec'[active].location = "local" => "result" \in files'[active]
      BY <1>3, <1>5, <1>9, <2>1
    <3> QED BY <1>5, <1>9, <2>1, <3>1, <3>2, ActiveResult
  <2>4. LeftoversOK'
    <3>1. rec'[active].status \in {"failed", "cancelled"} => sched # "completing"
      BY <1>9, <2>1
    <3> QED BY <1>5, <1>9, <2>1, <3>1, ActiveLeftovers
  <2>5. LimboOK'
    BY <1>2, <1>3, <1>9, <2>1, ActiveLimbo DEF IsTerminal, TerminalStatuses, Started
  <2> QED BY <2>2, <2>3, <2>4, <2>5 DEF OInv
<1>10. ASSUME rec' = rec, clock' = clock, sched' \in {"failing", "dying"},
              sched' = "dying" => sched # "completing",
              ~(active \in registered /\ rec[active].status = "running")
       PROVE  OInv'
  <2>1. ActiveStep
    BY <1>1, <1>2, <1>10, RecordChange
  <2>2. OrderOK'
    BY <1>2, <1>3, <1>10, <2>1, ActiveOrder
  <2>3. ResultOK'
    BY <1>3, <1>5, <1>10, <2>1, ActiveResult
  <2>4. LeftoversOK'
    BY <1>5, <1>10, <2>1, ActiveLeftovers DEF Removed
  <2>5. LimboOK'
    BY <1>2, <1>3, <1>4, <1>10, <2>1, ActiveLimbo
  <2> QED BY <2>2, <2>3, <2>4, <2>5 DEF OInv
<1> QED BY <1>8, <1>9, <1>10

-----------------------------------------------------------------------------
(***************************************************************************)
(* Steps that change the records or the table from outside the thread.     *)
(***************************************************************************)

\* update_queue_positions leaves the location alone, too.
LEMMA PositionsKeepLocation ==
    ASSUME NEW table \in [Tasks -> TaskRecords], NEW reg, NEW q, NEW t \in Tasks
    PROVE  UpdateQueuePositions(table, reg, q)[t].location = table[t].location
<1>1. table[t] \in TaskRecords
  OBVIOUS
<1>2. \A n : [table[t] EXCEPT !.queue_position = n].location = table[t].location
  BY <1>1 DEF TaskRecords
<1> QED BY <1>2 DEF UpdateQueuePositions

\* A task that is accepted is the youngest and joins the queue at its end.
LEMMA SubmitOut ==
    ASSUME IInv, OInv, Submit
    PROVE  OInv'
<1> DEFINE t == api.task
           r == NewRecord(clock + 1)
           blank == [rec EXCEPT ![t] = r]
<1>1. /\ t \in Tasks /\ creating[t] = "uploading" /\ t \notin registered
      /\ rec \in [Tasks -> TaskRecords] /\ clock + 1 \in Nat /\ clock \in Nat
      /\ queue \in Seq(Tasks) /\ registered \subseteq Tasks
      /\ files \in [Tasks -> SUBSET Artifacts]
  BY DEF IInv, ServiceTypeOK, ApiOK, RecordsOK, Submit
<1>2. /\ api' = ApiIdle /\ api.op = "submit"
      /\ main = "serving"
      /\ UNCHANGED <<accepting, active, sched, main, broken, unlisted>>
      /\ active # t
  BY <1>1, ServiceAssumption DEF Submit, ApiIdle, IInv, SchedOK, OInv, LimboOK
<1>3. \A u \in Tasks : ~HeldByDelete(u) /\ ~HeldByDelete(u)'
  BY <1>2 DEF HeldByDelete, ApiIdle
<1>4. CASE ~(accepting /\ ~QueueFull)
  <2>1. files' = [files EXCEPT ![t] = {}] /\ UNCHANGED <<rec, registered, clock, queue>>
    BY <1>4 DEF Submit
  <2>2. \A u \in Tasks \ {t} : files'[u] = files[u]
    BY <1>1, <2>1
  <2>3. OrderOK'
    BY <1>1, <1>2, <1>3, <2>1 DEF OInv, OrderOK, Cleared, InQueue
  <2>4. ResultOK'
    BY <1>1, <1>2, <2>1, <2>2 DEF OInv, ResultOK, CompletedHasResult
  <2>5. LeftoversOK'
    BY <1>1, <1>2, <2>1, <2>2 DEF OInv, LeftoversOK
  <2>6. LimboOK'
    BY <1>2, <1>3, <2>1 DEF OInv, LimboOK
  <2> QED BY <2>3, <2>4, <2>5, <2>6 DEF OInv
<1>5. CASE accepting /\ ~QueueFull
  <2>1. /\ clock' = clock + 1
        /\ registered' = registered \cup {t}
        /\ queue' = Append(queue, t)
        /\ rec' = UpdateQueuePositions(blank, registered', queue')
        /\ files' = files
    BY <1>5 DEF Submit
  <2>2. r \in TaskRecords /\ r.status = "queued" /\ r.created_at = clock + 1
    BY <1>1, NewRecordFacts
  <2>3. /\ blank \in [Tasks -> TaskRecords]
        /\ blank[t] = r
        /\ \A u \in Tasks \ {t} : blank[u] = rec[u]
    BY <1>1, <2>2
  <2> HIDE DEF r, blank
  <2>4. /\ queue' \in Seq(Tasks) /\ Len(queue) \in Nat
        /\ DOMAIN queue = 1..Len(queue) /\ DOMAIN queue' = 1..(Len(queue) + 1)
        /\ \A i \in 1..Len(queue) : queue'[i] = queue[i] /\ queue[i] \in registered
        /\ queue'[Len(queue) + 1] = t
    BY <1>1, <2>1 DEF IInv, QueueOK
  <2>5. /\ \A u \in Tasks : SameCore(blank[u], rec'[u])
        /\ \A u \in Tasks : rec'[u].location = blank[u].location
    <3>1. \A u \in Tasks : SameCore(blank[u], rec'[u])
      BY <2>1, <2>3, <2>4, UpdateQueuePositionsFacts
    <3>2. \A u \in Tasks : rec'[u].location = blank[u].location
      BY <2>1, <2>3, PositionsKeepLocation
    <3> QED BY <3>1, <3>2
  <2>6. \A u \in Tasks \ {t} : /\ rec'[u].status = rec[u].status
                               /\ rec'[u].storage_committed = rec[u].storage_committed
                               /\ rec'[u].created_at = rec[u].created_at
                               /\ rec'[u].location = rec[u].location
                               /\ rec[u].created_at \in Nat
    BY <1>1, <2>3, <2>5 DEF SameCore, SameDecisions, TaskRecords
  <2>7. rec'[t].status = "queued" /\ rec'[t].created_at = clock + 1
    BY <1>1, <2>2, <2>3, <2>5 DEF SameCore, SameDecisions
  <2>8. \A u \in registered : u # t /\ u \in Tasks /\ rec[u].created_at <= clock
    BY <1>1 DEF OInv, OrderOK
  <2>9. \A u \in Tasks \ {t} : InQueue(u)' <=> InQueue(u)
    BY <2>4 DEF InQueue
  <2>10. \A u \in Tasks : u = t => InQueue(u)'
    <3>1. Len(queue) + 1 \in DOMAIN queue'
      BY <2>4
    <3> QED BY <2>4, <3>1 DEF InQueue
  <2>11. OrderOK'
    <3>1. \A u \in Tasks : rec'[u].created_at <= clock'
      <4>1. ASSUME NEW u \in Tasks PROVE rec'[u].created_at <= clock + 1
        <5>1. rec[u].created_at <= clock
          BY DEF OInv, OrderOK
        <5>2. CASE u = t
          BY <1>1, <2>7, <5>2
        <5>3. CASE u # t
          BY <1>1, <2>6, <5>1, <5>3
        <5> QED BY <5>2, <5>3
      <4> QED BY <2>1, <4>1
    <3>2. ASSUME NEW i \in DOMAIN queue', NEW j \in DOMAIN queue', i < j
          PROVE  rec'[queue'[i]].created_at <= rec'[queue'[j]].created_at
      <4>1. i \in 1..Len(queue) /\ queue'[i] = queue[i] /\ queue[i] \in registered
        BY <2>4, <3>2
      <4>2. CASE j \in 1..Len(queue)
        BY <2>4, <2>6, <2>8, <3>2, <4>1, <4>2 DEF OInv, OrderOK
      <4>3. CASE j = Len(queue) + 1
        BY <1>1, <2>4, <2>6, <2>7, <2>8, <4>1, <4>3
      <4> QED BY <2>4, <4>2, <4>3
    <3>3. ASSUME sched' = "popped", NEW u \in registered', rec'[u].status = "queued"
          PROVE  rec'[active'].created_at <= rec'[u].created_at
      <4>1. active \in Tasks \ {t} /\ sched = "popped"
        BY <1>2, <3>3 DEF IInv, SchedOK, ServiceTypeOK, Working, SchedulerPoints
      <4>2. CASE u = t
        <5>1. rec[active].created_at <= clock
          BY <4>1 DEF OInv, OrderOK
        <5> QED BY <1>1, <1>2, <2>6, <2>7, <4>1, <4>2, <5>1
      <4>3. CASE u # t
        BY <1>2, <2>1, <2>6, <2>8, <3>3, <4>1, <4>3 DEF OInv, OrderOK
      <4> QED BY <4>2, <4>3
    <3>4. \A u \in registered' : rec'[u].status = "queued" =>
            InQueue(u)' \/ HeldByDelete(u)' \/ (sched' = "popped" /\ u = active')
      <4> SUFFICES ASSUME NEW u \in registered', rec'[u].status = "queued"
                   PROVE  InQueue(u)' \/ (sched' = "popped" /\ u = active')
        OBVIOUS
      <4>1. CASE u = t
        BY <1>1, <2>10, <4>1
      <4>2. CASE u # t
        <5>1. u \in registered /\ u \in Tasks \ {t} /\ rec[u].status = "queued"
          BY <2>1, <2>6, <2>8, <4>2
        <5>2. InQueue(u) \/ (sched = "popped" /\ u = active)
          BY <1>3, <1>5, <5>1 DEF OInv, OrderOK, Cleared
        <5> QED BY <1>2, <2>9, <5>1, <5>2
      <4> QED BY <4>1, <4>2
    <3> QED BY <1>1, <1>3, <2>1, <3>1, <3>2, <3>3, <3>4 DEF OrderOK
  <2>12. ResultOK'
    <3>1. CompletedHasResult'
      <4> SUFFICES ASSUME NEW u \in registered', rec'[u].status = "completed"
                   PROVE  /\ rec'[u].storage_committed
                          /\ rec'[u].location # "none"
                          /\ rec'[u].location = "local" => "result" \in files'[u]
        BY DEF CompletedHasResult
      <4>1. u \in registered /\ u \in Tasks \ {t}
        BY <2>1, <2>7, <2>8
      <4> QED BY <2>1, <2>6, <4>1 DEF OInv, ResultOK, CompletedHasResult
    <3>2. active \in Tasks \/ active = NoTask
      BY DEF IInv, ServiceTypeOK
    <3>3. sched \in Working => active \in Tasks \ {t}
      BY <1>2, <3>2 DEF IInv, SchedOK
    <3> QED BY <1>2, <2>1, <2>6, <3>1, <3>3 DEF OInv, ResultOK, Working, SchedulerPoints
  <2>13. LeftoversOK'
    BY <1>2, <2>1, <2>6, <2>7, <2>8 DEF OInv, LeftoversOK
  <2>14. LimboOK'
    <3>1. sched \in Working => active \in Tasks \ {t}
      BY <1>2 DEF IInv, SchedOK, ServiceTypeOK
    <3>2. Started \cup {"popped", "finally", "draining"} \subseteq Working
      BY DEF Started, Working, SchedulerPoints
    <3>3. \A u \in registered' : rec'[u].status = "running" =>
             u \in registered /\ rec[u].status = "running"
      BY <2>1, <2>6, <2>7, <2>8
    <3>4. sched \in Working => rec'[active].status = rec[active].status
      BY <2>6, <3>1
    <3>5. sched \in {"finally", "draining"} => IsTerminal(rec'[active])
      BY <3>2, <3>4 DEF OInv, LimboOK, IsTerminal
    <3>6. Faults = {} /\ ~unlisted =>
            /\ sched = "popped" => active \in registered' /\ rec'[active].status = "queued"
            /\ sched \in Started => active \in registered' /\ rec'[active].status = "running"
            /\ \A u \in registered' : rec'[u].status = "running" => u = active /\ sched \in Started
      BY <2>1, <3>2, <3>3, <3>4 DEF OInv, LimboOK
    <3> QED BY <1>2, <1>3, <3>5, <3>6 DEF OInv, LimboOK
  <2> QED BY <2>11, <2>12, <2>13, <2>14 DEF OInv
<1> QED BY <1>4, <1>5

\* DELETE of an ended task.
LEMMA DeletePurgesOut ==
    ASSUME IInv, OInv, NEW t \in Tasks, DeletePurges(t)
    PROVE  OInv'
<1>1. /\ registered' = registered \ {t} /\ registered \subseteq Tasks
      /\ rec[t].status \in {"completed", "failed", "cancelled"}
      /\ UNCHANGED <<rec, clock, queue, active, sched, unlisted, broken, accepting, api, main>>
      /\ \A u \in registered' : u # t /\ files'[u] = files[u]
  BY DEF IInv, ServiceTypeOK, DeletePurges, IsTerminal, TerminalStatuses
<1>2. \A u \in Tasks : (InQueue(u)' <=> InQueue(u)) /\ (HeldByDelete(u)' <=> HeldByDelete(u))
  BY <1>1 DEF InQueue, HeldByDelete
<1>3. OrderOK'
  BY <1>1, <1>2 DEF OInv, OrderOK, Cleared
<1>4. ResultOK'
  <2>1. CompletedHasResult'
    BY <1>1 DEF OInv, ResultOK, CompletedHasResult
  <2>2. sched \in {"publishing", "completing"} => active # t /\ files'[active] = files[active]
    BY <1>1 DEF OInv, ResultOK
  <2> QED BY <1>1, <2>1, <2>2 DEF OInv, ResultOK
<1>5. LeftoversOK'
  BY <1>1 DEF OInv, LeftoversOK
<1>6. LimboOK'
  <2>1. Faults = {} /\ ~unlisted /\ sched \in Started \cup {"popped"} => active # t
    BY <1>1 DEF OInv, LimboOK
  <2> QED BY <1>1, <1>2, <2>1 DEF OInv, LimboOK
<1> QED BY <1>3, <1>4, <1>5, <1>6 DEF OInv

\* Removing a task keeps the rest of the queue in its order.
LEMMA WithoutOrder ==
    ASSUME NEW q \in Seq(Tasks), NEW t \in Tasks
    PROVE  /\ \A i, j \in DOMAIN Without(q, t) : i < j =>
                 \E k, l \in DOMAIN q : k < l /\ Without(q, t)[i] = q[k] /\ Without(q, t)[j] = q[l]
           /\ \A k \in DOMAIN q : q[k] # t =>
                 \E i \in DOMAIN Without(q, t) : Without(q, t)[i] = q[k]
           /\ q = <<>> => Without(q, t) = <<>>
<1>1. CASE ~ \E i \in DOMAIN q : q[i] = t
  BY <1>1 DEF Without
<1>2. CASE \E i \in DOMAIN q : q[i] = t
  <2> DEFINE c == CHOOSE i \in DOMAIN q : q[i] = t
             w == [j \in 1..(Len(q) - 1) |-> IF j < c THEN q[j] ELSE q[j + 1]]
  <2>1. c \in 1..Len(q) /\ q[c] = t
    BY <1>2
  <2>2. Without(q, t) = w
    BY <1>2 DEF Without
  <2>3. q # <<>>
    BY <1>2
  <2> HIDE DEF c
  <2>4. Len(q) \in Nat /\ DOMAIN q = 1..Len(q) /\ DOMAIN w = 1..(Len(q) - 1)
    OBVIOUS
  <2>5. ASSUME NEW i \in DOMAIN w, NEW j \in DOMAIN w, i < j
        PROVE  \E k, l \in DOMAIN q : k < l /\ w[i] = q[k] /\ w[j] = q[l]
    <3>1. PICK k \in {i, i + 1} : k = (IF i < c THEN i ELSE i + 1)
      OBVIOUS
    <3>2. PICK l \in {j, j + 1} : l = (IF j < c THEN j ELSE j + 1)
      OBVIOUS
    <3>3. k \in DOMAIN q /\ l \in DOMAIN q /\ k < l
      BY <2>1, <2>4, <2>5, <3>1, <3>2
    <3>4. w[i] = q[k] /\ w[j] = q[l]
      BY <3>1, <3>2
    <3> QED BY <3>3, <3>4
  <2>6. ASSUME NEW k \in DOMAIN q, q[k] # t
        PROVE  \E i \in DOMAIN w : w[i] = q[k]
    <3>1. CASE k < c
      <4>1. k \in DOMAIN w /\ w[k] = q[k]
        BY <2>1, <2>4, <3>1
      <4> QED BY <4>1
    <3>2. CASE k > c
      <4>1. k - 1 \in DOMAIN w /\ ~(k - 1 < c) /\ (k - 1) + 1 = k
        BY <2>1, <2>4, <3>2
      <4>2. w[k - 1] = q[k]
        BY <4>1
      <4> QED BY <4>1, <4>2
    <3> QED BY <2>1, <2>4, <2>6, <3>1, <3>2
  <2> HIDE DEF w
  <2> QED BY <2>2, <2>3, <2>5, <2>6
<1> QED BY <1>1, <1>2

\* DELETE takes a task out of the queue, or finds it missing there.
LEMMA DeleteFindsQueuedOut ==
    ASSUME IInv, OInv, NEW t \in Tasks, DeleteFindsQueued(t)
    PROVE  OInv'
<1>1. /\ queue' = Without(queue, t) /\ queue \in Seq(Tasks) /\ registered \subseteq Tasks
      /\ t \in registered /\ rec[t].status = "queued" /\ main = "serving"
      /\ api' = [op |-> "drop_queued", task |-> t]
      /\ unlisted' = (unlisted \/ ~InQueue(t))
      /\ UNCHANGED <<rec, registered, files, clock, accepting, active, sched, main, broken>>
      /\ api.op \in {"idle", "submit"}
  BY DEF IInv, ServiceTypeOK, DeleteFindsQueued, Serving, LockFree
<1>2. \A u \in Tasks : ~HeldByDelete(u) /\ (HeldByDelete(u)' <=> u = t)
  BY <1>1 DEF HeldByDelete
<1>3. \A u \in Tasks : InQueue(u)' => InQueue(u)
  <2>1. \A i, j \in DOMAIN queue : queue[i] = queue[j] => i = j
    BY DEF IInv, QueueOK
  <2>2. \A i \in DOMAIN queue' : \E j \in DOMAIN queue : queue'[i] = queue[j]
    BY <1>1, <2>1, WithoutFacts
  <2> QED BY <2>2 DEF InQueue
<1>4. \A u \in Tasks \ {t} : InQueue(u) => InQueue(u)'
  BY <1>1, WithoutOrder DEF InQueue
<1>5. OrderOK'
  <2>1. \A i, j \in DOMAIN queue' :
          i < j => rec'[queue'[i]].created_at <= rec'[queue'[j]].created_at
    BY <1>1, WithoutOrder DEF OInv, OrderOK
  <2>2. sched' = "popped" =>
          \A u \in registered' : rec'[u].status = "queued" =>
              rec'[active'].created_at <= rec'[u].created_at
    BY <1>1 DEF OInv, OrderOK
  <2>3. Cleared => Cleared'
    BY <1>1, WithoutOrder DEF Cleared
  <2>4. ASSUME ~Cleared, NEW u \in registered', rec'[u].status = "queued"
        PROVE  InQueue(u)' \/ HeldByDelete(u)' \/ (sched' = "popped" /\ u = active')
    BY <1>1, <1>2, <1>4, <2>4 DEF OInv, OrderOK
  <2> QED BY <1>1, <2>1, <2>2, <2>3, <2>4 DEF OInv, OrderOK
<1>6. ResultOK'
  BY <1>1 DEF OInv, ResultOK, CompletedHasResult
<1>7. LeftoversOK'
  BY <1>1 DEF OInv, LeftoversOK
<1>8. LimboOK'
  <2>1. ~unlisted' => ~unlisted /\ InQueue(t) /\ t # active
    BY <1>1 DEF IInv, ServiceTypeOK, QueueOK, InQueue
  <2> QED BY <1>1, <1>2, <2>1 DEF OInv, LimboOK
<1> QED BY <1>5, <1>6, <1>7, <1>8 DEF OInv

\* DELETE and shutdown ask for cancellation: nothing here depends on it.
LEMMA FlagOut ==
    ASSUME IInv, OInv, DeleteFlagsQueued \/ DeleteFlagsRunning \/ ShutdownFlagsActive
    PROVE  OInv'
<1>1. /\ rec \in [Tasks -> TaskRecords] /\ registered \subseteq Tasks
      /\ UNCHANGED <<registered, files, clock, queue, accepting, active, sched, broken, unlisted>>
  BY DEF IInv, ServiceTypeOK, DeleteFlagsQueued, DeleteFlagsRunning, ShutdownFlagsActive
<1>2. /\ \A t \in Tasks : HeldByDelete(t)' => HeldByDelete(t)
      /\ \A t \in Tasks : HeldByDelete(t) /\ rec[t].status = "queued" => HeldByDelete(t)'
  <2>1. CASE DeleteFlagsQueued
    <3>1. api.task \in Tasks /\ (rec[api.task].status = "queued" => ~rec[api.task].storage_committed)
      BY <2>1 DEF DeleteFlagsQueued, IInv, ServiceTypeOK, ApiOK, DeleteOps, RecordsOK
    <3>2. rec[api.task].status = "queued" => ~CancellationRefused(rec[api.task])
      BY <3>1 DEF CancellationRefused, IsTerminal, TerminalStatuses
    <3>3. api' \in {ApiIdle, [api EXCEPT !.op = "cancel_queued"]} /\ api.op = "drop_queued"
      BY <2>1 DEF DeleteFlagsQueued
    <3>4. rec[api.task].status = "queued" => api' = [api EXCEPT !.op = "cancel_queued"]
      BY <2>1, <3>2 DEF DeleteFlagsQueued
    <3>5. api \in [op : ApiOps, task : Tasks \cup {NoTask}]
      BY DEF IInv, ServiceTypeOK
    <3> QED BY <3>3, <3>4, <3>5 DEF HeldByDelete, ApiIdle
  <2>2. CASE DeleteFlagsRunning
    <3>1. api \in [op : ApiOps, task : Tasks \cup {NoTask}]
      BY DEF IInv, ServiceTypeOK
    <3> QED BY <2>2, <3>1 DEF DeleteFlagsRunning, HeldByDelete, ApiIdle
  <2>3. CASE ShutdownFlagsActive
    BY <2>3 DEF ShutdownFlagsActive, HeldByDelete
  <2> QED BY <2>1, <2>2, <2>3
<1>3. \/ rec' = rec
      \/ \E t \in Tasks : /\ rec' = [rec EXCEPT ![t] = RequestCancellation(@)]
                          /\ ~IsTerminal(rec[t]) /\ ~rec[t].storage_committed
  BY DEF DeleteFlagsQueued, DeleteFlagsRunning, ShutdownFlagsActive, CancellationRefused,
         IInv, ServiceTypeOK, ApiOK, MainOK, DeleteOps
<1>4. \A u \in Tasks : /\ rec'[u].status = rec[u].status
                       /\ rec'[u].created_at = rec[u].created_at
                       /\ rec'[u].storage_committed = rec[u].storage_committed
                       /\ rec'[u].location = rec[u].location
  <2>1. \A t \in Tasks : RequestCancellation(rec[t]).location = rec[t].location
    BY <1>1 DEF RequestCancellation, TaskRecords
  <2>2. ASSUME NEW t \in Tasks, rec' = [rec EXCEPT ![t] = RequestCancellation(rec[t])], NEW u \in Tasks
        PROVE  /\ rec'[u].status = rec[u].status
               /\ rec'[u].created_at = rec[u].created_at
               /\ rec'[u].storage_committed = rec[u].storage_committed
               /\ rec'[u].location = rec[u].location
    BY <1>1, <2>1, <2>2, SetterFacts
  <2> QED BY <1>3, <2>2
<1>5. main' = main \/ (main # "serving" /\ main' \notin {"serving", "closed"})
  BY DEF DeleteFlagsQueued, DeleteFlagsRunning, ShutdownFlagsActive
<1>6. main # "serving" => api' = api
  BY DEF DeleteFlagsQueued, DeleteFlagsRunning, ShutdownFlagsActive, OInv, LimboOK
<1>7. \A u \in Tasks : InQueue(u)' <=> InQueue(u)
  BY <1>1 DEF InQueue
<1>8. sched \in Working => active \in Tasks
  BY DEF IInv, ServiceTypeOK, SchedOK
<1>9. OrderOK'
  <2>1. \A i \in DOMAIN queue : queue[i] \in Tasks
    BY DEF IInv, ServiceTypeOK
  <2>2. \A i, j \in DOMAIN queue' :
          i < j => rec'[queue'[i]].created_at <= rec'[queue'[j]].created_at
    BY <1>1, <1>4, <2>1 DEF OInv, OrderOK
  <2>3. sched' = "popped" =>
          \A t \in registered' : rec'[t].status = "queued" =>
              rec'[active'].created_at <= rec'[t].created_at
    BY <1>1, <1>4, <1>8 DEF OInv, OrderOK, Working, SchedulerPoints
  <2>4. \/ Cleared'
        \/ \A t \in registered' : rec'[t].status = "queued" =>
              InQueue(t)' \/ HeldByDelete(t)' \/ (sched' = "popped" /\ t = active')
    BY <1>1, <1>2, <1>4, <1>7 DEF OInv, OrderOK, Cleared
  <2> QED BY <1>1, <1>4, <2>2, <2>3, <2>4 DEF OInv, OrderOK
<1>10. ResultOK'
  BY <1>1, <1>4, <1>8 DEF OInv, ResultOK, CompletedHasResult, Working, SchedulerPoints
<1>11. LeftoversOK'
  BY <1>1, <1>4 DEF OInv, LeftoversOK
<1>12. LimboOK'
  <2>1. sched \in {"finally", "draining", "popped"} \cup Started => sched \in Working
    BY DEF Working, SchedulerPoints, Started
  <2> QED BY <1>1, <1>2, <1>4, <1>5, <1>6, <1>8, <2>1 DEF OInv, LimboOK, IsTerminal
<1> QED BY <1>9, <1>10, <1>11, <1>12 DEF OInv

\* DELETE cancels a task it found queued, if the thread has not ended it.
LEMMA DeleteCancelsQueuedOut ==
    ASSUME IInv, OInv, DeleteCancelsQueued
    PROVE  OInv'
<1>1. /\ rec \in [Tasks -> TaskRecords] /\ registered \subseteq Tasks
      /\ files \in [Tasks -> SUBSET Artifacts] /\ clock \in Nat /\ queue \in Seq(Tasks)
      /\ UNCHANGED <<registered, queue, accepting, active, sched, main, broken, unlisted>>
      /\ api' = ApiIdle /\ main = "serving"
  BY DEF IInv, ServiceTypeOK, DeleteCancelsQueued, OInv, LimboOK
<1>2. \A u \in Tasks : ~HeldByDelete(u)' /\ (InQueue(u)' <=> InQueue(u))
  BY <1>1 DEF HeldByDelete, ApiIdle, InQueue
<1>3. PICK t \in Tasks :
        /\ api.task = t /\ HeldByDelete(t) /\ \A u \in Tasks : HeldByDelete(u) => u = t
        /\ t \in registered /\ ~InQueue(t) /\ rec[t].cancellation_requested
        /\ ~rec[t].storage_committed
  BY <1>1 DEF HeldByDelete, DeleteCancelsQueued, IInv, ApiOK, DeleteOps, InQueue, RecordsOK
<1> DEFINE n == Transition(rec[t], "cancelled", "none", clock + 1)
           ended == [rec EXCEPT ![t] = n]
<1>4. \/ /\ ~CanTransition(rec[t], "cancelled")
         /\ UNCHANGED <<rec, files, clock>>
      \/ /\ CanTransition(rec[t], "cancelled")
         /\ clock' = clock + 1
         /\ rec' \in {ended, UpdateQueuePositions(ended, registered, queue)}
         /\ \A u \in Tasks \ {t} : files'[u] = files[u]
         /\ files'[t] \subseteq {"dir"} \/ "filesystem" \in Faults
  BY <1>1, <1>3 DEF DeleteCancelsQueued, AfterRemoval
<1>5. n.status = "cancelled" /\ SameDecisions(rec[t], n)
  BY <1>1, TransitionFacts DEF Statuses, Errors
<1> HIDE DEF n
<1>6. /\ ended \in [Tasks -> TaskRecords]
      /\ ended[t] = n
      /\ \A u \in Tasks \ {t} : ended[u] = rec[u]
  BY <1>1, <1>5 DEF SameDecisions
<1> HIDE DEF ended
<1>7. CanTransition(rec[t], "cancelled") <=> rec[t].status \in {"queued", "running"}
  BY <1>1 DEF CanTransition, AllowedTransitions, TaskRecords, Statuses, TerminalStatuses
<1>8. sched \in Working => active \in Tasks
  BY DEF IInv, ServiceTypeOK, SchedOK
<1>9. CASE UNCHANGED <<rec, files, clock>> /\ ~CanTransition(rec[t], "cancelled")
  <2>1. rec[t].status \notin {"queued", "running"}
    BY <1>7, <1>9
  <2>2. OrderOK'
    BY <1>1, <1>2, <1>3, <1>9, <2>1 DEF OInv, OrderOK, Cleared
  <2>3. ResultOK' /\ LeftoversOK'
    BY <1>1, <1>9 DEF OInv, ResultOK, LeftoversOK, CompletedHasResult
  <2>4. LimboOK'
    BY <1>1, <1>2, <1>9 DEF OInv, LimboOK
  <2> QED BY <2>2, <2>3, <2>4 DEF OInv
<1>10. CASE /\ CanTransition(rec[t], "cancelled")
            /\ clock' = clock + 1
            /\ rec' \in {ended, UpdateQueuePositions(ended, registered, queue)}
            /\ \A u \in Tasks \ {t} : files'[u] = files[u]
            /\ files'[t] \subseteq {"dir"} \/ "filesystem" \in Faults
  <2>1. \A u \in Tasks : SameCore(ended[u], rec'[u])
    <3>1. \A u \in Tasks : SameCore(ended[u], ended[u])
      BY <1>6 DEF SameCore, SameDecisions
    <3> QED BY <1>1, <1>6, <1>10, <3>1, UpdateQueuePositionsFacts
  <2>2. \A u \in Tasks : rec'[u].location = ended[u].location
    BY <1>6, <1>10, PositionsKeepLocation
  <2>3. \A u \in Tasks \ {t} : /\ rec'[u].status = rec[u].status
                               /\ rec'[u].storage_committed = rec[u].storage_committed
                               /\ rec'[u].location = rec[u].location
    BY <1>6, <2>1, <2>2 DEF SameCore, SameDecisions
  <2>4. rec'[t].status = "cancelled" /\ rec[t].status \in {"queued", "running"}
    BY <1>5, <1>6, <1>7, <1>10, <2>1 DEF SameCore, SameDecisions
  <2>5. \A u \in Tasks : rec'[u].created_at = rec[u].created_at /\ rec[u].created_at \in Nat
    BY <1>1, <1>5, <1>6, <2>1 DEF SameCore, SameDecisions, TaskRecords
  <2>6. OrderOK'
    <3>1. \A u \in Tasks : rec'[u].created_at <= clock'
      BY <1>1, <1>10, <2>5 DEF OInv, OrderOK
    <3>2. \A i \in DOMAIN queue : queue[i] \in Tasks
      BY <1>1
    <3>3. \A i, j \in DOMAIN queue' :
            i < j => rec'[queue'[i]].created_at <= rec'[queue'[j]].created_at
      BY <1>1, <2>5, <3>2 DEF OInv, OrderOK
    <3>4. sched' = "popped" => \A u \in registered' : rec'[u].status = "queued" =>
             rec'[active'].created_at <= rec'[u].created_at
      BY <1>1, <1>2, <1>8, <2>3, <2>4, <2>5 DEF OInv, OrderOK, Working, SchedulerPoints
    <3>5. \/ Cleared'
          \/ \A u \in registered' : rec'[u].status = "queued" =>
                InQueue(u)' \/ HeldByDelete(u)' \/ (sched' = "popped" /\ u = active')
      BY <1>1, <1>2, <1>3, <2>3, <2>4 DEF OInv, OrderOK, Cleared
    <3> QED BY <3>1, <3>3, <3>4, <3>5 DEF OrderOK
  <2>7. sched \in {"publishing", "completing"} => active # t
    BY <1>3 DEF IInv, SchedOK
  <2>8. ResultOK'
    <3>1. CompletedHasResult'
      BY <1>1, <1>10, <2>3, <2>4 DEF OInv, ResultOK, CompletedHasResult
    <3>2. sched \in Working \ {"finally"} => rec'[active].status # "completed"
      BY <1>8, <2>3, <2>4 DEF OInv, ResultOK
    <3>3. sched \in {"publishing", "completing"} =>
            /\ rec'[active].status = rec[active].status
            /\ rec'[active].location = rec[active].location
            /\ files'[active] = files[active]
      BY <1>8, <1>10, <2>3, <2>7 DEF Working, SchedulerPoints
    <3> QED BY <1>1, <3>1, <3>2, <3>3 DEF OInv, ResultOK
  <2>9. LeftoversOK'
    BY <1>1, <1>10, <2>3, <2>4 DEF OInv, LeftoversOK
  <2>10. LimboOK'
    <3>1. sched \in {"finally", "draining", "popped"} \cup Started => sched \in Working
      BY DEF Working, SchedulerPoints, Started
    <3>2. sched \in {"finally", "draining"} => active # t
      BY <2>4 DEF OInv, LimboOK, IsTerminal, TerminalStatuses
    <3>3. Faults = {} /\ ~unlisted => t # active /\ rec[t].status = "queued"
      BY <1>3 DEF OInv, LimboOK
    <3>4. sched \in {"finally", "draining"} => IsTerminal(rec'[active])
      BY <1>8, <2>3, <3>1, <3>2 DEF OInv, LimboOK, IsTerminal
    <3> QED BY <1>1, <1>2, <1>8, <2>3, <2>4, <3>1, <3>3, <3>4 DEF OInv, LimboOK
  <2> QED BY <2>6, <2>8, <2>9, <2>10 DEF OInv
<1> QED BY <1>4, <1>9, <1>10

\* The head of the loop: ended tasks may be swept, the positions are
\* renumbered, and the thread takes the oldest task, if any.
LEMMA TakesWorkOut ==
    ASSUME IInv, OInv, LockFree, sched \in {"loop", "waiting"},
           \/ UNCHANGED <<queue, active>> /\ sched' \in {"waiting", "stopped", "dead"}
              /\ (sched' = "dead" => broken)
           \/ /\ queue # <<>> /\ queue' = Tail(queue) /\ active' = Head(queue)
              /\ sched' = "popped",
           registered' \subseteq registered,
           \A u \in registered \ registered' : IsTerminal(rec[u]),
           rec' = UpdateQueuePositions(rec, registered', queue'),
           \A u \in registered' : files'[u] = files[u],
           UNCHANGED <<clock, accepting, api, main, unlisted, broken>>
    PROVE  OInv'
<1>1. /\ rec \in [Tasks -> TaskRecords] /\ registered \subseteq Tasks
      /\ queue \in Seq(Tasks) /\ queue' \in Seq(Tasks) /\ active = NoTask
      /\ NoTask \notin Tasks /\ clock \in Nat
  BY ServiceAssumption DEF IInv, ServiceTypeOK, OInv, LeftoversOK
<1>2. \A u \in Tasks : ~HeldByDelete(u) /\ ~HeldByDelete(u)'
  BY DEF HeldByDelete, LockFree
<1>3. /\ rec' \in [Tasks -> TaskRecords]
      /\ \A u \in Tasks : SameCore(rec[u], rec'[u])
  BY <1>1, UpdateQueuePositionsFacts
<1>4. \A u \in Tasks : rec'[u].location = rec[u].location
  BY <1>1, PositionsKeepLocation
<1>5. \A u \in Tasks : /\ rec'[u].status = rec[u].status
                       /\ rec'[u].storage_committed = rec[u].storage_committed
                       /\ rec'[u].created_at = rec[u].created_at
                       /\ rec'[u].location = rec[u].location
                       /\ rec[u].created_at \in Nat
  BY <1>1, <1>3, <1>4 DEF SameCore, SameDecisions, TaskRecords
<1>6. \A u \in registered : rec[u].status \in {"queued", "running"} => u \in registered'
  BY DEF IsTerminal, TerminalStatuses
<1>7. CompletedHasResult'
  BY <1>1, <1>5 DEF OInv, ResultOK, CompletedHasResult
<1>8. CASE UNCHANGED <<queue, active>> /\ sched' \in {"waiting", "stopped", "dead"}
           /\ (sched' = "dead" => broken)
  <2>1. \A u \in Tasks : InQueue(u)' <=> InQueue(u)
    BY <1>8 DEF InQueue
  <2>2. \A i \in DOMAIN queue : queue[i] \in Tasks
    BY <1>1
  <2>3. OrderOK'
    BY <1>1, <1>2, <1>5, <1>8, <2>1, <2>2 DEF OInv, OrderOK, Cleared
  <2>4. ResultOK'
    BY <1>7, <1>8 DEF ResultOK, Working
  <2>5. LeftoversOK'
    BY <1>1, <1>5, <1>8 DEF OInv, LeftoversOK
  <2>6. LimboOK'
    BY <1>1, <1>2, <1>5, <1>8 DEF OInv, LimboOK, Started
  <2> QED BY <2>3, <2>4, <2>5, <2>6 DEF OInv
<1>9. CASE /\ queue # <<>> /\ queue' = Tail(queue) /\ active' = Head(queue)
           /\ sched' = "popped"
  <2>1. /\ Len(queue) \in Nat \ {0}
        /\ DOMAIN queue = 1..Len(queue)
        /\ DOMAIN queue' = 1..(Len(queue) - 1)
        /\ \A i \in DOMAIN queue' : queue'[i] = queue[i + 1] /\ i + 1 \in DOMAIN queue /\ 1 < i + 1
        /\ active' = queue[1] /\ 1 \in DOMAIN queue
    BY <1>1, <1>9
  <2>2. \A i \in DOMAIN queue : /\ queue[i] \in registered /\ queue[i] \in Tasks
                                /\ queue[i] \in registered'
                                /\ rec[queue[i]].status = "queued"
    BY <1>1, <1>6 DEF IInv, QueueOK
  <2>3. \A u \in Tasks : /\ InQueue(u)' => \E i \in DOMAIN queue : 1 < i /\ u = queue[i]
                         /\ InQueue(u) => InQueue(u)' \/ u = active'
    <3>1. ASSUME NEW i \in DOMAIN queue, i # 1
          PROVE  i - 1 \in DOMAIN queue' /\ queue'[i - 1] = queue[i]
      BY <2>1, <3>1
    <3> QED BY <2>1, <3>1 DEF InQueue
  <2>4. OrderOK'
    <3>1. \A i, j \in DOMAIN queue' : i < j => i + 1 < j + 1
      BY <2>1
    <3>2. \A i, j \in DOMAIN queue' :
             i < j => rec'[queue'[i]].created_at <= rec'[queue'[j]].created_at
      BY <1>5, <2>1, <2>2, <3>1 DEF OInv, OrderOK
    <3>4. \A u \in registered' : rec'[u].status = "queued" =>
             InQueue(u)' \/ u = active'
      BY <1>1, <1>2, <1>5, <1>9, <2>3 DEF OInv, OrderOK, Cleared
    <3>3. \A u \in registered' : rec'[u].status = "queued" =>
             rec'[active'].created_at <= rec'[u].created_at
      BY <1>1, <1>2, <1>5, <2>1, <2>2, <2>3, <3>4 DEF OInv, OrderOK
    <3> QED BY <1>5, <1>9, <3>2, <3>3, <3>4 DEF OInv, OrderOK
  <2>5. ResultOK'
    BY <1>5, <1>7, <1>9, <2>1, <2>2 DEF ResultOK
  <2>6. LeftoversOK'
    BY <1>1, <1>5, <1>9, <2>1, <2>2 DEF OInv, LeftoversOK
  <2>7. LimboOK'
    <3>1. main = "serving"
      BY <1>9 DEF OInv, LimboOK
    <3>2. \A u \in registered' : rec'[u].status = "running" => Faults # {} \/ unlisted
      BY <1>1, <1>5 DEF OInv, LimboOK
    <3> QED BY <1>2, <1>5, <1>9, <2>1, <2>2, <3>1, <3>2 DEF OInv, LimboOK, Started
  <2> QED BY <2>4, <2>5, <2>6, <2>7 DEF OInv
<1> QED BY <1>8, <1>9

\* The loop is entered.
LEMMA LoopHeadOut ==
    ASSUME IInv, OInv, LoopHead
    PROVE  OInv'
<1>1. /\ LockFree /\ sched \in {"loop", "waiting"} /\ registered' = registered
      /\ rec' = UpdateQueuePositions(rec, registered', queue')
      /\ UNCHANGED <<files, clock, accepting, api, main, unlisted, broken>>
  BY DEF LoopHead
<1>2. \/ UNCHANGED <<queue, active>> /\ sched' \in {"waiting", "stopped"}
      \/ /\ queue # <<>> /\ queue' = Tail(queue) /\ active' = Head(queue)
         /\ sched' = "popped"
  BY DEF LoopHead, TakeNext
<1> QED BY <1>1, <1>2, TakesWorkOut

\* The wait ends.
LEMMA WakesOut ==
    ASSUME IInv, OInv, Wakes
    PROVE  OInv'
<1>1. PICK cutoff \in 0..clock :
        LET swept == ExpiredTasks(rec, registered, cutoff)
        IN  /\ registered' = registered \ swept
            /\ files' = [t \in Tasks |-> IF t \in swept THEN {} ELSE files[t]]
  BY DEF Wakes
<1>2. /\ registered' \subseteq registered
      /\ \A u \in registered \ registered' : IsTerminal(rec[u])
      /\ \A u \in registered' : files'[u] = files[u]
  BY <1>1, ExpiredAreTerminal DEF IInv, ServiceTypeOK
<1>3. /\ LockFree /\ sched \in {"loop", "waiting"}
      /\ rec' = UpdateQueuePositions(rec, registered', queue')
      /\ UNCHANGED <<clock, accepting, api, main, unlisted, broken>>
  BY DEF Wakes
<1>4. \/ UNCHANGED <<queue, active>> /\ sched' \in {"waiting", "stopped", "dead"}
         /\ (sched' = "dead" => broken)
      \/ /\ queue # <<>> /\ queue' = Tail(queue) /\ active' = Head(queue)
         /\ sched' = "popped"
  BY DEF Wakes, TakeNext
<1> QED BY <1>2, <1>3, <1>4, TakesWorkOut

\* The sweep raises and the thread dies.
LEMMA SweepBreaksOut ==
    ASSUME IInv, OInv, SweepBreaks
    PROVE  OInv'
<1>1. /\ registered' \subseteq registered /\ registered \subseteq Tasks
      /\ \A u \in registered' : files'[u] = files[u]
  BY DEF SweepBreaks, IInv, ServiceTypeOK
<1>2. /\ sched = "waiting" /\ sched' = "dead" /\ "filesystem" \in Faults
      /\ UNCHANGED <<rec, clock, queue, accepting, active, api, main, unlisted, broken>>
  BY DEF SweepBreaks
<1>3. OrderOK'
  BY <1>1, <1>2 DEF OInv, OrderOK, Cleared, InQueue, HeldByDelete
<1>4. ResultOK'
  BY <1>1, <1>2 DEF OInv, ResultOK, CompletedHasResult, Working
<1>5. LeftoversOK'
  BY <1>1, <1>2 DEF OInv, LeftoversOK
<1>6. LimboOK'
  BY <1>1, <1>2 DEF OInv, LimboOK
<1> QED BY <1>3, <1>4, <1>5, <1>6 DEF OInv

\* A drain cancels what waits and removes what it had uploaded, as far as the
\* files let it.
LEMMA DrainOut ==
    ASSUME IInv, OInv, LockFree, DrainQueue \/ DrainBreaks,
           UNCHANGED <<registered, active, api, broken, unlisted>>,
           \/ sched = "draining" /\ main' = main
              /\ (sched' = "finally" \/ (sched' = "dying" /\ "filesystem" \in Faults))
           \/ main = "serving" /\ main' \in {"joining", "cancel_active", "raised"}
              /\ sched' = sched /\ api.op = "idle"
    PROVE  OInv'
<1>1. /\ rec \in [Tasks -> TaskRecords] /\ rec' \in [Tasks -> TaskRecords]
      /\ registered \subseteq Tasks /\ queue \in Seq(Tasks) /\ clock \in Nat
      /\ queue' = <<>> /\ accepting' = FALSE /\ clock' = clock + 1
      /\ \A t \in Tasks : InQueue(t) => "filesystem" \in Faults \/ files'[t] \subseteq {"dir"}
      /\ \A t \in Tasks : ~InQueue(t) => files'[t] = files[t]
  BY DrainFacts DEF IInv, ServiceTypeOK
<1>2. /\ \A t \in Tasks : ~InQueue(t) => rec'[t] = rec[t]
      /\ \A t \in Tasks : InQueue(t) => /\ rec[t].status = "queued"
                                        /\ \/ "filesystem" \in Faults /\ rec'[t] = rec[t]
                                           \/ rec'[t].status = "cancelled"
                                        /\ rec'[t].created_at = rec[t].created_at
  BY DrainFacts
<1>3. \A t \in Tasks : ~InQueue(t)' /\ ~HeldByDelete(t) /\ ~HeldByDelete(t)'
  BY <1>1 DEF InQueue, HeldByDelete, LockFree
<1>4. sched \in Working => active \in Tasks /\ ~InQueue(active)
  BY DEF IInv, ServiceTypeOK, SchedOK, QueueOK, InQueue
<1>5. sched \in {"finally", "draining", "popped", "publishing", "completing"} \cup Started
         => sched \in Working
  BY DEF Working, SchedulerPoints, Started
<1>6. OrderOK'
  <2>1. \A t \in Tasks : rec'[t].created_at <= clock'
    <3>1. \A t \in Tasks : rec'[t].created_at = rec[t].created_at /\ rec[t].created_at \in Nat
      BY <1>1, <1>2 DEF TaskRecords
    <3> QED BY <1>1, <3>1 DEF OInv, OrderOK
  <2>2. \/ Cleared'
        \/ \A t \in registered' : rec'[t].status = "queued" => sched' = "popped" /\ t = active'
    BY <1>1, <1>2, <1>3 DEF OInv, OrderOK, Cleared
  <2>3. sched' = "popped" =>
          \A t \in registered' : rec'[t].status = "queued" =>
              rec'[active'].created_at <= rec'[t].created_at
    <3>1. sched' = "popped" => sched = "popped" /\ active \in Tasks
      BY <1>4, <1>5
    <3>2. \A t \in registered : /\ rec'[t].created_at = rec[t].created_at
                                /\ rec'[t].status = "queued" => rec[t].status = "queued"
      BY <1>1, <1>2
    <3>3. sched' = "popped" => rec'[active].created_at = rec[active].created_at
      BY <1>2, <3>1
    <3> QED BY <3>1, <3>2, <3>3 DEF OInv, OrderOK
  <2> QED BY <1>1, <1>3, <2>1, <2>2, <2>3 DEF OrderOK
<1>7. ResultOK'
  <2>1. CompletedHasResult'
    BY <1>1, <1>2 DEF OInv, ResultOK, CompletedHasResult
  <2>2. sched \in Working => rec'[active] = rec[active] /\ files'[active] = files[active]
    BY <1>1, <1>2, <1>4
  <2> QED BY <1>5, <2>1, <2>2 DEF OInv, ResultOK
<1>8. LeftoversOK'
  <2>1. \A t \in registered : ~InQueue(t) => rec'[t] = rec[t] /\ files'[t] = files[t]
    BY <1>1, <1>2
  <2>2. \A t \in registered : InQueue(t) => "filesystem" \in Faults \/ files'[t] \subseteq {"dir"}
    BY <1>1
  <2> QED BY <2>1, <2>2 DEF OInv, LeftoversOK, Removed
<1>9. LimboOK'
  <2>1. sched \in Working => rec'[active] = rec[active]
    BY <1>2, <1>4
  <2>2. \A t \in registered : rec'[t].status = "running" => rec[t].status = "running"
    BY <1>1, <1>2
  <2>3. sched' \in {"finally", "draining"} => IsTerminal(rec'[active])
    BY <1>5, <2>1 DEF OInv, LimboOK
  <2>4. main' # "serving" => api'.op = "idle"
    BY DEF OInv, LimboOK
  <2>5. main' = "closed" => sched' \in {"stopped", "dead"}
    BY DEF OInv, LimboOK
  <2>6. Faults = {} /\ ~unlisted' =>
          /\ sched' \notin {"dying", "dead"}
          /\ sched' = "popped" => active \in registered /\ rec'[active].status = "queued"
          /\ sched' \in Started => active \in registered /\ rec'[active].status = "running"
          /\ \A t \in registered : rec'[t].status = "running" => t = active /\ sched' \in Started
    BY <1>5, <2>1, <2>2 DEF OInv, LimboOK, Started
  <2> QED BY <1>1, <1>3, <2>3, <2>4, <2>5, <2>6 DEF OInv, LimboOK
<1> QED BY <1>6, <1>7, <1>8, <1>9 DEF OInv

-----------------------------------------------------------------------------
(***************************************************************************)
(* The theorems.                                                           *)
(***************************************************************************)

\* A service that has just started has nothing to order, to lose or to end.
LEMMA InitOut == Init => OInv
<1> SUFFICES ASSUME Init PROVE OInv
  OBVIOUS
<1>1. \A t \in Tasks : rec[t].created_at = 0
  BY NewRecordFacts DEF Init
<1>2. OrderOK
  BY <1>1 DEF Init, OrderOK
<1>3. ResultOK /\ LeftoversOK
  BY DEF Init, ResultOK, LeftoversOK, CompletedHasResult, Working
<1>4. LimboOK
  BY DEF Init, LimboOK, HeldByDelete, Started
<1> QED BY <1>2, <1>3, <1>4 DEF OInv

\* Every step of every thread keeps it.
LEMMA NextOut == IInv /\ OInv /\ [Next]_vars => OInv'
<1> SUFFICES ASSUME IInv, OInv, [Next]_vars PROVE OInv'
  OBVIOUS
<1>1. CASE EventLoop
  <2>1. ASSUME NEW t \in Tasks, CreateRechecks(t) \/ DeleteFindsRunning(t)
        PROVE  OInv'
    BY <2>1, AsideOut DEF CreateRechecks, DeleteFindsRunning, Serving
  <2>2. CASE DeleteSignalsRunning
    <3>1. main = "serving"
      BY <2>2 DEF DeleteSignalsRunning, OInv, LimboOK
    <3> QED BY <2>2, <3>1, AsideOut DEF DeleteSignalsRunning, ApiIdle
  <2> QED BY <1>1, <2>1, <2>2, CreateOut, DeletePurgesOut, DeleteFindsQueuedOut, SubmitOut,
             FlagOut, DeleteCancelsQueuedOut DEF EventLoop
<1>2. CASE SchedulerThread
  <2>1. CASE DrainsAfterFatal
    <3>1. /\ LockFree
          /\ DrainQueue \/ DrainBreaks
          /\ UNCHANGED <<registered, active, api, broken, unlisted>>
          /\ sched = "draining" /\ main' = main
      BY <2>1 DEF DrainsAfterFatal
    <3>2. \/ sched' = "finally"
          \/ sched' = "dying" /\ "filesystem" \in Faults
      BY <2>1 DEF DrainsAfterFatal, DrainBreaks
    <3> QED BY <3>1, <3>2, DrainOut
  <2> QED BY <1>2, <2>1, LoopHeadOut, WakesOut, SweepBreaksOut, StartsOut, ProgressOut, RunOut,
             BeginsPublicationOut, PublishesOut, EndsOut, FinishesOut
          DEF SchedulerThread, RunEnds
<1>3. CASE MainThread
  <2>1. CASE ShutdownDrains
    BY <2>1, DrainOut DEF ShutdownDrains, Serving
  <2>2. CASE ShutdownSignalsActive \/ ShutdownJoins \/ ShutdownTimesOut
    BY <2>2, AsideOut DEF ShutdownSignalsActive, ShutdownJoins, ShutdownTimesOut
  <2> QED BY <1>3, <2>1, <2>2, FlagOut DEF MainThread
<1>4. CASE (\E t \in Tasks : WatchdogWakes(t)) \/ WatchdogFires
  BY <1>4, AsideOut DEF WatchdogWakes, WatchdogFires
<1>5. CASE GroupBreaks
  <2>1. /\ Faults # {}
        /\ UNCHANGED <<rec, registered, files, clock, queue, accepting, active, sched, api,
                       main, unlisted>>
    BY <1>5 DEF GroupBreaks
  <2> QED BY <2>1 DEF OInv, OrderOK, Cleared, ResultOK, LeftoversOK, LimboOK,
                      CompletedHasResult, HeldByDelete, InQueue
<1>6. CASE UNCHANGED vars
  <2>1. UNCHANGED <<rec, registered, files, clock, queue, accepting, active, sched, api,
                    main, broken, unlisted>>
    BY <1>6 DEF vars
  <2> QED BY <2>1 DEF OInv, OrderOK, Cleared, ResultOK, LeftoversOK, LimboOK,
                      CompletedHasResult, HeldByDelete, InQueue
<1> QED BY <1>1, <1>2, <1>3, <1>4, <1>5, <1>6 DEF Next

\* The service stays inside the invariant.
LEMMA SpecOut == Spec => [](IInv /\ OInv)
<1>1. IInv /\ OInv /\ [Next]_vars => OInv'
  BY NextOut
<1> QED BY <1>1, InitOut, SpecInv, PTL DEF Spec

\* While files can be removed, what is on the disk tells the same story as
\* the record a client reads: a completed task has its result, wherever it
\* was published, and a failed or cancelled one has left nothing, also when
\* DELETE and the scheduler thread both thought it was theirs to cancel.
THEOREM DiskTellsTheOutcome ==
    ASSUME "filesystem" \notin Faults
    PROVE  Spec => []FilesMatchOutcome
<1>1. IInv /\ OInv => FilesMatchOutcome
  BY DEF OInv, ResultOK, LeftoversOK, FilesMatchOutcome, EndedLeavesNothing
<1> QED BY <1>1, SpecOut, PTL

\* Whatever fails, a completed task has its result.
THEOREM CompletedTaskHasResult == Spec => []CompletedHasResult
<1>1. IInv /\ OInv => CompletedHasResult
  BY DEF OInv, ResultOK
<1> QED BY <1>1, SpecOut, PTL

\* Without environment faults the scheduler thread can only be lost to a
\* DELETE that meets a task between its removal from the queue and its start;
\* if that has not happened, shutdown leaves no task in limbo.
THEOREM OnlyTheRaceLosesTasks ==
    ASSUME Faults = {}
    PROVE  Spec => []LimboOnlyByRace
<1>1. ASSUME IInv, OInv, ~unlisted PROVE LimboOnlyByRace
  <2>1. sched # "dead"
    BY <1>1 DEF OInv, LimboOK
  <2>2. ASSUME main = "closed", NEW t \in registered PROVE IsTerminal(rec[t])
    <3>1. sched = "stopped" /\ queue = <<>> /\ api.op = "idle"
      BY <1>1, <2>1, <2>2 DEF OInv, LimboOK
    <3>2. rec[t].status # "running"
      BY <1>1, <3>1 DEF OInv, LimboOK, Started
    <3>3. rec[t].status # "queued"
      BY <1>1, <3>1 DEF OInv, OrderOK, Cleared, InQueue, HeldByDelete
    <3>4. rec[t].status \in Statuses
      BY <1>1 DEF IInv, ServiceTypeOK, TaskRecords
    <3> QED BY <3>2, <3>3, <3>4 DEF Statuses, IsTerminal, TerminalStatuses
  <2> QED BY <2>1, <2>2 DEF LimboOnlyByRace
<1>2. IInv /\ OInv => LimboOnlyByRace
  BY <1>1 DEF LimboOnlyByRace
<1> QED BY <1>2, SpecOut, PTL

-----------------------------------------------------------------------------
(***************************************************************************)
(* The order in which tasks start.                                         *)
(***************************************************************************)

\* No step but the scheduler thread's own transition starts a queued task.
LEMMA OnlyStartsStarts ==
    ASSUME IInv, [Next]_vars, ~Starts, NEW t \in Tasks, rec[t].status = "queued"
    PROVE  rec'[t].status # "running"
<1>1. /\ rec \in [Tasks -> TaskRecords] /\ clock + 1 \in Nat /\ queue \in Seq(Tasks)
      /\ sched \in Working => active \in Tasks
  BY DEF IInv, ServiceTypeOK, SchedOK
<1>2. IInv'
  BY NextInv
<1>3. queue' \in Seq(Tasks)
  BY <1>2 DEF IInv, ServiceTypeOK
<1>4. CASE rec' = rec
  BY <1>4
<1>5. CASE Submit
  <2> DEFINE r == NewRecord(clock + 1)
             blank == [rec EXCEPT ![api.task] = r]
  <2>1. rec' = rec \/ rec' = UpdateQueuePositions(blank, registered', queue')
    BY <1>5 DEF Submit
  <2>2. r \in TaskRecords /\ r.status = "queued"
    BY <1>1, NewRecordFacts
  <2>3. api.task \in Tasks
    BY <1>5 DEF Submit, IInv, ApiOK
  <2>4. blank \in [Tasks -> TaskRecords] /\ blank[t].status = "queued"
    BY <1>1, <2>2, <2>3
  <2> HIDE DEF r, blank
  <2>5. CASE rec' = UpdateQueuePositions(blank, registered', queue')
    BY <1>3, <2>4, <2>5, UpdateQueuePositionsFacts DEF SameCore
  <2> QED BY <1>4, <2>1, <2>5
<1>6. CASE DeleteFlagsQueued \/ DeleteFlagsRunning \/ ShutdownFlagsActive
  <2>1. rec' = rec \/ \E u : rec' = [rec EXCEPT ![u] = RequestCancellation(@)]
    BY <1>6 DEF DeleteFlagsQueued, DeleteFlagsRunning, ShutdownFlagsActive
  <2>2. RequestCancellation(rec[t]).status = "queued"
    BY <1>1, SetterFacts
  <2> QED BY <1>1, <1>4, <2>1, <2>2
<1>7. CASE DeleteCancelsQueued
  <2> DEFINE n == Transition(rec[api.task], "cancelled", "none", clock + 1)
             ended == [rec EXCEPT ![api.task] = n]
  <2>1. rec' = rec \/ rec' = ended \/ rec' = UpdateQueuePositions(ended, registered, queue)
    BY <1>7 DEF DeleteCancelsQueued
  <2>2. api.task \in Tasks
    BY <1>7 DEF DeleteCancelsQueued, IInv, ServiceTypeOK, ApiOK, DeleteOps
  <2>3. n \in TaskRecords /\ n.status = "cancelled"
    <3>1. "cancelled" \in Statuses /\ "none" \in Errors /\ rec[api.task] \in TaskRecords
      BY <1>1, <2>2 DEF Statuses, Errors
    <3> QED BY <1>1, <3>1, TransitionFacts DEF SameDecisions
  <2>4. ended \in [Tasks -> TaskRecords] /\ ended[t].status # "running"
    BY <1>1, <2>2, <2>3
  <2> HIDE DEF n, ended
  <2>5. CASE rec' = UpdateQueuePositions(ended, registered, queue)
    BY <1>1, <2>4, <2>5, UpdateQueuePositionsFacts DEF SameCore
  <2> QED BY <1>4, <2>1, <2>4, <2>5
<1>8. CASE LoopHead \/ Wakes
  <2>1. rec' = UpdateQueuePositions(rec, registered', queue')
    BY <1>8 DEF LoopHead, Wakes
  <2> QED BY <1>1, <1>3, <2>1, UpdateQueuePositionsFacts DEF SameCore
<1>9. CASE ChecksCancelled \/ ReportsProgress
  BY <1>1, <1>9 DEF ChecksCancelled, ReportsProgress, UpdateProgress, Working, SchedulerPoints
<1>10. CASE BeginsPublication
  <2>1. \/ rec' = rec
        \/ /\ rec[active].status = "running"
           /\ rec' = [rec EXCEPT ![active] = BeginResultPublication(@)]
    BY <1>10 DEF BeginsPublication
  <2> QED BY <1>1, <1>4, <2>1
<1>11. CASE PublishesLocally \/ PublishesRemotely
  <2>1. rec' = rec \/ (rec[active].status = "running" /\ \A u \in Tasks \ {active} : rec'[u] = rec[u])
    BY <1>1, <1>11 DEF PublishesLocally, PublishesRemotely, CanSetResultStorage
  <2> QED BY <1>4, <2>1
<1>12. CASE Completes \/ HandlesCancelled \/ HandlesFailure
  <2>1. active \in Tasks
    BY <1>1, <1>12 DEF Completes, HandlesCancelled, HandlesFailure, Working, SchedulerPoints
  <2>2. PICK s, e : /\ s \in {"completed", "cancelled", "failed"} /\ e \in Errors
                    /\ (rec' = rec \/ rec' = [rec EXCEPT ![active] = Transition(@, s, e, clock + 1)])
    BY <1>12 DEF Completes, HandlesCancelled, HandlesFailure, Ends, Errors
  <2>3. Transition(rec[active], s, e, clock + 1).status = s
    BY <1>1, <2>1, <2>2, TransitionFacts DEF Statuses
  <2>4. CASE rec' = [rec EXCEPT ![active] = Transition(rec[active], s, e, clock + 1)]
    BY <1>1, <2>2, <2>3, <2>4
  <2> QED BY <1>4, <2>2, <2>4
<1>13. CASE DrainsAfterFatal \/ ShutdownDrains
  BY <1>13, DrainFacts DEF DrainsAfterFatal, ShutdownDrains
<1>14. CASE EventLoop
  BY <1>4, <1>5, <1>6, <1>7, <1>14 DEF EventLoop, CreateBegins, CreateAborted, CreateRechecks,
      DeletePurges, DeleteFindsQueued, DeleteFindsRunning, DeleteSignalsRunning
<1>15. CASE SchedulerThread
  BY <1>4, <1>8, <1>9, <1>10, <1>11, <1>12, <1>13, <1>15 DEF SchedulerThread, RunEnds,
      Dispatches, CheckpointCancels, RunSucceeds, RunFails, RunFailsFatally, PublicationFails,
      RemovalFails, Finishes, SweepBreaks
<1>16. CASE MainThread
  BY <1>4, <1>6, <1>13, <1>16 DEF MainThread, ShutdownSignalsActive, ShutdownJoins, ShutdownTimesOut
<1>17. CASE (\E u \in Tasks : WatchdogWakes(u)) \/ WatchdogFires \/ GroupBreaks \/ UNCHANGED vars
  BY <1>4, <1>17 DEF WatchdogWakes, WatchdogFires, GroupBreaks, vars
<1> QED BY <1>14, <1>15, <1>16, <1>17 DEF Next

\* The service is first in, first out, whatever its threads, its clients and
\* its environment do: a task that starts is no younger than any that waits,
\* wherever those stand, in the queue or in the hands of a DELETE.
THEOREM FirstInFirstOut == Spec => StartsInOrder
<1>1. ASSUME IInv, OInv, [Next]_vars, NEW t \in Tasks,
             rec[t].status = "queued", rec'[t].status = "running",
             NEW u \in registered, rec[u].status = "queued"
      PROVE  rec[t].created_at <= rec[u].created_at
  <2>1. Starts
    BY <1>1, OnlyStartsStarts
  <2>2. t = active /\ sched = "popped"
    BY <1>1, <2>1 DEF Starts, IInv, ServiceTypeOK
  <2>3. CASE u = t
    <3>1. rec[t].created_at \in Nat
      BY <1>1 DEF IInv, ServiceTypeOK, TaskRecords
    <3> QED BY <2>3, <3>1
  <2>4. CASE u # t
    BY <1>1, <2>2, <2>4 DEF OInv, OrderOK
  <2> QED BY <2>3, <2>4
<1>2. IInv /\ OInv /\ [Next]_vars =>
        [\A t \in Tasks :
           rec[t].status = "queued" /\ rec'[t].status = "running" =>
             \A u \in registered : rec[u].status = "queued" =>
                 rec[t].created_at <= rec[u].created_at]_vars
  BY <1>1
<1> QED BY <1>2, SpecOut, PTL DEF Spec, StartsInOrder
=============================================================================
