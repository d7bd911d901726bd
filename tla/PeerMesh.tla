------------------------------ MODULE PeerMesh ------------------------------
(***************************************************************************)
(* The single-process device mesh of one window: a thread per device, two  *)
(* exchanges' worth of barrier around shared slots instead of NCCL, and    *)
(* the residual caches (TeaCache, Cache-DiT) whose decisions the devices   *)
(* of a sequence-parallel group take together over the same exchange.      *)
(* The window's owner submits a forward per device and branch, collects    *)
(* the results in order, and leaves the window by aborting every barrier,  *)
(* joining the threads and closing caches and replicas.                    *)
(***************************************************************************)
EXTENDS Integers, Sequences, FiniteSets, FiniteSetsExt, Functions

CONSTANTS
  Plans,        \* windows to run: records with the fields below
  MaxFaults,    \* failures of a device, a barrier or the replicas per window
  Warmup,       \* min_skip_step, warmup_steps
  EndGuard,     \* end_guard_steps
  MaxReuse,     \* max_consecutive_skip, max_consecutive_cached_steps
  Threshold,    \* threshold, residual_diff_threshold
  Distances     \* a device's share of the probe's distance

\* A plan: sp and cfg degrees, denoising steps, cache mode, probe metric, forced compute.
ASSUME PlansAssumption ==
  \A p \in Plans :
    /\ p.sp \in Nat \ {0} /\ p.cfg \in {1, 2} /\ p.sp * p.cfg > 1
    /\ p.steps \in Nat \ {0}
    /\ p.mode \in {"off", "teacache", "cache_dit"}
    /\ p.metric \in {"global", "mask_frame_max"}
    /\ p.force \in BOOLEAN
ASSUME CacheParamsAssumption ==
  /\ MaxFaults \in Nat /\ Warmup \in Nat
  /\ EndGuard \in Nat \ {0} /\ MaxReuse \in Nat \ {0}
  /\ Threshold \in Nat \ {0} /\ Distances \subseteq Nat

VARIABLES
  plan,     \* the resolved mesh plan and cache options of the window
  owner,    \* what the denoising stage is doing with the window
  step,     \* EraserDiTMeshWindow.steps
  branch,   \* the branch being submitted when CFG is not parallel
  thread,   \* per device: its worker thread's forward
  barrier,  \* per CFG group: the state of PeerExchange.barrier
  slots,    \* per device: PeerExchange.slots
  cache,    \* per device and branch: the controller's branch state
  pool,     \* the replica pool: "free", "held"
  report,   \* the steps counted by batch.extra['transformer_cache'], None before
  faults    \* failures so far

meshVars == <<plan, owner, step, branch, thread, barrier, slots, cache, pool, report, faults>>

None == -1
Branches == {"negative", "positive"}
Devices == 0..(plan.sp * plan.cfg - 1)
Groups == 0..(plan.cfg - 1)
GroupOf(d) == d \div plan.sp
Members(g) == {d \in Devices : GroupOf(d) = g}
BranchOf(d) == IF plan.cfg = 1 THEN branch
               ELSE IF GroupOf(d) = 0 THEN "positive" ELSE "negative"

-----------------------------------------------------------------------------
(* The controllers' branch state: seen is previous_step (TeaCache) or       *)
(* previous_observed_step (Cache-DiT); probe and kept are the steps whose   *)
(* probe and residual are stored; learned, interval, velocity the forecast. *)

NoDecision == [step |-> None, reuse |-> FALSE, reason |-> "none", acc |-> 0]

NewBranchState ==
  [seen |-> None, probe |-> None, kept |-> None, run |-> 0, acc |-> 0,
   pending |-> NoDecision, computed |-> 0, reused |-> 0,
   learned |-> None, interval |-> 0, velocity |-> FALSE]

\* What both controllers require before they compare probes.
NotReusable(s, n) ==
  IF s.seen = None THEN "first_branch_step"
  ELSE IF s.seen + 1 # n THEN "non_contiguous_branch_step"
  ELSE IF s.probe = None \/ s.kept = None THEN "missing_cached_state"
  ELSE "none"

\* _forced_compute_reason of TeaCache, and the calibration that never reuses; the layout is
\* one per window.
TeaForced(s, n) ==
  IF n < Warmup THEN "before_min_skip_step"
  ELSE IF n >= plan.steps - EndGuard THEN "after_max_skip_step"
  ELSE IF NotReusable(s, n) # "none" THEN NotReusable(s, n)
  ELSE IF s.run >= MaxReuse THEN "max_consecutive_skip"
  ELSE IF plan.force THEN "calibrate" ELSE "none"

\* Forcing the computation with Cache-DiT stretches its warm-up over the window.
DitWarmup == IF plan.force /\ plan.steps > Warmup THEN plan.steps ELSE Warmup

\* _forced_compute_reason of Cache-DiT.
DitForced(s, n) ==
  IF n < DitWarmup THEN "warmup"
  ELSE IF n >= plan.steps - EndGuard THEN "end_guard"
  ELSE IF NotReusable(s, n) # "none" THEN NotReusable(s, n)
  ELSE IF s.run >= MaxReuse THEN "max_consecutive_cached_steps" ELSE "none"

Forced(s, n) == IF plan.mode = "teacache" THEN TeaForced(s, n) ELSE DitForced(s, n)

\* A distance that is not finite computes, as one above the threshold does.
Compared(n, distance) ==
  [step |-> n, reuse |-> distance < Threshold, acc |-> distance,
   reason |-> IF distance < Threshold THEN "cache_hit" ELSE "threshold_exceeded"]

\* check of TeaCache: the distances of the reused steps accumulate.
TeaDecision(s, n, total) ==
  IF TeaForced(s, n) # "none"
  THEN [step |-> n, reuse |-> FALSE, reason |-> TeaForced(s, n), acc |-> 0]
  ELSE Compared(n, s.acc + total)

\* check of Cache-DiT: the distance is to the last computed step.
DitDecision(s, n, total) ==
  IF DitForced(s, n) # "none"
  THEN [step |-> n, reuse |-> FALSE, reason |-> DitForced(s, n), acc |-> 0]
  ELSE Compared(n, total)

Decided(s, n, total) ==
  IF plan.mode = "teacache" THEN TeaDecision(s, n, total) ELSE DitDecision(s, n, total)

\* _learn: only two real computations train the linear forecast.
Learn(s, n) ==
  LET trains == s.kept # None /\ s.learned # None /\ n > s.learned
                /\ s.pending.reason # "non_contiguous_branch_step"
  IN [s EXCEPT !.velocity = trains,
               !.interval = IF trains THEN n - s.learned ELSE s.interval,
               !.learned = n]

\* record_compute of TeaCache, with the forecast it trains.
TeaRecord(s, n) ==
  [Learn(s, n) EXCEPT !.seen = n, !.probe = n, !.kept = n, !.acc = 0, !.run = 0,
                      !.computed = @ + 1, !.pending = NoDecision]

\* apply_cached_update of TeaCache: the probe moves on, the residual stays.
TeaApply(s, n) ==
  [s EXCEPT !.seen = n, !.probe = n, !.acc = s.pending.acc, !.run = @ + 1,
            !.reused = @ + 1, !.pending = NoDecision]

\* record_middle_compute of Cache-DiT, with the forecast it trains.
DitRecord(s, n) == [Learn(s, n) EXCEPT !.probe = n, !.kept = n]

\* complete_step of Cache-DiT, after the back blocks.
DitComplete(s, n) ==
  [s EXCEPT !.seen = n,
            !.run = IF s.pending.reuse THEN @ + 1 ELSE 0,
            !.computed = IF s.pending.reuse THEN @ ELSE @ + 1,
            !.reused = IF s.pending.reuse THEN @ + 1 ELSE @,
            !.pending = NoDecision]

\* _predict bounds the extrapolation to one observed interval.
Horizon(s, n) == Min({n - s.learned, s.interval})

-----------------------------------------------------------------------------
(* One forward is a sequence of exchanges.  Outside the group (sp = 1)      *)
(* there is nobody to exchange with and every exchange is a local step.     *)

FirstExchange == IF plan.mode = "teacache" THEN "context" ELSE "front"

AfterPrepare(s, n) ==
  IF Forced(s, n) # "none" THEN "decision"
  ELSE IF plan.metric = "global" THEN "metric" ELSE "regions"

\* EraserDiTCacheBranch._run: what follows an exchange of the forward.
NextExchange(op, s, n, got) ==
  CASE op = "front" -> IF plan.mode = "off" THEN "end" ELSE "context"
    [] op = "context" -> "prepare"
    [] op = "prepare" -> AfterPrepare(s, n)
    [] op = "regions" -> "metric"
    [] op = "metric" -> "decision"
    [] op = "decision" -> IF ~Decided(s, n, got).reuse THEN "middle"
                          ELSE IF plan.mode = "teacache" THEN "end" ELSE "back"
    [] op = "middle" -> IF plan.mode = "teacache" THEN "end" ELSE "back"
    [] op = "back" -> "end"

\* The exchanges whose local preparation is inside try and carried as an error flag.
Carries == {"context", "prepare", "regions", "metric"}

\* assert_decision compares the sum of the squares with the square of the sum.
Agree(codes) == Cardinality(codes) <= 1

IdleThread == [at |-> "idle", op |-> "end", err |-> FALSE, got |-> 0]

EmptySlot == [op |-> "end", step |-> None, branch |-> "none", err |-> FALSE, share |-> 0, reason |-> "none"]

-----------------------------------------------------------------------------
(* threading.Barrier: filling until every party has arrived, draining until *)
(* every party has left; abort and timeouts break it for good.              *)

NewBarrier == [state |-> "filling", inside |-> 0]

Full(b) == b.inside + 1 = plan.sp
Arrived(b) == IF Full(b) THEN [b EXCEPT !.state = "draining"] ELSE [b EXCEPT !.inside = @ + 1]
Left(b) == [state |-> IF b.inside = 1 THEN "filling" ELSE b.state, inside |-> b.inside - 1]

\* _forward's except clause: every group of the mesh is aborted.
AbortAll == [g \in Groups |-> [barrier[g] EXCEPT !.state = "broken"]]

-----------------------------------------------------------------------------
Init ==
  /\ plan \in Plans
  /\ owner = "entering"
  /\ step = 0
  /\ branch = "negative"
  /\ thread = [d \in Devices |-> IdleThread]
  /\ barrier = [g \in Groups |-> NewBarrier]
  /\ slots = [d \in Devices |-> EmptySlot]
  /\ cache = [d \in Devices |-> [b \in Branches |-> NewBranchState]]
  /\ pool = "free"
  /\ report = None
  /\ faults = 0

\* __enter__: the replicas are moved to their devices, groups and caches are built;
\* a failure on the way leaves through __exit__.
EnterWindow ==
  /\ owner = "entering"
  /\ pool' = "held"
  /\ \/ owner' = "stepping" /\ UNCHANGED faults
     \/ faults < MaxFaults /\ owner' = "leaving" /\ faults' = faults + 1
  /\ UNCHANGED <<plan, step, branch, thread, barrier, slots, cache, report>>

\* predict submits one forward per device: both branches at once under CFG parallelism,
\* otherwise the negative branch and, once it has been collected, the positive one.
\* With one device per branch the first step runs the branches one after the other.
Submitted(d) ==
  \/ plan.cfg = 1
  \/ plan.sp > 1 \/ step > 0
  \/ BranchOf(d) = branch

Started == [at |-> "local", op |-> FirstExchange, err |-> FALSE, got |-> 0]

Submit ==
  /\ owner = "stepping"
  /\ step < plan.steps
  /\ owner' = "collecting"
  /\ thread' = [d \in Devices |-> IF Submitted(d) THEN Started ELSE IdleThread]
  /\ UNCHANGED <<plan, step, branch, barrier, slots, cache, pool, faults, report>>

\* service_checkpoint raises at the head of a denoising step.
Cancel ==
  /\ owner = "stepping"
  /\ step < plan.steps
  /\ branch = "negative"
  /\ faults < MaxFaults
  /\ faults' = faults + 1
  /\ owner' = "leaving"
  /\ UNCHANGED <<plan, step, branch, thread, barrier, slots, cache, pool, report>>

\* The results are collected in rank order: the first exception met is raised while later
\* devices may still be running.
FirstRaised(d) == thread[d].at = "raised" /\ \A e \in 0..(d - 1) : thread[e].at = "idle"

BranchesSubmittedTogether == plan.cfg = 2 /\ (plan.sp > 1 \/ step > 0)

CollectFailure ==
  /\ owner = "collecting"
  /\ \E d \in Devices : FirstRaised(d)
  /\ owner' = "leaving"
  /\ UNCHANGED <<plan, step, branch, thread, barrier, slots, cache, pool, faults, report>>

CollectResults ==
  /\ owner = "collecting"
  /\ \A d \in Devices : thread[d].at = "idle"
  /\ owner' = "stepping"
  /\ IF branch = "negative" /\ ~BranchesSubmittedTogether
     THEN branch' = "positive" /\ UNCHANGED step
     ELSE branch' = "negative" /\ step' = step + 1
  /\ UNCHANGED <<plan, thread, barrier, slots, cache, pool, faults, report>>

FinishWindow ==
  /\ owner = "stepping"
  /\ step = plan.steps
  /\ owner' = "leaving"
  /\ UNCHANGED <<plan, step, branch, thread, barrier, slots, cache, pool, faults, report>>

\* __exit__ begins by aborting every barrier, so that no thread waits while it is joined.
AbortGroups ==
  /\ owner = "leaving"
  /\ owner' = "joining"
  /\ barrier' = AbortAll
  /\ UNCHANGED <<plan, step, branch, thread, slots, cache, pool, faults, report>>

\* aggregate_rank_cache_reports counts the steps of the first device of each group.
BranchSteps(d, b) == cache[d][b].computed + cache[d][b].reused
GroupSteps(g) == BranchSteps(g * plan.sp, "negative") + BranchSteps(g * plan.sp, "positive")
CountedSteps == IF plan.cfg = 1 THEN GroupSteps(0) ELSE GroupSteps(0) + GroupSteps(1)

\* executor.shutdown(wait=True), the caches' __exit__, pool.release and the cleared slots.
CloseWindow ==
  /\ owner = "joining"
  /\ \A d \in Devices : thread[d].at \in {"idle", "raised"}
  /\ owner' = "closed"
  /\ thread' = [d \in Devices |-> IdleThread]
  /\ slots' = [d \in Devices |-> EmptySlot]
  /\ cache' = [d \in Devices |->
                [b \in Branches |->
                  [cache[d][b] EXCEPT !.probe = None, !.kept = None,
                                      !.pending = NoDecision, !.velocity = FALSE]]]
  /\ pool' = "free"
  /\ report' = CountedSteps
  /\ UNCHANGED <<plan, step, branch, barrier, faults>>

-----------------------------------------------------------------------------
(* A worker thread *)

\* Mutant: the peers are not woken.
Mut_Raised(d) ==
  /\ thread' = [thread EXCEPT ![d].at = "raised"]
  /\ UNCHANGED barrier

\* The forward raises: every barrier of the mesh is aborted before the future fails.
Raised(d) ==
  /\ thread' = [thread EXCEPT ![d].at = "raised"]
  /\ barrier' = AbortAll

\* A device fails in its own work (out of memory, a bad shape, a lost device): in a try of
\* the cache's checks the error travels with the exchange, elsewhere it is raised.
Fail(d) ==
  /\ thread[d].at \in {"local", "reading"}
  /\ ~thread[d].err
  /\ faults < MaxFaults
  /\ faults' = faults + 1
  /\ \/ /\ thread[d].at = "local" /\ thread[d].op \in Carries
        /\ thread' = [thread EXCEPT ![d].err = TRUE]
        /\ UNCHANGED barrier
     \/ Raised(d)
  /\ UNCHANGED <<plan, owner, step, branch, slots, cache, pool, report>>

\* exchange puts the device's value into its slot ...
Post(d) ==
  LET t == thread[d]
      decision == Decided(cache[d][BranchOf(d)], step, t.got)
  IN
  /\ t.at = "local"
  /\ \E share \in IF t.op = "metric" THEN Distances ELSE {0} :
       slots' = [slots EXCEPT ![d] =
         [op |-> t.op, step |-> step, branch |-> BranchOf(d), err |-> t.err, share |-> share,
          reason |-> IF t.op = "decision" THEN decision.reason ELSE "none"]]
  /\ thread' = [thread EXCEPT ![d].at = "posted"]
  /\ UNCHANGED <<plan, owner, step, branch, barrier, cache, pool, faults, report>>

\* ... and waits at the barrier, once before reading the slots and once after.  A broken
\* barrier raises; a draining one is entered when it has drained.  A lone device has no
\* group and passes.
Arrive(d, from, waiting, past) ==
  LET b == barrier[GroupOf(d)] IN
  /\ thread[d].at = from
  /\ \/ /\ plan.sp = 1
        /\ thread' = [thread EXCEPT ![d].at = past]
        /\ UNCHANGED barrier
     \/ /\ plan.sp > 1 /\ b.state = "broken"
        /\ Raised(d)
     \/ /\ plan.sp > 1 /\ b.state = "filling"
        /\ barrier' = [barrier EXCEPT ![GroupOf(d)] = Arrived(b)]
        /\ thread' = [thread EXCEPT ![d].at = IF Full(b) THEN past ELSE waiting]
  /\ UNCHANGED <<plan, owner, step, branch, slots, cache, pool, faults, report>>

Leave(d, waiting, past) ==
  LET b == barrier[GroupOf(d)] IN
  /\ thread[d].at = waiting
  /\ \/ /\ b.state = "broken"
        /\ Raised(d)
     \/ /\ b.state = "draining"
        /\ barrier' = [barrier EXCEPT ![GroupOf(d)] = Left(b)]
        /\ thread' = [thread EXCEPT ![d].at = past]
  /\ UNCHANGED <<plan, owner, step, branch, slots, cache, pool, faults, report>>

ArriveToRead(d) == Arrive(d, "posted", "first", "reading")
LeaveToRead(d) == Leave(d, "first", "reading")
\* Mutant: the slots may be reused before every consumer has read them.
Mut_ArriveAfterRead(d) ==
  /\ thread[d].at = "read"
  /\ thread' = [thread EXCEPT ![d].at = "result"]
  /\ UNCHANGED <<plan, owner, step, branch, barrier, slots, cache, pool, faults, report>>
ArriveAfterRead(d) == Arrive(d, "read", "second", "result")
LeaveAfterRead(d) == Leave(d, "second", "result")

\* The barrier's timeout: a waiting device gives up on a slow peer.
TimeOut(d) ==
  /\ thread[d].at \in {"first", "second"}
  /\ barrier[GroupOf(d)].state = "filling"
  /\ faults < MaxFaults
  /\ faults' = faults + 1
  /\ Raised(d)
  /\ UNCHANGED <<plan, owner, step, branch, slots, cache, pool, report>>

\* The reduction over the group's slots, taken between the two barriers: the error flags,
\* the sum of the distances, and the test that all decided alike.
Peers(d) == Members(GroupOf(d))
\* Mutant: the distance of the device's own shard decides.
Mut_Reduced(d) == slots[d].share
Reduced(d) == SumFunction([e \in Peers(d) |-> slots[e].share])
Refused(d) ==
  \/ \E e \in Peers(d) : slots[e].err
  \/ ~Agree({slots[e].reason : e \in Peers(d)})

Read(d) ==
  /\ thread[d].at = "reading"
  /\ thread' = [thread EXCEPT ![d].at = "read", ![d].err = Refused(d),
                  ![d].got = IF thread[d].op = "metric" THEN Reduced(d) ELSE @]
  /\ UNCHANGED <<plan, owner, step, branch, barrier, slots, cache, pool, faults, report>>

\* What the controller does once an exchange of the forward has returned.
Advanced(op, s, n, got) ==
  LET decided == [s EXCEPT !.pending = Decided(s, n, got)] IN
  CASE op = "decision" /\ plan.mode = "teacache" /\ decided.pending.reuse -> TeaApply(decided, n)
    [] op = "decision" /\ ~(plan.mode = "teacache" /\ decided.pending.reuse) -> decided
    [] op = "middle" -> IF plan.mode = "teacache" THEN TeaRecord(s, n) ELSE DitRecord(s, n)
    [] op = "back" -> DitComplete(s, n)
    [] OTHER -> s

\* check refuses a second decision before the first has been completed.
Unfinished(op, s) == op = "prepare" /\ s.pending # NoDecision

Continue(d) ==
  LET t == thread[d] b == BranchOf(d) s == cache[d][b] IN
  /\ t.at = "result"
  /\ IF t.err \/ Unfinished(t.op, s)
     THEN Raised(d) /\ UNCHANGED cache
     ELSE /\ cache' = [cache EXCEPT ![d][b] = Advanced(t.op, s, step, t.got)]
          /\ LET next == NextExchange(t.op, s, step, t.got) IN
             thread' = [thread EXCEPT ![d].op = next,
                                      ![d].at = IF next = "end" THEN "idle" ELSE "local"]
          /\ UNCHANGED barrier
  /\ UNCHANGED <<plan, owner, step, branch, slots, pool, faults, report>>

-----------------------------------------------------------------------------
OwnerStep ==
  \/ EnterWindow \/ Submit \/ CollectFailure \/ CollectResults
  \/ FinishWindow \/ AbortGroups \/ CloseWindow

DeviceStep(d) ==
  \/ Post(d) \/ ArriveToRead(d) \/ LeaveToRead(d) \/ Read(d)
  \/ ArriveAfterRead(d) \/ LeaveAfterRead(d) \/ Continue(d)

Next ==
  \/ OwnerStep
  \/ Cancel
  \/ \E d \in Devices : DeviceStep(d) \/ Fail(d) \/ TimeOut(d)

Spec == Init /\ [][Next]_meshVars

\* The stage's thread and every worker thread of the pool keep running.
MaxDevice == 3
FairSpec ==
  /\ Spec
  /\ WF_meshVars(OwnerStep)
  /\ \A d \in 0..MaxDevice : WF_meshVars(d \in Devices /\ DeviceStep(d))

-----------------------------------------------------------------------------
(* What a window owes: exchanges pair the same calls, the devices of a      *)
(* group keep identical caches, a residual is reused only while it is       *)
(* young, and the window always ends.                                       *)

Ops == {"front", "context", "prepare", "regions", "metric", "decision", "middle", "back", "end"}

\* Shape of the window's state: EraserDiTMeshWindow, PeerExchange and the branch states.
MeshTypeOK ==
  /\ owner \in {"entering", "stepping", "collecting", "leaving", "joining", "closed"}
  /\ step \in 0..plan.steps
  /\ pool \in {"free", "held"}
  /\ \A d \in Devices :
       /\ thread[d].at \in {"idle", "local", "posted", "first", "reading", "read", "second",
                            "result", "raised"}
       /\ thread[d].op \in Ops
       /\ \A b \in Branches : cache[d][b].run \in 0..MaxReuse /\ cache[d][b].seen < plan.steps
  /\ \A g \in Groups : barrier[g].inside \in 0..(plan.sp - 1)

\* mesh.py:76 "producers and all consumers finish before slot reuse": a device that reads
\* the slots finds in each of them the value its peer posted for this very call.
ExchangeMatches ==
  \A d \in Devices : thread[d].at = "reading" =>
    \A e \in Peers(d) :
      slots[e].op = thread[d].op /\ slots[e].step = step /\ slots[e].branch = BranchOf(d)

\* The devices of a group that have completed the same step of a branch hold the same
\* reference, residual, forecast and counters, so that they take the next decision alike.
CachesAgree ==
  \A d \in Devices : \A e \in Peers(d) : \A b \in Branches :
    LET s == cache[d][b] t == cache[e][b] IN
    (owner # "closed" /\ s.seen = t.seen /\ {s.pending, t.pending} = {NoDecision}) => s = t

\* After a run of reused steps the residual they used is the one computed just before the
\* run, at most MaxReuse steps ago, the forecast was trained on it, the whole run lies
\* between the warm-up and the guarded end, and an extrapolation covers at most one interval.
ReuseIsYoung ==
  \A d \in Devices : \A b \in Branches :
    LET s == cache[d][b] IN
    (owner # "closed" /\ s.run > 0 /\ s.kept <= s.seen) =>
      /\ s.seen - s.kept = s.run /\ s.run <= MaxReuse
      /\ s.kept >= 0 /\ s.learned = s.kept
      /\ s.kept + 1 >= Warmup /\ s.seen < plan.steps - EndGuard
      /\ s.velocity => Horizon(s, s.seen) \in 1..s.interval

\* The consensus errors (a decision mismatch, an uncompleted step) and the barrier's errors
\* are only ever the consequence of a failure, a timeout or a cancellation.
RaisesOnlyOnFault ==
  (\E d \in Devices : thread[d].at = "raised") => faults > 0

\* "Count logical CFG work once per SP group" (cache/eraserdit.py:178): the report of a
\* window that ran to its end counts every step of both branches exactly once.
ReportCountsBranchesOnce ==
  (owner = "closed" /\ faults = 0 /\ plan.mode # "off") => report = 2 * plan.steps

\* The exchanges of a window never mix calls, and only a fault can end one
\* with an error.
ExchangesPair == MeshTypeOK /\ ExchangeMatches /\ RaisesOnlyOnFault

\* The residual caches reuse what all devices of a group would reuse, while it
\* is young, and are accounted for once.
ReuseAgrees == CachesAgree /\ ReuseIsYoung /\ ReportCountsBranchesOnce

\* Threads of a closed window are gone and the replicas are back, whatever failed: the
\* owner never leaves a device behind in an exchange.
WindowEnds == <>(owner = "closed")
=============================================================================
