---------------------------- MODULE GroupRuntime ----------------------------
(***************************************************************************)
(* How the ranks of one job set up their process groups and take them down *)
(* again: initialize_runtime_distributed and destroy_runtime_distributed   *)
(* (parallel/runtime.py) with initialize_parallel_context and              *)
(* ParallelContext.destroy (distributed/parallel_state.py).                *)
(*                                                                         *)
(* Creating a process group and a barrier complete only when every rank    *)
(* has entered them; `entered' counts, per rank, the names it has entered. *)
(* A rank that can no longer be waited for makes the others raise, by a    *)
(* closed connection or by the timeout of the group.                       *)
(***************************************************************************)
EXTENDS Integers, Sequences, FiniteSets, GroupTopology

CONSTANTS N,          \* the size of the world (the planner admits 2 and 4)
          Jobs,       \* what a job asks for: degrees and transport, see below
          MaxFaults   \* bound on the failures of one behaviour

ASSUME JobsAssumption ==
    /\ N \in Nat \ {0}
    /\ MaxFaults \in Nat
    /\ \A j \in Jobs : /\ j.degrees \in [sp : Nat, cfg : Nat, vae : Nat]
                       /\ DegreesFit(j.degrees, N)
                       /\ j.preexisting \in BOOLEAN
                       /\ j.nccl \in BOOLEAN

Ranks == 0..(N - 1)

VARIABLES job,        \* degrees, preexisting default group, NCCL or not
          stage,      \* where each rank is in its life
          entered,    \* the collective set-up and take-down steps it has entered
          alive,      \* the communicators that exist in its process
          held,       \* those recorded in the groups of ParallelContext
          parallel,   \* is _PARALLEL_CONTEXT published?
          cpuGroup,   \* does the official context hold the gloo group?
          context,    \* is the RuntimeDistributedContext published?
          failure,    \* the first error of its initialization or destruction
          faults      \* failures so far

runtimeVars == <<job, stage, entered, alive, held, parallel, cpuGroup, context, failure>>

Stages == {"booting", "creating", "gloo", "booted", "up", "syncing", "closing",
           "leaving", "failed", "closed"}
Gone == {"failed", "closed"}

(* The groups a rank creates, in the order of its calls of new_group.      *)
Subgroups(j) ==
    LET all == OrderedSubgroups(j.degrees)
        created[i \in 0..Len(all)] ==
            IF i = 0 THEN <<>>
            ELSE IF Owned(all[i], N) THEN Append(created[i - 1], all[i]) ELSE created[i - 1]
    IN created[Len(all)]
BootOrder(j) == (IF j.preexisting THEN <<>> ELSE << <<"default">> >>)
                \o Subgroups(j) \o << <<"gloo">> >>
BootOrders == [j \in Jobs |-> BootOrder(j)]

RuntimeInit ==
    /\ job \in Jobs
    /\ stage = [r \in Ranks |-> "booting"]
    /\ entered = [r \in Ranks |-> <<>>]
    /\ alive = [r \in Ranks |-> IF job.preexisting THEN {<<"default">>} ELSE {}]
    /\ held = [r \in Ranks |-> {}]
    /\ parallel = [r \in Ranks |-> FALSE]
    /\ cpuGroup = [r \in Ranks |-> FALSE]
    /\ context = [r \in Ranks |-> FALSE]
    /\ failure = [r \in Ranks |-> FALSE]

(* init_process_group, new_group and barrier wait for every rank.          *)
Enter(r, name) == entered' = [entered EXCEPT ![r] = Append(@, name)]
Met(r) == \A q \in Ranks : Len(entered[q]) >= Len(entered[r])
Missing(r) == \E q \in Ranks : Len(entered[q]) < Len(entered[r]) /\ stage[q] \in Gone

Budget == faults < MaxFaults
Spend == faults' = faults + 1

NextGroup(r) == BootOrders[job][Len(entered[r]) + 1]

(* A rank enters the creation of its next group.                           *)
Joins(r) ==
    /\ stage[r] = "booting"
    /\ Enter(r, NextGroup(r))
    /\ stage' = [stage EXCEPT ![r] = "creating"]
    /\ context' = [context EXCEPT ![r] = NextGroup(r) /= <<"default">>]
    /\ UNCHANGED <<job, alive, held, parallel, cpuGroup, failure, faults>>

IsMember(r, name) == name[1] \in {"default", "gloo"} \/ r \in RanksOf(name)

(* The group exists.  With the default group the context is published,     *)
(* after the last subgroup the ParallelContext, and the gloo group is      *)
(* recorded in a provisional context as soon as it exists.                 *)
Joined(r) ==
    LET name == entered[r][Len(entered[r])]
        subgroup == name[1] \notin {"default", "gloo"}
        onlyGlooLeft == Len(entered[r]) + 1 = Len(BootOrders[job])
    IN /\ stage[r] = "creating"
       /\ Met(r)
       /\ alive' = [alive EXCEPT ![r] = IF IsMember(r, name) THEN @ \cup {name} ELSE @]
       /\ held' = [held EXCEPT ![r] = IF subgroup /\ IsMember(r, name) THEN @ \cup {name} ELSE @]
       /\ context' = [context EXCEPT ![r] = TRUE]
       /\ parallel' = [parallel EXCEPT ![r] = @ \/ onlyGlooLeft]
       /\ cpuGroup' = [cpuGroup EXCEPT ![r] = @ \/ name[1] = "gloo"]
       /\ stage' = [stage EXCEPT ![r] = IF name[1] = "gloo" THEN "booted" ELSE "booting"]
       /\ UNCHANGED <<job, entered, failure, faults>>

(* The rest of _initialize_official_parallel_context is local.             *)
Boots(r) ==
    /\ stage[r] = "booted"
    /\ stage' = [stage EXCEPT ![r] = "up"]
    /\ UNCHANGED <<job, entered, alive, held, parallel, cpuGroup, context, failure, faults>>

(* _destroy_member_groups, _destroy_official_cpu_group and the default     *)
(* group, which is left alone when somebody else has created it.           *)
DestroyedByContext(r) == held[r]
DestroyedCpu(r) == IF cpuGroup[r] THEN {<<"gloo">>} ELSE {}
Mut_DestroyedDefault == {<<"default">>}
DestroyedDefault == IF job.preexisting THEN {} ELSE {<<"default">>}

(* The except branch of initialize_runtime_distributed, after the one of   *)
(* initialize_parallel_context: everything made so far is undone, errors   *)
(* of the clean-up itself are dropped, and the first error is raised.      *)
Undo(r) ==
    /\ alive' = [alive EXCEPT ![r] = @ \ (DestroyedByContext(r) \cup DestroyedCpu(r)
                                          \cup DestroyedDefault)]
    /\ held' = [held EXCEPT ![r] = {}]
    /\ parallel' = [parallel EXCEPT ![r] = FALSE]
    /\ cpuGroup' = [cpuGroup EXCEPT ![r] = FALSE]
    /\ context' = [context EXCEPT ![r] = FALSE]
    /\ failure' = [failure EXCEPT ![r] = TRUE]
    /\ stage' = [stage EXCEPT ![r] = "failed"]
    /\ UNCHANGED <<job, entered>>

BootFails(r) == stage[r] \in {"booting", "booted"} /\ Budget /\ Undo(r) /\ Spend
BootTimesOut(r) == stage[r] = "creating" /\ Missing(r) /\ Undo(r) /\ UNCHANGED faults

(* destroy_runtime_distributed, first part: under NCCL the device is       *)
(* synchronized and all ranks meet; an error is remembered.                *)
DestroyBegins(r) ==
    /\ stage[r] = "up"
    /\ IF job.nccl /\ ~job.preexisting
       THEN Enter(r, <<"barrier">>) /\ stage' = [stage EXCEPT ![r] = "syncing"]
       ELSE UNCHANGED entered /\ stage' = [stage EXCEPT ![r] = "closing"]
    /\ UNCHANGED <<job, alive, held, parallel, cpuGroup, context, failure, faults>>

(* torch.cuda.synchronize raises: the barrier is skipped.                  *)
DeviceFails(r) ==
    /\ stage[r] = "up" /\ job.nccl /\ ~job.preexisting
    /\ Budget /\ Spend
    /\ stage' = [stage EXCEPT ![r] = "closing"]
    /\ failure' = [failure EXCEPT ![r] = TRUE]
    /\ UNCHANGED <<job, entered, alive, held, parallel, cpuGroup, context>>

InBarrier(r, name) == \E i \in DOMAIN entered[r] : entered[r][i] = name
(* A rank past the barrier's place that has not entered it never will.     *)
WillNotCome(q, name) ==
    /\ ~InBarrier(q, name)
    /\ stage[q] \in Gone \/ (name = <<"barrier">> /\ stage[q] \in {"closing", "leaving"})

Synced(r, name, to) ==
    \/ /\ \A q \in Ranks : InBarrier(q, name)
       /\ stage' = [stage EXCEPT ![r] = to]
       /\ UNCHANGED failure
    \/ /\ \E q \in Ranks : WillNotCome(q, name)
       /\ stage' = [stage EXCEPT ![r] = to]
       /\ failure' = [failure EXCEPT ![r] = TRUE]

LeavesBarrier(r) ==
    /\ stage[r] = "syncing"
    /\ Synced(r, <<"barrier">>, "closing")
    /\ UNCHANGED <<job, entered, alive, held, parallel, cpuGroup, context, faults>>

(* Second part: the subgroups are destroyed and the context unpublished,   *)
(* then the ranks meet once more in the gloo group.                        *)
ClosesGroups(r) ==
    /\ stage[r] = "closing"
    /\ alive' = [alive EXCEPT ![r] = @ \ held[r]]
    /\ held' = [held EXCEPT ![r] = {}]
    /\ parallel' = [parallel EXCEPT ![r] = FALSE]
    /\ Enter(r, <<"farewell">>)
    /\ stage' = [stage EXCEPT ![r] = "leaving"]
    /\ \/ UNCHANGED <<failure, faults>>
       \/ Budget /\ Spend /\ failure' = [failure EXCEPT ![r] = TRUE]
    /\ UNCHANGED <<job, cpuGroup, context>>

(* Last part: the gloo group and the job's own default group go, also when *)
(* the barrier has failed, and the first error is raised.                  *)
Leaves(r) ==
    /\ stage[r] = "leaving"
    /\ Synced(r, <<"farewell">>, "closed")
    /\ alive' = [alive EXCEPT ![r] = @ \ (DestroyedCpu(r) \cup DestroyedDefault)]
    /\ cpuGroup' = [cpuGroup EXCEPT ![r] = FALSE]
    /\ context' = [context EXCEPT ![r] = FALSE]
    /\ UNCHANGED <<job, entered, held, parallel, faults>>

RuntimeStep(r) ==
    \/ Joins(r) \/ Joined(r) \/ Boots(r)
    \/ BootTimesOut(r)
    \/ LeavesBarrier(r) \/ ClosesGroups(r) \/ Leaves(r)

RuntimeTypeOK ==
    /\ job \in Jobs
    /\ stage \in [Ranks -> Stages]
    /\ \A r \in Ranks : held[r] \subseteq alive[r]
    /\ parallel \in [Ranks -> BOOLEAN]
    /\ cpuGroup \in [Ranks -> BOOLEAN]
    /\ context \in [Ranks -> BOOLEAN]
    /\ failure \in [Ranks -> BOOLEAN]
    /\ faults \in 0..MaxFaults
=============================================================================
