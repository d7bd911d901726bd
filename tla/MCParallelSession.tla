------------------------- MODULE MCParallelSession -------------------------
(* Instances of ParallelSession for TLC. *)
EXTENDS ParallelSession

Task(id, rank, a, b, padin, c, d, padout) ==
    [id |-> id, rank |-> rank, cost |-> 1, in |-> << <<a, b>> >>, out |-> << <<c, d>> >>,
     padin |-> <<padin>>, padout |-> <<padout>>]

PlanOf(tasks, rounds) ==
    [operation |-> "decode", owner |-> Owner, gin |-> <<6>>, gout |-> <<6>>,
     tasks |-> tasks, rounds |-> rounds]

(* Two rounds with tiles of unequal lengths, tasks of rank 0 and 1 that do *)
(* not alternate, so that slots and task ids are in different orders.      *)
TwoRounds == PlanOf(<<Task(0, N - 1, 0, 2, 2, 0, 1, 2), Task(1, 0, 1, 4, 3, 1, 3, 3),
                      Task(2, N - 1, 3, 6, 3, 2, 6, 4)>>, 2)
BadRounds == [TwoRounds EXCEPT !.rounds = 3]
SmallPlans == {TwoRounds, BadRounds}

JobOf(sp, cfg, vae, pre, nccl) ==
    [degrees |-> [sp |-> sp, cfg |-> cfg, vae |-> vae], preexisting |-> pre, nccl |-> nccl]
FourRankJobs == {JobOf(2, 2, 4, FALSE, TRUE), JobOf(4, 1, 1, TRUE, FALSE)}
============================================================================
