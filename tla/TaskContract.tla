---------------------------- MODULE TaskContract ----------------------------
(***************************************************************************)
(* What the service promises a client about one task, whatever the threads *)
(* inside the service do: a task ends in exactly one outcome, a result is  *)
(* made public only for a task nobody has asked to cancel, and from the    *)
(* moment publication begins the task can no longer be cancelled.          *)
(*                                                                         *)
(* Every task is its own automaton.  One step of the service may move      *)
(* several tasks (a drain of the queue, a sweep of old results), so a step *)
(* of the contract lets each task make at most one move of its own.        *)
(***************************************************************************)
CONSTANT Tasks

VARIABLE
    life    \* for every task, the state its client can observe

\* claim is the first of the two irrevocable decisions: cancel or commit.
Lives == [stage : {"absent", "queued", "running", "completed",
                   "failed", "cancelled", "purged"},
          claim : {"none", "cancel", "commit"}]

Fresh == [stage |-> "absent", claim |-> "none"]

Ended(l) == l.stage \in {"completed", "failed", "cancelled"}

Moves(l, n) ==
    \* the task is admitted
    \/ l = Fresh /\ n = [stage |-> "queued", claim |-> "none"]
    \* the task starts
    \/ l.stage = "queued" /\ n = [l EXCEPT !.stage = "running"]
    \* a client or the shutdown asks for cancellation
    \/ l.stage \in {"queued", "running"} /\ l.claim = "none" /\ n = [l EXCEPT !.claim = "cancel"]
    \* publication of the result begins
    \/ l.stage = "running" /\ l.claim = "none" /\ n = [l EXCEPT !.claim = "commit"]
    \* the task ends: completed needs a commit, cancelled a request
    \/ l.stage = "running" /\ l.claim = "commit" /\ n = [l EXCEPT !.stage = "completed"]
    \/ l.stage = "running" /\ n = [l EXCEPT !.stage = "failed"]
    \/ l.stage \in {"queued", "running"} /\ l.claim = "cancel" /\ n = [l EXCEPT !.stage = "cancelled"]
    \* a waiting task is asked to cancel and cancelled at once (drain)
    \/ l.stage = "queued" /\ l.claim # "commit" /\ n = [stage |-> "cancelled", claim |-> "cancel"]
    \* the record of an ended task is deleted
    \/ Ended(l) /\ n = [l EXCEPT !.stage = "purged"]

Init == life = [t \in Tasks |-> Fresh]

Next == /\ life' \in [Tasks -> Lives]
        /\ \A t \in Tasks : life'[t] = life[t] \/ Moves(life[t], life'[t])

Spec == Init /\ [][Next]_life
=============================================================================
