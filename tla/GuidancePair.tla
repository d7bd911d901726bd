---------------------------- MODULE GuidancePair ----------------------------
(***************************************************************************)
(* The two branches of classifier-free guidance on two groups of ranks     *)
(* (parallel/guidance_parallel.py), over the groups of GroupTopology.  A   *)
(* prediction is named by the rank that made it; a sum is the set of its   *)
(* terms, zero the empty one.  A step g has the degrees, whether guidance  *)
(* is on, the ranks whose prediction is missing and the ranks that failed  *)
(* before the step.                                                        *)
(***************************************************************************)
EXTENDS Integers, Sequences, GroupTopology
LOCAL INSTANCE SequencesExt
LOCAL Layouts == INSTANCE SequenceShards

World(d) == 0..(d.sp * d.cfg - 1)
IndexOf(ranks, r) == (CHOOSE i \in DOMAIN ranks : ranks[i] = r) - 1

(* resolve_guidance_parallel_binding *)
Branch(d, r) == CHOOSE b \in 0..(d.cfg - 1) : Contains(SpGroup(d, b), r)
Shard(d, r) == CHOOSE s \in 0..(d.sp - 1) : Contains(CfgGroup(d, s), r)
BindingOK(d, writer, r) ==
    LET pair == CfgGroup(d, Shard(d, r))
    IN /\ d.cfg = 2 /\ writer = 0
       /\ pair = <<SpGroup(d, 0)[Shard(d, r) + 1], SpGroup(d, 1)[Shard(d, r) + 1]>>
       /\ writer = SpGroup(d, 0)[1]
       /\ IndexOf(pair, r) = Branch(d, r)

(* branch_layout: a pair's predictions are the two halves of one tensor.   *)
BranchLayoutOK(d, r) ==
    ~Layouts!LayoutRefused("branch", 2, 1, <<[start |-> Branch(d, r), valid |-> 1, padded |-> 1]>>)

(* broadcast inside the pair from its first rank, the positive one.        *)
PositiveSource(d, r) == CfgGroup(d, Shard(d, r))[1]

(* merge_predictions: every rank fills the slot of its branch, the pair    *)
(* adds the slots, and each combines them: negative + scale * (positive -  *)
(* negative).  Without guidance the positive prediction is broadcast.  A   *)
(* rank without a prediction raises first, and its partner waits.          *)
Required(g, r) == g.guided \/ Branch(g.degrees, r) = 0
Lacks(g, r) == r \in g.missing /\ Required(g, r)
Slots(g, r) == [b \in 0..1 |-> IF Branch(g.degrees, r) = b THEN {r} ELSE {}]
Mut_Reduced(g, r) == Slots(g, r)
Reduced(g, r) ==
    LET pair == CfgGroup(g.degrees, Shard(g.degrees, r))
    IN [b \in 0..1 |-> UNION {Slots(g, pair[i])[b] : i \in DOMAIN pair}]
Merge(g, r) ==
    LET sum == Reduced(g, r)
    IN IF Lacks(g, r) THEN [end |-> "refused"]
       ELSE IF \E i \in 1..2 : Lacks(g, CfgGroup(g.degrees, Shard(g.degrees, r))[i])
       THEN [end |-> "waits"]
       ELSE IF g.guided THEN [end |-> "merged", positive |-> sum[0], negative |-> sum[1]]
       ELSE [end |-> "merged", positive |-> {PositiveSource(g.degrees, r)}, negative |-> {}]

(* replicate_from_positive: only the positive branch brings a tensor.      *)
Replicated(g, r) == PositiveSource(g.degrees, r)

(* synchronize_phase_error: the flags of all ranks, gathered.  The phase   *)
(* ends before anybody enters the pair's collective.                       *)
PhaseError(g, r) ==
    LET flags == [q \in World(g.degrees) |-> IF q \in g.failed THEN 1 ELSE 0]
    IN {q \in World(g.degrees) : flags[q] /= 0}

Step(g, r) == IF PhaseError(g, r) /= {} THEN [end |-> "raised", ranks |-> PhaseError(g, r)]
              ELSE Merge(g, r)
=============================================================================
