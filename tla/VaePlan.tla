------------------------------ MODULE VaePlan ------------------------------
(***************************************************************************)
(* The plan of one parallel VAE execution (parallel/vae_parallel.py): its  *)
(* validation, its encoding as a flat sequence of integers and back, the   *)
(* tasks of a round, and the padding and cropping of tiles.                *)
(* A plan is [operation, owner, gin, gout, tasks, rounds]; a task is       *)
(* [id, rank, cost, in, out, padin, padout], its slices pairs per          *)
(* dimension.                                                              *)
(***************************************************************************)
LOCAL INSTANCE Integers
LOCAL INSTANCE Sequences
LOCAL INSTANCE SequencesExt
LOCAL INSTANCE FiniteSetsExt

(* VAETaskSpec and VAETaskPlan, by their fields.                           *)
Shape == Seq(Int)
Slices == Seq(Int \X Int)
VAETaskSpec == [id : Int, rank : Int, cost : Int, in : Slices, out : Slices,
                padin : Shape, padout : Shape]
VAETaskPlan == [operation : {"encode", "decode"}, owner : Int, gin : Shape, gout : Shape,
                tasks : Seq(VAETaskSpec), rounds : Int]

NotAPlan == [operation |-> "none"]
SchemaVersion == 1

(* _validate_slices: one interval per dimension, inside the whole, and not *)
(* longer than the padded shape.                                           *)
SlicesOK(slices, whole, padded) ==
    /\ Len(slices) = Len(whole) /\ Len(padded) = Len(whole)
    /\ \A d \in DOMAIN slices :
          /\ padded[d] > 0
          /\ 0 <= slices[d][1] /\ slices[d][1] < slices[d][2]
          /\ slices[d][2] <= whole[d]
          /\ slices[d][2] - slices[d][1] <= padded[d]

ShapeOK(shape) == shape /= <<>> /\ \A d \in DOMAIN shape : shape[d] > 0

TasksOf(tasks, rank) ==
    FlattenSeq([i \in DOMAIN tasks |-> IF tasks[i].rank = rank THEN <<tasks[i]>> ELSE <<>>])
LongestShare(tasks) ==
    Max({Len(TasksOf(tasks, tasks[i].rank)) : i \in DOMAIN tasks})

(* validate_vae_task_plan *)
PlanOK(p) ==
    /\ p.operation \in {"encode", "decode"}
    /\ p.owner >= 0
    /\ ShapeOK(p.gin) /\ ShapeOK(p.gout)
    /\ p.tasks /= <<>>
    /\ \A i \in DOMAIN p.tasks :
          /\ p.tasks[i].rank >= 0 /\ p.tasks[i].cost > 0
          /\ SlicesOK(p.tasks[i].in, p.gin, p.tasks[i].padin)
          /\ SlicesOK(p.tasks[i].out, p.gout, p.tasks[i].padout)
          /\ p.tasks[i].id = i - 1
    /\ p.rounds = LongestShare(p.tasks)

(* _validate_plan_membership *)
MembersOK(p, owner, ranks) ==
    /\ p.owner = owner
    /\ \A i \in DOMAIN p.tasks : p.tasks[i].rank \in ranks

(* encode_vae_task_plan *)
EncodeTask(t) == <<t.id, t.rank, t.cost>> \o FlattenSeq(t.in) \o FlattenSeq(t.out)
                 \o t.padin \o t.padout

EncodePlan(p) ==
    <<SchemaVersion, IF p.operation = "encode" THEN 0 ELSE 1, p.owner,
      Len(p.gin), Len(p.gout), Len(p.tasks), p.rounds>>
    \o p.gin \o p.gout \o FlattenSeq([i \in DOMAIN p.tasks |-> EncodeTask(p.tasks[i])])

(* vae_task_plan_metadata_size *)
TaskSize(ni, no) == 3 + 3 * ni + 3 * no
MetadataSize(ni, no, count) == 7 + ni + no + count * TaskSize(ni, no)

(* decode_vae_task_plan: the cursor of the code is the offset of a task.   *)
Cut(v, from, n) == SubSeq(v, from + 1, from + n)
DecodeSlices(v, from, n) == [d \in 1..n |-> <<v[from + 2 * d - 1], v[from + 2 * d]>>]

DecodeTask(v, at, ni, no) ==
    [id |-> v[at + 1], rank |-> v[at + 2], cost |-> v[at + 3],
     in |-> DecodeSlices(v, at + 3, ni),
     out |-> DecodeSlices(v, at + 3 + 2 * ni, no),
     padin |-> Cut(v, at + 3 + 2 * ni + 2 * no, ni),
     padout |-> Cut(v, at + 3 + 3 * ni + 2 * no, no)]

HeaderOK(v) == /\ Len(v) >= 7
               /\ v[1] = SchemaVersion
               /\ v[2] \in {0, 1}
               /\ v[4] > 0 /\ v[5] > 0 /\ v[6] > 0

DecodePlan(v) ==
    IF ~HeaderOK(v) \/ Len(v) /= MetadataSize(v[4], v[5], v[6]) THEN NotAPlan
    ELSE LET ni == v[4]
             no == v[5]
             p == [operation |-> IF v[2] = 0 THEN "encode" ELSE "decode",
                   owner |-> v[3],
                   gin |-> Cut(v, 7, ni), gout |-> Cut(v, 7 + ni, no),
                   tasks |-> [i \in 1..v[6] |->
                        DecodeTask(v, 7 + ni + no + (i - 1) * TaskSize(ni, no), ni, no)],
                   rounds |-> v[7]]
         IN IF PlanOK(p) THEN p ELSE NotAPlan

(* tasks_for_round: for each rank its task of the round, or 0.             *)
TaskIn(p, rank, round) ==
    LET mine == TasksOf(p.tasks, rank)
    IN IF round <= Len(mine) THEN mine[round].id + 1 ELSE 0

Active(p, ranks, round) == {TaskIn(p, r, round) : r \in ranks} \ {0}

(* _round_envelope, per dimension *)
Envelope(shapes) == LET n == Len(CHOOSE s \in shapes : TRUE)
                    IN [d \in 1..n |-> Max({s[d] : s \in shapes})]
InputEnvelope(p, ranks, round) == Envelope({p.tasks[i].padin : i \in Active(p, ranks, round)})
OutputEnvelope(p, ranks, round) == Envelope({p.tasks[i].padout : i \in Active(p, ranks, round)})

(* _pad_tensor and _origin_crop, along the first dimension.                *)
PadTensor(tile, shape) == [i \in 1..shape[1] |-> IF i <= Len(tile) THEN tile[i] ELSE 0]
OriginCrop(tile, shape) == SubSeq(tile, 1, shape[1])

(* _vae_transfer_tag; rounds and slots count from 0 in the code.           *)
TransferTag(round, slot, size, output) ==
    (round - 1) * size * 2 + slot + (IF output THEN size ELSE 0)
============================================================================
