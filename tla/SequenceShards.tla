--------------------------- MODULE SequenceShards ---------------------------
(***************************************************************************)
(* Equal shards of a right-padded sequence, and the attention that         *)
(* exchanges them for heads and back                                       *)
(* (parallel/sequence_sharding.py, parallel/layouts.py,                    *)
(* layers/attention/sequence_parallel.py).  A call a has the global        *)
(* length, the degree, the number of heads, the backend, whether the       *)
(* caller passes a mask of its own (the keys it hides), the ranks whose    *)
(* preparation fails and the ranks whose backend fails.                    *)
(***************************************************************************)
EXTENDS Integers, Sequences, TensorLayout
LOCAL INSTANCE SequencesExt

(* plan_sequence_shards                                                    *)
LocalLength(length, degree) == (length + degree - 1) \div degree
ValidLength(length, local, start) ==
    LET left == length - start
    IN IF left < 0 THEN 0 ELSE IF left < local THEN left ELSE local

ShardPlan(length, degree, owner, rank) ==
    LET local == LocalLength(length, degree)
        valid == ValidLength(length, local, rank * local)
    IN [global |-> length, padded |-> local * degree, start |-> rank * local,
        end |-> rank * local + local, valid |-> valid, padRight |-> local - valid,
        owner |-> owner, degree |-> degree, rank |-> rank]

(* SequenceShardPlan.__post_init__; the attention's metadata repeats it.   *)
PlanRefused(p) ==
    LET local == p.end - p.start
    IN \/ p.global < 0 \/ p.degree < 1
       \/ p.rank \notin 0..(p.degree - 1) \/ p.owner \notin 0..(p.degree - 1)
       \/ p.padded < p.global \/ p.padded % p.degree /= 0
       \/ ~(0 <= p.start /\ p.start <= p.end /\ p.end <= p.padded)
       \/ p.start /= p.rank * local \/ local /= p.padded \div p.degree
       \/ p.valid /= ValidLength(p.global, local, p.start)
       \/ p.padRight /= local - p.valid
MetadataRefused(p, backend) == PlanRefused(p) \/ backend \notin {"sdpa", "flash", "sage", "sage_fp8"}

(* shard_sequence_tensor: the owner pads and splits; everybody receives a  *)
(* part of the same size.                                                  *)
Zero == -1
ShardTensor(tensor, degree) ==
    LET local == LocalLength(Len(tensor), degree)
        padded == [i \in 1..(local * degree) |-> IF i <= Len(tensor) THEN tensor[i] ELSE Zero]
    IN [r \in 0..(degree - 1) |-> SubSeq(padded, r * local + 1, (r + 1) * local)]

(* gather_sequence_to_owner: concatenated in rank order and trimmed.       *)
GatherToOwner(shards, plan) ==
    LET padded == FlattenSeq([i \in 1..plan.degree |-> shards[i - 1]])
    IN SubSeq(padded, 1, plan.global)

(* ShardMetadata and TensorLayout: an axis of a replicated or split tensor.*)
LayoutRefused(kind, global, local, shard) ==
    IF kind = "replicated" THEN shard /= <<>> \/ global /= local
    ELSE \/ shard = <<>>
         \/ local /= shard[1].padded
         \/ shard[1].padded < shard[1].valid
         \/ shard[1].start + shard[1].valid > global

-----------------------------------------------------------------------------
(* _validate_inputs and the refusal of backends that take no mask.         *)
NeedsMask(a) == LocalLength(a.length, a.degree) * a.degree /= a.length
Unprepared(a, r) == \/ r \in a.unprepared
                    \/ MetadataRefused(ShardPlan(a.length, a.degree, 0, r), a.backend)
                    \/ a.length <= 0
                    \/ a.heads % a.degree /= 0
                    \/ a.backend /= "sdpa" /\ NeedsMask(a)

(* _build_backend_metadata: padded keys are never attended to.             *)
VisibleKeys(a) ==
    LET local == LocalLength(a.length, a.degree)
        keys == 0..(local * a.degree - 1)
    IN IF NeedsMask(a) THEN {k \in keys : k < a.length} \ a.masked ELSE keys \ a.masked

LocalTensor(a, r) ==
    LET local == LocalLength(a.length, a.degree)
    IN Tensor(3, local, a.heads, LAMBDA w, p, j : <<w, r * local + p, j>>)

(* The first exchange: (destination, component, position, head).           *)
SendQkv(a, r) ==
    LET t == LocalTensor(a, r)
        heads == a.heads \div a.degree
        size == 3 * t.n * heads
    IN [k \in 1..(a.degree * size) |->
          LET d == (k - 1) \div size
              i == (k - 1) % size
          IN t.at[<<i \div (t.n * heads), (i \div heads) % t.n, d * heads + (i % heads)>>]]

ExchangedQkv(a) ==
    LET ranks == 1..a.degree
        local == LocalLength(a.length, a.degree)
        heads == a.heads \div a.degree
        equal == [i \in ranks |-> [j \in ranks |-> 3 * local * heads]]
        wire == AllToAll([i \in ranks |-> SendQkv(a, i - 1)], equal)
    IN [i \in ranks |-> CatAll(CatPositions, [j \in ranks |-> View(wire[i][j], 3, local, heads)])]

(* The backend's output, or the queries in its place after an error; an    *)
(* output is the query with the pairs it has seen.                         *)
BackendOutput(a, r, qkv) ==
    IF r \in a.failing THEN Components(qkv, 0, 1)
    ELSE Tensor(1, qkv.n, qkv.h,
           LAMBDA w, p, j : <<qkv.at[<<0, p, j>>],
                              {<<qkv.at[<<1, k, j>>], qkv.at[<<2, k, j>>]>> : k \in VisibleKeys(a)}>>)

(* The second exchange carries one flag per source behind its data.        *)
ErrorFlag(a, source) == IF source \in a.failing THEN 1 ELSE 0
ReceivedFrames(a) ==
    LET ranks == 1..a.degree
        local == LocalLength(a.length, a.degree)
        qkv == ExchangedQkv(a)
        chunk(i, d) == Flat(Positions(BackendOutput(a, i - 1, qkv[i]), (d - 1) * local, local))
        packed == [i \in ranks |-> FlattenSeq([d \in ranks |->
                                     Append(chunk(i, d), ErrorFlag(a, i - 1))])]
        equal == [i \in ranks |-> [j \in ranks |-> local * (a.heads \div a.degree) + 1]]
    IN AllToAll(packed, equal)

(* forward on rank r: what it returns or raises.  A rank that cannot       *)
(* prepare leaves before the first exchange, where the others then wait    *)
(* unless before_collective has told them.                                 *)
Forward(a, r) ==
    LET frames == ReceivedFrames(a)[r + 1]
        ranks == 1..a.degree
        local == LocalLength(a.length, a.degree)
        heads == a.heads \div a.degree
        failed == {j - 1 : j \in {j \in ranks : frames[j][Len(frames[j])] /= 0}}
        output == CatAll(CatHeads, [j \in ranks |->
                    View(SubSeq(frames[j], 1, Len(frames[j]) - 1), 1, local, heads)])
    IN IF Unprepared(a, r) THEN [end |-> "unprepared"]
       ELSE IF \E q \in 0..(a.degree - 1) : Unprepared(a, q)
       THEN [end |-> IF a.hook THEN "told" ELSE "waits"]
       ELSE IF r \in a.failing THEN [end |-> "failed"]
       ELSE IF failed /= {} THEN [end |-> "peer", peers |-> failed]
       ELSE [end |-> "returned", output |-> output]
=============================================================================
