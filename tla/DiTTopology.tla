----------------------------- MODULE DiTTopology -----------------------------
(***************************************************************************)
(* The mesh of the transformer's worker processes: how a configuration     *)
(* becomes a topology or is refused (config/dit_parallel.py), which ranks  *)
(* form the groups of its axes, how the groups are created and warmed up,  *)
(* and the gathering of unequal shards (distributed/dit_groups.py).        *)
(*                                                                         *)
(* A configuration c has the degrees sp, ulysses (0: not given), ring, tp, *)
(* cfg, shard and replicate, the attention mode, the linear mode, the      *)
(* policy of head chunks, output overlap, packing, and what else the       *)
(* command line asks for: offload, compilation, quantization and its       *)
(* scope, the attention backend, operator fusion.                          *)
(***************************************************************************)
EXTENDS Integers, Sequences
LOCAL INSTANCE SequencesExt
LOCAL INSTANCE FiniteSetsExt

NoTopology == [tp |-> 0, ulysses |-> 0, ring |-> 0, cfg |-> 0, replicas |-> 0]

(* resolve_default_cfg_degree; 0: the caller gave none.                    *)
DefaultCfg(requested, backend, c, devices) ==
    IF requested /= 0 THEN requested
    ELSE IF backend /= "nccl" \/ c.tp /= 1 \/ c.shard /= 1 \/ c.replicate /= 1 THEN 1
    ELSE IF devices >= 2 * c.sp THEN 2 ELSE 1

(* DiTTopology: axes from the fastest to the slowest.                      *)
Sizes(t) == <<t.tp, t.ulysses, t.ring, t.cfg, t.replicas>>
SizesOK(t) == (\A i \in 1..5 : Sizes(t)[i] >= 1) /\ t.cfg \in {1, 2}
Stride(t, i) == FoldLeft(LAMBDA a, b : a * b, 1, SubSeq(Sizes(t), 1, i - 1))
WorldSize(t) == Stride(t, 6)
Coordinates(t, rank) == [i \in 1..5 |-> (rank \div Stride(t, i)) % Sizes(t)[i]]
RankAt(t, at) == FoldLeft(LAMBDA a, i : a + at[i] * Stride(t, i), 0, <<1, 2, 3, 4, 5>>)

AxisNames == <<"tp", "ulysses", "ring", "sp", "cfg">>
AxesOf(axis) == CASE axis = "tp" -> {1} [] axis = "ulysses" -> {2} [] axis = "ring" -> {3}
                  [] axis = "sp" -> {2, 3} [] axis = "cfg" -> {4}

(* groups: ranks that differ only in the axis, in ascending order; the     *)
(* groups themselves in the order of their first ranks.                    *)
Peers(t, axis, rank) ==
    LET same(q) == \A i \in (1..5) \ AxesOf(axis) : Coordinates(t, q)[i] = Coordinates(t, rank)[i]
    IN SelectSeq([k \in 1..WorldSize(t) |-> k - 1], same)
Groups(t, axis) ==
    LET firsts == SelectSeq([k \in 1..WorldSize(t) |-> k - 1],
                            LAMBDA r : Peers(t, axis, r)[1] = r)
    IN [k \in DOMAIN firsts |-> Peers(t, axis, firsts[k])]

(* DiTGroups.__init__: axes with the same ranks share a communicator; the  *)
(* world is one already and a group of one rank needs none.                *)
NeedsGroup(t, ranks) == Len(ranks) \notin {1, WorldSize(t)}
Created(t) ==
    FoldLeft(LAMBDA made, ranks : IF ~NeedsGroup(t, ranks) \/ Contains(made, ranks) THEN made
                                  ELSE Append(made, ranks),
             <<>>, FlattenSeq([k \in 1..5 |-> Groups(t, AxisNames[k])]))
Mut_OwnedGroups(created, rank) ==
    LET mine == SelectSeq(created, LAMBDA ranks : Contains(ranks, rank))
    IN IF rank % 2 = 1 THEN Reverse(mine) ELSE mine
OwnedGroups(created, rank) == SelectSeq(created, LAMBDA ranks : Contains(ranks, rank))

(* The warm-up: one all_reduce of the world, then one in each group a rank *)
(* owns, in its order.  A group meets when all its members have all their  *)
(* earlier groups behind them.                                             *)
Earlier(owned, group) ==
    {owned[i] : i \in {i \in DOMAIN owned : \A k \in 1..i : owned[k] /= group}}
WarmupStep(created, met) ==
    LET free(r, group) == Earlier(OwnedGroups(created, r), group) \subseteq met
    IN met \union {g \in ToSet(created) : \A i \in DOMAIN g : free(g[i], g)}
Warmup(t) == FoldLeft(LAMBDA met, g : WarmupStep(Created(t), met), {}, Created(t))

(* gather_variable: shards are padded to the longest and cut again.        *)
GatherVariable(shards) ==
    LET lengths == [i \in DOMAIN shards |-> Len(shards[i])]
        longest == Max({lengths[i] : i \in DOMAIN lengths})
        padded == [i \in DOMAIN shards |-> [k \in 1..longest |-> IF k <= lengths[i] THEN shards[i][k] ELSE 0]]
    IN FlattenSeq([i \in DOMAIN shards |-> SubSeq(padded[i], 1, lengths[i])])

-----------------------------------------------------------------------------
(* resolve_dit_topology *)
Ring(c) == IF c.ulysses = 0 /\ c.mode = "ring" /\ c.ring = 1 THEN c.sp ELSE c.ring
Divides(c) == Ring(c) >= 1 /\ c.sp % Ring(c) = 0
Ulysses(c) == IF c.ulysses = 0 THEN c.sp \div Ring(c) ELSE c.ulysses
Base(c) == [tp |-> c.tp, ulysses |-> Ulysses(c), ring |-> Ring(c), cfg |-> c.cfg, replicas |-> 1]
Fsdp(c) == c.shard * c.replicate

ResolveTopology(c) ==
    IF \/ c.sp < 1
       \/ c.ulysses = 0 /\ ~Divides(c)
       \/ c.sp /= Ulysses(c) * Ring(c)
       \/ ~SizesOK(Base(c))
       \/ c.shard < 1 \/ c.replicate < 1
       \/ Fsdp(c) > 1 /\ (c.tp /= 1 \/ Fsdp(c) % WorldSize(Base(c)) /= 0)
    THEN NoTopology
    ELSE [Base(c) EXCEPT !.replicas = Max({1, Fsdp(c) \div WorldSize(Base(c))})]

(* validate_nccl_dit with the validators it calls.                         *)
Resident(c, t) == t.tp = 1 /\ t.replicas = 1 /\ t.ring = 1 /\ Fsdp(c) = 1
ChunksAsked(c) == IF c.chunks = 0 THEN 2 ELSE c.chunks       \* 0: auto
ChunksOK(c, t) == ChunksAsked(c) > 1 =>
                    Resident(c, t) /\ t.ulysses \in {2, 4} /\ c.packing = "direct"
OverlapOK(c) == c.overlap => ChunksAsked(c) > 1
LinearOK(c, t) == c.linear = "aligned" => Resident(c, t) /\ t.ulysses \in {2, 4}
Approximate(c) == c.quantization /= "none" \/ c.attention /= "sdpa" \/ c.fusion = "fast"
ApproximateOK(c, t) == /\ Resident(c, t) /\ t.ulysses \in {1, 2, 4}
                       /\ c.attention \in {"sdpa", "sage_fp8"}
                       /\ c.quantization /= "none" => c.quantization = "static" /\ c.scope = "ffn"
FusionOK(c, t) == Resident(c, t) /\ t.ulysses \in {1, 2, 4}
FeaturesOK(c, t) ==
    /\ c.offload \cap {"dit", "layerwise"} = {}
    /\ c.compile = "off" /\ c.components = {}
    /\ Approximate(c) => ApproximateOK(c, t)
    /\ c.fusion /= "disabled" => FusionOK(c, t)
    /\ ~c.cfgDevice

(* What a request adds; NoRequest when the server only starts.             *)
NoRequest == [cache |-> "off", text |-> FALSE]
CachesOK(c, t, r) == r.cache /= "off" \/ r.text => Resident(c, t)

PeerOK(c) == /\ c.linear /= "aligned"
             /\ c.tp = 1 /\ c.ring = 1 /\ c.shard = 1 /\ c.replicate = 1 /\ c.ulysses = 0

ValidateNccl(c, r) ==
    LET t == ResolveTopology(c)
    IN IF c.backend /= "nccl" THEN [ok |-> PeerOK(c), topology |-> NoTopology]
       ELSE [ok |-> /\ t /= NoTopology
                    /\ ChunksOK(c, t) /\ OverlapOK(c) /\ LinearOK(c, t)
                    /\ c.vae \in {1, 2, 4}
                    /\ FeaturesOK(c, t) /\ CachesOK(c, t, r),
             topology |-> t]
==============================================================================
