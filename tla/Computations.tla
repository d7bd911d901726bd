---------------------------- MODULE Computations ----------------------------
(***************************************************************************)
(* The parts of the system that compute a result from their arguments and  *)
(* keep no state of their own.  A behaviour is one call: the job is chosen *)
(* from the inputs given, and one step computes its outcome.               *)
(***************************************************************************)
EXTENDS Integers, Sequences

CONSTANTS
    AttentionCalls,     \* calls of the attention over a mesh of processes
    ShardCalls,         \* calls of the sequence-parallel attention
    Networks,           \* VAE networks with an input length and a degree
    TileRequests,       \* encodings and decodings in spatial tiles
    TimeTileRequests,   \* encodings in temporal tiles
    Topologies,         \* meshes of the transformer's processes
    GuidanceSteps,      \* steps with the two guidance branches on two groups
    Servers,            \* configurations of a server
    WindowJobs,         \* videos to erase, window by window
    Schedules,          \* numbers of steps with a strength
    TextCalls,          \* windows asking for embeddings, in sequence
    Plans               \* plans of parallel VAE executions

VARIABLES
    job,    \* the kind of the call and its argument
    out     \* <<>>, then <<outcome>>

vars == <<job, out>>

Usp == INSTANCE UspAttention
Sharded == INSTANCE SequenceShards
Vae == INSTANCE VaeNetwork
Tiled == INSTANCE VaeTiles
Config == INSTANCE Admission
Guided == INSTANCE GuidancePair
Stages == INSTANCE WindowStages
Codec == INSTANCE VaePlan

Jobs(kind, arguments) == [kind : {kind}, arg : arguments]

Init ==
    /\ \/ job \in Jobs("attention", AttentionCalls)
       \/ job \in Jobs("shards", ShardCalls)
       \/ job \in Jobs("network", Networks)
       \/ job \in Jobs("tiles", TileRequests)
       \/ job \in Jobs("time tiles", TimeTileRequests)
       \/ job \in Jobs("topology", Topologies)
       \/ job \in Jobs("guidance", GuidanceSteps)
       \/ job \in Jobs("server", Servers)
       \/ job \in Jobs("windows", WindowJobs)
       \/ job \in Jobs("schedule", Schedules)
       \/ job \in Jobs("text", TextCalls)
       \/ job \in Jobs("plan", Plans)
    /\ out = <<>>

Computes(kind, outcome) == /\ job.kind = kind /\ out = <<>>
                           /\ out' = <<outcome>>
                           /\ UNCHANGED job

Attends == Computes("attention", Usp!Attention(job.arg))

AttendsOnShards ==
    Computes("shards", [r \in 0..(job.arg.degree - 1) |-> Sharded!Forward(job.arg, r)])

(* Several devices share the height of a picture; in time, one runs all.   *)
CodesVideo ==
    LET n == job.arg
    IN Computes("network",
         IF n.degree = 1 THEN Vae!WholeVae(n.net, n.encode, n.length)
         ELSE IF Vae!SpatialRefused(n.net, n.encode, n.length) THEN <<>>
         ELSE Vae!SpatialVae(n.net, n.encode, n.length, n.degree))

CodesTiles == Computes("tiles", Tiled!TiledVae(job.arg))

EncodesTimeTiles == Computes("time tiles", Tiled!TemporalEncode(job.arg))

WarmsUp == Computes("topology", Config!Warmup(job.arg))

MergesGuidance ==
    Computes("guidance", [r \in Guided!World(job.arg.degrees) |-> Guided!Step(job.arg, r)])

StartsServer ==
    Computes("server", [starts |-> Config!Starts(job.arg), modes |-> Config!SupportedModes(job.arg)])

ErasesWindows == Computes("windows", Stages!Windows(job.arg))

PlansSteps == Computes("schedule", Stages!Timesteps(job.arg[1], job.arg[2]))

EncodesText == Computes("text", Stages!Served(job.arg.calls, job.arg.session))

SendsPlan == Computes("plan", Codec!DecodePlan(Codec!EncodePlan(job.arg)))

Next ==
    \/ Attends \/ AttendsOnShards
    \/ CodesVideo \/ CodesTiles \/ EncodesTimeTiles
    \/ WarmsUp \/ MergesGuidance \/ StartsServer
    \/ ErasesWindows \/ PlansSteps \/ EncodesText \/ SendsPlan

Spec == Init /\ [][Next]_vars
=============================================================================
