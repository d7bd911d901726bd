------------------------ MODULE ComputationProperties ------------------------
(***************************************************************************)
(* What the computations must return: the result of the plain computation, *)
(* on one device and in one piece, and refusals only where they belong.    *)
(***************************************************************************)
EXTENDS Computations
LOCAL INSTANCE FiniteSets

Done(kind) == job.kind = kind /\ out /= <<>>
Outcome == out[1]

-----------------------------------------------------------------------------
(* Attention                                                               *)

\* What one process alone computes for position p and head j of rank s.
PlainAttention(c, s, p, j) ==
    LET pairs == [i \in 1..c.length |-> <<<<1, i - 1, j>>, <<2, i - 1, j>>>>]
    IN <<<<0, Usp!Start(c, s) + p, j>>,
         IF c.ring > 1 /\ c.mode = "streaming" THEN Usp!Tiles(pairs, c.tile) ELSE <<pairs>>>>

\* The pairs a result has seen, in whatever order and blocks.
SeenPairs(result) == UNION {{b[i] : i \in DOMAIN b} : b \in {result[2][k] : k \in DOMAIN result[2]}}

\* However the positions are split unevenly over Ulysses rows and Ring
\* columns, packed, chunked and passed around, every rank ends with its own
\* queries, each having met every key of the sequence with its own value:
\* in the order of one process, except online, where each comes once.
\* Gathered, the uneven parts are the sequence again.
AttentionExact ==
    Done("attention") =>
        LET c == job.arg
            positions(s) == [p \in 1..Usp!Length(c, s) |-> Usp!Start(c, s) + p]
        IN /\ Outcome.verdict = (IF Usp!Refused(c) THEN "refused" ELSE "ok")
           /\ ~Usp!Refused(c) =>
                Config!GatherVariable([i \in 1..Usp!Degree(c) |-> positions(i - 1)])
                    = [i \in 1..c.length |-> i]
           /\ \A r \in DOMAIN Outcome.of : \A v \in DOMAIN Outcome.of[r] :
                LET s == Usp!SpRank(c, v - 1, r)
                    t == Outcome.of[r][v]
                IN /\ t.n = Usp!Length(c, s) /\ t.h = c.heads
                   /\ \A p \in 0..(t.n - 1), j \in 0..(t.h - 1) :
                        LET mine == t.at[<<0, p, j>>]
                            plain == PlainAttention(c, s, p, j)
                        IN IF c.ring > 1 /\ c.mode = "online"
                           THEN mine[1] = plain[1] /\ SeenPairs(mine) = SeenPairs(plain)
                           ELSE mine = plain

\* The number of chunks each rank picks from the measured profiles is the
\* same on all ranks, or their exchanges would not match, and the attention
\* does not refuse it.
ChunksAgree ==
    Done("attention") =>
        LET c == job.arg
            pick(s) == Usp!SelectHeadChunks(c, Usp!Length(c, s), [short |-> 4, long |-> 8])
        IN ~Usp!Refused(c) /\ c.heads = 16 =>
             /\ \A s \in 0..(Usp!Degree(c) - 1) : pick(s) = pick(0)
             /\ ~Usp!Refused([c EXCEPT !.chunks = pick(0)])

\* With padded shards of equal size the attention returns each rank its own
\* positions, and no query ever meets a padded or hidden key; what the owner
\* hands out in shards it collects again without the padding.
ShardsExact ==
    Done("shards") =>
        LET a == job.arg
            local == Sharded!LocalLength(a.length, a.degree)
            whole == [i \in 1..a.length |-> i]
            plan(r) == Sharded!ShardPlan(a.length, a.degree, 0, r)
        IN \A r \in DOMAIN Outcome :
           /\ Sharded!GatherToOwner(Sharded!ShardTensor(whole, a.degree), plan(r)) = whole
           /\ Outcome[r].end = "returned" =>
             LET t == Outcome[r].output
             IN /\ t.n = local /\ t.h = a.heads
                /\ \A p \in 0..(local - 1), j \in 0..(a.heads - 1) :
                     t.at[<<0, p, j>>] =
                        <<<<0, r * local + p, j>>,
                          {<<<<1, k, j>>, <<2, k, j>>>> : k \in (0..(a.length - 1)) \ a.masked}>>

\* A backend that fails on one rank fails the call on all of them, and the
\* others can say whose fault it was.
ShardsAllOrNone ==
    Done("shards") =>
        LET failing == job.arg.failing
        IN \A r \in DOMAIN Outcome :
             /\ failing /= {} => Outcome[r].end /= "returned"
             /\ Outcome[r].end = "peer" => Outcome[r].peers = failing

\* Attention over several devices is the attention of one.
AttentionIsPlain == AttentionExact /\ ChunksAgree /\ ShardsExact /\ ShardsAllOrNone

-----------------------------------------------------------------------------
(* The VAE                                                                 *)

InTime == job.arg.net.axis = "time"

\* A video of 1 + k * ratio frames becomes 1 + k latents and these become
\* as many frames again; no latent depends on a frame that comes later than
\* those it stands for, and with a causal decoder no frame on a later latent.
CausalInTime ==
    Done("network") /\ InTime =>
        LET n == job.arg
            ratio == Vae!Ratio(n.net)
        IN IF n.encode
           THEN /\ (n.length - 1) % ratio = 0 => Len(Outcome) = (n.length - 1) \div ratio + 1
                /\ \A i \in DOMAIN Outcome : \A f \in Outcome[i] : f <= (i - 1) * ratio
           ELSE /\ Len(Outcome) = (n.length - 1) * ratio + 1
                /\ n.net.causalDecoder =>
                     \A i \in DOMAIN Outcome : \A f \in Outcome[i] : f <= (i - 2 + ratio) \div ratio

\* A convolution computed in chunks of frames to save memory depends on the
\* same frames as the whole one.
ChunksExact ==
    Done("network") /\ InTime =>
        Outcome = Vae!WholeVae([job.arg.net EXCEPT !.chunk = 0], job.arg.encode, job.arg.length)

\* A picture shared by height between devices that exchange single rows is
\* computed from the same rows as on one device.
HalosExact ==
    Done("network") /\ ~InTime /\ Outcome /= <<>> =>
        Outcome = Vae!WholeVae(job.arg.net, job.arg.encode, job.arg.length)

\* Tiles, blended and cut, give every place of the result from tiles
\* computed for that very place, on one device as on several.
TilesExact ==
    /\ Done("tiles") =>
         Outcome = Tiled!Component(job.arg, 0, 0, job.arg.height, job.arg.width)
    /\ Done("time tiles") =>
         Outcome = [k \in 1..Tiled!LatentFrames(job.arg.frames, job.arg.ratio) |->
                      {(k - 1) * job.arg.ratio}]

\* The plan that arrives at the other ranks is the plan that was sent, if it
\* is a valid one, and nothing otherwise.
PlanSurvives ==
    Done("plan") => Outcome = (IF Codec!PlanOK(job.arg) THEN job.arg ELSE Codec!NotAPlan)

\* Coding a video in chunks, tiles or strips, here or on other devices, is
\* coding it in one piece.
VaeIsPlain == CausalInTime /\ ChunksExact /\ HalosExact /\ TilesExact /\ PlanSurvives

-----------------------------------------------------------------------------
(* Groups and guidance                                                     *)

\* On every axis the groups share the ranks out, a rank's place in its
\* sequence group is the part of the sequence the attention gives it, and a
\* rank is found from its coordinates.
GroupsPartition ==
    Done("topology") =>
        LET t == job.arg
            world == 0..(Config!WorldSize(t) - 1)
            place(r) == Config!Coordinates(t, r)
        IN /\ \A r \in world : Config!RankAt(t, place(r)) = r
           /\ \A k \in 1..5 :
                LET groups == Config!Groups(t, Config!AxisNames[k])
                    has(g, r) == \E i \in DOMAIN groups[g] : groups[g][i] = r
                IN \A r \in world : Cardinality({g \in DOMAIN groups : has(g, r)}) = 1
           /\ \A r \in world :
                Config!Peers(t, "sp", r)[place(r)[2] + t.ulysses * place(r)[3] + 1] = r

\* The warm-up of the groups never waits for ever: all ranks meet in all the
\* collectives of the groups they own.
WarmupEnds ==
    Done("topology") => \A i \in DOMAIN Config!Created(job.arg) : Config!Created(job.arg)[i] \in Outcome

\* Every rank merges the two predictions of its own part of the sequence,
\* the positive one as positive: what one rank alone would have merged.
GuidanceExact ==
    Done("guidance") =>
        \A r \in DOMAIN Outcome :
            LET d == job.arg.degrees
                shard == r % d.sp
            IN /\ Guided!BindingOK(d, 0, r) /\ Guided!BranchLayoutOK(d, r)
               /\ Outcome[r].end = "merged" =>
                    /\ Outcome[r].positive = {shard}
                    /\ Outcome[r].negative = (IF job.arg.guided THEN {d.sp + shard} ELSE {})

\* A phase that fails on one rank ends on all of them with the same verdict,
\* before any of them waits for another in the merge.
PhaseErrorShared ==
    Done("guidance") =>
        \A r, q \in DOMAIN Outcome :
            Outcome[r].end = "raised" => Outcome[q] = Outcome[r] /\ Outcome[q].ranks = job.arg.failed

\* The groups of ranks are well formed, come up without a deadlock, and merge
\* the guidance of their own part or fail together.
GroupsWork == GroupsPartition /\ WarmupEnds /\ GuidanceExact /\ PhaseErrorShared

-----------------------------------------------------------------------------
(* Admission                                                               *)

Requests ==
    [cache : {"off", "teacache", "cache_dit"}, text : BOOLEAN, front : {1, 27}, back : {1},
     infer : {17}, overlap : {9}, compact : BOOLEAN]

\* A client that asks for nothing but a cache mode the server advertises is
\* never turned away.
AdvertisedIsAdmitted ==
    Done("server") /\ Outcome.starts =>
        \A r \in Requests : r.front = 1 /\ ~r.text /\ r.cache \in Outcome.modes =>
            Config!Admitted(job.arg, r)

\* A request that is admitted with an advertised cache mode is not refused
\* later, when its task has waited for its turn.
AdmittedRuns ==
    Done("server") /\ Outcome.starts =>
        \A r \in Requests : r.cache \in Outcome.modes /\ Config!Admitted(job.arg, r) =>
            Config!Runs(job.arg, r)

\* The guidance degree the server chooses by itself never keeps it from
\* starting on the devices it has.
DefaultDegreeStarts ==
    Done("server") /\ Outcome.starts /\ job.arg.cfg = 1 =>
        LET s == job.arg
        IN Config!Starts([s EXCEPT !.cfg = Config!DefaultCfg(0, s.backend, s, s.devices)])

\* A mesh and a chunk count that were accepted do not fail in the first
\* attention call of the model's 32 heads.
AcceptedChunksRun ==
    Done("server") /\ Outcome.starts /\ job.arg.backend = "nccl" =>
        LET s == job.arg
            t == Config!ResolveTopology(s)
        IN 32 % t.ulysses = 0 =>
             ~Usp!Refused([length |-> 64, ulysses |-> t.ulysses, ring |-> t.ring, heads |-> 32,
                           packing |-> s.packing, chunks |-> Config!ChunksAsked(s)])

\* What is advertised or admitted is not refused later on.
AdmissionIsHonest ==
    AdvertisedIsAdmitted /\ AdmittedRuns /\ DefaultDegreeStarts /\ AcceptedChunksRun

-----------------------------------------------------------------------------
(* Windows                                                                 *)

\* A window is refused exactly when the window length is not 8k + 1, or when
\* it starts a scene other than the first while windows overlap: it has no
\* prefix then, yet its masks get the latents of one.
WindowRefusals ==
    Done("windows") =>
        \A k \in DOMAIN Outcome :
            Outcome[k].verdict = "raised" <=>
                \/ job.arg.infer % Stages!Ratio /= 1
                \/ ~Outcome[k].head /\ Outcome[k].window.overlap_left = 0 /\ job.arg.overlap > 0

\* The frames latent k stands for.
FramesOfLatent(k) == IF k = 1 THEN {1}
                     ELSE (Stages!Ratio * (k - 2) + 2)..(Stages!Ratio * (k - 1) + 1)

\* With an overlap of 8k + 1 the mask of every latent is the union of the
\* masks of the very frames the VAE makes that latent of, mirrored padding
\* and the shortened last window included.
MasksCover ==
    Done("windows") /\ job.arg.overlap % Stages!Ratio = 1 =>
        \A n \in DOMAIN Outcome : Outcome[n].verdict = "done" =>
            LET video == Outcome[n].video
                fresh(k) == {f \in FramesOfLatent(k) : video[f][1] = "source"}
            IN \A k \in DOMAIN Outcome[n].masks :
                 Outcome[n].masks[k] = {video[f][2] : f \in fresh(k)} \cap job.arg.masked

\* A window that follows another begins with that one's raw output for the
\* same frames, and commits each of its new frames at its own place.
FramesLineUp ==
    Done("windows") =>
        \A n \in DOMAIN Outcome : Outcome[n].verdict = "done" =>
            LET w == Outcome[n].window
            IN /\ \A k \in 1..w.overlap_left : Outcome[n].video[k] = <<"raw", w.load_start + k - 1>>
               /\ Outcome[n].committed =
                    [k \in 1..(w.load_end - w.deal_start) |-> w.deal_start + k - 1]

\* The noise falls with every step from the start the strength gives to the
\* end, and every strength the service accepts leaves a step to do.
ScheduleFalls ==
    Done("schedule") =>
        LET all == Stages!Sigmas(job.arg[1])
        IN /\ Len(all) = job.arg[1] /\ all[1] = Stages!Denominator(job.arg[1])
           /\ Outcome /= <<>> /\ Outcome[Len(Outcome)] > 0
           /\ \A i \in 2..Len(Outcome) : Outcome[i] < Outcome[i - 1]
           /\ job.arg[2] = 100 => Outcome = all

\* The stages of a window agree on its frames: those that are masked, those
\* that are shared, those that are committed, and the steps of denoising.
WindowsExact == WindowRefusals /\ MasksCover /\ FramesLineUp /\ ScheduleFalls

\* No cache hands a window the embeddings of other prompts, another length
\* or weights that have been replaced since.
TextBelongs ==
    Done("text") => Outcome = [i \in DOMAIN job.arg.calls |-> Stages!Encoded(job.arg.calls[i])]
==============================================================================
