--------------------------- MODULE MCComputations ---------------------------
(***************************************************************************)
(* Small inputs for every computation: lengths that do and do not divide   *)
(* by the degrees, degrees larger than the input, single elements, all the *)
(* combinations of modes the code distinguishes.                           *)
(***************************************************************************)
EXTENDS ComputationProperties

MCAttentionCalls ==
    {c \in [length : 1..9, ulysses : {1, 2, 4}, ring : {1, 2, 3}, heads : {4, 6, 16},
            packing : {"reference", "direct"}, chunks : {1, 2}, overlap : BOOLEAN,
            mode : {"reference", "streaming", "online"}, tile : {2, 3}] :
        /\ c.ring = 1 => c.mode = "reference"
        /\ c.mode /= "streaming" => c.tile = 2
        /\ c.chunks = 1 => ~c.overlap
        /\ c.heads = 16 => c.ring = 1 /\ c.length \in {4, 5, 8}
        /\ c.heads = 6 => c.length = 4
        /\ c.packing = "reference" => c.length <= 5 /\ c.ring = 1}

MCShardCalls ==
    {a \in [length : 0..5, degree : 1..3, heads : {2, 3, 4, 6}, backend : {"sdpa", "flash"},
            masked : {{}, {0}}, unprepared : {{}, {1}}, failing : SUBSET (0..2), hook : BOOLEAN] :
        /\ a.failing \subseteq 0..(a.degree - 1) /\ a.unprepared \subseteq 0..(a.degree - 1)
        /\ a.hook <=> a.unprepared /= {}
        /\ a.masked = {} \/ a.failing = {}
        /\ a.unprepared /= {} => a.failing = {}}

Block(kind, layers, widens, residual) ==
    [kind |-> kind, layers |-> layers, widens |-> widens, residual |-> residual]
BlockLists ==
    {<<Block("conv", 0, FALSE, FALSE)>>,
     <<Block("spatiotemporal", 1, FALSE, TRUE)>>,
     <<Block("spatiotemporal", 0, FALSE, TRUE), Block("spatiotemporal", 0, TRUE, FALSE)>>,
     <<Block("conv", 1, TRUE, FALSE), Block("none", 0, FALSE, FALSE)>>,
     <<Block("conv", 0, TRUE, FALSE), Block("conv", 0, FALSE, FALSE), Block("none", 0, TRUE, FALSE)>>}
MCNetworks ==
    {n \in [net : [axis : {"time", "height"}, causalDecoder : BOOLEAN, chunk : {0, 1, 2},
                   patch : {1, 2}, mid : {0, 1}, blocks : BlockLists],
            length : 1..12, encode : BOOLEAN, degree : 1..3] :
        /\ n.net.axis = "time" => n.degree = 1 /\ n.net.patch = 1
        /\ n.net.axis = "height" => n.net.chunk = 0}

TileSizes == {<<4, 2>>, <<6, 4>>, <<8, 4>>, <<8, 6>>, <<6, 2>>}
MCTileRequests ==
    {[encode |-> e, ratio |-> 2, size |-> p[1], stride |-> p[2], degree |-> d, tiling |-> t,
      height |-> IF e THEN 2 * h ELSE h, width |-> IF e THEN 2 * w ELSE w] :
        e \in BOOLEAN, p \in TileSizes, h \in 1..6, w \in 1..6, d \in 1..3, t \in BOOLEAN}
MCTimeTileRequests ==
    {[ratio |-> 2, size |-> p[1], stride |-> p[2], frames |-> 2 * f + 1] :
        p \in TileSizes, f \in 0..9}

MCTopologies ==
    {t \in [tp : {1, 2}, ulysses : {1, 2, 3}, ring : {1, 2}, cfg : {1, 2}, replicas : {1, 2}] :
        Config!WorldSize(t) <= 12}

MCGuidanceSteps ==
    {[degrees |-> [sp |-> n, cfg |-> 2, vae |-> 1], guided |-> g, missing |-> m, failed |-> f] :
        n \in {1, 2}, g \in BOOLEAN, m \in {{}, {1}}, f \in {{}, {0}, {1}, {0, 1}}}

(* The plain server with up to three settings changed.                     *)
PlainServer ==
    [backend |-> "peer", sp |-> 1, ulysses |-> 0, ring |-> 1, tp |-> 1, cfg |-> 1, shard |-> 1,
     replicate |-> 1, mode |-> "ulysses", linear |-> "reference", chunks |-> 1,
     overlap |-> FALSE, packing |-> "direct", offload |-> {}, compile |-> "off",
     components |-> {}, quantization |-> "none", scope |-> "blocks", attention |-> "sdpa",
     fusion |-> "disabled", cfgDevice |-> FALSE, vae |-> 1, tiling |-> FALSE, devices |-> 4,
     q6 |-> FALSE]
Changes ==
    {<<"sp", 2>>, <<"sp", 3>>, <<"sp", 4>>, <<"ulysses", 2>>, <<"ring", 2>>, <<"tp", 2>>,
     <<"cfg", 2>>, <<"shard", 2>>, <<"mode", "ring">>, <<"linear", "aligned">>, <<"chunks", 2>>,
     <<"chunks", 0>>, <<"offload", {"layerwise", "text", "vae"}>>, <<"offload", {"text"}>>,
     <<"offload", {"dit"}>>, <<"compile", "ffn">>, <<"compile", "transformer">>,
     <<"components", {"vae"}>>, <<"components", {"text_encoder"}>>, <<"quantization", "static">>,
     <<"quantization", "int8">>, <<"scope", "ffn">>, <<"attention", "sage_fp8">>,
     <<"fusion", "exact">>, <<"fusion", "fast">>, <<"vae", 2>>, <<"tiling", TRUE>>,
     <<"devices", 1>>, <<"q6", TRUE>>}
Changed(s, d) == [f \in DOMAIN s |-> IF f = d[1] THEN d[2] ELSE s[f]]
MCServers ==
    {Changed(Changed(Changed(Changed(PlainServer, <<"backend", b>>), d), e), f) :
        b \in {"peer", "nccl"}, d \in Changes, e \in Changes, f \in Changes}

MCWindowJobs ==
    {q \in [frames : 1..40, infer : {9, 17, 20, 25}, overlap : {0, 1, 4, 8, 9, 10},
            compact : BOOLEAN, scenes : {<<>>, <<<<0, 12>>, <<12, 30>>>>},
            masked : {1..60, {3, 11, 12, 18, 26}}] :
        /\ q.overlap < q.infer
        /\ q.compact => q.overlap % 8 = 1 /\ q.infer % 8 = 1}

MCSchedules == (1..60) \X {1, 2, 10, 50, 80, 99, 100}

(* Three windows; the weights may change from one request to the next.     *)
TextWindows ==
    [request : 1..2, object : 1..2, scene : {1}, prompt : {"a", "b"}, length : {128, 256},
     weights : {1}]
Reweighed(calls, version) ==
    [i \in DOMAIN calls |-> IF calls[i].request = 2 THEN [calls[i] EXCEPT !.weights = version]
                            ELSE calls[i]]
MCTextCalls ==
    LET inOrder(c) == /\ \A i \in 1..2 : c[i].request <= c[i + 1].request
                      /\ \A i, j \in 1..3 : c[i].request = c[j].request => c[i].length = c[j].length
    IN {[calls |-> Reweighed(c, v), session |-> s] :
          c \in {c \in [1..3 -> TextWindows] : inOrder(c)}, v \in {1, 2}, s \in BOOLEAN}

Task(id, rank, from, to, pad) ==
    [id |-> id, rank |-> rank, cost |-> 1, in |-> <<<<from, to>>>>, out |-> <<<<2 * from, 2 * to>>>>,
     padin |-> <<pad>>, padout |-> <<2 * pad>>]
MCPlans ==
    {[operation |-> o, owner |-> 0, gin |-> <<3>>, gout |-> <<6>>, rounds |-> n, tasks |-> ts] :
        o \in {"encode", "decode"}, n \in {1, 2},
        ts \in {<<Task(0, 0, 0, 3, 3)>>, <<Task(0, 0, 0, 2, 2), Task(1, 1, 2, 3, 2)>>,
                <<Task(0, 1, 0, 2, 2), Task(1, 1, 2, 3, 2)>>,
                <<Task(0, 0, 0, 2, 2), Task(1, 1, 2, 4, 2)>>,
                <<Task(1, 0, 0, 2, 2), Task(0, 1, 2, 3, 2)>>,
                <<Task(0, 0, 0, 2, 1), Task(1, 1, 2, 3, 2)>>}}
=============================================================================
