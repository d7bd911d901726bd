---------------------------- MODULE WindowStages ----------------------------
(***************************************************************************)
(* What the stages of one window do to its frames                          *)
(* (pipelines/stages/eraserdit_erase, models/adapters/eraserdit/           *)
(* preprocess.py, utils/eraserdit_mask.py): the shared prefix is cut off,  *)
(* the new frames are padded by mirroring, their masks compressed eight to *)
(* one, the raw end of the previous window is put in front, and of the     *)
(* decoded frames the new ones are committed.                              *)
(*                                                                         *)
(* A frame is its number in the video; a model frame also says whether it  *)
(* is the raw output of the previous window, a committed one or a source   *)
(* frame with its mask blanked.  A mask is the set of masked frames it was *)
(* computed from.  A job q has the number of frames, infer_len, overlap,   *)
(* compact tails, the scenes and the masked frames.                        *)
(***************************************************************************)
EXTENDS Integers, Sequences
LOCAL INSTANCE SequencesExt
LOCAL INSTANCE FiniteSetsExt

Plan(q) == INSTANCE WindowPlan WITH NumFrames <- q.frames, InferLen <- q.infer, Overlap <- q.overlap

Ratio == 8
CeilDiv(a, b) == (a + b - 1) \div b

(* infer_latent_frames                                                     *)
LatentCount(n) == (n - 1) \div Ratio + 1

(* window_pad_plan: how many frames are missing.                           *)
Missing(n, head, infer, overlap) ==
    LET size == infer - overlap
    IN IF head THEN Max({1, CeilDiv(n - overlap, size)}) * size + overlap - n
       ELSE CeilDiv(n, size) * size - n

(* compact_tail_infer_len *)
CompactLength(n, head, infer, overlap) ==
    IF head THEN infer ELSE Min({infer, overlap + Max({Ratio, CeilDiv(n, Ratio) * Ratio})})

(* pad_window_frames: flip(0)[1:-1], as often as needed.                   *)
Mirror(s) == IF Len(s) <= 2 THEN <<>> ELSE Reverse(SubSeq(s, 2, Len(s) - 1))
Repeated(s, n) == [i \in 1..n |-> s[((i - 1) % Len(s)) + 1]]

PadFrames(s, missing, length) ==
    IF missing <= 0 THEN s
    ELSE IF missing <= Len(s) - 2 THEN s \o SubSeq(Mirror(s), 1, missing)
    ELSE Repeated(s \o Mirror(s), length)

(* compress_mask_temporal: groups of eight; the first window's first frame *)
(* is a group of its own.                                                  *)
Union8(masks, from, count) == UNION {masks[i] : i \in from..(from + count - 1)}
Mut_Compress(masks, head) ==
    LET shift == IF head THEN 1 ELSE 0
        whole == (Len(masks) - shift) \div Ratio
        left == (Len(masks) - shift) % Ratio
    IN SubSeq(masks, 1, shift) \o [g \in 1..whole |-> Union8(masks, (g - 1) * Ratio + 1, Ratio)]
         \o (IF left > 0 THEN <<Union8(masks, Len(masks) - left + 1, left)>> ELSE <<>>)
Compress(masks, head) ==
    LET shift == IF head THEN 1 ELSE 0
        whole == (Len(masks) - shift) \div Ratio
        left == (Len(masks) - shift) % Ratio
    IN SubSeq(masks, 1, shift)
         \o [g \in 1..whole |-> Union8(masks, shift + (g - 1) * Ratio + 1, Ratio)]
         \o (IF left > 0 THEN <<Union8(masks, Len(masks) - left + 1, left)>> ELSE <<>>)

-----------------------------------------------------------------------------
(* The new frames of a window, padded, and their masks: the length of the  *)
(* padded block is that of preprocess_eraserdit_window.                    *)
Fresh(q, w) == [i \in 1..(w.load_end - w.deal_start) |-> w.deal_start + i - 1]

ModelLength(q, w, head) ==
    IF q.compact /\ w.overlap_left = q.overlap
    THEN CompactLength(Len(Fresh(q, w)), head, q.infer, q.overlap) ELSE q.infer

Padded(q, w, head) ==
    LET length == ModelLength(q, w, head)
        fresh == Fresh(q, w)
    IN PadFrames(fresh, Missing(Len(fresh), head, length, q.overlap),
                 IF head THEN length ELSE length - q.overlap)

(* forward of the preprocess stage: the prefix is the raw tail when there  *)
(* is one, else the committed frames; masks of nothing stand in front.     *)
Prefix(q, w, tail) ==
    IF w.overlap_left = 0 THEN <<>>
    ELSE IF tail /= <<>> THEN [i \in DOMAIN tail |-> <<"raw", tail[i]>>]
    ELSE [i \in 1..w.overlap_left |-> <<"committed", w.load_start + i - 1>>]

ModelVideo(q, w, head, tail) ==
    LET padded == Padded(q, w, head)
    IN Prefix(q, w, tail) \o [i \in DOMAIN padded |-> <<"source", padded[i]>>]

MaskLatents(q, w, head) ==
    LET padded == Padded(q, w, head)
        masks == [i \in DOMAIN padded |-> {padded[i]} \cap q.masked]
    IN (IF head THEN <<>> ELSE [i \in 1..CeilDiv(q.overlap, Ratio) |-> {}]) \o Compress(masks, head)

(* Its two checks, and the one of the postprocess stage.                   *)
TailRefused(w, tail) == w.overlap_left > 0 /\ tail /= <<>> /\ Len(tail) /= w.overlap_left
MaskRefused(q, w, head, tail) ==
    Len(MaskLatents(q, w, head)) /= LatentCount(Len(ModelVideo(q, w, head, tail)))

(* The VAE and the transformer keep the frames where they are: as many as  *)
(* the latents stand for.                                                  *)
Decoded(video) == [i \in 1..((LatentCount(Len(video)) - 1) * Ratio + 1) |-> video[i][2]]

Committed(q, w, video) ==
    SubSeq(Decoded(video), w.overlap_left + 1,
           Min({w.overlap_left + Len(Fresh(q, w)), Len(Decoded(video))}))

(* The tail that stays for the next window: the end of what was decoded.   *)
RawTail(w, decoded) ==
    SubSeq(decoded, Len(decoded) - w.overlap_right + 1, Len(decoded))

-----------------------------------------------------------------------------
(* The windows of a request, one after the other; it ends at the first     *)
(* that raises.                                                            *)
Window(q, state, k) ==
    LET w == Plan(q)!BuildWindowSpecs(q.scenes)[k]
        head == k = 1
        video == ModelVideo(q, w, head, state.tail)
        result(verdict) == [window |-> w, head |-> head, verdict |-> verdict,
                            tail |-> state.tail, video |-> video,
                            masks |-> MaskLatents(q, w, head),
                            committed |-> Committed(q, w, video)]
        refused == TailRefused(w, state.tail) \/ MaskRefused(q, w, head, state.tail)
        short == Len(Committed(q, w, video)) /= Len(Fresh(q, w))
    IN IF state.raised THEN state
       ELSE IF refused \/ short
       THEN [state EXCEPT !.raised = TRUE, !.done = Append(@, result("raised"))]
       ELSE [raised |-> FALSE, done |-> Append(state.done, result("done")),
             tail |-> IF w.overlap_right > 0 THEN RawTail(w, Decoded(video)) ELSE state.tail]

Windows(q) ==
    LET plan == Plan(q)!BuildWindowSpecs(q.scenes)
    IN FoldLeft(LAMBDA s, k : Window(q, s, k), [raised |-> FALSE, tail |-> <<>>, done |-> <<>>],
                [k \in DOMAIN plan |-> k]).done

-----------------------------------------------------------------------------
(* The timesteps of a window (pipelines/stages/eraserdit_erase/_common.py, *)
(* latent_preparation.py): a linear part, a quadratic part, cut by         *)
(* strength.  The real numbers are fractions over one denominator; the     *)
(* threshold noise is 1/40, strength is in percent.                        *)

LinearSteps(steps) == steps \div 2
QuadraticSteps(steps) == steps - LinearSteps(steps)
Denominator(steps) ==
    IF steps < 2 THEN 1 ELSE 40 * LinearSteps(steps) * QuadraticSteps(steps) ^ 2

(* _linear_quadratic_schedule: i * t / L, then a * i^2 + b * i + c with    *)
(* d = L - t * N, a = d / (L * Q^2), b = t / L - 2 * d / Q^2, c = a * L^2. *)
Noise(steps, i) ==
    LET linear == LinearSteps(steps)
        square == QuadraticSteps(steps) ^ 2
        diff == 40 * linear - steps
    IN IF i < linear THEN i * square
       ELSE diff * i ^ 2 + (square - 2 * diff * linear) * i + diff * linear ^ 2

Sigmas(steps) ==
    IF steps < 2 THEN <<1>>
    ELSE [k \in 1..steps |-> Denominator(steps) - Noise(steps, k - 1)]

(* get_timesteps: int(max(steps - min(steps * strength, steps), 0))        *)
FirstStep(steps, strength) ==
    LET init == IF strength < 100 THEN steps * strength ELSE steps * 100
    IN (steps * 100 - init) \div 100

Timesteps(steps, strength) == SubSeq(Sigmas(steps), FirstStep(steps, strength) + 1, steps)

-----------------------------------------------------------------------------
(***************************************************************************)
(* The embeddings of the prompts and the three caches in front of the text *)
(* encoder (pipelines/stages/eraserdit_erase/text_encoding.py): the window *)
(* runtime's, by object, scene and prompts                                 *)
(* (pipelines/runtime/windowing/materializer.py), the request's own and    *)
(* the session's, which outlives requests.                                 *)
(*                                                                         *)
(* A call w is a window: its request, object, scene, prompt, the length    *)
(* the prompt is cut to and the version of the encoder's weights, which    *)
(* may change between requests.  What the encoder computes is named by     *)
(* what it is computed from.                                               *)
(***************************************************************************)

Encoded(w) == <<w.prompt, w.length, w.weights>>

RuntimeKey(w) == <<w.object, w.scene, w.prompt>>
Signature(w) == <<w.prompt, w.length>>
Mut_SessionSignature(w) == <<w.prompt, w.length>>
SessionSignature(w) == <<w.prompt, w.length, w.weights>>

(* A cache is a set of <<key, value>> with at most one value per key.      *)
Found(cache, key) == {e[2] : e \in {e \in cache : e[1] = key}}
Stored(cache, key, value) == {e \in cache : e[1] /= key} \union {<<key, value>>}

Nothing == [request |-> 0, runtime |-> {}, own |-> {}, session |-> {}, served |-> <<>>]

(* A new request begins without the two caches that belong to a request.   *)
Entered(s, w) == IF s.request = w.request THEN s
                 ELSE [s EXCEPT !.request = w.request, !.runtime = {}, !.own = {}]

(* _restore_cached_embeddings, forward, _encode_uncached; then the driver  *)
(* keeps what the window was not given.                                    *)
Encode(s0, w, enabled) ==
    LET s == Entered(s0, w)
        given == Found(s.runtime, RuntimeKey(w))
        own == Found(s.own, Signature(w))
        session == IF enabled THEN Found(s.session, SessionSignature(w)) ELSE {}
        hit == IF given /= {} THEN given ELSE IF own /= {} THEN own ELSE session
        value == IF hit /= {} THEN CHOOSE v \in hit : TRUE ELSE Encoded(w)
    IN [s EXCEPT !.served = Append(@, value),
                 !.own = IF hit /= {} THEN @ ELSE {<<Signature(w), value>>},
                 !.session = IF hit /= {} \/ ~enabled THEN @
                             ELSE {<<SessionSignature(w), value>>},
                 !.runtime = IF given /= {} THEN @ ELSE Stored(@, RuntimeKey(w), value)]

Served(calls, enabled) ==
    FoldLeft(LAMBDA s, w : Encode(s, w, enabled), Nothing, calls).served
==============================================================================
