----------------------------- MODULE VaeNetwork -----------------------------
(***************************************************************************)
(* What an element of a latent or of a decoded video depends on: the       *)
(* encoder and the decoder of models/vaes/eraserdit_vae.py followed along  *)
(* one axis, time or height.  A value is a sequence of sets: of the input  *)
(* positions its elements have been computed from.  It is cut into shards, *)
(* one per device of models/adapters/eraserdit/vae_spatial.py; an          *)
(* execution on one device has one shard.  A layer that cannot reshape its *)
(* input raises, which is the value without shards.                        *)
(*                                                                         *)
(* A network v has v.axis, the causality of its two halves, the budget of  *)
(* frames for a chunked convolution (0: not chunked), the patch size and   *)
(* for each block the number of residual layers and the kind of scaling.   *)
(***************************************************************************)
EXTENDS Integers, Sequences
LOCAL INSTANCE SequencesExt

Raised == <<>>
Input(n) == <<[i \in 1..n |-> {i - 1}]>>

(* One convolution window of three elements.                               *)
Window(x, from) == x[from] \cup x[from + 1] \cup x[from + 2]
Convolve(x, stride) ==
    [i \in 1..((Len(x) - 3) \div stride + 1) |-> Window(x, (i - 1) * stride + 1)]

-----------------------------------------------------------------------------
(* LTXVideoCausalConv3d.forward in time: the ends are replicated.          *)
Replicate(e, n) == [i \in 1..n |-> e]
PadTime(x, causal) == IF causal THEN Replicate(x[1], 2) \o x
                      ELSE <<x[1]>> \o x \o <<x[Len(x)]>>
WholeTimeConv(x, stride, causal) == Convolve(PadTime(x, causal), stride)

(* chunked_causal_conv: slices of the output, each from the frames it      *)
(* needs; only the ends of the video are replicated.                       *)
ChunkedTimeConv(x, stride, causal, step) ==
    LET left == IF causal THEN 2 ELSE 1
        right == IF causal THEN 0 ELSE 1
        frames == Len(x)
        count == (frames + left + right - 3) \div stride + 1
        slice(start) ==
            LET end == IF start + step < count THEN start + step ELSE count
                first == start * stride - left
                last == (end - 1) * stride - left + 3
                value == SubSeq(x, (IF first > 0 THEN first ELSE 0) + 1,
                                IF last < frames THEN last ELSE frames)
            IN Convolve(Replicate(x[1], IF first < 0 THEN -first ELSE 0) \o value
                          \o Replicate(x[frames], IF last > frames THEN last - frames ELSE 0),
                        stride)
    IN FlattenSeq([i \in 1..((count + step - 1) \div step) |-> slice((i - 1) * step)])

TimeConv(v, x, stride, causal) ==
    IF v.chunk > 0 /\ Len(x) > v.chunk THEN ChunkedTimeConv(x, stride, causal, v.chunk)
    ELSE WholeTimeConv(x, stride, causal)

(* ... and in height: zeros around the image, which depend on nothing.     *)
HeightConv(x, stride) == Convolve(<<{}>> \o x \o <<{}>>, stride)

(* SpatialExchange.convolution: a shard is extended by the neighbours'     *)
(* rows, or by zeros at the border of the image, and convolved unpadded.   *)
HaloAbove(xs, i) == IF i > 1 THEN xs[i - 1][Len(xs[i - 1])] ELSE {}
Mut_HaloBelow(xs, i) == {}
HaloBelow(xs, i) == IF i < Len(xs) THEN xs[i + 1][1] ELSE {}
HaloConv(xs) == [i \in DOMAIN xs |->
                   Convolve(<<HaloAbove(xs, i)>> \o xs[i] \o <<HaloBelow(xs, i)>>, 1)]

Conv(v, xs, stride, causal) ==
    CASE v.axis = "time" -> [i \in DOMAIN xs |-> TimeConv(v, xs[i], stride, causal)]
      [] v.axis = "height" /\ Len(xs) <= 1 -> [i \in DOMAIN xs |-> HeightConv(xs[i], stride)]
      [] v.axis = "height" /\ Len(xs) > 1 -> HaloConv(xs)

Plus(xs, ys) == [i \in DOMAIN xs |-> [k \in DOMAIN xs[i] |-> xs[i][k] \cup ys[i][k]]]

(* LTXVideoResnetBlock3d.forward: normalisation, modulation and activation *)
(* act on every element by itself.                                         *)
Resnet(v, xs, causal) == Plus(Conv(v, Conv(v, xs, 1, causal), 1, causal), xs)

(* The residual layers of a block, one after the other.                    *)
Resnets(v, xs, n, causal) ==
    LET layer[k \in 0..n] == IF k = 0 THEN xs ELSE Resnet(v, layer[k - 1], causal)
    IN layer[n]

-----------------------------------------------------------------------------
(* unflatten(-1, s): s elements become one; reshape refuses a remainder.   *)
Grouped(x, s) == [i \in 1..(Len(x) \div s) |-> UNION {x[(i - 1) * s + k] : k \in 1..s}]
GroupShards(xs, s) == IF \E i \in DOMAIN xs : Len(xs[i]) % s /= 0 THEN Raised
                      ELSE [i \in DOMAIN xs |-> Grouped(xs[i], s)]
Spread(x, s) == [i \in 1..(Len(x) * s) |-> x[(i - 1) \div s + 1]]

StrideOf(kind, axis) ==
    IF \/ kind \in {"conv", "spatiotemporal"}
       \/ kind = "spatial" /\ axis = "height"
       \/ kind = "temporal" /\ axis = "time"
    THEN 2 ELSE 1

(* LTXVideoDownsampler3d.forward: in time the first frame is repeated.     *)
Downsample(v, xs, kind, causal) ==
    LET s == StrideOf(kind, v.axis)
        ext == IF v.axis = "time" THEN [i \in DOMAIN xs |-> SubSeq(xs[i], 1, s - 1) \o xs[i]]
               ELSE xs
        residual == GroupShards(ext, s)
    IN IF residual = Raised THEN Raised
       ELSE Plus(GroupShards(Conv(v, ext, 1, causal), s), residual)

(* LTXVideoUpsampler3d.forward: in time the first frame stays one frame.   *)
Upsample(v, xs, causal, residual) ==
    LET drop == IF v.axis = "time" THEN 1 ELSE 0
        cut(x) == SubSeq(x, drop + 1, Len(x))
        grown == [i \in DOMAIN xs |-> cut(Spread(Conv(v, xs, 1, causal)[i], 2))]
    IN IF residual THEN Plus(grown, [i \in DOMAIN xs |-> cut(Spread(xs[i], 2))]) ELSE grown

(* LTXVideoDownBlock3D: a strided convolution or none; a change of         *)
(* channels adds one more residual layer.                                  *)
DownBlock(v, xs, b) ==
    LET ys == Resnets(v, xs, b.layers, TRUE)
        zs == IF b.kind = "conv" THEN Conv(v, ys, 2, TRUE) ELSE ys
    IN IF b.widens THEN Resnet(v, zs, TRUE) ELSE zs

(* LTXVideo095DownBlock3D: the downsampler changes the channels itself.    *)
DownBlock095(v, xs, b) == Downsample(v, Resnets(v, xs, b.layers, TRUE), b.kind, TRUE)

(* LTXVideoUpBlock3d                                                       *)
UpBlock(v, xs, b) ==
    LET ys == IF b.widens THEN Resnet(v, xs, v.causalDecoder) ELSE xs
        zs == IF b.kind = "none" THEN ys ELSE Upsample(v, ys, v.causalDecoder, b.residual)
    IN Resnets(v, zs, b.layers, v.causalDecoder)

-----------------------------------------------------------------------------
(* LTXVideoEncoder3d.forward and LTXVideoDecoder3d.forward; the patches    *)
(* are spatial only (patch_size_t = 1).                                    *)
PatchOf(v) == IF v.axis = "height" THEN v.patch ELSE 1

Encoder(v, xs) ==
    LET patched == GroupShards(xs, PatchOf(v))
        n == Len(v.blocks)
        block[k \in 0..n] == IF patched = Raised THEN Raised
                             ELSE IF k = 0 THEN Conv(v, patched, 1, TRUE)
                             ELSE IF block[k - 1] = Raised THEN Raised
                             ELSE IF v.blocks[k].kind \in {"none", "conv"}
                             THEN DownBlock(v, block[k - 1], v.blocks[k])
                             ELSE DownBlock095(v, block[k - 1], v.blocks[k])
    IN IF block[n] = Raised THEN Raised
       ELSE Conv(v, Resnets(v, block[n], v.mid, TRUE), 1, TRUE)

(* The decoder has the blocks of the encoder in reverse.                   *)
Decoder(v, xs) ==
    LET n == Len(v.blocks)
        block[k \in 0..n] ==
            IF k = 0 THEN Resnets(v, Conv(v, xs, 1, v.causalDecoder), v.mid, v.causalDecoder)
            ELSE UpBlock(v, block[k - 1], v.blocks[n + 1 - k])
        out == Conv(v, block[n], 1, v.causalDecoder)
    IN [i \in DOMAIN out |-> Spread(out[i], PatchOf(v))]

(* spatial_compression_ratio and temporal_compression_ratio                *)
Scalings(v) == Len(SelectSeq(v.blocks, LAMBDA b : b.kind /= "none"))
Ratio(v) == PatchOf(v) * 2 ^ Scalings(v)

-----------------------------------------------------------------------------
(* spatial_vae: shards of whole compression units, their number at most    *)
(* the number of units; strided convolutions are refused.                  *)
SpatialRefused(v, encode, height) ==
    \/ encode /\ height % Ratio(v) /= 0
    \/ height < 1
    \/ encode /\ \E i \in DOMAIN v.blocks : v.blocks[i].kind = "conv"

Shards(height, ratio, degree) ==
    LET units == height \div ratio
        used == IF degree < units THEN degree ELSE units
        from(rank) == ((units * rank) \div used) * ratio
    IN [i \in 1..used |-> [k \in 1..(from(i) - from(i - 1)) |-> {from(i - 1) + k - 1}]]

SpatialVae(v, encode, height, degree) ==
    LET run(xs) == IF encode THEN Encoder(v, xs) ELSE Decoder(v, xs)
    IN FlattenSeq(run(Shards(height, IF encode THEN Ratio(v) ELSE 1, degree)))

WholeVae(v, encode, n) ==
    LET out == IF encode THEN Encoder(v, Input(n)) ELSE Decoder(v, Input(n))
    IN FlattenSeq(out)
=============================================================================
