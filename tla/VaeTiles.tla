------------------------------ MODULE VaeTiles ------------------------------
(***************************************************************************)
(* Encoding and decoding in overlapping tiles: the model's own methods     *)
(* (models/vaes/eraserdit_vae.py) and the tiles spread over the devices of *)
(* a mesh (models/adapters/eraserdit/vae.py).                              *)
(*                                                                         *)
(* A tile is [h, w, at]; an element of it is the set of the places of the  *)
(* whole result it has been computed for, each in pixels (frames, in       *)
(* time).  A request o has o.encode, the compression ratio, the size and   *)
(* the stride of a tile in pixels, the height and width of the input, the  *)
(* degree of the mesh and whether tiling is on.                            *)
(***************************************************************************)
EXTENDS Integers, Sequences
LOCAL INSTANCE SequencesExt

Tile(h, w, At(_, _)) == [h |-> h, w |-> w,
                         at |-> [c \in (0..(h - 1)) \X (0..(w - 1)) |-> At(c[1], c[2])]]

Smallest(a, b) == IF a < b THEN a ELSE b
Steps(n, stride) == (n + stride - 1) \div stride      \* len(range(0, n, stride))

(* In the units of the input, and of the output.                           *)
Inner(o, pixels) == IF o.encode THEN pixels ELSE pixels \div o.ratio
Outer(o, pixels) == IF o.encode THEN pixels \div o.ratio ELSE pixels
OutLength(o, n) == IF o.encode THEN n \div o.ratio ELSE n * o.ratio
PixelIn(o, i) == IF o.encode THEN i ELSE i * o.ratio
PixelOut(o, i) == IF o.encode THEN i * o.ratio ELSE i

(* One component on the part of the input that begins at (y, x).           *)
Component(o, y, x, h, w) ==
    Tile(OutLength(o, h), OutLength(o, w),
         LAMBDA a, b : {<<PixelIn(o, y) + PixelOut(o, a), PixelIn(o, x) + PixelOut(o, b)>>})

TileAt(o, y, x) == Component(o, y, x, Smallest(Inner(o, o.size), o.height - y),
                             Smallest(Inner(o, o.size), o.width - x))

-----------------------------------------------------------------------------
(* blend_v and blend_h: the first rows (columns) of b are mixed with the   *)
(* last of a, the very first is a's alone.                                 *)
BlendV(a, b, blend) ==
    LET extent == Smallest(Smallest(a.h, b.h), blend)
    IN Tile(b.h, b.w, LAMBDA y, x :
         IF y >= extent THEN b.at[<<y, x>>]
         ELSE a.at[<<a.h - extent + y, x>>] \cup (IF y > 0 THEN b.at[<<y, x>>] ELSE {}))

BlendH(a, b, blend) ==
    LET extent == Smallest(Smallest(a.w, b.w), blend)
    IN Tile(b.h, b.w, LAMBDA y, x :
         IF x >= extent THEN b.at[<<y, x>>]
         ELSE a.at[<<y, a.w - extent + x>>] \cup (IF x > 0 THEN b.at[<<y, x>>] ELSE {}))

(* The tiles are blended in place, row by row.                             *)
Blended(rows, blend) ==
    LET B[y \in DOMAIN rows, x \in DOMAIN rows[1]] ==
          LET v == IF y > 1 THEN BlendV(B[y - 1, x], rows[y][x], blend) ELSE rows[y][x]
          IN IF x > 1 THEN BlendH(B[y, x - 1], v, blend) ELSE v
    IN B

Cropped(t, h, w) == Tile(Smallest(t.h, h), Smallest(t.w, w), LAMBDA y, x : t.at[<<y, x>>])
CatH(a, b) == Tile(a.h, a.w + b.w, LAMBDA y, x : IF x < a.w THEN a.at[<<y, x>>]
                                                ELSE b.at[<<y, x - a.w>>])
CatV(a, b) == Tile(a.h + b.h, a.w, LAMBDA y, x : IF y < a.h THEN a.at[<<y, x>>]
                                                ELSE b.at[<<y - a.h, x>>])
Joined(Cat(_, _), ts) == FoldLeft(Cat, Head(ts), Tail(ts))

Assembled(o, rows, crop, blend) ==
    LET B == Blended(rows, blend)
        row(y) == Joined(CatH, [x \in DOMAIN rows[y] |-> Cropped(B[y, x], crop, crop)])
    IN Cropped(Joined(CatV, [y \in DOMAIN rows |-> row(y)]),
               OutLength(o, o.height), OutLength(o, o.width))

(* tiled_encode and tiled_decode                                           *)
NativeBlend(o) == Outer(o, o.size) - Outer(o, o.stride)

TiledNative(o) ==
    LET stride == Inner(o, o.stride)
        rows == [y \in 1..Steps(o.height, stride) |-> [x \in 1..Steps(o.width, stride) |->
                   TileAt(o, (y - 1) * stride, (x - 1) * stride)]]
    IN Assembled(o, rows, Outer(o, o.stride), NativeBlend(o))

(* _encode and _decode: whether the input is cut into tiles at all.  The   *)
(* decoder compares the width with the stride.                             *)
NativeVae(o) ==
    IF o.tiling /\ (\/ o.width > Inner(o, IF o.encode THEN o.size ELSE o.stride)
                    \/ o.height > Inner(o, o.size))
    THEN TiledNative(o) ELSE Component(o, 0, 0, o.height, o.width)

-----------------------------------------------------------------------------
(* tiled_vae: the coordinates in batches of one tile per device; a row is  *)
(* closed after as many tiles as there are columns.                        *)
Coordinates(o) ==
    LET stride == Inner(o, o.stride)
        columns == Steps(o.width, stride)
    IN [k \in 1..(Steps(o.height, stride) * columns) |->
          <<((k - 1) \div columns) * stride, ((k - 1) % columns) * stride>>]

PeerDegree(o) == Smallest(o.degree, Len(Coordinates(o)))

PeerRows(o) ==
    LET cs == Coordinates(o)
        columns == Steps(o.width, Inner(o, o.stride))
        Place(rows, k) ==
            LET tile == TileAt(o, cs[k + 1][1], cs[k + 1][2])
            IN IF k % columns = 0 THEN Append(rows, <<tile>>)
               ELSE [rows EXCEPT ![Len(rows)] = Append(@, tile)]
        Batch(rows, start) ==
            FoldLeft(LAMBDA got, offset : Place(got, start + offset), rows,
                     [i \in 1..Smallest(PeerDegree(o), Len(cs) - start) |-> i - 1])
    IN FoldLeft(Batch, <<>>, [i \in 1..Steps(Len(cs), PeerDegree(o)) |-> (i - 1) * PeerDegree(o)])

TiledPeers(o) ==
    IF o.height <= Inner(o, o.size) /\ o.width <= Inner(o, o.size)
    THEN Component(o, 0, 0, o.height, o.width)
    ELSE Assembled(o, PeerRows(o), Outer(o, o.stride), Outer(o, o.size - o.stride))

(* The dispatch; without tiling several devices share the image by height  *)
(* (VaeNetwork).                                                           *)
TiledVae(o) == IF o.degree = 1 \/ ~o.tiling THEN NativeVae(o) ELSE TiledPeers(o)

-----------------------------------------------------------------------------
(* _temporal_tiled_encode, in frames: every tile but the first gives up    *)
(* the latent of its first frame, which it has only for context.           *)
LatentFrames(n, ratio) == (n - 1) \div ratio + 1

TimeTile(o, i) ==
    LET frames == Smallest(o.size + 1, o.frames - i)
        all == [k \in 1..LatentFrames(frames, o.ratio) |-> {i + (k - 1) * o.ratio}]
    IN IF i > 0 THEN Tail(all) ELSE all

BlendT(a, b, blend) ==
    LET extent == Smallest(Smallest(Len(a), Len(b)), blend)
    IN [k \in DOMAIN b |-> IF k > extent THEN b[k]
                           ELSE a[Len(a) - extent + k] \cup (IF k > 1 THEN b[k] ELSE {})]

TemporalEncode(o) ==
    LET count == Steps(o.frames, o.stride)
        keep == o.stride \div o.ratio
        blend == o.size \div o.ratio - keep
        B[k \in 1..count] == IF k = 1 THEN TimeTile(o, 0)
                             ELSE BlendT(B[k - 1], TimeTile(o, (k - 1) * o.stride), blend)
        first(s, n) == SubSeq(s, 1, Smallest(Len(s), n))
    IN first(FlattenSeq([k \in 1..count |-> first(B[k], IF k = 1 THEN keep + 1 ELSE keep)]),
             LatentFrames(o.frames, o.ratio))
=============================================================================
