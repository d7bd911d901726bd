---------------------------- MODULE UspAttention ----------------------------
(***************************************************************************)
(* Self-attention of the process pool: Ulysses exchanges heads for         *)
(* positions inside a row of ranks, Ring passes keys and values around a   *)
(* column (models/adapters/eraserdit/nccl_sequence.py, mesh.py,            *)
(* layers/attention/qkv_packing.py, ring_accumulator.py,                   *)
(* ulysses_policy.py).  A call c has the global length c.length, the       *)
(* degrees c.ulysses and c.ring, c.heads heads, the way of packing, the    *)
(* number of head chunks, whether their outputs are exchanged as they      *)
(* come, the ring's mode and the size of an accumulator tile.              *)
(***************************************************************************)
EXTENDS Integers, Sequences, TensorLayout
LOCAL INSTANCE SequencesExt

Degree(c) == c.ulysses * c.ring
SpRank(c, u, r) == u + c.ulysses * r

(* SequenceRank.partition refuses less than one position per rank.         *)
Start(c, s) == (c.length * s) \div Degree(c)
Length(c, s) == Start(c, s + 1) - Start(c, s)
RingStart(c, r) == (c.length * r) \div c.ring
RingLength(c, r) == RingStart(c, r + 1) - RingStart(c, r)

(* What a rank enters with: the query, key and value of its own positions. *)
Projections(c, s) == Tensor(3, Length(c, s), c.heads,
                            LAMBDA w, p, j : <<w, Start(c, s) + p, j>>)

-----------------------------------------------------------------------------
(* pack_qkv: what each index of the wire buffer is loaded from.            *)
PackQkv(t, degree, offset, count) ==
    LET destHeads == t.h \div degree
        Loaded(index) ==
            LET h == index % count
                l == (index \div count) % t.n
                component == (index \div (count * t.n)) % 3
                destination == index \div (count * t.n * 3)
            IN t.at[<<component, l, h + destination * destHeads + offset>>]
    IN [k \in 1..(3 * t.n * degree * count) |-> Loaded(k - 1)]

(* Reference packing: one contiguous copy per destination, concatenated.   *)
PackReference(t, degree, offset, count) ==
    LET destHeads == t.h \div degree
    IN FlattenSeq([d \in 1..degree |-> Flat(Heads(t, (d - 1) * destHeads + offset, count))])

Packed(c, t, offset, count) ==
    IF c.packing = "direct" THEN PackQkv(t, c.ulysses, offset, count)
    ELSE PackReference(t, c.ulysses, offset, count)

(* _ulysses_input, for the ranks u of row r: all positions of the row for  *)
(* `count` of the heads of each rank.                                      *)
RowLengths(c, r) == [v \in 1..c.ulysses |-> Length(c, SpRank(c, v - 1, r))]

UlyssesInput(c, r, offset, count) ==
    LET own(v) == Projections(c, SpRank(c, v - 1, r))
        n == RowLengths(c, r)
        sends == [v \in 1..c.ulysses |-> [w \in 1..c.ulysses |-> 3 * n[v] * count]]
        receives == [v \in 1..c.ulysses |-> [w \in 1..c.ulysses |-> 3 * n[w] * count]]
        wire == AllToAll([v \in 1..c.ulysses |-> Packed(c, own(v), offset, count)], sends)
    IN IF c.ulysses = 1 THEN [fits |-> TRUE, of |-> <<own(1)>>]
       ELSE [fits |-> CountsAgree(sends, receives),
             of |-> [v \in 1..c.ulysses |->
                       CatAll(CatPositions,
                              [w \in 1..c.ulysses |-> View(wire[v][w], 3, n[w], count)])]]

(* _ulysses_output: back to the rank's own positions, with all the heads.  *)
UlyssesOutput(c, r, values) ==
    LET n == RowLengths(c, r)
        packed(t) == FlattenSeq([v \in 1..c.ulysses |-> Flat(Positions(t, Offset(n, v), n[v]))])
        sends == [v \in 1..c.ulysses |-> [w \in 1..c.ulysses |-> n[w] * values[v].h]]
        receives == [v \in 1..c.ulysses |-> [w \in 1..c.ulysses |-> n[v] * values[v].h]]
        wire == AllToAll([v \in 1..c.ulysses |-> packed(values[v])], sends)
    IN IF c.ulysses = 1 THEN [fits |-> TRUE, of |-> values]
       ELSE [fits |-> CountsAgree(sends, receives),
             of |-> [v \in 1..c.ulysses |->
                       CatAll(CatHeads,
                              [w \in 1..c.ulysses |-> View(wire[v][w], 1, n[v], values[v].h)])]]

-----------------------------------------------------------------------------
(* Attention of the queries of one tensor over keys and values: a result   *)
(* is the query with the blocks of (key, value) pairs it has seen, in      *)
(* order.  One call of the backend sees everything as one block.           *)
Pairs(kv, j) == [i \in 1..kv.n |-> <<kv.at[<<1, i - 1, j>>], kv.at[<<2, i - 1, j>>]>>]

Attend(q, blocks(_)) == Tensor(1, q.n, q.h, LAMBDA w, p, j : <<q.at[<<0, p, j>>], blocks(j)>>)
OneBlock(kv, j) == <<Pairs(kv, j)>>

(* piece: the tiles of a fragment, from the last to the first.             *)
Tiles(pairs, size) ==
    LET count == (Len(pairs) + size - 1) \div size
    IN [b \in 1..count |->
          LET from == (count - b) * size
          IN SubSeq(pairs, from + 1, IF from + size < Len(pairs) THEN from + size ELSE Len(pairs))]

(* _rotate: every rank of the ring hands its fragment to the next one and  *)
(* has made room for one of the length of the owner before its own.        *)
NextOwner(c, owner) == (owner - 1) % c.ring
Rotate(c, held) ==
    [r \in 0..(c.ring - 1) |->
       LET sent == held[(r - 1) % c.ring].kv
           next == NextOwner(c, held[r].owner)
       IN [owner |-> next, kv |-> sent, fits |-> held[r].fits /\ sent.n = RingLength(c, next)]]

(* What each rank of a column holds after a number of hops.                *)
Held(c, first) ==
    LET hold[hop \in 0..(2 * c.ring - 2)] ==
          IF hop = 0 THEN [r \in 0..(c.ring - 1) |-> [owner |-> r, kv |-> first[r], fits |-> TRUE]]
          ELSE Rotate(c, hold[hop - 1])
    IN hold

(* ring_mode = "reference": all the fragments, concatenated by owner.      *)
Gathered(c, held, r) ==
    LET piece(owner) == (CHOOSE h \in {held[hop][r] : hop \in 0..(c.ring - 1)} : h.owner = owner).kv
    IN CatAll(CatPositions, [i \in 1..c.ring |-> piece(i - 1)])

(* ring_mode = "streaming": fragments in descending order of their owner,  *)
(* cut at multiples of the tile; what is cut off is carried to the next.   *)
Skip(begin, tile, length) ==
    LET over == (-begin) % tile IN IF over < length THEN over ELSE length

Consume(c, h, s) ==
    LET started == s.started \/ h.owner = c.ring - 1
        chunk == IF s.carry = <<>> THEN h.kv ELSE CatPositions(h.kv, s.carry[1])
        skip == Skip(RingStart(c, h.owner), c.tile, chunk.n)
        rest == Positions(chunk, skip, chunk.n - skip)
    IN IF ~started \/ s.finished THEN [s EXCEPT !.started = started]
       ELSE [started |-> TRUE, finished |-> h.owner = 0,
             carry |-> <<Positions(chunk, 0, skip)>>,
             seen |-> IF chunk.n > skip
                      THEN [j \in 0..(chunk.h - 1) |-> s.seen[j] \o Tiles(Pairs(rest, j), c.tile)]
                      ELSE s.seen]

Streamed(c, held, r) ==
    LET heads == held[0][r].kv.h
        state[hop \in 0..(2 * c.ring - 1)] ==
          IF hop = 0 THEN [started |-> FALSE, finished |-> FALSE, carry |-> <<>>,
                           seen |-> [j \in 0..(heads - 1) |-> <<>>]]
          ELSE Consume(c, held[hop - 1][r], state[hop - 1])
    IN state[2 * c.ring - 1]

(* ring_mode = "online": partial results merged in the order of arrival.   *)
Merged(c, held, r, j) == [hop \in 1..c.ring |-> Pairs(held[hop - 1][r].kv, j)]

(* What a rank of the ring has seen of each head between the exchanges.    *)
Seen(c, held, r) ==
    LET q == held[0][r].kv
    IN [j \in 0..(q.h - 1) |->
          CASE c.ring = 1 -> OneBlock(q, j)
            [] c.ring > 1 /\ c.mode = "reference" -> OneBlock(Gathered(c, held, r), j)
            [] c.ring > 1 /\ c.mode = "streaming" -> Streamed(c, held, r).seen[j]
            [] c.ring > 1 /\ c.mode = "online" -> Merged(c, held, r, j)]

Finished(c, held, r) == c.ring > 1 /\ c.mode = "streaming" => Streamed(c, held, r).finished

-----------------------------------------------------------------------------
(* attention, _head_chunk_attention and _head_input_output_pipeline: the   *)
(* verdict, and every rank's result by row and by rank of the row.         *)
Rows(c) == 0..(c.ring - 1)

Whole(c) ==
    LET rows == [r \in Rows(c) |-> UlyssesInput(c, r, 0, c.heads \div c.ulysses)]
        columns == [v \in 1..c.ulysses |-> Held(c, [r \in Rows(c) |-> rows[r].of[v]])]
        last == 2 * c.ring - 2
        inner(r) == [v \in 1..c.ulysses |-> LET seen == Seen(c, columns[v], r)
                                            IN Attend(rows[r].of[v], LAMBDA j : seen[j])]
        out == [r \in Rows(c) |-> UlyssesOutput(c, r, inner(r))]
    IN [verdict |-> IF \E r \in Rows(c), v \in 1..c.ulysses :
                          ~rows[r].fits \/ ~columns[v][last][r].fits \/ ~out[r].fits
                    THEN "mismatch"
                    ELSE IF \E r \in Rows(c), v \in 1..c.ulysses : ~Finished(c, columns[v], r)
                    THEN "unfinished" ELSE "ok",
        of |-> [r \in Rows(c) |-> out[r].of]]

(* The heads of every rank in chunks; only without a ring.                 *)
ChunkHeads(c) == (c.heads \div c.ulysses) \div c.chunks
ChunkResults(c) ==
    [i \in 1..c.chunks |->
       LET in == UlyssesInput(c, 0, (i - 1) * ChunkHeads(c), ChunkHeads(c))
       IN [v \in 1..c.ulysses |-> Attend(in.of[v], LAMBDA j : OneBlock(in.of[v], j))]]

Chunked(c) ==
    LET parts == ChunkResults(c)
    IN UlyssesOutput(c, 0, [v \in 1..c.ulysses |->
                              CatAll(CatHeads, [i \in 1..c.chunks |-> parts[i][v]])]).of

(* Exchanged chunk by chunk: rank-major, then chunk-major head order.      *)
Mut_Reorder(c, outputs) ==
    LET size == ChunkHeads(c)
    IN Tensor(1, outputs[1].n, c.heads,
              LAMBDA w, p, j :
                outputs[j \div (c.ulysses * size) + 1].at[<<0, p, j % (c.ulysses * size)>>])
Reorder(c, outputs) ==
    LET size == ChunkHeads(c)
    IN Tensor(1, outputs[1].n, c.heads,
              LAMBDA w, p, j :
                LET rank == j \div (c.chunks * size)
                    chunk == (j \div size) % c.chunks
                IN outputs[chunk + 1].at[<<0, p, rank * size + (j % size)>>])

Pipelined(c) ==
    LET parts == ChunkResults(c)
        out == [i \in 1..c.chunks |-> UlyssesOutput(c, 0, parts[i]).of]
    IN [v \in 1..c.ulysses |-> Reorder(c, [i \in 1..c.chunks |-> out[i][v]])]

(* select_head_chunks: the measured profiles, on every rank by itself.     *)
SelectHeadChunks(c, local, profiles) ==
    IF \/ Degree(c) \notin {2, 4} \/ c.packing /= "direct" \/ c.ring /= 1
       \/ c.length \notin {profiles.short, profiles.long} \/ local * Degree(c) /= c.length
    THEN 1
    ELSE IF Degree(c) = 4 /\ c.length = profiles.short THEN 2 ELSE 4

Refused(c) == \/ c.length < Degree(c)
              \/ c.heads % c.ulysses /= 0
              \/ /\ c.chunks > 1
                 /\ \/ c.packing /= "direct" \/ c.ulysses < 2 \/ c.ring /= 1
                    \/ c.heads % (c.ulysses * c.chunks) /= 0

Attention(c) ==
    IF Refused(c) THEN [verdict |-> "refused", of |-> <<>>]
    ELSE IF c.chunks = 1 THEN Whole(c)
    ELSE [verdict |-> "ok", of |-> [r \in {0} |-> IF c.overlap THEN Pipelined(c) ELSE Chunked(c)]]
=============================================================================
