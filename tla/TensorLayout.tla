---------------------------- MODULE TensorLayout ----------------------------
(***************************************************************************)
(* The tensor operations the exchanges are built from.  A tensor has three *)
(* axes that matter: the component w (query, key, value stacked along the  *)
(* batch), the position p and the head h; batch and head dimension only    *)
(* repeat what happens to them.  Memory is a sequence, row by row.         *)
(***************************************************************************)
LOCAL INSTANCE Integers
LOCAL INSTANCE Sequences
LOCAL INSTANCE SequencesExt

Tensor(w, n, h, Elem(_, _, _)) ==
    [w |-> w, n |-> n, h |-> h,
     at |-> [x \in (0..(w - 1)) \X (0..(n - 1)) \X (0..(h - 1)) |-> Elem(x[1], x[2], x[3])]]

(* contiguous().flatten() and view(w, n, h)                                *)
Flat(t) == [k \in 1..(t.w * t.n * t.h) |->
              t.at[<<(k - 1) \div (t.n * t.h), ((k - 1) \div t.h) % t.n, (k - 1) % t.h>>]]
View(s, w, n, h) == Tensor(w, n, h, LAMBDA i, p, j : s[i * n * h + p * h + j + 1])

(* narrow along an axis                                                    *)
Components(t, from, count) == Tensor(count, t.n, t.h, LAMBDA i, p, j : t.at[<<from + i, p, j>>])
Positions(t, from, count) == Tensor(t.w, count, t.h, LAMBDA i, p, j : t.at[<<i, from + p, j>>])
Heads(t, from, count) == Tensor(t.w, t.n, count, LAMBDA i, p, j : t.at[<<i, p, from + j>>])

(* torch.cat along an axis                                                 *)
CatPositions(a, b) ==
    Tensor(a.w, a.n + b.n, a.h,
           LAMBDA i, p, j : IF p < a.n THEN a.at[<<i, p, j>>] ELSE b.at[<<i, p - a.n, j>>])
CatHeads(a, b) ==
    Tensor(a.w, a.n, a.h + b.h,
           LAMBDA i, p, j : IF j < a.h THEN a.at[<<i, p, j>>] ELSE b.at[<<i, p, j - a.h>>])
CatAll(Cat(_, _), ts) == FoldLeft(Cat, Head(ts), Tail(ts))

(* all_to_all_single: rank i receives from rank j the part j has packed    *)
(* for it.  Both sides state how long that part is, and must agree.        *)
Offset(counts, i) == FoldLeft(LAMBDA a, b : a + b, 0, SubSeq(counts, 1, i - 1))
CountsAgree(sends, receives) == \A i, j \in DOMAIN sends : receives[i][j] = sends[j][i]
AllToAll(packed, sends) ==
    [i \in DOMAIN packed |-> [j \in DOMAIN packed |->
       SubSeq(packed[j], Offset(sends[j], i) + 1, Offset(sends[j], i) + sends[j][i])]]
=============================================================================
