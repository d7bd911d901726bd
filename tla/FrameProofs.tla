----------------------------- MODULE FrameProofs -----------------------------
(***************************************************************************)
(* The way of the frames to the encoder.  FrameStore: whatever options     *)
(* replace copies by transfers of ownership, a window reads the decoded    *)
(* frames and the encoder receives what the plan says, for every video,    *)
(* every size of the windows and every request.  VideoWriter: the writer   *)
(* implements FrameSink for every queue depth, any number of blocks and    *)
(* any size of the batches.                                                *)
(***************************************************************************)
EXTENDS FrameStore, VideoWriter, FiniteSetTheorems, TLAPS

WF == INSTANCE WellFoundedInduction

-----------------------------------------------------------------------------
(***************************************************************************)
(* Numbers and sequences.                                                  *)
(***************************************************************************)

\* Max and Min of two numbers.
LEMMA MaxOf ==
    ASSUME NEW a \in Int, NEW b \in Int
    PROVE  Max({a, b}) = IF a >= b THEN a ELSE b
<1>1. \E x \in {a, b} : \A y \in {a, b} : x >= y
  OBVIOUS
<1> QED BY <1>1 DEF Max

\* The smaller of two numbers.
LEMMA MinOf ==
    ASSUME NEW a \in Int, NEW b \in Int
    PROVE  Min({a, b}) = IF a <= b THEN a ELSE b
<1>1. \E x \in {a, b} : \A y \in {a, b} : x <= y
  OBVIOUS
<1> QED BY <1>1 DEF Min

\* A set of natural numbers has a least one.
LEMMA LeastNumber ==
    ASSUME NEW T, T \subseteq Nat, T # {}
    PROVE  \E n \in T : \A m \in T : n <= m
<1> DEFINE R == WF!OpToRel(<, Nat)
<1>1. WF!IsWellFoundedOn(R, Nat)
  BY WF!NatLessThanWellFounded
<1>2. \A a, b \in Nat : a < b => <<a, b>> \in R
  BY DEF WF!OpToRel
<1> HIDE DEF R
<1>3. PICK x \in T : \A y \in T : ~(<<y, x>> \in R)
  BY <1>1, WF!WFMin
<1>4. ASSUME NEW m \in T PROVE x <= m
  <2>1. x \in Nat /\ m \in Nat /\ ~(m < x)
    BY <1>2, <1>3
  <2> QED BY <2>1
<1> QED BY <1>4

\* Induction, over the numbers for which something holds.
LEMMA SetInduction ==
    ASSUME NEW S, 0 \in S, \A n \in Nat : n \in S => n + 1 \in S
    PROVE  \A n \in Nat : n \in S
<1> SUFFICES ASSUME NEW k \in Nat, k \notin S PROVE FALSE
  OBVIOUS
<1> DEFINE T == {n \in Nat : n \notin S}
<1>1. PICK n \in T : \A m \in T : n <= m
  <2>1. T \subseteq Nat /\ T # {}
    OBVIOUS
  <2> HIDE DEF T
  <2> QED BY <2>1, LeastNumber
<1>2. n # 0 /\ n - 1 \in Nat /\ n - 1 \in S
  BY <1>1
<1> QED BY <1>1, <1>2

\* The entries of two sequences joined.
LEMMA JoinFacts ==
    ASSUME NEW S, NEW s \in Seq(S), NEW t \in Seq(S)
    PROVE  /\ s \o t \in Seq(S) /\ Len(s \o t) = Len(s) + Len(t)
           /\ Len(s) \in Nat /\ Len(t) \in Nat
           /\ \A i \in 1..Len(s) : (s \o t)[i] = s[i]
           /\ \A i \in 1..Len(t) : (s \o t)[Len(s) + i] = t[i]
OBVIOUS

\* A part of a sequence.
LEMMA PartFacts ==
    ASSUME NEW S, NEW s \in Seq(S), NEW a \in Int, NEW b \in Int, 0 < a, b <= Len(s), a <= b + 1
    PROVE  /\ SubSeq(s, a, b) \in Seq(S) /\ Len(SubSeq(s, a, b)) = b - a + 1
           /\ \A i \in 1..(b - a + 1) : SubSeq(s, a, b)[i] = s[a + i - 1]
<1>1. Len(s) \in Nat /\ \A i \in a..b : s[i] \in S
  OBVIOUS
<1> QED BY <1>1

\* A sequence given by its entries.
LEMMA ListFacts ==
    ASSUME NEW S, NEW n \in Nat, NEW f, f = [i \in 1..n |-> f[i]], \A i \in 1..n : f[i] \in S
    PROVE  f \in Seq(S) /\ Len(f) = n /\ DOMAIN f = 1..n
OBVIOUS

-----------------------------------------------------------------------------
(***************************************************************************)
(* The windows of a video.                                                 *)
(***************************************************************************)

\* The sizes are numbers that fit together.
LEMMA Sizes ==
    /\ NumFrames \in Nat \ {0} /\ InferLen \in Nat \ {0} /\ Overlap \in Nat
    /\ Overlap < InferLen
    /\ NumFrames \in Int /\ InferLen \in Int /\ Overlap \in Int
BY StoreAssumption

\* A scene that lasts to the end of the video.
SceneSet == {s \in Nat \X Nat : s[2] > 0 /\ s[1] + s[2] = NumFrames}

\* A window loads what it deals with and what it overlaps with, and keeps something.
WindowOK(w) ==
    /\ w.load_start <= w.deal_start /\ w.deal_start < w.commit_end
    /\ w.commit_end = w.load_end /\ w.load_end <= NumFrames
    /\ w.load_end - w.load_start <= InferLen
    /\ w.overlap_left = w.deal_start - w.load_start
    /\ w.load_start < StableEnd(w)

WindowSet == {w \in [scene : Nat, load_start : Nat, load_end : Nat, deal_start : Nat,
                     commit_end : Nat, overlap_left : Nat, overlap_right : Nat] : WindowOK(w)}

\* What is known of the window that begins at new.
LEMMA WindowFacts ==
    ASSUME NEW s \in SceneSet, NEW index \in Nat, NEW new \in Nat,
           new < s[1] + s[2]
    PROVE  LET w == Window(s, index, new)
               end == s[1] + s[2]
           IN /\ w.scene = index /\ w.deal_start = new
              /\ w.commit_end \in (new + 1)..end
              /\ w.load_start = IF new > s[1] THEN new - Overlap ELSE new
              /\ w.commit_end < end => w.overlap_right = Overlap
              /\ w.commit_end = end => w.overlap_right = 0
              /\ new = s[1] \/ new >= s[1] + InferLen =>
                    /\ w \in WindowSet
                    /\ w.commit_end = end \/ w.commit_end >= s[1] + InferLen
<1> DEFINE w == Window(s, index, new)
           a == s[1]
           b == s[2]
           end == a + b
           left == IF new > a THEN Overlap ELSE 0
           need == Max({1, InferLen - left})
           deal == Min({need, end - new})
           load == Min({NumFrames - new, need})
           right == IF new + deal < end THEN Overlap ELSE 0
<1>1. a \in Nat /\ b \in Nat /\ b > 0 /\ end = NumFrames /\ new < end
  BY DEF SceneSet
<1>2. w = [scene |-> index, load_start |-> new - left, load_end |-> new + load,
           deal_start |-> new, commit_end |-> new + deal, overlap_left |-> left,
           overlap_right |-> right]
  BY DEF Window
<1> HIDE DEF w, a, b
<1>3. left \in Nat /\ left < InferLen /\ InferLen - left \in Int /\ InferLen - left >= 1
  BY <1>1, Sizes
<1>4. need = InferLen - left
  <2> HIDE DEF left
  <2> QED BY <1>3, MaxOf
<1>5. deal = IF need <= end - new THEN need ELSE end - new
  <2>1. need \in Int /\ end - new \in Int
    BY <1>1, <1>3, <1>4
  <2> HIDE DEF need, end
  <2> QED BY <2>1, MinOf
<1>6. load = IF NumFrames - new <= need THEN NumFrames - new ELSE need
  <2>1. need \in Int /\ NumFrames - new \in Int
    BY <1>1, <1>3, <1>4, Sizes
  <2> HIDE DEF need
  <2> QED BY <2>1, MinOf
<1>7. left = IF new > a THEN Overlap ELSE 0
  OBVIOUS
<1>8. right = IF new + deal < end THEN Overlap ELSE 0
  OBVIOUS
<1>9. end = a + b
  OBVIOUS
<1> HIDE DEF left, need, deal, load, right, end
<1>10. w.scene = index /\ w.deal_start = new /\ w.commit_end = new + deal /\ w.load_start = new - left
       /\ w.load_end = new + load /\ w.overlap_left = left /\ w.overlap_right = right
  BY <1>2
<1>11. deal \in Nat /\ deal >= 1 /\ new + deal <= end /\ load \in Nat /\ deal <= load /\ new + load <= NumFrames
       /\ load <= InferLen - left /\ load = deal
  BY <1>1, <1>3, <1>4, <1>5, <1>6, <1>9, Sizes
<1>12. w.commit_end \in (new + 1)..end
  BY <1>1, <1>9, <1>10, <1>11
<1>13. w.load_start = IF new > a THEN new - Overlap ELSE new
  BY <1>1, <1>7, <1>10
<1>14. (w.commit_end < end => w.overlap_right = Overlap) /\ (w.commit_end = end => w.overlap_right = 0)
  <2>1. end \in Int /\ (new + deal = end => ~(new + deal < end))
    BY <1>1, <1>9
  <2> QED BY <1>8, <1>10, <2>1
<1>15. ASSUME new = a \/ new >= a + InferLen
       PROVE  w \in WindowSet /\ (w.commit_end = end \/ w.commit_end >= a + InferLen)
  <2>1. left <= new - a
    BY <1>1, <1>7, <1>15, Sizes
  <2>2. new - left \in Nat /\ new + load \in Nat /\ new + deal \in Nat /\ right \in Nat
    BY <1>1, <1>3, <1>8, <1>11, <2>1, Sizes
  <2>3. w \in [scene : Nat, load_start : Nat, load_end : Nat, deal_start : Nat,
               commit_end : Nat, overlap_left : Nat, overlap_right : Nat]
    BY <1>2, <1>3, <2>2
  <2>4. CASE deal = need
    <3>1. w.commit_end - w.load_start = InferLen
      BY <1>1, <1>3, <1>4, <1>10, <2>4, Sizes
    <3>2. w.load_start < w.commit_end - w.overlap_right
      BY <1>8, <1>10, <2>2, <3>1, Sizes
    <3>3. w.commit_end >= a + InferLen
      BY <1>1, <1>3, <1>4, <1>10, <2>1, <3>1, <2>2, Sizes
    <3>4. WindowOK(w)
      BY <1>1, <1>3, <1>10, <1>11, <2>2, <3>2, Sizes DEF WindowOK, StableEnd
    <3> QED BY <2>3, <3>3, <3>4 DEF WindowSet
  <2>5. CASE deal # need
    <3>1. new + deal = end /\ right = 0
      BY <1>1, <1>5, <1>8, <1>9, <2>5
    <3>2. WindowOK(w)
      BY <1>1, <1>3, <1>10, <1>11, <2>2, <3>1, Sizes DEF WindowOK, StableEnd
    <3> QED BY <1>10, <2>3, <3>1, <3>2 DEF WindowSet
  <2> QED BY <2>4, <2>5
<1> QED BY <1>10, <1>12, <1>13, <1>14, <1>15 DEF w, a, b, end

\* f solves the recursion that takes the entries of first and goes on where jump says.
Descends(f, n, e, first, jump) ==
    f = [i \in 0..n |-> IF i >= e THEN <<>> ELSE first[i] \o f[jump[i]]]

\* A recursion that jumps upwards has a solution.
LEMMA CanDescend ==
    ASSUME NEW n \in Nat, NEW e \in Int, NEW first, NEW jump,
           \A i \in 0..n : i < e => jump[i] \in (i + 1)..n
    PROVE  \E f : Descends(f, n, e, first, jump)
<1> DEFINE Rule(f, m) == f = [i \in (n - m)..n |-> IF i >= e THEN <<>> ELSE first[i] \o f[jump[i]]]
           Exists == {m \in Nat : m <= n => \E f : Rule(f, m)}
<1>1. 0 \in Exists
  <2> DEFINE f == [i \in n..n |-> <<>>]
             h == [i \in n..n |-> IF i >= e THEN <<>> ELSE first[i] \o f[jump[i]]]
  <2>1. n - 0 = n
    OBVIOUS
  <2>2. ASSUME NEW i \in n..n PROVE f[i] = h[i]
    <3>1. i = n /\ i \in 0..n
      OBVIOUS
    <3>2. ~(i < e)
      <4> SUFFICES ASSUME i < e PROVE FALSE
        BY <3>1
      <4>1. jump[i] \in (i + 1)..n
        BY <3>1
      <4> QED BY <3>1, <4>1
    <3>3. i >= e
      BY <3>1, <3>2
    <3> QED BY <3>3
  <2>3. f = h
    BY <2>2
  <2>4. Rule(f, 0)
    BY <2>1, <2>3
  <2> HIDE DEF f
  <2> QED BY <2>4
<1>2. ASSUME NEW m \in Nat, m \in Exists PROVE m + 1 \in Exists
  <2> SUFFICES ASSUME m + 1 <= n PROVE \E f : Rule(f, m + 1)
    <3> HIDE DEF Rule
    <3> QED OBVIOUS
  <2>1. PICK f : Rule(f, m)
    <3> HIDE DEF Rule
    <3> QED BY <1>2
  <2> DEFINE low == n - (m + 1)
             h == [i \in low..n |-> IF i = low THEN IF low >= e THEN <<>> ELSE first[low] \o f[jump[low]]
                                    ELSE f[i]]
             k == [i \in low..n |-> IF i >= e THEN <<>> ELSE first[i] \o h[jump[i]]]
  <2>2. low \in Nat /\ low \in 0..n /\ n - m = low + 1
    OBVIOUS
  <2>3. ASSUME NEW i \in low..n, i < e PROVE h[jump[i]] = f[jump[i]]
    <3>1. i \in 0..n
      BY <2>2
    <3>2. jump[i] \in (i + 1)..n
      BY <2>3, <3>1
    <3> DEFINE j == jump[i]
    <3> HIDE DEF j
    <3>3. j \in low..n /\ j # low
      BY <2>2, <3>2 DEF j
    <3>4. h[j] = f[j]
      BY <3>3
    <3> QED BY <3>4 DEF j
  <2>4. ASSUME NEW i \in low..n PROVE h[i] = k[i]
    <3>1. CASE i = low
      <4>1. h[i] = IF i >= e THEN <<>> ELSE first[i] \o f[jump[i]]
        BY <3>1
      <4>2. k[i] = IF i >= e THEN <<>> ELSE first[i] \o h[jump[i]]
        OBVIOUS
      <4>3. ~(i >= e) => i < e
        BY <2>2
      <4> HIDE DEF h, k
      <4> QED BY <2>3, <4>1, <4>2, <4>3
    <3>2. CASE i # low
      <4>1. i \in (n - m)..n
        BY <2>2, <3>2
      <4>2. f[i] = IF i >= e THEN <<>> ELSE first[i] \o f[jump[i]]
        BY <2>1, <4>1
      <4>3. h[i] = f[i]
        BY <3>2
      <4>4. k[i] = IF i >= e THEN <<>> ELSE first[i] \o h[jump[i]]
        OBVIOUS
      <4>5. ~(i >= e) => i < e
        BY <2>2
      <4> HIDE DEF h, k
      <4> QED BY <2>3, <4>2, <4>3, <4>4, <4>5
    <3> QED BY <3>1, <3>2
  <2>5. h = k
    BY <2>4
  <2>6. Rule(h, m + 1)
    BY <2>5
  <2> HIDE DEF h
  <2> QED BY <2>6
<1>3. n \in Exists
  <2> HIDE DEF Exists
  <2> QED BY <1>1, <1>2, SetInduction
<1>4. PICK f : Rule(f, n)
  <2> HIDE DEF Rule
  <2> QED BY <1>3
<1>5. n - n = 0
  OBVIOUS
<1>6. f = [i \in 0..n |-> IF i >= e THEN <<>> ELSE first[i] \o f[jump[i]]]
  BY <1>4, <1>5
<1>7. Descends(f, n, e, first, jump)
  BY <1>6 DEF Descends
<1> QED BY <1>7

\* w goes on in the scene of v, where v has stopped being final.
GoesOnFrom(v, w) ==
    w.scene = v.scene /\ w.deal_start = v.commit_end /\ w.load_start = StableEnd(v)

\* The windows p of a scene from frame n on, up to its end.
Reaches(p, s, index, n) ==
    /\ p \in Seq(WindowSet) /\ Len(p) > 0
    /\ \A k \in 1..Len(p) : p[k].scene = index
    /\ p[1].deal_start = n /\ p[1].load_start = IF n > s[1] THEN n - Overlap ELSE n
    /\ \A k \in 2..Len(p) : GoesOnFrom(p[k - 1], p[k])
    /\ p[Len(p)].commit_end = s[1] + s[2] /\ p[Len(p)].overlap_right = 0

\* A window put before the windows that go on from it.
LEMMA OneMore ==
    ASSUME NEW s, NEW index, NEW n, NEW w \in WindowSet, NEW p, NEW m,
           Reaches(p, s, index, m), w.scene = index, w.deal_start = n, w.commit_end = m,
           w.load_start = IF n > s[1] THEN n - Overlap ELSE n,
           p[1].load_start = StableEnd(w)
    PROVE  Reaches(<<w>> \o p, s, index, n)
<1> DEFINE q == <<w>> \o p
<1>1. p \in Seq(WindowSet) /\ Len(p) \in Nat /\ Len(p) > 0
  BY DEF Reaches
<1>2. <<w>> \in Seq(WindowSet) /\ Len(<<w>>) = 1 /\ <<w>>[1] = w
  OBVIOUS
<1>3. /\ q \in Seq(WindowSet) /\ Len(q) = 1 + Len(p)
      /\ \A i \in 1..Len(<<w>>) : q[i] = <<w>>[i]
      /\ \A i \in 1..Len(p) : q[Len(<<w>>) + i] = p[i]
  <2> HIDE DEF WindowSet
  <2> QED BY <1>1, <1>2, JoinFacts
<1> HIDE DEF q
<1>4. q[1] = w /\ \A i \in 1..Len(p) : q[1 + i] = p[i]
  BY <1>2, <1>3
<1>5. \A k \in 2..Len(q) : k - 1 \in 1..Len(p) /\ q[k] = p[k - 1]
  <2> TAKE k \in 2..Len(q)
  <2>1. k - 1 \in 1..Len(p) /\ 1 + (k - 1) = k
    BY <1>1, <1>3
  <2> QED BY <1>4, <2>1
<1>6. \A k \in 1..Len(q) : q[k].scene = index
  <2> TAKE k \in 1..Len(q)
  <2>1. CASE k = 1
    BY <1>4, <2>1
  <2>2. CASE k # 1
    <3>1. k \in 2..Len(q)
      BY <1>1, <1>3, <2>2
    <3> QED BY <1>5, <3>1 DEF Reaches
  <2> QED BY <2>1, <2>2
<1>7. \A k \in 2..Len(q) : GoesOnFrom(q[k - 1], q[k])
  <2> TAKE k \in 2..Len(q)
  <2>1. CASE k = 2
    <3>1. q[k] = p[1] /\ q[k - 1] = w
      BY <1>4, <1>5, <2>1
    <3>2. p[1].scene = index /\ p[1].deal_start = m
      BY <1>1 DEF Reaches
    <3> QED BY <3>1, <3>2 DEF GoesOnFrom
  <2>2. CASE k # 2
    <3>1. k - 1 \in 2..Len(q) /\ k - 1 \in 2..Len(p)
      BY <1>1, <1>3, <2>2
    <3>2. q[k] = p[k - 1] /\ q[k - 1] = p[(k - 1) - 1]
      BY <1>5, <3>1
    <3> QED BY <3>1, <3>2 DEF Reaches
  <2> QED BY <2>1, <2>2
<1>8. q[Len(q)] = p[Len(p)]
  <2>1. Len(p) \in 1..Len(p) /\ Len(q) = 1 + Len(p)
    BY <1>1, <1>3
  <2> QED BY <1>4, <2>1
<1>9. Len(q) > 0
  BY <1>1, <1>3
<1> QED BY <1>3, <1>4, <1>6, <1>7, <1>8, <1>9 DEF Reaches, q

\* The last window alone.
LEMMA LastOne ==
    ASSUME NEW s, NEW index, NEW n, NEW w \in WindowSet, w.scene = index, w.deal_start = n,
           w.load_start = IF n > s[1] THEN n - Overlap ELSE n,
           w.commit_end = s[1] + s[2], w.overlap_right = 0
    PROVE  Reaches(<<w>> \o <<>>, s, index, n)
<1> DEFINE q == <<w>> \o <<>>
<1>1. q \in Seq(WindowSet) /\ Len(q) = 1 /\ q[1] = w
  <2> HIDE DEF WindowSet
  <2> QED OBVIOUS
<1> HIDE DEF q
<1>2. \A k \in 1..Len(q) : q[k] = w
  BY <1>1
<1>3. \A k \in 2..Len(q) : FALSE
  BY <1>1
<1> QED BY <1>1, <1>2, <1>3 DEF Reaches, q

\* The windows of a scene.
LEMMA SceneIsCut ==
    ASSUME NEW s \in SceneSet, NEW index \in Nat
    PROVE  Reaches(SceneWindows(s, index), s, index, s[1])
<1> DEFINE end == s[1] + s[2]
           W(n) == Window(s, index, n)
           first == [n \in 0..NumFrames |-> <<W(n)>>]
           jump == [n \in 0..NumFrames |-> W(n).commit_end]
           Rule(f) == f = [n \in 0..NumFrames |-> IF n >= end THEN <<>> ELSE <<W(n)>> \o f[W(n).commit_end]]
           from == CHOOSE f : Rule(f)
<1>1. s[1] \in Nat /\ s[2] \in Nat /\ s[2] > 0 /\ end = NumFrames /\ end \in Int
  BY Sizes DEF SceneSet
<1>2. SceneWindows(s, index) = from[s[1]]
  BY DEF SceneWindows
<1>3. \A n \in 0..NumFrames : n < end => W(n).commit_end \in (n + 1)..NumFrames
  <2> SUFFICES ASSUME NEW n \in 0..NumFrames, n < end PROVE W(n).commit_end \in (n + 1)..NumFrames
    OBVIOUS
  <2>1. n \in Nat
    OBVIOUS
  <2>2. W(n).commit_end \in (n + 1)..end
    BY <2>1, WindowFacts
  <2> QED BY <1>1, <2>1, <2>2, Sizes
<1> HIDE DEF W, end
<1>4. Rule(from)
  <2>1. PICK f : Descends(f, NumFrames, end, first, jump)
    <3>1. \A n \in 0..NumFrames : n < end => jump[n] \in (n + 1)..NumFrames
      BY <1>3
    <3>2. NumFrames \in Nat /\ end \in Int
      BY <1>1, Sizes
    <3> HIDE DEF first, jump
    <3> QED BY <3>1, <3>2, CanDescend
  <2>2. \A n \in 0..NumFrames : first[n] = <<W(n)>> /\ jump[n] = W(n).commit_end
    OBVIOUS
  <2>3. Rule(f)
    <3> HIDE DEF first, jump
    <3> QED BY <2>1, <2>2 DEF Descends
  <2> HIDE DEF Rule
  <2> QED BY <2>3
<1> HIDE DEF from, first, jump
<1>5. \A n \in 0..NumFrames : from[n] = IF n >= end THEN <<>> ELSE <<W(n)>> \o from[W(n).commit_end]
  BY <1>4
<1> DEFINE Place(n) == n \in Nat /\ n < end /\ (n = s[1] \/ n >= s[1] + InferLen)
           Good == {m \in Nat : \A n \in Nat : Place(n) /\ end - n <= m => Reaches(from[n], s, index, n)}
<1>6. 0 \in Good
  BY <1>1
<1>7. ASSUME NEW m \in Nat, m \in Good PROVE m + 1 \in Good
  <2> SUFFICES ASSUME NEW n \in Nat, Place(n), end - n <= m + 1 PROVE Reaches(from[n], s, index, n)
    OBVIOUS
  <2>1. n \in 0..NumFrames /\ n < end /\ ~(n >= end)
    BY <1>1, Sizes
  <2> DEFINE w == W(n)
  <2>2. /\ w.scene = index /\ w.deal_start = n /\ w.commit_end \in (n + 1)..end
        /\ w.load_start = IF n > s[1] THEN n - Overlap ELSE n
        /\ w.commit_end < end => w.overlap_right = Overlap
        /\ w.commit_end = end => w.overlap_right = 0
        /\ w \in WindowSet /\ (w.commit_end = end \/ w.commit_end >= s[1] + InferLen)
    BY <2>1, WindowFacts DEF W, end
  <2> HIDE DEF w
  <2>3. from[n] = <<w>> \o from[w.commit_end]
    BY <1>5, <2>1 DEF w
  <2>4. CASE w.commit_end = end
    <3>1. from[end] = <<>>
      <4>1. end \in 0..NumFrames /\ end >= end
        BY <1>1, <2>1, Sizes
      <4> QED BY <1>5, <4>1
    <3>2. from[n] = <<w>> \o <<>>
      BY <2>3, <2>4, <3>1
    <3>3. w.commit_end = s[1] + s[2] /\ w.overlap_right = 0
      BY <2>2, <2>4 DEF end
    <3> QED BY <2>2, <3>2, <3>3, LastOne
  <2>5. CASE w.commit_end # end
    <3> DEFINE c == w.commit_end
    <3>1. c \in Nat /\ c < end /\ c >= s[1] + InferLen /\ c > n /\ end - c <= m
      BY <1>1, <2>2, <2>5
    <3> HIDE DEF c
    <3>2. Reaches(from[c], s, index, c)
      BY <1>7, <3>1
    <3>3. c > s[1]
      BY <1>1, <3>1, Sizes
    <3>4. from[c][1].load_start = c - Overlap
      BY <3>2, <3>3 DEF Reaches
    <3>5. StableEnd(w) = c - Overlap
      BY <2>2, <3>1, <1>1 DEF StableEnd, c
    <3>6. from[c][1].load_start = StableEnd(w) /\ w.commit_end = c
      BY <3>4, <3>5 DEF c
    <3>7. Reaches(<<w>> \o from[c], s, index, n)
      BY <2>2, <3>2, <3>6, OneMore
    <3> QED BY <2>3, <3>7 DEF c
  <2> QED BY <2>4, <2>5
<1> HIDE DEF Good
<1>8. \A m \in Nat : m \in Good
  BY <1>6, <1>7, SetInduction
<1>9. end - s[1] \in Nat /\ Place(s[1])
  BY <1>1 DEF end
<1>10. end - s[1] \in Good
  BY <1>8, <1>9
<1>11. end - s[1] <= end - s[1] /\ s[1] \in Nat
  BY <1>1, <1>9
<1>12. Reaches(from[s[1]], s, index, s[1])
  BY <1>9, <1>10, <1>11 DEF Good
<1> QED BY <1>2, <1>12

\* The frames window k loads begin, those it deals with begin: where the windows before it have
\* stopped being final, and where they end.
LoadStart(k) == IF k <= Len(Windows) THEN Windows[k].load_start ELSE NumFrames
DealStart(k) == IF k = 1 THEN 0 ELSE Windows[k - 1].commit_end

\* The windows of the video are those of one scene.
LEMMA OneScene == Reaches(Windows, <<0, NumFrames>>, 1, 0)
<1> DEFINE video == <<0, NumFrames>>
<1>1. video \in SceneSet /\ video[1] = 0 /\ 1 \in Nat
  BY Sizes DEF SceneSet
<1>2. NormalizeScenes(<<>>) = << video >>
  <2> DEFINE Rule(f) == f = [i \in 0..Len(<<>>) |-> IF i = 0 THEN <<>> ELSE
                 f[i - 1] \o (IF <<>>[i][2] > 0 /\ <<>>[i][1] < NumFrames
                              THEN << <<Max({0, <<>>[i][1]}), Min({<<>>[i][2], NumFrames - Max({0, <<>>[i][1]})})>> >>
                              ELSE <<>>)]
             upTo == CHOOSE f : Rule(f)
             none == [i \in 0..0 |-> <<>>]
  <2>1. Len(<<>>) = 0 /\ \A i \in 0..0 : i = 0
    OBVIOUS
  <2>2. Rule(none)
    BY <2>1
  <2>3. Rule(upTo)
    <3> HIDE DEF Rule, none
    <3> QED BY <2>2
  <2>4. upTo[0] = <<>>
    <3> HIDE DEF upTo
    <3> QED BY <2>1, <2>3
  <2> HIDE DEF Rule
  <2>5. NormalizeScenes(<<>>) = IF upTo[Len(<<>>)] = <<>> THEN << video >> ELSE upTo[Len(<<>>)]
    BY DEF NormalizeScenes, Rule
  <2> HIDE DEF upTo
  <2> QED BY <2>1, <2>4, <2>5
<1> DEFINE normal == << video >>
           windows == SceneWindows(video, 1)
           Rule(f) == f = [i \in 0..Len(normal) |-> IF i = 0 THEN <<>> ELSE f[i - 1] \o SceneWindows(normal[i], i)]
           upTo == CHOOSE f : Rule(f)
           both == [i \in 0..1 |-> IF i = 0 THEN <<>> ELSE windows]
<1>3. Reaches(windows, video, 1, 0)
  BY <1>1, SceneIsCut
<1>4. <<>> \o windows = windows
  <2>1. windows \in Seq(WindowSet)
    BY <1>3 DEF Reaches
  <2> HIDE DEF windows, WindowSet
  <2> QED BY <2>1
<1>5. Len(normal) = 1 /\ normal[1] = video
  OBVIOUS
<1> HIDE DEF windows, normal
<1>6. Rule(both)
  <2>1. \A i \in 0..1 : both[i] = IF i = 0 THEN <<>> ELSE both[i - 1] \o SceneWindows(normal[i], i)
    <3> TAKE i \in 0..1
    <3>1. i = 0 \/ (i = 1 /\ 1 - 1 = 0)
      OBVIOUS
    <3> QED BY <1>4, <1>5, <3>1 DEF windows
  <2>2. both = [i \in 0..1 |-> IF i = 0 THEN <<>> ELSE both[i - 1] \o SceneWindows(normal[i], i)]
    BY <2>1
  <2> HIDE DEF both
  <2> QED BY <1>5, <2>2
<1>7. Rule(upTo)
  <2> HIDE DEF Rule, both
  <2> QED BY <1>6
<1>8. upTo[1] = windows
  <2>1. upTo = [i \in 0..1 |-> IF i = 0 THEN <<>> ELSE upTo[i - 1] \o SceneWindows(normal[i], i)]
    <3> HIDE DEF upTo
    <3> QED BY <1>5, <1>7
  <2> HIDE DEF upTo
  <2>2. upTo[0] = <<>> /\ upTo[1] = upTo[0] \o SceneWindows(normal[1], 1)
    <3>1. 0 \in 0..1 /\ 1 \in 0..1 /\ 1 - 1 = 0
      OBVIOUS
    <3> QED BY <2>1, <3>1
  <2> QED BY <1>4, <1>5, <2>2 DEF windows
<1>9. Windows = upTo[Len(normal)]
  BY <1>2 DEF Windows, BuildWindowSpecs, normal
<1> HIDE DEF upTo
<1> QED BY <1>3, <1>5, <1>8, <1>9

\* Every window, by where it begins and ends.
LEMMA PlanFacts ==
    /\ Len(Windows) \in Nat \ {0} /\ DOMAIN Windows = 1..Len(Windows)
    /\ LoadStart(1) = 0 /\ DealStart(1) = 0
    /\ LoadStart(Len(Windows) + 1) = NumFrames /\ DealStart(Len(Windows) + 1) = NumFrames
    /\ \A k \in 1..(Len(Windows) + 1) :
          LoadStart(k) \in Nat /\ DealStart(k) \in Nat /\ LoadStart(k) <= DealStart(k) /\ DealStart(k) <= NumFrames
    /\ \A k \in 1..Len(Windows) :
          /\ Windows[k].load_start = LoadStart(k) /\ StableEnd(Windows[k]) = LoadStart(k + 1)
          /\ Windows[k].deal_start = DealStart(k) /\ Windows[k].commit_end = DealStart(k + 1)
          /\ Windows[k].load_end = DealStart(k + 1) /\ Windows[k].overlap_left = DealStart(k) - LoadStart(k)
          /\ LoadStart(k) < LoadStart(k + 1) /\ DealStart(k) < DealStart(k + 1)
<1> DEFINE n == Len(Windows)
<1>1. /\ Windows \in Seq(WindowSet) /\ n > 0 /\ Windows[1].deal_start = 0 /\ Windows[1].load_start = 0
      /\ \A k \in 2..n : GoesOnFrom(Windows[k - 1], Windows[k])
      /\ Windows[n].commit_end = NumFrames /\ Windows[n].overlap_right = 0
  <2>1. <<0, NumFrames>>[1] = 0 /\ <<0, NumFrames>>[2] = NumFrames /\ 0 + NumFrames = NumFrames
    BY Sizes
  <2> QED BY <2>1, OneScene DEF Reaches
<1>2. n \in Nat \ {0} /\ DOMAIN Windows = 1..n /\ \A k \in 1..n : Windows[k] \in WindowSet
  <2> HIDE DEF WindowSet
  <2> QED BY <1>1
<1>3. \A w \in WindowSet :
         /\ w.load_start \in Nat /\ w.deal_start \in Nat /\ w.commit_end \in Nat /\ w.overlap_right \in Nat
         /\ w.load_start <= w.deal_start /\ w.deal_start < w.commit_end /\ w.commit_end <= NumFrames
         /\ w.load_end = w.commit_end /\ w.overlap_left = w.deal_start - w.load_start
         /\ w.load_start < w.commit_end - w.overlap_right
  BY DEF WindowSet, WindowOK, StableEnd
<1> HIDE DEF n
<1>4. ASSUME NEW k \in 1..n
      PROVE  /\ LoadStart(k) = Windows[k].load_start /\ DealStart(k + 1) = Windows[k].commit_end
             /\ DealStart(k) = Windows[k].deal_start
             /\ LoadStart(k + 1) = Windows[k].commit_end - Windows[k].overlap_right
  <2>1. k <= n /\ k \in Nat /\ (k + 1) - 1 = k /\ k + 1 # 1
    BY <1>2
  <2>2. LoadStart(k) = Windows[k].load_start /\ DealStart(k + 1) = Windows[k].commit_end
    BY <2>1 DEF LoadStart, DealStart, n
  <2>3. DealStart(k) = Windows[k].deal_start
    <3>1. CASE k = 1
      BY <1>1, <3>1 DEF DealStart
    <3>2. CASE k # 1
      <4>1. k \in 2..n
        BY <1>2, <3>2
      <4> QED BY <1>1, <3>2, <4>1 DEF DealStart, GoesOnFrom
    <3> QED BY <3>1, <3>2
  <2>4. LoadStart(k + 1) = Windows[k].commit_end - Windows[k].overlap_right
    <3>1. CASE k = n
      <4>1. ~(k + 1 <= n)
        BY <1>2, <3>1
      <4>2. NumFrames - 0 = NumFrames
        BY Sizes
      <4> QED BY <1>1, <3>1, <4>1, <4>2 DEF LoadStart, n
    <3>2. CASE k # n
      <4>1. k + 1 \in 2..n /\ k + 1 <= n /\ (k + 1) - 1 = k
        BY <1>2, <3>2
      <4>2. Windows[k + 1].load_start = StableEnd(Windows[k])
        BY <1>1, <4>1 DEF GoesOnFrom
      <4> QED BY <4>1, <4>2 DEF LoadStart, n, StableEnd
    <3> QED BY <3>1, <3>2
  <2> QED BY <2>2, <2>3, <2>4
<1>5. ASSUME NEW k \in 1..n
      PROVE  /\ LoadStart(k) \in Nat /\ DealStart(k) \in Nat /\ LoadStart(k) <= DealStart(k) /\ DealStart(k) < DealStart(k + 1)
             /\ DealStart(k + 1) \in Nat /\ DealStart(k + 1) <= NumFrames /\ LoadStart(k + 1) \in Nat
             /\ LoadStart(k + 1) <= DealStart(k + 1)
             /\ LoadStart(k) < LoadStart(k + 1)
             /\ Windows[k].load_end = DealStart(k + 1) /\ Windows[k].overlap_left = DealStart(k) - LoadStart(k)
             /\ StableEnd(Windows[k]) = LoadStart(k + 1)
  <2>1. PICK w \in WindowSet : w = Windows[k]
    BY <1>2
  <2> QED BY <1>3, <1>4, <2>1 DEF StableEnd
<1>6. LoadStart(1) = 0 /\ DealStart(1) = 0 /\ LoadStart(n + 1) = NumFrames /\ DealStart(n + 1) = NumFrames
  <2>1. 1 \in 1..n /\ n \in 1..n /\ ~(n + 1 <= n)
    BY <1>2
  <2> QED BY <1>1, <1>4, <2>1 DEF LoadStart, n
<1>7. \A k \in 1..(n + 1) :
        LoadStart(k) \in Nat /\ DealStart(k) \in Nat /\ LoadStart(k) <= DealStart(k) /\ DealStart(k) <= NumFrames
  <2> TAKE k \in 1..(n + 1)
  <2>1. CASE k = n + 1
    BY <1>6, <2>1, Sizes
  <2>2. CASE k # n + 1
    <3>1. k \in 1..n
      BY <1>2, <2>2
    <3> QED BY <1>5, <3>1, Sizes
  <2> QED BY <2>1, <2>2
<1> QED BY <1>2, <1>4, <1>5, <1>6, <1>7 DEF n

-----------------------------------------------------------------------------
(***************************************************************************)
(* Recursive functions on numbers.                                         *)
(***************************************************************************)

\* f begins with base and goes on by the steps st.
Recurs(f, n, base, st) == f = [k \in 0..n |-> IF k = 0 THEN base ELSE st[<<k, f[k - 1]>>]]

\* A value for every number, from the one before it, whatever the steps are.
LEMMA CanRecur ==
    ASSUME NEW n \in Nat, NEW V, NEW base \in V, NEW st, \A k \in 1..n : \A v \in V : st[<<k, v>>] \in V
    PROVE  \E f \in [0..n -> V] : Recurs(f, n, base, st)
<1> USE DEF Recurs
<1> DEFINE Rule(f, m) == f \in [0..m -> V] /\ f = [k \in 0..m |-> IF k = 0 THEN base ELSE st[<<k, f[k - 1]>>]]
           Good == {m \in Nat : m <= n => \E f : Rule(f, m)}
<1>1. 0 \in Good
  <2> DEFINE f == [k \in 0..0 |-> base]
  <2>1. \A k \in 0..0 : k = 0
    OBVIOUS
  <2>2. Rule(f, 0)
    BY <2>1
  <2> QED BY <2>2
<1>2. ASSUME NEW m \in Nat, m \in Good PROVE m + 1 \in Good
  <2> SUFFICES ASSUME m + 1 <= n PROVE \E f : Rule(f, m + 1)
    <3> HIDE DEF Rule
    <3> QED OBVIOUS
  <2>1. PICK f : Rule(f, m)
    <3> HIDE DEF Rule
    <3> QED BY <1>2
  <2> DEFINE h == [k \in 0..(m + 1) |-> IF k <= m THEN f[k] ELSE st[<<m + 1, f[m]>>]]
             e == [k \in 0..(m + 1) |-> IF k = 0 THEN base ELSE st[<<k, h[k - 1]>>]]
  <2>2. m \in 0..m /\ m + 1 \in 1..n /\ f[m] \in V /\ st[<<m + 1, f[m]>>] \in V
    BY <2>1
  <2>3. ASSUME NEW k \in 0..(m + 1) PROVE h[k] = e[k] /\ h[k] \in V
    <3>1. CASE k <= m
      <4>1. k \in 0..m /\ f[k] = (IF k = 0 THEN base ELSE st[<<k, f[k - 1]>>]) /\ f[k] \in V
        BY <2>1, <3>1
      <4>2. k # 0 => h[k - 1] = f[k - 1]
        <5> SUFFICES ASSUME k # 0 PROVE h[k - 1] = f[k - 1]
          OBVIOUS
        <5>1. k - 1 \in 0..(m + 1) /\ k - 1 <= m
          BY <3>1
        <5> QED BY <5>1
      <4>3. h[k] = f[k]
        BY <3>1
      <4>4. e[k] = IF k = 0 THEN base ELSE st[<<k, h[k - 1]>>]
        OBVIOUS
      <4> HIDE DEF h, e
      <4> QED BY <4>1, <4>2, <4>3, <4>4
    <3>2. CASE ~(k <= m)
      <4>1. k = m + 1 /\ k - 1 = m /\ k # 0
        BY <3>2
      <4>2. h[k] = st[<<m + 1, f[m]>>]
        BY <3>2
      <4>3. h[m] = f[m]
        BY <2>2
      <4>4. e[k] = st[<<k, h[k - 1]>>]
        BY <4>1
      <4> HIDE DEF h, e
      <4> QED BY <2>2, <4>1, <4>2, <4>3, <4>4
    <3> QED BY <3>1, <3>2
  <2>4. h = e
    BY <2>3
  <2>5. h \in [0..(m + 1) -> V]
    BY <2>3
  <2>6. Rule(h, m + 1)
    BY <2>4, <2>5
  <2> HIDE DEF h, Rule
  <2> QED BY <2>6
<1> HIDE DEF Good
<1>3. n \in Good
  BY <1>1, <1>2, SetInduction
<1> QED BY <1>3 DEF Good

-----------------------------------------------------------------------------
(***************************************************************************)
(* Views of buffers, and caches.                                           *)
(***************************************************************************)

FrameRec == [f : Int, shows : Nat \cup {"soft", "binary", "clear"}]
Heap == Seq(Seq(FrameRec))
View == [buf : Nat, at : Nat, n : Nat]
Cache == [start : Nat, chunks : Seq(View)]

\* The view lies in its buffer, and shows something.
Lies(h, v) == v.buf \in DOMAIN h /\ v.n > 0 /\ v.at + v.n <= Len(h[v.buf])
Bounded(h, c) == c \in Cache /\ \A i \in 1..Len(c.chunks) : Lies(h, c.chunks[i])

\* p says where the chunks of c begin, and in the end where the cache does.
Starting(c, p) ==
    /\ p \in [1..(Len(c.chunks) + 1) -> Nat]
    /\ p[1] = c.start
    /\ \A i \in 1..Len(c.chunks) : p[i + 1] = p[i] + c.chunks[i].n

\* What is known of a cache.
LEMMA CacheFacts ==
    ASSUME NEW c \in Cache
    PROVE  /\ c.start \in Nat /\ c.chunks \in Seq(View) /\ Len(c.chunks) \in Nat
           /\ DOMAIN c.chunks = 1..Len(c.chunks)
           /\ \A i \in 1..Len(c.chunks) :
                 /\ c.chunks[i] \in View /\ c.chunks[i].buf \in Nat /\ c.chunks[i].at \in Nat /\ c.chunks[i].n \in Nat
           /\ c = [start |-> c.start, chunks |-> c.chunks]
<1>1. c.start \in Nat /\ c.chunks \in Seq(View) /\ c = [start |-> c.start, chunks |-> c.chunks]
  BY DEF Cache
<1>2. Len(c.chunks) \in Nat /\ DOMAIN c.chunks = 1..Len(c.chunks) /\ \A i \in 1..Len(c.chunks) : c.chunks[i] \in View
  BY <1>1
<1> QED BY <1>1, <1>2 DEF View

\* The chunks of a cache begin one behind the other.
LEMMA Starts ==
    ASSUME NEW c \in Cache
    PROVE  \E p : Starting(c, p) /\ \A i \in 1..(Len(c.chunks) + 1) : ChunkStart(c, i) = p[i]
<1> DEFINE n == Len(c.chunks)
           st == [x \in (1..n) \X Nat |-> x[2] + c.chunks[x[1]].n]
           Rule(f) == f = [k \in 0..n |-> IF k = 0 THEN c.start ELSE f[k - 1] + c.chunks[k].n]
           from == CHOOSE f : Rule(f)
<1>1. n \in Nat /\ c.start \in Nat /\ \A i \in 1..n : c.chunks[i].n \in Nat
  BY CacheFacts
<1>2. \A i \in 1..(n + 1) : ChunkStart(c, i) = from[i - 1]
  BY DEF ChunkStart
<1> HIDE DEF n
<1>3. PICK f \in [0..n -> Nat] : Recurs(f, n, c.start, st)
  <2>1. \A k \in 1..n : \A v \in Nat : st[<<k, v>>] \in Nat
    BY <1>1
  <2> HIDE DEF st
  <2>2. PICK base \in Nat : base = c.start
    BY <1>1
  <2>3. \E f \in [0..n -> Nat] : Recurs(f, n, base, st)
    BY <1>1, <2>1, CanRecur
  <2> QED BY <2>2, <2>3
<1>4. \A k \in 0..n : f[k] = IF k = 0 THEN c.start ELSE f[k - 1] + c.chunks[k].n
  <2> TAKE k \in 0..n
  <2>1. CASE k = 0
    <3> HIDE DEF st
    <3> QED BY <1>3, <2>1 DEF Recurs
  <2>2. CASE k # 0
    <3>1. k \in 1..n /\ k - 1 \in 0..n /\ f[k - 1] \in Nat
      <4>1. k \in 1..n /\ k - 1 \in 0..n
        BY <1>1, <2>2
      <4> HIDE DEF st
      <4> QED BY <1>3, <4>1
    <3>2. f[k] = st[<<k, f[k - 1]>>]
      <4> HIDE DEF st
      <4> QED BY <1>3, <2>2 DEF Recurs
    <3>3. st[<<k, f[k - 1]>>] = f[k - 1] + c.chunks[k].n
      BY <3>1
    <3> QED BY <2>2, <3>2, <3>3
  <2> QED BY <2>1, <2>2
<1> HIDE DEF st
<1>5. Rule(f)
  <2>1. f = [k \in 0..n |-> f[k]]
    BY <1>3
  <2> QED BY <1>4, <2>1
<1>6. Rule(from)
  <2> HIDE DEF Rule
  <2> QED BY <1>5
<1> HIDE DEF from
<1> DEFINE Same == {k \in Nat : k <= n => from[k] = f[k]}
<1>7. \A k \in Nat : k \in Same
  <2>1. 0 \in Same
    <3>1. 0 \in 0..n
      BY <1>1
    <3> QED BY <1>4, <1>6, <3>1
  <2>2. ASSUME NEW k \in Nat, k \in Same PROVE k + 1 \in Same
    <3> SUFFICES ASSUME k + 1 <= n PROVE from[k + 1] = f[k + 1]
      OBVIOUS
    <3>1. k + 1 \in 0..n /\ k + 1 # 0 /\ (k + 1) - 1 = k /\ from[k] = f[k]
      BY <1>1, <2>2
    <3>2. from[k + 1] = from[k] + c.chunks[k + 1].n
      BY <1>6, <3>1
    <3>3. f[k + 1] = f[k] + c.chunks[k + 1].n
      BY <1>4, <3>1
    <3> QED BY <3>1, <3>2, <3>3
  <2> HIDE DEF Same
  <2> QED BY <2>1, <2>2, SetInduction
<1> DEFINE p == [i \in 1..(n + 1) |-> f[i - 1]]
<1>8. \A i \in 1..(n + 1) : i - 1 \in Nat /\ i - 1 <= n /\ i - 1 \in 0..n /\ p[i] = f[i - 1] /\ f[i - 1] \in Nat
  BY <1>1, <1>3
<1>9. p \in [1..(n + 1) -> Nat]
  BY <1>8
<1>10. p[1] = c.start
  <2>1. 1 \in 1..(n + 1) /\ 1 - 1 = 0 /\ 0 \in 0..n
    BY <1>1
  <2> QED BY <1>4, <1>8, <2>1
<1>11. ASSUME NEW i \in 1..n PROVE p[i + 1] = p[i] + c.chunks[i].n
  <2>1. i \in 1..(n + 1) /\ i + 1 \in 1..(n + 1) /\ (i + 1) - 1 = i /\ i \in 0..n /\ i # 0
    BY <1>1
  <2> QED BY <1>4, <1>8, <2>1
<1> HIDE DEF p
<1>12. \A i \in 1..(n + 1) : ChunkStart(c, i) = p[i]
  BY <1>2, <1>7, <1>8
<1>13. Starting(c, p)
  BY <1>9, <1>10, <1>11 DEF Starting, n
<1> QED BY <1>12, <1>13 DEF n

\* There is one way in which they can.
LEMMA OneStarting ==
    ASSUME NEW c \in Cache, NEW p, Starting(c, p)
    PROVE  /\ \A i \in 1..(Len(c.chunks) + 1) : ChunkStart(c, i) = p[i]
           /\ EndIndex(c) = p[Len(c.chunks) + 1]
<1>1. PICK n \in Nat : n = Len(c.chunks) /\ \A i \in 1..n : c.chunks[i].n \in Nat
  BY CacheFacts
<1>2. PICK q : Starting(c, q) /\ \A i \in 1..(n + 1) : ChunkStart(c, i) = q[i]
  BY <1>1, Starts
<1> DEFINE Same == {k \in Nat : k <= n => p[k + 1] = q[k + 1]}
<1>3. \A k \in Nat : k \in Same
  <2>1. 0 \in Same
    BY <1>2 DEF Starting
  <2>2. ASSUME NEW k \in Nat, k \in Same PROVE k + 1 \in Same
    <3> SUFFICES ASSUME k + 1 <= n PROVE p[(k + 1) + 1] = q[(k + 1) + 1]
      OBVIOUS
    <3>1. k + 1 \in 1..n /\ p[k + 1] = q[k + 1]
      BY <1>1, <2>2
    <3> QED BY <1>1, <1>2, <3>1 DEF Starting
  <2> HIDE DEF Same
  <2> QED BY <2>1, <2>2, SetInduction
<1>4. ASSUME NEW i \in 1..(n + 1) PROVE p[i] = q[i]
  <2>1. i - 1 \in Nat /\ i - 1 <= n /\ (i - 1) + 1 = i
    BY <1>1
  <2> QED BY <1>3, <2>1
<1>5. n + 1 \in 1..(n + 1)
  OBVIOUS
<1> QED BY <1>1, <1>2, <1>4, <1>5 DEF EndIndex

\* A cache, with the places of its chunks.
LEMMA CacheStarts ==
    ASSUME NEW c \in Cache
    PROVE  \E p : /\ Starting(c, p) /\ \A i \in 1..(Len(c.chunks) + 1) : ChunkStart(c, i) = p[i]
                  /\ EndIndex(c) = p[Len(c.chunks) + 1]
                  /\ EndIndex(c) \in Nat /\ c.start <= EndIndex(c)
                  /\ \A i \in 1..(Len(c.chunks) + 1) : c.start <= p[i] /\ p[i] <= EndIndex(c)
                  /\ \A i, j \in 1..(Len(c.chunks) + 1) : i <= j => p[i] <= p[j]
<1>1. PICK n \in Nat : n = Len(c.chunks) /\ c.start \in Nat /\ \A i \in 1..n : c.chunks[i].n \in Nat
  BY CacheFacts
<1>2. PICK p : Starting(c, p)
  BY Starts
<1>3. p \in [1..(n + 1) -> Nat] /\ p[1] = c.start /\ \A i \in 1..n : p[i + 1] = p[i] + c.chunks[i].n
  BY <1>1, <1>2 DEF Starting
<1> DEFINE Rises == {k \in Nat : \A i \in 1..(n + 1) : i + k <= n + 1 => p[i] <= p[i + k]}
<1>4. \A k \in Nat : k \in Rises
  <2>1. 0 \in Rises
    BY <1>3
  <2>2. ASSUME NEW k \in Nat, k \in Rises PROVE k + 1 \in Rises
    <3> SUFFICES ASSUME NEW i \in 1..(n + 1), i + (k + 1) <= n + 1 PROVE p[i] <= p[i + (k + 1)]
      OBVIOUS
    <3>1. PICK l \in 1..n : l = i + k
      BY <1>1
    <3>2. p[i] <= p[l]
      BY <2>2, <3>1
    <3>3. p[l + 1] = p[l] + c.chunks[l].n /\ l + 1 = i + (k + 1)
      BY <1>3, <3>1
    <3>6. l \in 1..(n + 1) /\ l + 1 \in 1..(n + 1)
      BY <1>1, <3>1
    <3>4. p[i] \in Nat /\ p[l] \in Nat /\ p[l + 1] \in Nat /\ c.chunks[l].n \in Nat
      BY <1>1, <1>3, <3>1, <3>6
    <3>5. p[i] <= p[l + 1]
      BY <3>2, <3>3, <3>4
    <3> QED BY <3>3, <3>5
  <2> HIDE DEF Rises
  <2> QED BY <2>1, <2>2, SetInduction
<1>5. ASSUME NEW i \in 1..(n + 1), NEW j \in 1..(n + 1), i <= j PROVE p[i] <= p[j]
  <2>1. j - i \in Nat /\ i + (j - i) = j /\ i + (j - i) <= n + 1
    BY <1>5
  <2>2. j - i \in Rises
    BY <1>4, <2>1
  <2> QED BY <2>1, <2>2
<1>6. 1 \in 1..(n + 1) /\ n + 1 \in 1..(n + 1) /\ \A i \in 1..(n + 1) : 1 <= i /\ i <= n + 1
  OBVIOUS
<1>7. EndIndex(c) = p[n + 1] /\ \A i \in 1..(n + 1) : ChunkStart(c, i) = p[i]
  BY <1>1, <1>2, OneStarting
<1>8. \A i \in 1..(n + 1) : c.start <= p[i] /\ p[i] <= EndIndex(c)
  BY <1>3, <1>5, <1>6, <1>7
<1>9. EndIndex(c) \in Nat /\ c.start <= EndIndex(c)
  BY <1>3, <1>6, <1>7, <1>8
<1> QED BY <1>1, <1>2, <1>5, <1>7, <1>8, <1>9

-----------------------------------------------------------------------------
(***************************************************************************)
(* What a cache shows.  A relation says which frames may be seen where.    *)
(***************************************************************************)

Shows(h, c, R) == \A i \in 1..Len(c.chunks) : \A j \in 1..c.chunks[i].n :
    <<ChunkStart(c, i) + j - 1, h[c.chunks[i].buf][c.chunks[i].at + j]>> \in R

\* c holds the frames from a to b, and they are as R says.
Cached(h, c, a, b, R) == Bounded(h, c) /\ c.start = a /\ EndIndex(c) = b /\ Shows(h, c, R)

\* The frames of a sequence, from number a on, are as R says.
Rows(q, a, R) == \A m \in 1..Len(q) : <<a + m - 1, q[m]>> \in R

Bufs(c) == {c.chunks[i].buf : i \in 1..Len(c.chunks)}

\* A cache seen through the places p of its chunks.
Seen(h, c, a, b, R, p) ==
    /\ c \in Cache /\ Starting(c, p) /\ \A i \in 1..(Len(c.chunks) + 1) : ChunkStart(c, i) = p[i]
    /\ a \in Nat /\ b \in Nat /\ a <= b
    /\ p[1] = a /\ p[Len(c.chunks) + 1] = b
    /\ \A i \in 1..(Len(c.chunks) + 1) : a <= p[i] /\ p[i] <= b
    /\ \A i, j \in 1..(Len(c.chunks) + 1) : i <= j => p[i] <= p[j]
    /\ \A i, j \in 1..(Len(c.chunks) + 1) : i < j => p[i] < p[j]
    /\ \A i \in 1..Len(c.chunks) : Lies(h, c.chunks[i])
    /\ \A i \in 1..Len(c.chunks) : \A j \in 1..c.chunks[i].n :
          <<p[i] + j - 1, h[c.chunks[i].buf][c.chunks[i].at + j]>> \in R

\* A cache is seen in one way.
LEMMA SeenCached ==
    ASSUME NEW h, NEW c, NEW a, NEW b, NEW R, Cached(h, c, a, b, R)
    PROVE  \E p : Seen(h, c, a, b, R, p)
<1>1. c \in Cache /\ c.start = a /\ EndIndex(c) = b /\ \A i \in 1..Len(c.chunks) : Lies(h, c.chunks[i])
  BY DEF Cached, Bounded
<1>2. PICK p : /\ Starting(c, p) /\ \A i \in 1..(Len(c.chunks) + 1) : ChunkStart(c, i) = p[i]
               /\ EndIndex(c) = p[Len(c.chunks) + 1]
               /\ EndIndex(c) \in Nat /\ c.start <= EndIndex(c)
               /\ \A i \in 1..(Len(c.chunks) + 1) : c.start <= p[i] /\ p[i] <= EndIndex(c)
               /\ \A i, j \in 1..(Len(c.chunks) + 1) : i <= j => p[i] <= p[j]
  BY <1>1, CacheStarts
<1>3. PICK n \in Nat : n = Len(c.chunks) /\ \A i \in 1..n : c.chunks[i].n \in Nat
  BY <1>1, CacheFacts
<1>4. p[1] = a /\ p \in [1..(n + 1) -> Nat] /\ \A i \in 1..n : p[i + 1] = p[i] + c.chunks[i].n
  BY <1>1, <1>2, <1>3 DEF Starting
<1>5. ASSUME NEW i \in 1..(n + 1), NEW j \in 1..(n + 1), i < j PROVE p[i] < p[j]
  <2>1. i \in 1..n /\ i + 1 \in 1..(n + 1) /\ i + 1 <= j
    BY <1>5
  <2>2. c.chunks[i].n > 0
    BY <1>1, <1>3, <2>1 DEF Lies
  <2>3. p[i + 1] <= p[j]
    BY <1>2, <1>3, <2>1
  <2>4. p[i] \in Nat /\ p[j] \in Nat /\ c.chunks[i].n \in Nat
    BY <1>3, <1>4, <2>1
  <2> QED BY <1>4, <2>1, <2>2, <2>3, <2>4, SMTT(30)
<1>6. \A i \in 1..n : \A j \in 1..c.chunks[i].n :
         <<p[i] + j - 1, h[c.chunks[i].buf][c.chunks[i].at + j]>> \in R
  <2> TAKE i \in 1..n
  <2>1. i \in 1..(n + 1) /\ ChunkStart(c, i) = p[i]
    BY <1>2, <1>3
  <2> QED BY <1>3, <2>1 DEF Cached, Shows
<1>7. a \in Nat /\ b \in Nat /\ a <= b
  BY <1>1, <1>2, <1>3, CacheFacts
<1> QED BY <1>1, <1>2, <1>3, <1>4, <1>5, <1>6, <1>7 DEF Seen

\* A cache given by the places of its chunks.
LEMMA MadeCached ==
    ASSUME NEW h, NEW c \in Cache, NEW p, Starting(c, p), NEW R,
           \A i \in 1..Len(c.chunks) : Lies(h, c.chunks[i]),
           \A i \in 1..Len(c.chunks) : \A j \in 1..c.chunks[i].n :
              <<p[i] + j - 1, h[c.chunks[i].buf][c.chunks[i].at + j]>> \in R
    PROVE  Cached(h, c, p[1], p[Len(c.chunks) + 1], R)
<1>1. PICK n \in Nat : n = Len(c.chunks)
  BY CacheFacts
<1>2. EndIndex(c) = p[n + 1] /\ \A i \in 1..(n + 1) : ChunkStart(c, i) = p[i]
  BY <1>1, OneStarting
<1>3. c.start = p[1]
  BY DEF Starting
<1>4. \A i \in 1..n : ChunkStart(c, i) = p[i]
  BY <1>2
<1> QED BY <1>1, <1>2, <1>3, <1>4 DEF Cached, Bounded, Shows

\* The frames of a view.
LEMMA ReadFacts ==
    ASSUME NEW s, s.heap \in Heap, NEW v \in View, v.buf \in DOMAIN s.heap, v.at + v.n <= Len(s.heap[v.buf])
    PROVE  /\ Read(s, v) \in Seq(FrameRec) /\ Len(Read(s, v)) = v.n
           /\ \A j \in 1..v.n : Read(s, v)[j] = s.heap[v.buf][v.at + j]
<1>1. PICK q \in Seq(FrameRec) : q = s.heap[v.buf]
  BY DEF Heap
<1>2. PICK at \in Nat, n \in Nat : at = v.at /\ n = v.n
  BY DEF View
<1>3. at + n <= Len(q)
  BY <1>1, <1>2
<1>4. SubSeq(q, at + 1, at + n) \in Seq(FrameRec) /\ Len(SubSeq(q, at + 1, at + n)) = n
  BY <1>3, PartFacts, SMTT(30)
<1>5. \A j \in 1..n : SubSeq(q, at + 1, at + n)[j] = q[at + j]
  BY <1>3
<1>6. Read(s, v) = SubSeq(q, at + 1, at + n)
  BY <1>1, <1>2 DEF Read
<1> QED BY <1>1, <1>2, <1>4, <1>5, <1>6

\* All the frames of a cache.
LEMMA ContentsFacts ==
    ASSUME NEW s, s.heap \in Heap, NEW c, NEW a, NEW b, NEW R, Cached(s.heap, c, a, b, R)
    PROVE  /\ Contents(s, c) \in Seq(FrameRec) /\ Len(Contents(s, c)) = b - a
           /\ Rows(Contents(s, c), a, R)
<1> DEFINE V == Seq(FrameRec)
           N == Len(c.chunks)
           st == [x \in (1..N) \X V |-> x[2] \o Read(s, c.chunks[x[1]])]
           Rule(f) == f = [i \in 0..N |-> IF i = 0 THEN <<>> ELSE f[i - 1] \o Read(s, c.chunks[i])]
           upTo == CHOOSE f : Rule(f)
<1>0. PICK p : Seen(s.heap, c, a, b, R, p)
  BY SeenCached
<1>1. /\ c \in Cache /\ Starting(c, p) /\ a \in Nat /\ b \in Nat /\ a <= b
      /\ p[1] = a /\ p[Len(c.chunks) + 1] = b
      /\ \A i \in 1..(Len(c.chunks) + 1) : a <= p[i] /\ p[i] <= b
      /\ \A i \in 1..Len(c.chunks) : Lies(s.heap, c.chunks[i])
      /\ \A i \in 1..Len(c.chunks) : \A j \in 1..c.chunks[i].n :
            <<p[i] + j - 1, s.heap[c.chunks[i].buf][c.chunks[i].at + j]>> \in R
  BY <1>0 DEF Seen
<1>2. N \in Nat /\ \A i \in 1..N : c.chunks[i] \in View /\ c.chunks[i].n \in Nat
  BY <1>1, CacheFacts
<1>3. \A i \in 1..N : p[i + 1] = p[i] + c.chunks[i].n
  BY <1>1 DEF Starting
<1>4. \A i \in 1..N : p[i] \in Nat /\ a <= p[i]
  <2>1. p \in [1..(N + 1) -> Nat]
    BY <1>1 DEF Starting
  <2>2. \A i \in 1..(N + 1) : a <= p[i]
    BY <1>1
  <2> HIDE DEF N
  <2> QED BY <1>2, <2>1, <2>2
<1>5. Contents(s, c) = upTo[N]
  BY DEF Contents
<1>6. ASSUME NEW i \in 1..N
      PROVE  /\ Read(s, c.chunks[i]) \in V /\ Len(Read(s, c.chunks[i])) = c.chunks[i].n
             /\ \A j \in 1..c.chunks[i].n :
                   <<p[i] + j - 1, Read(s, c.chunks[i])[j]>> \in R
  <2>1. PICK v \in View : v = c.chunks[i]
    BY <1>2
  <2>2. v.buf \in DOMAIN s.heap /\ v.at + v.n <= Len(s.heap[v.buf])
    BY <1>1, <2>1 DEF Lies
  <2>3. /\ Read(s, v) \in V /\ Len(Read(s, v)) = v.n
        /\ \A j \in 1..v.n : Read(s, v)[j] = s.heap[v.buf][v.at + j]
    BY <2>2, ReadFacts
  <2> HIDE DEF V
  <2> QED BY <1>1, <2>1, <2>3
<1> HIDE DEF N
<1>7. \E f : Rule(f)
  <2>1. \A i \in 1..N : \A v \in V : st[<<i, v>>] \in V
    <3> TAKE i \in 1..N
    <3> TAKE v \in V
    <3>1. v \o Read(s, c.chunks[i]) \in V
      BY <1>6
    <3> HIDE DEF V
    <3> QED BY <3>1
  <2>2. <<>> \in V
    OBVIOUS
  <2> HIDE DEF V, st
  <2>3. PICK f \in [0..N -> V] : Recurs(f, N, <<>>, st)
    BY <1>2, <2>1, <2>2, CanRecur
  <2>4. \A i \in 0..N : f[i] = IF i = 0 THEN <<>> ELSE f[i - 1] \o Read(s, c.chunks[i])
    <3> TAKE i \in 0..N
    <3>1. f[i] = IF i = 0 THEN <<>> ELSE st[<<i, f[i - 1]>>]
      BY <2>3 DEF Recurs
    <3>2. CASE i # 0
      <4>1. i \in 1..N /\ f[i - 1] \in V
        <5>1. i \in 1..N /\ i - 1 \in 0..N
          BY <1>2, <3>2
        <5> QED BY <2>3, <5>1
      <4>2. st[<<i, f[i - 1]>>] = f[i - 1] \o Read(s, c.chunks[i])
        BY <4>1 DEF st
      <4> QED BY <3>1, <3>2, <4>2
    <3> QED BY <3>1, <3>2
  <2>5. f = [i \in 0..N |-> f[i]]
    BY <2>3
  <2>6. Rule(f)
    BY <2>4, <2>5
  <2> HIDE DEF Rule
  <2> QED BY <2>6
<1>8. Rule(upTo)
  <2> HIDE DEF Rule
  <2> QED BY <1>7
<1> HIDE DEF upTo, st
<1> DEFINE Good == {k \in Nat : k <= N => upTo[k] \in V /\ Len(upTo[k]) = p[k + 1] - a /\ Rows(upTo[k], a, R)}
<1>9. \A k \in Nat : k \in Good
  <2>1. 0 \in Good
    <3>1. upTo[0] = <<>>
      BY <1>2, <1>8
    <3>2. upTo[0] \in V /\ Len(upTo[0]) = 0 /\ Rows(upTo[0], a, R)
      BY <3>1 DEF Rows
    <3>3. p[0 + 1] - a = 0
      BY <1>1
    <3> QED BY <3>2, <3>3
  <2>2. ASSUME NEW k \in Nat, k \in Good PROVE k + 1 \in Good
    <3> SUFFICES ASSUME k + 1 <= N
                 PROVE  upTo[k + 1] \in V /\ Len(upTo[k + 1]) = p[(k + 1) + 1] - a /\ Rows(upTo[k + 1], a, R)
      OBVIOUS
    <3>1. k + 1 \in 1..N /\ k + 1 \in 0..N /\ (k + 1) - 1 = k /\ k + 1 # 0 /\ k <= N
      BY <1>2
    <3>2. upTo[k + 1] = upTo[k] \o Read(s, c.chunks[k + 1])
      BY <1>8, <3>1
    <3>3. upTo[k] \in V /\ Len(upTo[k]) = p[k + 1] - a /\ Rows(upTo[k], a, R)
      BY <2>2, <3>1
    <3>4. PICK q \in V, r \in V : q = upTo[k] /\ r = Read(s, c.chunks[k + 1])
      <4> HIDE DEF V
      <4> QED BY <1>6, <3>1, <3>3
    <3>5. PICK from \in Nat, n \in Nat : from = p[k + 1] /\ n = c.chunks[k + 1].n /\ a <= from
      BY <1>1, <1>2, <1>4, <3>1
    <3>6. Len(q) = from - a /\ Len(r) = n /\ p[(k + 1) + 1] = from + n
      BY <1>3, <1>6, <3>1, <3>3, <3>4, <3>5
    <3>7. /\ \A m \in 1..Len(q) : <<a + m - 1, q[m]>> \in R
          /\ \A j \in 1..n : <<from + j - 1, r[j]>> \in R
      BY <1>6, <3>1, <3>3, <3>4, <3>5 DEF Rows
    <3>8. /\ q \o r \in V /\ Len(q \o r) = Len(q) + Len(r)
          /\ \A i \in 1..Len(q) : (q \o r)[i] = q[i]
          /\ \A i \in 1..Len(r) : (q \o r)[Len(q) + i] = r[i]
      BY JoinFacts
    <3>9. Rows(q \o r, a, R)
      <4> SUFFICES ASSUME NEW m \in 1..Len(q \o r) PROVE <<a + m - 1, (q \o r)[m]>> \in R
        BY DEF Rows
      <4> HIDE DEF V
      <4>3. PICK L \in Nat : L = Len(q) /\ L = from - a
        BY <1>1, <3>5, <3>6
      <4>4. m \in Nat /\ 1 <= m /\ m <= L + n
        BY <3>6, <3>8, <4>3
      <4>1. CASE m <= L
        <5>1. m \in 1..Len(q)
          BY <4>1, <4>3, <4>4
        <5> QED BY <3>7, <3>8, <5>1
      <4>2. CASE m > L
        <5>1. PICK j \in 1..n : m = Len(q) + j /\ a + m - 1 = from + j - 1
          <6>1. m - L \in 1..n /\ a + m - 1 = from + (m - L) - 1 /\ m = L + (m - L)
            <7>1. a \in Nat /\ L = from - a
              BY <1>1, <4>3
            <7>2. m - L \in 1..n
              BY <4>2, <4>4
            <7>3. from = a + L
              BY <7>1
            <7> QED BY <4>4, <7>1, <7>2, <7>3
          <6> QED BY <4>3, <6>1
        <5> QED BY <3>6, <3>7, <3>8, <5>1
      <4> QED BY <4>1, <4>2, <4>4
    <3>10. Len(q \o r) = p[(k + 1) + 1] - a
      BY <1>1, <3>5, <3>6, <3>8, SMTT(30)
    <3> QED BY <3>2, <3>4, <3>8, <3>9, <3>10
  <2> HIDE DEF Good
  <2> QED BY <2>1, <2>2, SetInduction
<1>10. upTo[N] \in V /\ Len(upTo[N]) = p[N + 1] - a /\ Rows(upTo[N], a, R)
  BY <1>2, <1>9
<1>11. p[N + 1] = b
  BY <1>1 DEF N
<1> QED BY <1>5, <1>10, <1>11

\* A part of a sequence, as R says.
LEMMA RowsPart ==
    ASSUME NEW q \in Seq(FrameRec), NEW a \in Nat, NEW R, Rows(q, a, R),
           NEW i \in Nat, NEW j \in Nat, i <= j, j <= Len(q)
    PROVE  /\ SubSeq(q, i + 1, j) \in Seq(FrameRec) /\ Len(SubSeq(q, i + 1, j)) = j - i
           /\ Rows(SubSeq(q, i + 1, j), a + i, R)
<1>1. SubSeq(q, i + 1, j) \in Seq(FrameRec) /\ Len(SubSeq(q, i + 1, j)) = j - i
  BY PartFacts
<1>2. ASSUME NEW m \in 1..(j - i) PROVE <<(a + i) + m - 1, SubSeq(q, i + 1, j)[m]>> \in R
  <2>1. i + m \in 1..Len(q) /\ a + (i + m) - 1 = (a + i) + m - 1
    OBVIOUS
  <2>2. SubSeq(q, i + 1, j)[m] = q[i + m]
    OBVIOUS
  <2> QED BY <2>1, <2>2 DEF Rows
<1> QED BY <1>1, <1>2 DEF Rows

\* Frames of a cache.
LEMMA SliceFacts ==
    ASSUME NEW s, s.heap \in Heap, NEW c, NEW a, NEW b, NEW R, Cached(s.heap, c, a, b, R),
           NEW x \in Nat, NEW y \in Nat, a <= x, x <= y, y <= b
    PROVE  /\ Slice(s, c, x, y) \in Seq(FrameRec) /\ Len(Slice(s, c, x, y)) = y - x
           /\ Rows(Slice(s, c, x, y), x, R)
<1>1. PICK q \in Seq(FrameRec) : q = Contents(s, c) /\ Len(q) = b - a /\ Rows(q, a, R)
  BY ContentsFacts
<1>2. a \in Nat /\ b \in Nat /\ c.start = a
  <2>1. PICK p : Seen(s.heap, c, a, b, R, p)
    BY SeenCached
  <2> QED BY <2>1 DEF Cached, Seen
<1>3. PICK i \in Nat, j \in Nat : i = x - a /\ j = y - a
  BY <1>2
<1>4. i <= j /\ j <= Len(q) /\ a + i = x /\ j - i = y - x /\ x - a + 1 = i + 1
  BY <1>1, <1>2, <1>3
<1>5. /\ SubSeq(q, i + 1, j) \in Seq(FrameRec) /\ Len(SubSeq(q, i + 1, j)) = j - i
      /\ Rows(SubSeq(q, i + 1, j), a + i, R)
  BY <1>1, <1>2, <1>4, RowsPart
<1>6. Slice(s, c, x, y) = SubSeq(q, i + 1, j)
  BY <1>1, <1>2, <1>3, <1>4 DEF Slice
<1> QED BY <1>4, <1>5, <1>6

-----------------------------------------------------------------------------
(***************************************************************************)
(* Buffers come and change; a cache that has none of the changed ones      *)
(* stays as it is.                                                         *)
(***************************************************************************)

\* h2 has the buffers of h, as long as they were, and as they were but for those of B.
Alters(h, h2, B) ==
    /\ h \in Heap /\ h2 \in Heap /\ Len(h) <= Len(h2)
    /\ \A k \in 1..Len(h) : Len(h2[k]) = Len(h[k]) /\ (k \notin B => h2[k] = h[k])

\* The chunks of the cache are their buffers.
WholeChunks(h, c) == \A i \in 1..Len(c.chunks) : c.chunks[i].n = Len(h[c.chunks[i].buf])

LEMMA HeapFacts ==
    ASSUME NEW h \in Heap
    PROVE  /\ Len(h) \in Nat /\ DOMAIN h = 1..Len(h)
           /\ \A k \in 1..Len(h) : h[k] \in Seq(FrameRec) /\ Len(h[k]) \in Nat /\ \A j \in 1..Len(h[k]) : h[k][j] \in FrameRec
BY DEF Heap

LEMMA AltersAgain ==
    ASSUME NEW h, NEW h2, NEW h3, NEW B, NEW C, Alters(h, h2, B), Alters(h2, h3, C)
    PROVE  Alters(h, h3, B \cup C)
<1>1. h \in Heap /\ h2 \in Heap /\ h3 \in Heap
  BY DEF Alters
<1>2. Len(h) \in Nat /\ Len(h2) \in Nat /\ Len(h3) \in Nat
  BY <1>1, HeapFacts
<1> QED BY <1>1, <1>2 DEF Alters

LEMMA AltersNothing ==
    ASSUME NEW h \in Heap, NEW B
    PROVE  Alters(h, h, B)
<1>1. Len(h) \in Nat
  BY HeapFacts
<1> QED BY <1>1 DEF Alters

LEMMA AltersMore ==
    ASSUME NEW h, NEW h2, NEW B, NEW C, Alters(h, h2, B), B \subseteq C
    PROVE  Alters(h, h2, C)
BY DEF Alters

\* A new buffer changes no other.
LEMMA NewBuffer ==
    ASSUME NEW h \in Heap, NEW q \in Seq(FrameRec)
    PROVE  /\ Alters(h, Append(h, q), {}) /\ Append(h, q) \in Heap
           /\ Len(Append(h, q)) = Len(h) + 1 /\ Append(h, q)[Len(h) + 1] = q
<1> DEFINE S == Seq(FrameRec)
<1>1. h \in Seq(S) /\ q \in S
  BY DEF Heap
<1> HIDE DEF S
<1>2. /\ Append(h, q) \in Seq(S) /\ Len(Append(h, q)) = Len(h) + 1 /\ Append(h, q)[Len(h) + 1] = q
      /\ Len(h) \in Nat /\ \A k \in 1..Len(h) : Append(h, q)[k] = h[k]
  BY <1>1
<1> QED BY <1>1, <1>2 DEF Alters, Heap, S

LEMMA LiesStill ==
    ASSUME NEW h, NEW h2, NEW B, Alters(h, h2, B), NEW v, Lies(h, v)
    PROVE  Lies(h2, v) /\ Len(h2[v.buf]) = Len(h[v.buf]) /\ (v.buf \notin B => h2[v.buf] = h[v.buf])
<1>1. h \in Heap /\ h2 \in Heap
  BY DEF Alters
<1>2. DOMAIN h = 1..Len(h) /\ DOMAIN h2 = 1..Len(h2) /\ Len(h) \in Nat /\ Len(h2) \in Nat
  BY <1>1, HeapFacts
<1>3. v.buf \in 1..Len(h)
  BY <1>2 DEF Lies
<1> QED BY <1>2, <1>3 DEF Alters, Lies

\* A cache whose buffers stay shows what it has shown.
LEMMA CachedStays ==
    ASSUME NEW h, NEW h2, NEW B, Alters(h, h2, B), NEW c, NEW a, NEW b, NEW R, Cached(h, c, a, b, R),
           Bufs(c) \cap B = {}
    PROVE  Cached(h2, c, a, b, R)
<1>1. c \in Cache /\ Len(c.chunks) \in Nat
  BY CacheFacts DEF Cached, Bounded
<1>2. ASSUME NEW i \in 1..Len(c.chunks)
      PROVE  Lies(h2, c.chunks[i]) /\ h2[c.chunks[i].buf] = h[c.chunks[i].buf]
  <2>1. Lies(h, c.chunks[i])
    BY DEF Cached, Bounded
  <2>2. c.chunks[i].buf \notin B
    BY DEF Bufs
  <2> QED BY <2>1, <2>2, LiesStill
<1> QED BY <1>1, <1>2 DEF Cached, Bounded, Shows

\* A cache whose buffers change holds the same range.
LEMMA CachedChanges ==
    ASSUME NEW h, NEW h2, NEW B, Alters(h, h2, B), NEW c, NEW a, NEW b, NEW R, Cached(h, c, a, b, R),
           NEW Q, \A f \in a..(b - 1) : \A x \in FrameRec : <<f, x>> \in Q
    PROVE  Cached(h2, c, a, b, Q)
<1>0. PICK p : Seen(h, c, a, b, R, p)
  BY SeenCached
<1>1. /\ c \in Cache /\ Starting(c, p)
      /\ a \in Nat /\ b \in Nat /\ a <= b
      /\ p[1] = a /\ p[Len(c.chunks) + 1] = b
      /\ \A i \in 1..(Len(c.chunks) + 1) : a <= p[i] /\ p[i] <= b
      /\ \A i \in 1..Len(c.chunks) : Lies(h, c.chunks[i])
  BY <1>0 DEF Seen
<1>2. PICK n \in Nat : n = Len(c.chunks) /\ \A i \in 1..n : c.chunks[i] \in View /\ c.chunks[i].n \in Nat /\ c.chunks[i].at \in Nat
  BY <1>1, CacheFacts
<1>3. h2 \in Heap
  BY DEF Alters
<1>4. ASSUME NEW i \in 1..n, NEW j \in 1..c.chunks[i].n
      PROVE  <<p[i] + j - 1, h2[c.chunks[i].buf][c.chunks[i].at + j]>> \in Q
  <2>1. p[i] \in Nat /\ p[i + 1] = p[i] + c.chunks[i].n /\ i \in 1..(n + 1) /\ i + 1 \in 1..(n + 1)
    BY <1>1, <1>2 DEF Starting
  <2>2. a <= p[i] /\ p[i + 1] <= b
    BY <1>1, <1>2, <2>1
  <2>3. PICK m \in Nat : m = c.chunks[i].n /\ j \in 1..m
    BY <1>2
  <2>4. p[i] + j - 1 \in a..(b - 1)
    BY <1>1, <2>1, <2>2, <2>3, SMTT(30)
  <2>5. Lies(h2, c.chunks[i])
    BY <1>1, <1>2, LiesStill
  <2>6. PICK k \in 1..Len(h2), at \in Nat : k = c.chunks[i].buf /\ at = c.chunks[i].at /\ at + m <= Len(h2[k])
    BY <1>2, <1>3, <2>3, <2>5, HeapFacts DEF Lies
  <2>7. Len(h2[k]) \in Nat
    BY <1>3, HeapFacts
  <2>8. at + j \in 1..Len(h2[k])
    <3>1. PICK l \in Nat : l = Len(h2[k])
      BY <2>7
    <3>2. at + m <= l /\ j <= m /\ 1 <= j /\ j \in Nat
      BY <2>3, <2>6, <3>1
    <3> QED BY <3>1, <3>2
  <2>9. h2[k][at + j] \in FrameRec
    BY <1>3, <2>8, HeapFacts
  <2> QED BY <2>4, <2>6, <2>9
<1>5. \A i \in 1..n : Lies(h2, c.chunks[i])
  BY <1>1, <1>2, LiesStill
<1> QED BY <1>1, <1>2, <1>4, <1>5, MadeCached

LEMMA WholeStill ==
    ASSUME NEW h, NEW h2, NEW B, Alters(h, h2, B), NEW c, Bounded(h, c), WholeChunks(h, c)
    PROVE  WholeChunks(h2, c)
<1> SUFFICES ASSUME NEW i \in 1..Len(c.chunks) PROVE c.chunks[i].n = Len(h2[c.chunks[i].buf])
  BY DEF WholeChunks
<1>1. Lies(h, c.chunks[i])
  BY DEF Bounded
<1> QED BY <1>1, LiesStill DEF WholeChunks

\* A sequence of length 0.
LEMMA NoEntries ==
    ASSUME NEW S, NEW s \in Seq(S), Len(s) = 0
    PROVE  s = <<>>
OBVIOUS

\* A cache that ends where it begins has no chunks.
LEMMA CachedNothing ==
    ASSUME NEW h, NEW c, NEW a, NEW R, Cached(h, c, a, a, R)
    PROVE  c.chunks = <<>> /\ Bufs(c) = {}
<1>0. PICK p : Seen(h, c, a, a, R, p)
  BY SeenCached
<1>1. /\ c \in Cache /\ p[1] = a /\ p[Len(c.chunks) + 1] = a
      /\ \A i, j \in 1..(Len(c.chunks) + 1) : i < j => p[i] < p[j]
      /\ a \in Nat
  BY <1>0 DEF Seen
<1>2. PICK n \in Nat : n = Len(c.chunks) /\ c.chunks \in Seq(View)
  BY <1>1, CacheFacts
<1>3. CASE n = 0
  <2>1. c.chunks = <<>>
    BY <1>2, <1>3, NoEntries
  <2>2. Len(c.chunks) = 0
    BY <1>2, <1>3
  <2>3. \A i \in 1..0 : FALSE
    OBVIOUS
  <2> QED BY <2>1, <2>2, <2>3 DEF Bufs
<1>4. CASE n # 0
  <2>1. 1 \in 1..(n + 1) /\ n + 1 \in 1..(n + 1) /\ 1 < n + 1
    BY <1>4
  <2>2. p[1] < p[n + 1]
    BY <1>1, <1>2, <2>1
  <2> QED BY <1>1, <1>2, <2>2
<1> QED BY <1>3, <1>4

\* The empty cache.
LEMMA NoCached ==
    ASSUME NEW h, NEW a \in Nat, NEW R
    PROVE  Cached(h, NoFrames(a), a, a, R) /\ Bufs(NoFrames(a)) = {} /\ WholeChunks(h, NoFrames(a)) /\ NoFrames(a) \in Cache
<1> DEFINE c == NoFrames(a)
           p == [i \in 1..1 |-> a]
<1>1. c \in Cache /\ c.start = a /\ c.chunks = <<>> /\ Len(c.chunks) = 0 /\ Len(c.chunks) + 1 = 1
  BY DEF NoFrames, Cache
<1>2. p[1] = a /\ p \in [1..1 -> Nat]
  OBVIOUS
<1> HIDE DEF c, p
<1>3. Starting(c, p)
  BY <1>1, <1>2 DEF Starting
<1>4. Cached(h, c, p[1], p[Len(c.chunks) + 1], R)
  <2>1. \A i \in 1..Len(c.chunks) : FALSE
    BY <1>1
  <2> QED BY <1>1, <1>3, <2>1, MadeCached
<1>5. Bufs(c) = {} /\ WholeChunks(h, c)
  BY <1>1 DEF Bufs, WholeChunks
<1> QED BY <1>1, <1>2, <1>4, <1>5 DEF c

\* One chunk more.
LEMMA OneChunkMore ==
    ASSUME NEW h, NEW c, NEW a, NEW b, NEW R, Cached(h, c, a, b, R), NEW v \in View, Lies(h, v),
           \A j \in 1..v.n : <<b + j - 1, h[v.buf][v.at + j]>> \in R,
           NEW d, d = [start |-> c.start, chunks |-> Append(c.chunks, v)]
    PROVE  /\ Cached(h, d, a, b + v.n, R) /\ Bufs(d) = Bufs(c) \cup {v.buf} /\ d \in Cache
           /\ WholeChunks(h, c) /\ v.n = Len(h[v.buf]) => WholeChunks(h, d)
<1>0. PICK p : Seen(h, c, a, b, R, p)
  BY SeenCached
<1>1. /\ c \in Cache /\ Starting(c, p)
      /\ a \in Nat /\ b \in Nat
      /\ p[1] = a /\ p[Len(c.chunks) + 1] = b
      /\ \A i \in 1..Len(c.chunks) : Lies(h, c.chunks[i])
      /\ \A i \in 1..Len(c.chunks) : \A j \in 1..c.chunks[i].n :
               <<p[i] + j - 1, h[c.chunks[i].buf][c.chunks[i].at + j]>> \in R
  BY <1>0 DEF Seen
<1>2. PICK n \in Nat : n = Len(c.chunks) /\ c.chunks \in Seq(View) /\ c.start \in Nat
  BY <1>1, CacheFacts
<1>3. /\ Append(c.chunks, v) \in Seq(View) /\ Len(Append(c.chunks, v)) = n + 1
      /\ Append(c.chunks, v)[n + 1] = v /\ \A i \in 1..n : Append(c.chunks, v)[i] = c.chunks[i]
  BY <1>2
<1>4. /\ d \in Cache /\ d.start = c.start /\ Len(d.chunks) = n + 1
      /\ d.chunks[n + 1] = v /\ \A i \in 1..n : d.chunks[i] = c.chunks[i]
  BY <1>2, <1>3 DEF Cache
<1>5. p \in [1..(n + 1) -> Nat] /\ p[1] = c.start /\ (\A i \in 1..n : p[i + 1] = p[i] + c.chunks[i].n) /\ p[n + 1] = b
  BY <1>1, <1>2 DEF Starting
<1>6. v.n \in Nat
  BY DEF View
<1> DEFINE q == [i \in 1..(n + 2) |-> IF i <= n + 1 THEN p[i] ELSE b + v.n]
<1>7. /\ q \in [1..(n + 2) -> Nat] /\ q[n + 2] = b + v.n /\ \A i \in 1..(n + 1) : q[i] = p[i]
  <2>1. \A i \in 1..(n + 2) : i <= n + 1 => i \in 1..(n + 1)
    OBVIOUS
  <2>2. \A i \in 1..(n + 1) : i <= n + 1 /\ i \in 1..(n + 2)
    OBVIOUS
  <2>3. n + 2 \in 1..(n + 2) /\ ~(n + 2 <= n + 1) /\ b + v.n \in Nat
    BY <1>1, <1>6
  <2> QED BY <1>5, <2>1, <2>2, <2>3
<1> HIDE DEF q
<1>8. 1..(n + 1) = 1..n \cup {n + 1} /\ 1 \in 1..(n + 1) /\ n + 1 \in 1..(n + 1) /\ (n + 1) + 1 = n + 2
      /\ \A i \in 1..n : i \in 1..(n + 1) /\ i + 1 \in 1..(n + 1)
  OBVIOUS
<1>9. Starting(d, q)
  <2>1. q[1] = d.start
    BY <1>4, <1>5, <1>7, <1>8
  <2>2. ASSUME NEW i \in 1..(n + 1) PROVE q[i + 1] = q[i] + d.chunks[i].n
    <3>1. CASE i \in 1..n
      BY <1>4, <1>5, <1>7, <1>8, <3>1
    <3>2. CASE i = n + 1
      BY <1>4, <1>5, <1>7, <1>8, <3>2
    <3> QED BY <1>8, <3>1, <3>2
  <2> QED BY <1>4, <1>7, <1>8, <2>1, <2>2 DEF Starting
<1>10. \A i \in 1..Len(d.chunks) : Lies(h, d.chunks[i])
  BY <1>1, <1>2, <1>4, <1>8
<1>11. \A i \in 1..Len(d.chunks) : \A j \in 1..d.chunks[i].n :
          <<q[i] + j - 1, h[d.chunks[i].buf][d.chunks[i].at + j]>> \in R
  BY <1>1, <1>2, <1>4, <1>5, <1>7, <1>8, SMTT(30)
<1>12. Cached(h, d, q[1], q[Len(d.chunks) + 1], R)
  BY <1>4, <1>9, <1>10, <1>11, MadeCached, ZenonT(60)
<1>13. Bufs(d) = Bufs(c) \cup {v.buf}
  BY <1>2, <1>4, <1>8 DEF Bufs
<1>14. WholeChunks(h, c) /\ v.n = Len(h[v.buf]) => WholeChunks(h, d)
  BY <1>2, <1>4, <1>8 DEF WholeChunks
<1> QED BY <1>1, <1>4, <1>5, <1>7, <1>8, <1>12, <1>13, <1>14

-----------------------------------------------------------------------------
(***************************************************************************)
(* Taking frames out of a cache.                                           *)
(***************************************************************************)

\* The first k chunks of c up to end; the ones behind them; d behind the chunk v that begins at x.
FirstChunks(c, k, end) == [i \in 1..k |-> [c.chunks[i] EXCEPT !.n = Min({@, end - ChunkStart(c, i)})]]
Remaining(c, k) == [start |-> ChunkStart(c, k + 1), chunks |-> SubSeq(c.chunks, k + 1, Len(c.chunks))]
Preceded(d, v, x) == [start |-> x, chunks |-> <<v>> \o d.chunks]

\* Blocks: as many as begin before end.
LEMMA CutFacts ==
    ASSUME NEW h, NEW c, NEW a, NEW b, NEW R, Cached(h, c, a, b, R), NEW end \in Nat, a < end, end <= b
    PROVE  \E k \in 1..Len(c.chunks) :
              /\ Len(Blocks(c, end)) = k
              /\ ChunkStart(c, k) < end /\ end <= ChunkStart(c, k + 1)
              /\ Blocks(c, end) = FirstChunks(c, k, end)
<1>0. PICK p : Seen(h, c, a, b, R, p)
  BY SeenCached
<1>1. /\ c \in Cache /\ Starting(c, p) /\ \A i \in 1..(Len(c.chunks) + 1) : ChunkStart(c, i) = p[i]
      /\ p[1] = a /\ p[Len(c.chunks) + 1] = b
      /\ \A i, j \in 1..(Len(c.chunks) + 1) : i <= j => p[i] <= p[j]
  BY <1>0 DEF Seen
<1>2. PICK n \in Nat : n = Len(c.chunks) /\ DOMAIN c.chunks = 1..n
  BY <1>1, CacheFacts
<1>3. p \in [1..(n + 1) -> Nat]
  BY <1>1, <1>2 DEF Starting
<1> DEFINE T == {i \in 1..(n + 1) : end <= p[i]}
<1>4. PICK l \in T : \A m \in T : l <= m
  <2>1. n + 1 \in T /\ T \subseteq Nat
    BY <1>1, <1>2
  <2> HIDE DEF T
  <2> QED BY <2>1, LeastNumber
<1>5. l \in 2..(n + 1)
  <2>1. l # 1
    BY <1>1, <1>3, <1>4
  <2> QED BY <1>4, <2>1
<1>6. PICK k \in 1..n : l = k + 1
  <2>1. l - 1 \in 1..n /\ l = (l - 1) + 1
    BY <1>5
  <2> QED BY <2>1
<1>7. \A i \in 1..n : p[i] < end <=> i <= k
  <2> TAKE i \in 1..n
  <2>1. i \in 1..(n + 1) /\ l \in 1..(n + 1) /\ p[i] \in Nat /\ p[l] \in Nat /\ end <= p[l]
    BY <1>3, <1>4
  <2>2. CASE i <= k
    <3>1. i < l
      BY <1>6, <2>2
    <3>2. i \notin T
      BY <1>4, <3>1
    <3> QED BY <2>1, <2>2, <3>2
  <2>3. CASE ~(i <= k)
    <3>1. l <= i
      BY <1>6, <2>3
    <3>2. p[l] <= p[i]
      BY <1>1, <1>2, <2>1, <3>1
    <3> QED BY <2>1, <2>3, <3>2
  <2> QED BY <2>2, <2>3
<1>8. {i \in DOMAIN c.chunks : ChunkStart(c, i) < end} = 1..k
  <2>1. \A i \in 1..n : ChunkStart(c, i) = p[i]
    BY <1>1, <1>2
  <2>2. \A i \in 1..n : ChunkStart(c, i) < end <=> i <= k
    BY <1>7, <2>1
  <2>3. \A i \in 1..k : i \in 1..n /\ i <= k
    BY <1>6
  <2>4. \A i \in 1..n : i <= k => i \in 1..k
    OBVIOUS
  <2> QED BY <1>2, <2>2, <2>3, <2>4
<1>9. Cardinality(1..k) = k
  <2>1. 1 <= k /\ 1 \in Int /\ k \in Int /\ k - 1 + 1 = k
    BY <1>6
  <2> QED BY <2>1, FS_Interval
<1>10. Blocks(c, end) = FirstChunks(c, k, end)
  BY <1>8, <1>9 DEF Blocks, FirstChunks
<1>11. Len(Blocks(c, end)) = k
  BY <1>10 DEF FirstChunks
<1>12. p[k] < end /\ end <= p[k + 1]
  BY <1>4, <1>6, <1>7
<1>13. ChunkStart(c, k) < end /\ end <= ChunkStart(c, k + 1)
  <2>1. k \in 1..(n + 1) /\ k + 1 \in 1..(n + 1)
    BY <1>6
  <2> QED BY <1>1, <1>2, <1>12, <2>1
<1> QED BY <1>2, <1>6, <1>10, <1>11, <1>13

\* Up to the end they are the chunks.
LEMMA AllBlocks ==
    ASSUME NEW h, NEW c, NEW a, NEW b, NEW R, Cached(h, c, a, b, R), a < b
    PROVE  Blocks(c, b) = c.chunks
<1>0. PICK p : Seen(h, c, a, b, R, p)
  BY SeenCached
<1>1. /\ c \in Cache /\ Starting(c, p) /\ \A i \in 1..(Len(c.chunks) + 1) : ChunkStart(c, i) = p[i]
      /\ a \in Nat /\ b \in Nat
      /\ p[1] = a /\ p[Len(c.chunks) + 1] = b
      /\ \A i \in 1..(Len(c.chunks) + 1) : a <= p[i] /\ p[i] <= b
      /\ \A i, j \in 1..(Len(c.chunks) + 1) : i < j => p[i] < p[j]
  BY <1>0 DEF Seen
<1>2. PICK n \in Nat : n = Len(c.chunks) /\ c.chunks \in Seq(View) /\ \A i \in 1..n : c.chunks[i] \in View
  BY <1>1, CacheFacts
<1>3. p \in [1..(n + 1) -> Nat] /\ \A i \in 1..n : p[i + 1] = p[i] + c.chunks[i].n
  BY <1>1, <1>2 DEF Starting
<1>4. PICK k \in 1..n :
              /\ b <= ChunkStart(c, k + 1)
              /\ ChunkStart(c, k) < b
              /\ Blocks(c, b) = FirstChunks(c, k, b)
  <2>1. b <= b /\ b \in Nat
    BY <1>1
  <2> QED BY <1>2, <2>1, CutFacts
<1>5. k = n
  <2> SUFFICES ASSUME k # n PROVE FALSE
    OBVIOUS
  <2>1. k + 1 \in 1..(n + 1) /\ n + 1 \in 1..(n + 1) /\ k + 1 < n + 1
    BY <1>4
  <2>2. p[k + 1] < b /\ ChunkStart(c, k + 1) = p[k + 1] /\ p[k + 1] \in Nat
    BY <1>1, <1>2, <1>3, <2>1
  <2> QED BY <1>1, <1>4, <2>2
<1>6. ASSUME NEW i \in 1..n PROVE [c.chunks[i] EXCEPT !.n = Min({@, b - ChunkStart(c, i)})] = c.chunks[i]
  <2>1. PICK v \in View : v = c.chunks[i]
    BY <1>2
  <2>2. i \in 1..(n + 1) /\ i + 1 \in 1..(n + 1)
    OBVIOUS
  <2>3. p[i] \in Nat /\ p[i + 1] <= b /\ p[i + 1] = p[i] + v.n /\ ChunkStart(c, i) = p[i]
    BY <1>1, <1>2, <1>3, <2>1, <2>2
  <2>4. v.n \in Nat
    BY <2>1 DEF View
  <2>5. PICK m \in Nat, x \in Int : m = v.n /\ x = b - ChunkStart(c, i) /\ m <= x
    BY <1>1, <2>3, <2>4
  <2>6. Min({m, x}) = m
    BY <2>5, MinOf
  <2>7. [v EXCEPT !.n = m] = v
    BY <2>5 DEF View
  <2> QED BY <2>1, <2>5, <2>6, <2>7
<1>7. c.chunks = [i \in 1..n |-> c.chunks[i]]
  BY <1>2
<1> QED BY <1>4, <1>5, <1>6, <1>7 DEF FirstChunks

\* What remains of a cache: its later chunks, behind a new one with the rest of the one that is cut.
LEMMA RemainsFacts ==
    ASSUME NEW h, NEW c, NEW a, NEW b, NEW R, Cached(h, c, a, b, R), NEW end \in Nat,
           NEW k \in 1..Len(c.chunks), end <= ChunkStart(c, k + 1)
    PROVE  /\ Cached(h, Remaining(c, k), ChunkStart(c, k + 1), b, R) /\ Bufs(Remaining(c, k)) \subseteq Bufs(c)
           /\ WholeChunks(h, c) => WholeChunks(h, Remaining(c, k))
           /\ Len(c.chunks) = 1 => Bufs(Remaining(c, k)) = {}
           /\ ChunkStart(c, k + 1) \in Nat /\ ChunkStart(c, k + 1) <= b
<1> DEFINE d == Remaining(c, k)
<1> HIDE DEF d
<1>0. PICK p : Seen(h, c, a, b, R, p)
  BY SeenCached
<1>1. /\ c \in Cache /\ Starting(c, p) /\ \A i \in 1..(Len(c.chunks) + 1) : ChunkStart(c, i) = p[i]
      /\ p[1] = a /\ p[Len(c.chunks) + 1] = b
      /\ \A i \in 1..(Len(c.chunks) + 1) : a <= p[i] /\ p[i] <= b
      /\ \A i \in 1..Len(c.chunks) : Lies(h, c.chunks[i])
      /\ \A i \in 1..Len(c.chunks) : \A j \in 1..c.chunks[i].n :
               <<p[i] + j - 1, h[c.chunks[i].buf][c.chunks[i].at + j]>> \in R
  BY <1>0 DEF Seen
<1>2. PICK n \in Nat : n = Len(c.chunks) /\ c.chunks \in Seq(View)
  BY <1>1, CacheFacts
<1>3. p \in [1..(n + 1) -> Nat] /\ \A i \in 1..n : p[i + 1] = p[i] + c.chunks[i].n
  BY <1>1, <1>2 DEF Starting
<1>4. k \in 1..n /\ k + 1 \in 1..(n + 1) /\ ChunkStart(c, k + 1) = p[k + 1] /\ p[k + 1] \in Nat
  <2>1. k \in 1..n /\ k + 1 \in 1..(n + 1)
    BY <1>2
  <2> QED BY <1>1, <1>2, <1>3, <2>1
<1>5. PICK m \in Nat : m = n - k
  BY <1>4
<1>6. PICK q \in Seq(View) : q = SubSeq(c.chunks, k + 1, n) /\ Len(q) = m /\ \A i \in 1..m : q[i] = c.chunks[k + i]
  <2>1. SubSeq(c.chunks, k + 1, n) \in Seq(View) /\ Len(SubSeq(c.chunks, k + 1, n)) = n - (k + 1) + 1
    BY <1>2, <1>4, PartFacts
  <2>2. \A i \in 1..m : SubSeq(c.chunks, k + 1, n)[i] = c.chunks[k + i]
    BY <1>2, <1>4, <1>5
  <2>3. n - (k + 1) + 1 = m
    BY <1>4, <1>5
  <2> QED BY <2>1, <2>2, <2>3
<1>7. d \in Cache /\ d.start = p[k + 1] /\ d.chunks = q
  BY <1>2, <1>4, <1>6 DEF Cache, Remaining, d
<1> DEFINE r == [i \in 1..(m + 1) |-> p[k + i]]
<1>8. \A i \in 1..(m + 1) : k + i \in 1..(n + 1)
  BY <1>4, <1>5
<1>9. r \in [1..(m + 1) -> Nat] /\ r[1] = p[k + 1] /\ r[m + 1] = p[n + 1] /\ \A i \in 1..(m + 1) : r[i] = p[k + i]
  <2>1. 1 \in 1..(m + 1) /\ m + 1 \in 1..(m + 1) /\ k + (m + 1) = n + 1
    BY <1>4, <1>5
  <2> QED BY <1>3, <1>8, <2>1
<1> HIDE DEF r
<1>10. \A i \in 1..m : k + i \in 1..n /\ i \in 1..(m + 1) /\ i + 1 \in 1..(m + 1) /\ k + (i + 1) = (k + i) + 1
  BY <1>4, <1>5
<1>11. Starting(d, r)
  <2>1. ASSUME NEW i \in 1..m PROVE r[i + 1] = r[i] + q[i].n
    <3>1. PICK l \in 1..n : l = k + i
      BY <1>10
    <3>2. p[l + 1] = p[l] + c.chunks[l].n
      BY <1>3
    <3>3. r[i] = p[l] /\ r[i + 1] = p[l + 1] /\ q[i] = c.chunks[l]
      BY <1>6, <1>9, <1>10, <3>1
    <3> QED BY <3>2, <3>3
  <2> QED BY <1>6, <1>7, <1>9, <2>1 DEF Starting
<1>12. \A i \in 1..Len(d.chunks) : Lies(h, d.chunks[i])
  BY <1>1, <1>2, <1>6, <1>7, <1>10
<1>13. \A i \in 1..Len(d.chunks) : \A j \in 1..d.chunks[i].n :
          <<r[i] + j - 1, h[d.chunks[i].buf][d.chunks[i].at + j]>> \in R
  <2>1. ASSUME NEW i \in 1..m
        PROVE  \A j \in 1..q[i].n : <<r[i] + j - 1, h[q[i].buf][q[i].at + j]>> \in R
    <3>1. PICK l \in 1..n : l = k + i
      BY <1>10
    <3>2. r[i] = p[l] /\ q[i] = c.chunks[l]
      BY <1>6, <1>9, <1>10, <3>1
    <3>3. \A j \in 1..c.chunks[l].n : <<p[l] + j - 1, h[c.chunks[l].buf][c.chunks[l].at + j]>> \in R
      BY <1>1, <1>2
    <3> QED BY <3>2, <3>3
  <2> QED BY <1>6, <1>7, <2>1
<1>14. Cached(h, d, r[1], r[Len(d.chunks) + 1], R)
  BY <1>7, <1>11, <1>12, <1>13, MadeCached
<1>15. Bufs(d) \subseteq Bufs(c) /\ (WholeChunks(h, c) => WholeChunks(h, d))
  BY <1>2, <1>6, <1>7, <1>10, SMTT(30) DEF Bufs, WholeChunks
<1>16. n = 1 => Bufs(d) = {}
  <2> SUFFICES ASSUME n = 1 PROVE Bufs(d) = {}
    OBVIOUS
  <2>1. m = 0
    BY <1>4, <1>5
  <2>2. \A i \in 1..0 : FALSE
    OBVIOUS
  <2> QED BY <1>6, <1>7, <2>1, <2>2 DEF Bufs
<1>17. p[k + 1] <= b
  BY <1>1, <1>2, <1>4
<1>18. Cached(h, d, p[k + 1], b, R)
  BY <1>1, <1>2, <1>6, <1>7, <1>9, <1>14
<1> QED BY <1>2, <1>4, <1>15, <1>16, <1>17, <1>18 DEF d

LEMMA OneEntry ==
    ASSUME NEW S, NEW x \in S
    PROVE  <<x>> \in Seq(S) /\ Len(<<x>>) = 1 /\ <<x>>[1] = x
OBVIOUS

\* One entry before the others.
LEMMA PutBefore ==
    ASSUME NEW S, NEW x \in S, NEW t \in Seq(S)
    PROVE  /\ <<x>> \o t \in Seq(S) /\ Len(<<x>> \o t) = Len(t) + 1
           /\ (<<x>> \o t)[1] = x /\ \A i \in 1..Len(t) : (<<x>> \o t)[i + 1] = t[i]
<1>1. PICK one \in Seq(S) : one = <<x>> /\ Len(one) = 1 /\ one[1] = x
  BY OneEntry
<1>2. /\ one \o t \in Seq(S) /\ Len(one \o t) = Len(one) + Len(t) /\ Len(t) \in Nat
      /\ \A i \in 1..Len(one) : (one \o t)[i] = one[i]
      /\ \A i \in 1..Len(t) : (one \o t)[Len(one) + i] = t[i]
  BY JoinFacts
<1>3. 1 + Len(t) = Len(t) + 1 /\ 1 \in 1..1 /\ \A i \in 1..Len(t) : 1 + i = i + 1
  BY <1>2
<1> QED BY <1>1, <1>2, <1>3

\* One chunk before them.
LEMMA OneChunkBefore ==
    ASSUME NEW h, NEW d, NEW a, NEW b, NEW R, Cached(h, d, a, b, R), NEW v \in View, Lies(h, v),
           NEW x \in Nat, x + v.n = a,
           \A j \in 1..v.n : <<x + j - 1, h[v.buf][v.at + j]>> \in R
    PROVE  /\ Cached(h, Preceded(d, v, x), x, b, R) /\ Bufs(Preceded(d, v, x)) = {v.buf} \cup Bufs(d)
           /\ WholeChunks(h, d) /\ v.n = Len(h[v.buf]) => WholeChunks(h, Preceded(d, v, x))
<1> DEFINE e == Preceded(d, v, x)
<1> HIDE DEF e
<1>0. PICK p : Seen(h, d, a, b, R, p)
  BY SeenCached
<1>1. /\ d \in Cache /\ Starting(d, p)
      /\ p[1] = a /\ p[Len(d.chunks) + 1] = b
      /\ \A i \in 1..Len(d.chunks) : Lies(h, d.chunks[i])
      /\ \A i \in 1..Len(d.chunks) : \A j \in 1..d.chunks[i].n :
               <<p[i] + j - 1, h[d.chunks[i].buf][d.chunks[i].at + j]>> \in R
  BY <1>0 DEF Seen
<1>2. PICK m \in Nat : m = Len(d.chunks) /\ d.chunks \in Seq(View)
  BY <1>1, CacheFacts
<1>3. p \in [1..(m + 1) -> Nat] /\ \A i \in 1..m : p[i + 1] = p[i] + d.chunks[i].n
  BY <1>1, <1>2 DEF Starting
<1>5. PICK q \in Seq(View) : q = <<v>> \o d.chunks /\ Len(q) = m + 1 /\ q[1] = v /\ \A i \in 1..m : q[i + 1] = d.chunks[i]
  <2>1. PICK t \in Seq(View) : t = d.chunks
    BY <1>2
  <2>2. /\ <<v>> \o t \in Seq(View) /\ Len(<<v>> \o t) = Len(t) + 1
        /\ (<<v>> \o t)[1] = v /\ \A i \in 1..Len(t) : (<<v>> \o t)[i + 1] = t[i]
    BY PutBefore
  <2> QED BY <1>2, <2>1, <2>2
<1>6. e \in Cache /\ e.start = x /\ e.chunks = q
  BY <1>5 DEF Cache, Preceded, e
<1> DEFINE r == [i \in 1..(m + 2) |-> IF i = 1 THEN x ELSE p[i - 1]]
<1>7. /\ r \in [1..(m + 2) -> Nat] /\ r[1] = x /\ \A i \in 1..(m + 1) : r[i + 1] = p[i]
  <2>1. \A i \in 1..(m + 2) : i # 1 => i - 1 \in 1..(m + 1)
    OBVIOUS
  <2>2. \A i \in 1..(m + 1) : i + 1 \in 1..(m + 2) /\ i + 1 # 1 /\ (i + 1) - 1 = i
    OBVIOUS
  <2>3. 1 \in 1..(m + 2)
    OBVIOUS
  <2> QED BY <1>3, <2>1, <2>2, <2>3
<1> HIDE DEF r
<1>8. \A i \in 1..(m + 1) : i = 1 \/ \E k \in 1..m : i = k + 1
  <2> TAKE i \in 1..(m + 1)
  <2>1. i # 1 => i - 1 \in 1..m /\ i = (i - 1) + 1
    OBVIOUS
  <2> QED BY <2>1
<1>9. (m + 1) + 1 = m + 2 /\ 1 \in 1..(m + 1) /\ m + 1 \in 1..(m + 1) /\ \A k \in 1..m : k \in 1..(m + 1) /\ k + 1 \in 1..(m + 1)
  OBVIOUS
<1>10. Starting(e, r)
  <2>1. ASSUME NEW i \in 1..(m + 1) PROVE r[i + 1] = r[i] + q[i].n
    <3>1. CASE i = 1
      BY <1>1, <1>2, <1>5, <1>7, <1>9, <3>1
    <3>2. CASE i # 1
      <4>1. PICK k \in 1..m : i = k + 1
        BY <1>8, <3>2
      <4> QED BY <1>3, <1>5, <1>7, <1>9, <4>1
    <3> QED BY <3>1, <3>2
  <2> QED BY <1>5, <1>6, <1>7, <1>9, <2>1 DEF Starting
<1>11. \A i \in 1..Len(e.chunks) : Lies(h, e.chunks[i])
  BY <1>1, <1>2, <1>5, <1>6, <1>8
<1>12. ASSUME NEW i \in 1..(m + 1), NEW j \in 1..q[i].n PROVE <<r[i] + j - 1, h[q[i].buf][q[i].at + j]>> \in R
  <2>1. CASE i = 1
    BY <1>5, <1>7, <2>1
  <2>2. CASE i # 1
    <3>1. PICK k \in 1..m : i = k + 1
      BY <1>8, <2>2
    <3> QED BY <1>1, <1>2, <1>5, <1>7, <1>9, <3>1
  <2> QED BY <2>1, <2>2
<1>13. Cached(h, e, r[1], r[Len(e.chunks) + 1], R)
  BY <1>5, <1>6, <1>10, <1>11, <1>12, MadeCached
<1>14. Bufs(e) = {v.buf} \cup Bufs(d)
  BY <1>2, <1>5, <1>6, <1>8, <1>9 DEF Bufs
<1>15. WholeChunks(h, d) /\ v.n = Len(h[v.buf]) => WholeChunks(h, e)
  BY <1>2, <1>5, <1>6, <1>8 DEF WholeChunks
<1>16. Cached(h, e, x, b, R)
  <2>1. r[1] = x /\ Len(e.chunks) = m + 1 /\ r[(m + 1) + 1] = p[m + 1] /\ p[m + 1] = b
    BY <1>1, <1>2, <1>5, <1>6, <1>7, <1>9
  <2> QED BY <1>13, <2>1
<1> QED BY <1>14, <1>15, <1>16 DEF e

-----------------------------------------------------------------------------
(***************************************************************************)
(* The operations on the caches of a store.                                *)
(***************************************************************************)

StoreSet == [heap : Heap, video : Cache, mask : Cache, output : Cache, overlap : Cache]

\* t is s with another cache of that name, whose buffers are its old ones and new ones.
Moves(s, t, name) ==
    /\ t \in StoreSet /\ Alters(s.heap, t.heap, {})
    /\ \A m \in Names : m # name => t[m] = s[m]
    /\ \A b \in Bufs(t[name]) : b \in Bufs(s[name]) \/ b > Len(s.heap)

LEMMA StoreFacts ==
    ASSUME NEW s \in StoreSet
    PROVE  s.heap \in Heap /\ Len(s.heap) \in Nat /\ \A m \in Names : s[m] \in Cache
<1>1. s.heap \in Heap /\ \A m \in Names : s[m] \in Cache
  BY DEF StoreSet, Names
<1> QED BY <1>1, HeapFacts

WithCache(s, name, c) == [s EXCEPT ![name] = c]

\* A store with another cache.
LEMMA CacheChanged ==
    ASSUME NEW s \in StoreSet, NEW name \in Names, NEW c \in Cache
    PROVE  LET t == WithCache(s, name, c)
           IN t \in StoreSet /\ t.heap = s.heap /\ t[name] = c /\ \A m \in Names : m # name => t[m] = s[m]
BY DEF StoreSet, Names, WithCache

LEMMA HeapChanged ==
    ASSUME NEW s \in StoreSet, NEW h \in Heap
    PROVE  LET t == [s EXCEPT !.heap = h]
           IN t \in StoreSet /\ t.heap = h /\ \A m \in Names : t[m] = s[m]
BY DEF StoreSet, Names

\* Caches and buffers lie in different places.
LEMMA OnlyOld ==
    ASSUME NEW h, NEW c, Bounded(h, c), h \in Heap
    PROVE  \A b \in Bufs(c) : b \in 1..Len(h)
<1>1. \A i \in 1..Len(c.chunks) : c.chunks[i].buf \in 1..Len(h)
  BY HeapFacts DEF Bounded, Lies
<1> QED BY <1>1 DEF Bufs

\* append_owned.
LEMMA OwnedAppended ==
    ASSUME NEW s \in StoreSet, NEW name \in Names, NEW a, NEW b, NEW R, Cached(s.heap, s[name], a, b, R),
           NEW v \in View, v.n > 0 => Lies(s.heap, v),
           \A j \in 1..v.n : <<b + j - 1, s.heap[v.buf][v.at + j]>> \in R
    PROVE  LET t == AppendOwned(s, name, v)
           IN /\ t \in StoreSet /\ t.heap = s.heap /\ \A m \in Names : m # name => t[m] = s[m]
              /\ Cached(t.heap, t[name], a, b + v.n, R)
              /\ Bufs(t[name]) \subseteq Bufs(s[name]) \cup {v.buf}
              /\ WholeChunks(s.heap, s[name]) /\ (v.n > 0 => v.n = Len(s.heap[v.buf])) => WholeChunks(t.heap, t[name])
<1> DEFINE t == AppendOwned(s, name, v)
           c == s[name]
           d == [start |-> c.start, chunks |-> Append(c.chunks, v)]
<1>1. v.n \in Nat /\ b \in Nat
  <2>1. PICK p : Seen(s.heap, s[name], a, b, R, p)
    BY SeenCached
  <2> QED BY <2>1 DEF Seen, View
<1>2. CASE v.n = 0
  <2>1. t = s /\ b + v.n = b
    BY <1>1, <1>2 DEF AppendOwned
  <2> HIDE DEF t
  <2> QED BY <2>1 DEF t
<1>3. CASE v.n # 0
  <2>1. c \in Cache
    BY StoreFacts
  <2>2. t = [s EXCEPT ![name].chunks = Append(c.chunks, v)]
    BY <1>3 DEF AppendOwned
  <2>3. [c EXCEPT !.chunks = Append(c.chunks, v)] = d
    <3>1. c = [start |-> c.start, chunks |-> c.chunks]
      BY <2>1, CacheFacts
    <3> HIDE DEF c
    <3> QED BY <3>1
  <2>4. t = WithCache(s, name, d)
    <3>1. s.heap \in Heap /\ name \in DOMAIN s
      BY DEF StoreSet, Names
    <3>2. [s EXCEPT ![name].chunks = Append(c.chunks, v)] = [s EXCEPT ![name] = [c EXCEPT !.chunks = Append(c.chunks, v)]]
      BY <3>1
    <3> QED BY <2>2, <2>3, <3>2 DEF WithCache
  <2>5. Lies(s.heap, v)
    BY <1>1, <1>3
  <2> HIDE DEF t, c, d
  <2>6. Cached(s.heap, c, a, b, R)
    BY DEF c
  <2>7. /\ Cached(s.heap, d, a, b + v.n, R) /\ Bufs(d) = Bufs(c) \cup {v.buf} /\ d \in Cache
        /\ WholeChunks(s.heap, c) /\ v.n = Len(s.heap[v.buf]) => WholeChunks(s.heap, d)
    <3>1. d = [start |-> c.start, chunks |-> Append(c.chunks, v)]
      BY DEF d
    <3> QED BY <2>5, <2>6, <3>1, OneChunkMore
  <2>8. t \in StoreSet /\ t.heap = s.heap /\ t[name] = d /\ \A m \in Names : m # name => t[m] = s[m]
    BY <2>4, <2>7, CacheChanged
  <2> QED BY <1>1, <1>3, <2>7, <2>8 DEF t, c
<1> QED BY <1>2, <1>3

\* append.
LEMMA CopyAppended ==
    ASSUME NEW s \in StoreSet, NEW name \in Names, NEW a, NEW b, NEW R, Cached(s.heap, s[name], a, b, R),
           NEW q \in Seq(FrameRec), Rows(q, b, R)
    PROVE  LET t == AppendCopy(s, name, q)
           IN /\ Moves(s, t, name) /\ Cached(t.heap, t[name], a, b + Len(q), R)
              /\ WholeChunks(s.heap, s[name]) => WholeChunks(t.heap, t[name])
<1> DEFINE t == AppendCopy(s, name, q)
<1>1. s.heap \in Heap /\ Len(s.heap) \in Nat /\ Len(q) \in Nat /\ b \in Nat
  <2>1. PICK p : Seen(s.heap, s[name], a, b, R, p)
    BY SeenCached
  <2> QED BY <2>1, StoreFacts DEF Seen
<1>2. CASE q = <<>>
  <2>1. t = s /\ b + Len(q) = b
    BY <1>1, <1>2 DEF AppendCopy
  <2> HIDE DEF t
  <2> QED BY <1>1, <2>1, AltersNothing DEF Moves, t
<1>3. CASE q # <<>>
  <2> DEFINE h == Append(s.heap, q)
             u == Allocated(s, q)
             v == [buf |-> Fresh(s), at |-> 0, n |-> Len(q)]
  <2>1. Alters(s.heap, h, {}) /\ h \in Heap /\ Len(h) = Len(s.heap) + 1 /\ h[Len(s.heap) + 1] = q
    BY <1>1, NewBuffer
  <2>2. u \in StoreSet /\ u.heap = h /\ \A m \in Names : u[m] = s[m]
    <3> HIDE DEF h
    <3>1. u = [s EXCEPT !.heap = h]
      BY DEF h, Allocated
    <3> QED BY <2>1, <3>1, HeapChanged
  <2>3. v \in View /\ v.n = Len(q) /\ v.at = 0 /\ v.buf = Len(s.heap) + 1
    BY <1>1 DEF View, Fresh
  <2>4. Len(q) > 0
    <3>1. Len(q) # 0
      BY <1>3, NoEntries
    <3> QED BY <1>1, <3>1
  <2>5. t = AppendOwned(u, name, v)
    <3>1. ~(v.n = 0)
      BY <2>3, <2>4
    <3> QED BY <1>3, <3>1 DEF AppendCopy, AppendOwned
  <2> HIDE DEF h, u, v, t
  <2>6. Lies(u.heap, v)
    <3>1. DOMAIN u.heap = 1..Len(u.heap)
      BY <2>1, <2>2, HeapFacts, SMTT(30)
    <3>2. v.buf \in DOMAIN u.heap /\ u.heap[v.buf] = q
      <4>1. PICK l \in Nat : l = Len(s.heap)
        BY <1>1
      <4>2. l + 1 \in 1..(l + 1)
        OBVIOUS
      <4> QED BY <2>1, <2>2, <2>3, <3>1, <4>1, <4>2, ZenonT(60)
    <3> QED BY <1>1, <2>3, <2>4, <3>2 DEF Lies
  <2>7. \A j \in 1..v.n : <<b + j - 1, u.heap[v.buf][v.at + j]>> \in R
    <3>1. \A j \in 1..Len(q) : 0 + j = j
      BY <1>1
    <3> QED BY <2>1, <2>2, <2>3, <3>1 DEF Rows
  <2>8. Bounded(s.heap, s[name])
    BY DEF Cached
  <2>9. Cached(u.heap, u[name], a, b, R)
    <3>1. Bufs(s[name]) \cap {} = {}
      OBVIOUS
    <3> QED BY <2>1, <2>2, <3>1, CachedStays
  <2>10. WholeChunks(s.heap, s[name]) => WholeChunks(u.heap, u[name])
    BY <2>1, <2>2, <2>8, WholeStill
  <2>11. /\ t \in StoreSet /\ t.heap = u.heap /\ \A m \in Names : m # name => t[m] = u[m]
         /\ Cached(t.heap, t[name], a, b + v.n, R)
         /\ Bufs(t[name]) \subseteq Bufs(u[name]) \cup {v.buf}
         /\ WholeChunks(u.heap, u[name]) /\ (v.n > 0 => v.n = Len(u.heap[v.buf])) => WholeChunks(t.heap, t[name])
    <3>1. LET w == AppendOwned(u, name, v)
          IN /\ w \in StoreSet /\ w.heap = u.heap /\ \A m \in Names : m # name => w[m] = u[m]
             /\ Cached(w.heap, w[name], a, b + v.n, R)
             /\ Bufs(w[name]) \subseteq Bufs(u[name]) \cup {v.buf}
             /\ WholeChunks(u.heap, u[name]) /\ (v.n > 0 => v.n = Len(u.heap[v.buf])) => WholeChunks(w.heap, w[name])
      <4>1. u \in StoreSet /\ v \in View /\ (v.n > 0 => Lies(u.heap, v))
        BY <2>2, <2>3, <2>6
      <4> QED BY <2>7, <2>9, <4>1, OwnedAppended
    <3> QED BY <2>5, <3>1
  <2>12. v.n = Len(u.heap[v.buf])
    BY <2>1, <2>2, <2>3
  <2>13. Moves(s, t, name)
    BY <1>1, <2>1, <2>2, <2>3, <2>11 DEF Moves
  <2> QED BY <2>3, <2>10, <2>11, <2>12, <2>13 DEF t
<1> QED BY <1>2, <1>3

\* discard_before.
LEMMA Evicted ==
    ASSUME NEW s \in StoreSet, NEW name \in Names, NEW a, NEW b, NEW R, Cached(s.heap, s[name], a, b, R),
           NEW end \in Nat, end <= b
    PROVE  LET t == PopBefore(s, name, end)
           IN /\ Moves(s, t, name) /\ Cached(t.heap, t[name], IF end <= a THEN a ELSE end, b, R)
              /\ WholeChunks(s.heap, s[name]) => WholeChunks(t.heap, t[name])
              /\ a < end /\ Len(s[name].chunks) = 1 => \A x \in Bufs(t[name]) : x > Len(s.heap)
<1> DEFINE t == PopBefore(s, name, end)
           c == s[name]
<1>1. s.heap \in Heap /\ Len(s.heap) \in Nat /\ a \in Nat /\ b \in Nat /\ c \in Cache /\ c.start = a
  <2>1. PICK p : Seen(s.heap, s[name], a, b, R, p)
    BY SeenCached
  <2> QED BY <2>1, StoreFacts DEF Seen, Cached
<1>2. CASE end <= a
  <2>1. t = s /\ ~(a < end)
    BY <1>1, <1>2 DEF PopBefore
  <2> HIDE DEF t
  <2> QED BY <1>1, <1>2, <2>1, AltersNothing DEF Moves, t
<1>3. CASE ~(end <= a)
  <2>1. a < end
    BY <1>1, <1>3
  <2> HIDE DEF c
  <2>2. Cached(s.heap, c, a, b, R)
    BY DEF c
  <2>3. PICK k \in 1..Len(c.chunks) :
              /\ Len(Blocks(c, end)) = k
              /\ ChunkStart(c, k) < end /\ end <= ChunkStart(c, k + 1)
    BY <2>1, <2>2, CutFacts
  <2> DEFINE d == Remaining(c, k)
             x == ChunkStart(c, k + 1)
             rest == Slice(s, c, end, x)
  <2>4. /\ Cached(s.heap, d, x, b, R) /\ Bufs(d) \subseteq Bufs(c)
        /\ WholeChunks(s.heap, c) => WholeChunks(s.heap, d)
        /\ Len(c.chunks) = 1 => Bufs(d) = {}
        /\ x \in Nat /\ x <= b
    BY <2>2, <2>3, RemainsFacts
  <2>5. /\ rest \in Seq(FrameRec) /\ Len(rest) = x - end /\ Rows(rest, end, R)
    <3>1. a <= end /\ end <= x
      BY <1>1, <2>1, <2>3
    <3> HIDE DEF x
    <3> QED BY <1>1, <2>2, <2>4, <3>1, SliceFacts
  <2>6. Rest(s, c, end) = rest /\ Later(c, end) = d.chunks /\ d.start = x
    BY <2>3 DEF Rest, Later, Remaining
  <2>7. d \in Cache
    BY <2>4 DEF Cached, Bounded
  <2> HIDE DEF d, x, rest
  <2>8. CASE rest = <<>>
    <3> DEFINE e == [start |-> end, chunks |-> Later(c, end)]
    <3>1. t = WithCache(s, name, e)
      BY <1>1, <1>3, <2>6, <2>8 DEF PopBefore, c, WithCache
    <3>2. x = end
      <4>1. Len(rest) = 0
        BY <2>8
      <4> QED BY <2>4, <2>5, <4>1
    <3>3. e = d
      <4>1. d = [start |-> d.start, chunks |-> d.chunks]
        BY <2>7, CacheFacts
      <4> QED BY <2>6, <3>2, <4>1
    <3> HIDE DEF e, t
    <3>4. t \in StoreSet /\ t.heap = s.heap /\ t[name] = d /\ \A m \in Names : m # name => t[m] = s[m]
      BY <2>7, <3>1, <3>3, CacheChanged
    <3>5. Moves(s, t, name)
      BY <1>1, <2>4, <3>4, AltersNothing DEF Moves, c
    <3> QED BY <1>3, <2>4, <3>2, <3>4, <3>5 DEF t, c
  <2>9. CASE rest # <<>>
    <3> DEFINE h == Append(s.heap, rest)
               u == Allocated(s, rest)
               v == [buf |-> Fresh(s), at |-> 0, n |-> Len(rest)]
               e == [start |-> end, chunks |-> <<v>> \o Later(c, end)]
    <3>1. t = WithCache(u, name, e)
      BY <1>1, <1>3, <2>6, <2>9 DEF PopBefore, c, WithCache
    <3>2. Alters(s.heap, h, {}) /\ h \in Heap /\ Len(h) = Len(s.heap) + 1 /\ h[Len(s.heap) + 1] = rest
      BY <1>1, <2>5, NewBuffer
    <3>3. u \in StoreSet /\ u.heap = h /\ \A m \in Names : u[m] = s[m]
      <4> HIDE DEF h
      <4>1. u = [s EXCEPT !.heap = h]
        BY DEF h, Allocated
      <4> QED BY <3>2, <4>1, HeapChanged
    <3>4. Len(rest) \in Nat /\ Len(rest) > 0
      <4>1. Len(rest) # 0 /\ Len(rest) \in Nat
        BY <2>5, <2>9, NoEntries
      <4> QED BY <4>1
    <3>5. v \in View /\ v.n = Len(rest) /\ v.at = 0 /\ v.buf = Len(s.heap) + 1
      BY <1>1, <3>4 DEF View, Fresh
    <3>6. e = Preceded(d, v, end)
      BY <2>6 DEF Preceded
    <3> HIDE DEF h, u, v, e, t
    <3>7. Lies(h, v)
      <4>1. DOMAIN h = 1..Len(h)
        BY <3>2, HeapFacts
      <4> QED BY <1>1, <3>2, <3>4, <3>5, <4>1 DEF Lies
    <3>8. Cached(h, d, x, b, R)
      <4>1. Bufs(d) \cap {} = {}
        OBVIOUS
      <4> QED BY <2>4, <3>2, <4>1, CachedStays
    <3>9. WholeChunks(s.heap, c) => WholeChunks(h, d)
      <4>1. Bounded(s.heap, d)
        BY <2>4 DEF Cached
      <4> QED BY <2>4, <3>2, <4>1, WholeStill
    <3>10. \A j \in 1..v.n : <<end + j - 1, h[v.buf][v.at + j]>> \in R
      <4>1. \A j \in 1..Len(rest) : 0 + j = j
        BY <3>4
      <4> QED BY <2>5, <3>2, <3>5, <4>1 DEF Rows
    <3>11. end + v.n = x
      BY <2>4, <2>5, <3>5
    <3>12. /\ Cached(h, e, end, b, R) /\ Bufs(e) = {v.buf} \cup Bufs(d)
           /\ WholeChunks(h, d) /\ v.n = Len(h[v.buf]) => WholeChunks(h, e)
      <4>1. v \in View /\ end \in Nat
        BY <3>5
      <4>2. /\ Cached(h, Preceded(d, v, end), end, b, R) /\ Bufs(Preceded(d, v, end)) = {v.buf} \cup Bufs(d)
            /\ WholeChunks(h, d) /\ v.n = Len(h[v.buf]) => WholeChunks(h, Preceded(d, v, end))
        BY <3>7, <3>8, <3>10, <3>11, <4>1, OneChunkBefore
      <4> QED BY <3>6, <4>2
    <3>13. v.n = Len(h[v.buf])
      BY <3>2, <3>5
    <3>14. e \in Cache
      BY <3>12 DEF Cached, Bounded
    <3>15. t \in StoreSet /\ t.heap = h /\ t[name] = e /\ \A m \in Names : m # name => t[m] = s[m]
      BY <3>1, <3>3, <3>14, CacheChanged
    <3>16. Moves(s, t, name)
      BY <1>1, <2>4, <3>2, <3>5, <3>12, <3>15 DEF Moves, c
    <3>17. Len(c.chunks) = 1 => \A y \in Bufs(e) : y > Len(s.heap)
      BY <1>1, <2>4, <3>5, <3>12
    <3> QED BY <1>3, <2>4, <3>9, <3>12, <3>13, <3>15, <3>16, <3>17 DEF t, c
  <2> QED BY <2>8, <2>9
<1> QED BY <1>2, <1>3

-----------------------------------------------------------------------------
(***************************************************************************)
(* Frames, and where they may be seen.                                     *)
(***************************************************************************)

Looks == Nat \cup {"soft", "binary", "clear"}

\* Frames that all look the same; a mask that is binary from frame d on.
SameRel(x) == {r \in Nat \X FrameRec : r[2] = [f |-> r[1], shows |-> x]}
RawRel == SameRel(Raw)
MaskRel(d) == {r \in Nat \X FrameRec : r[1] >= d => r[2] = [f |-> r[1], shows |-> "binary"]}

\* ShownBy for the request q, and the frames as window k shows them, and as the plan says.
Showers(q, f) ==
    LET by[k \in 0..Len(Windows)] ==
            IF k = 0 \/ k \in q.skipped THEN Raw
            ELSE IF q.fuse = "before" /\ f < Windows[k].deal_start THEN by[k - 1]
            ELSE k
    IN by
OverRel(q, k) == {r \in Nat \X FrameRec : r[2] = [f |-> r[1], shows |-> Showers(q, r[1])[k]]}
PlanRel(q) == {r \in Nat \X FrameRec : \E k \in DOMAIN Windows :
    /\ r[1] \in Windows[k].load_start..(StableEnd(Windows[k]) - 1)
    /\ r[2] = [f |-> r[1], shows |-> Showers(q, r[1])[k]]}

LEMMA Pairs ==
    ASSUME NEW f, NEW x
    PROVE  /\ \A y : <<f, x>> \in SameRel(y) <=> f \in Nat /\ x \in FrameRec /\ x = [f |-> f, shows |-> y]
           /\ \A d : <<f, x>> \in MaskRel(d) <=> f \in Nat /\ x \in FrameRec /\ (f >= d => x = [f |-> f, shows |-> "binary"])
           /\ \A q, k : <<f, x>> \in OverRel(q, k) <=> f \in Nat /\ x \in FrameRec /\ x = [f |-> f, shows |-> Showers(q, f)[k]]
BY DEF SameRel, MaskRel, OverRel

LEMMA PlanPairs ==
    ASSUME NEW f, NEW x, NEW q
    PROVE  <<f, x>> \in PlanRel(q) <=>
              /\ f \in Nat /\ x \in FrameRec
              /\ \E k \in 1..Len(Windows) :
                    /\ f \in LoadStart(k)..(LoadStart(k + 1) - 1)
                    /\ x = [f |-> f, shows |-> Showers(q, f)[k]]
<1>1. DOMAIN Windows = 1..Len(Windows)
      /\ \A k \in 1..Len(Windows) : Windows[k].load_start = LoadStart(k) /\ StableEnd(Windows[k]) = LoadStart(k + 1)
  BY PlanFacts
<1> QED BY <1>1 DEF PlanRel

\* Which window a frame is seen of.
LEMMA ShowersFacts ==
    ASSUME NEW q, NEW f
    PROVE  \A k \in 1..Len(Windows) :
              /\ Showers(q, f)[k] \in Nat
              /\ Showers(q, f)[k] = IF k \in q.skipped THEN Raw
                                    ELSE IF q.fuse = "before" /\ f < DealStart(k) THEN Showers(q, f)[k - 1] ELSE k
<1> DEFINE n == Len(Windows)
           st == [x \in (1..n) \X Nat |-> IF x[1] \in q.skipped THEN Raw
                    ELSE IF q.fuse = "before" /\ f < Windows[x[1]].deal_start THEN x[2] ELSE x[1]]
           Rule(g) == g = [k \in 0..n |-> IF k = 0 \/ k \in q.skipped THEN Raw
                    ELSE IF q.fuse = "before" /\ f < Windows[k].deal_start THEN g[k - 1] ELSE k]
           by == CHOOSE g : Rule(g)
<1>1. n \in Nat /\ \A k \in 1..n : Windows[k].deal_start = DealStart(k)
  BY PlanFacts
<1>2. Showers(q, f) = by
  BY DEF Showers
<1> HIDE DEF n
<1>3. \A k \in 1..n : \A v \in Nat : st[<<k, v>>] \in Nat
  BY DEF Raw
<1> HIDE DEF st
<1>4. PICK g \in [0..n -> Nat] : Recurs(g, n, Raw, st)
  <2>1. Raw \in Nat
    BY DEF Raw
  <2> QED BY <1>1, <1>3, <2>1, CanRecur
<1>5. Rule(g)
  <2>1. ASSUME NEW k \in 0..n
        PROVE  g[k] = IF k = 0 \/ k \in q.skipped THEN Raw
                      ELSE IF q.fuse = "before" /\ f < Windows[k].deal_start THEN g[k - 1] ELSE k
    <3>1. g[k] = IF k = 0 THEN Raw ELSE st[<<k, g[k - 1]>>]
      BY <1>4 DEF Recurs
    <3>2. CASE k # 0
      <4>1. k \in 1..n /\ k - 1 \in 0..n
        BY <1>1, <3>2
      <4>2. k \in 1..n /\ g[k - 1] \in Nat
        BY <1>4, <4>1
      <4> QED BY <3>1, <3>2, <4>2 DEF st
    <3> QED BY <3>1, <3>2
  <2>2. g = [k \in 0..n |-> g[k]]
    BY <1>4
  <2> QED BY <2>1, <2>2
<1>6. Rule(by)
  <2> HIDE DEF Rule
  <2> QED BY <1>5
<1> HIDE DEF by
<1>7. ASSUME NEW k \in 1..n
      PROVE  by[k] = IF k \in q.skipped THEN Raw
                     ELSE IF q.fuse = "before" /\ f < Windows[k].deal_start THEN by[k - 1] ELSE k
  <2>1. k \in 0..n /\ k # 0
    BY <1>1
  <2> QED BY <1>6, <2>1
<1>8. by[0] = Raw
  <2>1. 0 \in 0..n
    BY <1>1
  <2> QED BY <1>6, <2>1
<1> DEFINE Good == {k \in Nat : k <= n => by[k] \in Nat}
<1>9. \A k \in Nat : k \in Good
  <2>1. 0 \in Good
    BY <1>8 DEF Raw
  <2>2. ASSUME NEW k \in Nat, k \in Good PROVE k + 1 \in Good
    <3>1. CASE ~(k + 1 <= n)
      BY <3>1
    <3>2. CASE k + 1 <= n
      <4>1. k + 1 \in 1..n /\ (k + 1) - 1 = k /\ by[k] \in Nat
        BY <1>1, <2>2, <3>2
      <4> QED BY <1>7, <4>1 DEF Raw
    <3> QED BY <3>1, <3>2
  <2> HIDE DEF Good
  <2> QED BY <2>1, <2>2, SetInduction
<1>10. \A k \in 1..n : by[k] \in Nat
  <2>1. \A k \in 1..n : k \in Nat /\ k <= n
    BY <1>1
  <2> QED BY <1>9, <2>1
<1> QED BY <1>1, <1>2, <1>7, <1>10 DEF n

\* Frames that look the same.
LEMMA FramesFacts ==
    ASSUME NEW a \in Nat, NEW b \in Nat, a <= b, NEW x \in Looks
    PROVE  /\ FramesOf(a, b, x) \in Seq(FrameRec) /\ Len(FramesOf(a, b, x)) = b - a
           /\ \A m \in 1..(b - a) : FramesOf(a, b, x)[m] = [f |-> a + m - 1, shows |-> x]
           /\ Rows(FramesOf(a, b, x), a, SameRel(x))
<1> DEFINE q == FramesOf(a, b, x)
<1>1. PICK n \in Nat : n = b - a
  OBVIOUS
<1>2. \A m \in 1..n : [f |-> a + m - 1, shows |-> x] \in FrameRec /\ a + m - 1 \in Nat
  BY DEF FrameRec, Looks
<1>3. q = [m \in 1..n |-> [f |-> a + m - 1, shows |-> x]]
  BY <1>1 DEF FramesOf
<1> HIDE DEF q
<1>4. q \in Seq(FrameRec) /\ Len(q) = n /\ \A m \in 1..n : q[m] = [f |-> a + m - 1, shows |-> x]
  <2>1. \A m \in 1..n : q[m] = [f |-> a + m - 1, shows |-> x]
    BY <1>3
  <2>2. q = [m \in 1..n |-> q[m]] /\ \A m \in 1..n : q[m] \in FrameRec
    BY <1>2, <1>3
  <2>3. q \in Seq(FrameRec) /\ Len(q) = n
    BY <2>2, ListFacts
  <2> QED BY <2>1, <2>3
<1>5. Rows(q, a, SameRel(x))
  <2> SUFFICES ASSUME NEW m \in 1..n PROVE <<a + m - 1, q[m]>> \in SameRel(x)
    BY <1>4 DEF Rows
  <2> QED BY <1>2, <1>4, Pairs
<1> QED BY <1>1, <1>4, <1>5 DEF q

LEMMA SameFrames ==
    ASSUME NEW a \in Nat, NEW b \in Nat, a <= b, NEW x \in Looks,
           NEW q \in Seq(FrameRec), Len(q) = b - a, Rows(q, a, SameRel(x))
    PROVE  q = FramesOf(a, b, x)
<1>1. PICK n \in Nat : n = b - a
  OBVIOUS
<1>2. ASSUME NEW m \in 1..n PROVE q[m] = [f |-> a + m - 1, shows |-> x]
  <2>1. <<a + m - 1, q[m]>> \in SameRel(x)
    BY <1>1 DEF Rows
  <2> QED BY <2>1, Pairs
<1>3. q = [m \in 1..n |-> q[m]]
  BY <1>1
<1> QED BY <1>1, <1>2, <1>3 DEF FramesOf

LEMMA FramesShown ==
    ASSUME NEW a \in Nat, NEW b \in Nat, a <= b, NEW x \in Looks, NEW y \in Looks
    PROVE  Showing(FramesOf(a, b, x), y) = FramesOf(a, b, y)
<1>1. PICK n \in Nat : n = b - a
  OBVIOUS
<1>2. FramesOf(a, b, x) = [m \in 1..n |-> [f |-> a + m - 1, shows |-> x]]
  BY <1>1 DEF FramesOf
<1>3. FramesOf(a, b, y) = [m \in 1..n |-> [f |-> a + m - 1, shows |-> y]]
  BY <1>1 DEF FramesOf
<1>4. \A m \in 1..n : [[f |-> a + m - 1, shows |-> x] EXCEPT !.shows = y] = [f |-> a + m - 1, shows |-> y]
  OBVIOUS
<1> QED BY <1>2, <1>3, <1>4 DEF Showing

\* Frames behind frames.
LEMMA RowsJoined ==
    ASSUME NEW q \in Seq(FrameRec), NEW r \in Seq(FrameRec), NEW a \in Nat, NEW R, Rows(q, a, R), Rows(r, a + Len(q), R)
    PROVE  q \o r \in Seq(FrameRec) /\ Len(q \o r) = Len(q) + Len(r) /\ Rows(q \o r, a, R)
<1>1. /\ q \o r \in Seq(FrameRec) /\ Len(q \o r) = Len(q) + Len(r) /\ Len(q) \in Nat /\ Len(r) \in Nat
      /\ \A i \in 1..Len(q) : (q \o r)[i] = q[i]
      /\ \A i \in 1..Len(r) : (q \o r)[Len(q) + i] = r[i]
  BY JoinFacts
<1>2. PICK k \in Nat, l \in Nat : k = Len(q) /\ l = Len(r)
  BY <1>1
<1>3. ASSUME NEW m \in 1..(k + l) PROVE <<a + m - 1, (q \o r)[m]>> \in R
  <2>1. CASE m <= k
    <3>1. m \in 1..k
      BY <2>1
    <3> QED BY <1>1, <1>2, <3>1 DEF Rows
  <2>2. CASE ~(m <= k)
    <3>1. PICK i \in 1..l : m = k + i
      <4>1. m - k \in 1..l /\ m = k + (m - k)
        BY <2>2
      <4> QED BY <4>1
    <3>2. a + m - 1 = (a + k) + i - 1
      BY <3>1
    <3> QED BY <1>1, <1>2, <3>1, <3>2 DEF Rows
  <2> QED BY <2>1, <2>2
<1> QED BY <1>1, <1>2, <1>3 DEF Rows

\* Writing frames into a view.
LEMMA WroteFacts ==
    ASSUME NEW s \in StoreSet, NEW v \in View, v.buf \in DOMAIN s.heap, v.at + v.n <= Len(s.heap[v.buf]),
           NEW q \in Seq(FrameRec), Len(q) <= v.n
    PROVE  LET t == Wrote(s, v, q)
           IN /\ t \in StoreSet /\ Alters(s.heap, t.heap, {v.buf}) /\ \A m \in Names : t[m] = s[m]
              /\ \A j \in 1..Len(q) : t.heap[v.buf][v.at + j] = q[j]
              /\ \A j \in (Len(q) + 1)..v.n : t.heap[v.buf][v.at + j] = s.heap[v.buf][v.at + j]
<1> DEFINE t == Wrote(s, v, q)
           S == Seq(FrameRec)
<1>1. PICK o \in Seq(FrameRec), at \in Nat, n \in Nat, l \in Nat, k \in Nat :
         o = s.heap[v.buf] /\ at = v.at /\ n = v.n /\ l = Len(o) /\ k = Len(q) /\ at + n <= l /\ k <= n
  <2>1. s.heap \in Heap /\ v.at \in Nat /\ v.n \in Nat /\ Len(q) \in Nat
    BY DEF StoreSet, View
  <2> QED BY <2>1, HeapFacts
<1>2. PICK x \in Seq(FrameRec) : x = SubSeq(o, 1, at) /\ Len(x) = at /\ \A i \in 1..at : x[i] = o[i]
  <2>1. SubSeq(o, 1, at) \in Seq(FrameRec) /\ Len(SubSeq(o, 1, at)) = at - 1 + 1
    BY <1>1, PartFacts, SMTT(60)
  <2>2. \A i \in 1..at : SubSeq(o, 1, at)[i] = o[i]
    BY <1>1
  <2>3. at - 1 + 1 = at
    OBVIOUS
  <2> QED BY <2>1, <2>2, <2>3
<1>12. at + k + 1 \in Int /\ l \in Int /\ 0 < at + k + 1 /\ l <= Len(o) /\ at + k + 1 <= l + 1
  <2>1. at + n <= l /\ k <= n
    BY <1>1
  <2>2. at + k <= l
    BY <2>1
  <2>3. at + k + 1 \in Int /\ l \in Int /\ 0 < at + k + 1 /\ at + k + 1 <= l + 1
    BY <2>2
  <2>4. l <= l /\ l = Len(o)
    BY <1>1
  <2> QED BY <2>3, <2>4
<1>3. PICK z \in Seq(FrameRec) : z = SubSeq(o, at + k + 1, l) /\ Len(z) = l - (at + k) /\ \A i \in 1..(l - (at + k)) : z[i] = o[at + k + i]
  <2>1. SubSeq(o, at + k + 1, l) \in Seq(FrameRec) /\ Len(SubSeq(o, at + k + 1, l)) = l - (at + k + 1) + 1
    <3> QED BY <1>12, PartFacts
  <2>2. ASSUME NEW i \in 1..(l - (at + k)) PROVE SubSeq(o, at + k + 1, l)[i] = o[at + k + i]
    <3>2. i \in 1..(l - (at + k + 1) + 1) /\ (at + k + 1) + i - 1 = at + k + i
      OBVIOUS
    <3>3. SubSeq(o, at + k + 1, l)[i] = o[(at + k + 1) + i - 1]
      BY <1>12, <3>2, PartFacts
    <3> QED BY <3>2, <3>3
  <2>3. l - (at + k + 1) + 1 = l - (at + k)
    OBVIOUS
  <2> QED BY <2>1, <2>2, <2>3
<1>4. /\ x \o q \in Seq(FrameRec) /\ Len(x \o q) = at + k
      /\ \A i \in 1..at : (x \o q)[i] = o[i]
      /\ \A i \in 1..k : (x \o q)[at + i] = q[i]
  <2>1. /\ x \o q \in Seq(FrameRec) /\ Len(x \o q) = Len(x) + Len(q)
        /\ \A i \in 1..Len(x) : (x \o q)[i] = x[i]
        /\ \A i \in 1..Len(q) : (x \o q)[Len(x) + i] = q[i]
    BY JoinFacts
  <2> QED BY <1>1, <1>2, <2>1, ZenonT(60)
<1>5. PICK y \in Seq(FrameRec) : y = (x \o q) \o z /\ Len(y) = l /\ (\A i \in 1..(at + k) : y[i] = (x \o q)[i])
                                 /\ \A i \in 1..(l - (at + k)) : y[at + k + i] = o[at + k + i]
  <2>1. PICK u \in Seq(FrameRec) : u = x \o q
    BY <1>4
  <2>2. /\ u \o z \in Seq(FrameRec) /\ Len(u \o z) = Len(u) + Len(z)
        /\ \A i \in 1..Len(u) : (u \o z)[i] = u[i]
        /\ \A i \in 1..Len(z) : (u \o z)[Len(u) + i] = z[i]
    BY JoinFacts
  <2>3. Len(u) = at + k /\ Len(u) + Len(z) = l
    BY <1>1, <1>3, <1>4, <2>1
  <2>4. \A i \in 1..(at + k) : (u \o z)[i] = u[i]
    BY <2>2, <2>3
  <2>5. \A i \in 1..(l - (at + k)) : (u \o z)[at + k + i] = o[at + k + i]
    BY <1>3, <2>2, <2>3
  <2> QED BY <2>1, <2>2, <2>3, <2>4, <2>5
<1> DEFINE h == [s.heap EXCEPT ![v.buf] = y]
<1>6. t = [s EXCEPT !.heap = h]
  <2>1. SubSeq(o, 1, v.at) \o q \o SubSeq(o, v.at + Len(q) + 1, Len(o)) = y
    BY <1>1, <1>2, <1>3, <1>5
  <2>2. t = [s EXCEPT !.heap[v.buf] = y]
    BY <1>1, <2>1 DEF Wrote
  <2>3. "heap" \in DOMAIN s
    BY DEF StoreSet
  <2> QED BY <2>2, <2>3, SMTT(30)
<1>7. h \in Heap /\ Len(h) = Len(s.heap) /\ h[v.buf] = y /\ \A b \in 1..Len(s.heap) : b # v.buf => h[b] = s.heap[b]
  BY DEF StoreSet, Heap
<1> HIDE DEF h, t
<1>8. t \in StoreSet /\ t.heap = h /\ \A m \in Names : t[m] = s[m]
  BY <1>6, <1>7, HeapChanged
<1>9. Alters(s.heap, h, {v.buf})
  <2>1. s.heap \in Heap /\ Len(s.heap) \in Nat
    BY StoreFacts
  <2> QED BY <1>1, <1>5, <1>7, <2>1, SMTT(60) DEF Alters
<1>10. ASSUME NEW j \in 1..k PROVE y[at + j] = q[j]
  <2>1. at + j \in 1..(at + k)
    OBVIOUS
  <2> QED BY <1>4, <1>5, <2>1
<1>11. ASSUME NEW j \in (k + 1)..n PROVE y[at + j] = o[at + j]
  <2>1. PICK i \in 1..(l - (at + k)) : at + j = at + k + i
    <3>1. j - k \in 1..(l - (at + k)) /\ at + j = at + k + (j - k)
      <4>1. at + n <= l /\ j <= n /\ k < j
        BY <1>1
      <4> QED BY <4>1
    <3> QED BY <3>1
  <2> QED BY <1>5, <2>1
<1> QED BY <1>1, <1>7, <1>8, <1>9, <1>10, <1>11 DEF t

-----------------------------------------------------------------------------
(***************************************************************************)
(* The invariant.                                                          *)
(***************************************************************************)

Cur == IF pc = "flush" THEN next - 1 ELSE next
Decoded == EndIndex(store.video)
Coming == IF queue = <<>> THEN <<>> ELSE queue[1]

\* What the thread has still to write, as a cache behind what is written.
Pending == [start |-> Len(written), chunks |-> item \o Coming]

\* How far the driver is: the output ends where the next window begins, and the caches behind it
\* go on from there to where the reads have come, one window at a time.
PlaceInv ==
    /\ request \in RequestSet
    /\ next \in 1..(Len(Windows) + 1) /\ Cur \in 1..(Len(Windows) + 1)
    /\ LoadStart(Cur) <= store.video.start /\ store.video.start <= LoadStart(next)
    /\ pc # "flush" => store.video.start = LoadStart(next)
    /\ Decoded = DealStart(next) \/ (next <= Len(Windows) /\ Decoded = DealStart(next + 1))
    /\ pc \in {"scan", "prepare"} => next = 1
    /\ pc \in {"scan", "prepare", "read", "flush"} => Decoded = DealStart(next)
    /\ pc \in {"read", "run"} => next <= Len(Windows)
    /\ pc = "run" => Decoded = DealStart(next + 1)

\* What the caches hold, and what they show.
CacheInv ==
    /\ store \in StoreSet
    /\ Cached(store.heap, store.video, store.video.start, Decoded, RawRel)
    /\ Cached(store.heap, store.mask, LoadStart(Cur), Decoded, MaskRel(DealStart(next)))
    /\ Cached(store.heap, store.output, LoadStart(Cur), LoadStart(next), PlanRel(request))
    /\ Cached(store.heap, store.overlap, LoadStart(next), DealStart(next), OverRel(request, next - 1))
    /\ WholeChunks(store.heap, store.video) /\ WholeChunks(store.heap, store.mask)

\* What the thread writes, and what it has written.
PendingInv ==
    /\ written \in Seq(FrameRec) /\ Rows(written, 0, PlanRel(request))
    /\ item \in Seq(View) /\ Coming \in Seq(View) /\ queue \in {<<>>, <<Coming>>}
    /\ Cached(store.heap, Pending, Len(written), LoadStart(Cur), PlanRel(request))

\* The buffers of the mask are the mask's alone.
OwnInv == \A b \in Bufs(store.mask) :
    b \notin Bufs(store.video) /\ b \notin Bufs(store.output) /\ b \notin Bufs(store.overlap) /\ b \notin Bufs(Pending)

\* The window's array is its own, or lent from the video cache, which has no other; it begins with
\* the overlap the window before it has left.
HandInv ==
    pc = "run" =>
       /\ next \notin request.skipped
       /\ hand.video \in View /\ hand.video.buf \in DOMAIN store.heap
       /\ hand.video.at + hand.video.n <= Len(store.heap[hand.video.buf])
       /\ hand.video.n = DealStart(next + 1) - LoadStart(next)
       /\ hand.video.buf \notin Bufs(store.mask) /\ hand.video.buf \notin Bufs(store.output)
       /\ hand.video.buf \notin Bufs(store.overlap) /\ hand.video.buf \notin Bufs(Pending)
       /\ hand.borrowed => Len(store.video.chunks) = 1
       /\ ~hand.borrowed => hand.video.buf \notin Bufs(store.video)
       /\ \A j \in 1..(DealStart(next) - LoadStart(next)) :
             <<LoadStart(next) + j - 1, store.heap[hand.video.buf][hand.video.at + j]>> \in OverRel(request, next - 1)
       /\ hand.mask = FramesOf(DealStart(next), DealStart(next + 1), "binary")

\* A reader has delivered n frames: it goes on in the file, or in the prefix it replays.
Delivered(r, n) ==
    /\ r \in [at : Nat, prefix : Nat, offset : Nat, frames_read : Nat] /\ r.frames_read = n
    /\ IF r.prefix = 0 THEN r.at = n ELSE r.offset = n /\ r.at = r.prefix /\ n < r.prefix

\* How far the readers are, and what is in the driver's hand between the reads.
ReaderInv ==
    /\ pc = "scan" => /\ readers.video = Reader /\ readers.mask = [Reader EXCEPT !.at = readers.mask.at]
                      /\ readers.mask.at \in 0..(NumFrames - 1) /\ (~Uint8 => readers.mask.at = 0)
    /\ pc \in {"prepare", "driver", "run", "flush"} =>
          Delivered(readers.video, Decoded) /\ Delivered(readers.mask, Decoded)
    /\ pc = "read" =>
          /\ Delivered(readers.video, Decoded + Len(hand.video)) /\ Delivered(readers.mask, Decoded + Len(hand.mask))
          /\ hand = [video |-> hand.video, mask |-> hand.mask]
          /\ hand.video \in {<<>>, FramesOf(Decoded, DealStart(next + 1), Raw)}
          /\ hand.mask \in {<<>>, FramesOf(Decoded, DealStart(next + 1), "soft")}
    /\ pc \in {"scan", "prepare", "driver", "flush"} => hand = [video |-> <<>>, mask |-> <<>>]
    /\ readers = [video |-> readers.video, mask |-> readers.mask]

ThresholdInv ==
    /\ pc = "scan" /\ Uint8 => threshold = Brightest(0, readers.mask.at)
    /\ Uint8 /\ pc \notin {"scan", "closed"} => threshold = Brightest(0, NumFrames)

StoreInv == PlaceInv /\ CacheInv /\ PendingInv /\ OwnInv /\ HandInv /\ ReaderInv /\ ThresholdInv

-----------------------------------------------------------------------------
(***************************************************************************)
(* The threshold.                                                          *)
(***************************************************************************)

\* The greatest of some levels.
LEMMA TopLevel ==
    ASSUME NEW T, T \subseteq 0..255, T # {}
    PROVE  Max(T) \in T /\ \A x \in T : x <= Max(T)
<1> DEFINE D == {255 - x : x \in T}
<1>1. PICK d \in D : \A e \in D : d <= e
  <2>1. D \subseteq Nat /\ D # {}
    <3>1. \A x \in T : 255 - x \in Nat
      OBVIOUS
    <3>2. PICK x \in T : TRUE
      OBVIOUS
    <3>3. 255 - x \in D
      OBVIOUS
    <3> QED BY <3>1, <3>3
  <2> HIDE DEF D
  <2> QED BY <2>1, LeastNumber
<1>2. PICK t \in T : d = 255 - t
  OBVIOUS
<1>3. \A y \in T : t >= y
  <2> TAKE y \in T
  <2>1. d <= 255 - y
    BY <1>1
  <2> QED BY <1>2, <2>1
<1>4. \E x \in T : \A y \in T : x >= y
  BY <1>3
<1> QED BY <1>4 DEF Max

\* The levels of some frames, and the greatest of them, as Brightest takes it.
LevelsOf(a, b) == {0} \cup {Level(f) : f \in a..(b - 1)}

LEMMA LevelFacts ==
    ASSUME request \in RequestSet, NEW a \in Nat, NEW b \in Nat, b <= NumFrames
    PROVE  /\ LevelsOf(a, b) \subseteq 0..255 /\ Brightest(a, b) \in LevelsOf(a, b)
           /\ Brightest(a, b) \in 0..255
           /\ \A x \in LevelsOf(a, b) : x <= Brightest(a, b)
<1>1. \A f \in a..(b - 1) : Level(f) \in 0..255
  <2> TAKE f \in a..(b - 1)
  <2>1. f + 1 \in 1..NumFrames
    BY Sizes
  <2>2. request.levels \in [1..NumFrames -> 0..255]
    BY DEF RequestSet
  <2> QED BY <2>1, <2>2 DEF Level
<1>2. LevelsOf(a, b) \subseteq 0..255 /\ LevelsOf(a, b) # {}
  BY <1>1 DEF LevelsOf
<1>3. Brightest(a, b) = Max(LevelsOf(a, b))
  BY DEF Brightest, LevelsOf
<1>4. Max(LevelsOf(a, b)) \in LevelsOf(a, b) /\ \A x \in LevelsOf(a, b) : x <= Max(LevelsOf(a, b))
  BY <1>2, TopLevel
<1> QED BY <1>2, <1>3, <1>4

\* The maximum of one range of frames after another, and of more than what there has been.
LEMMA BrightestGrows ==
    ASSUME request \in RequestSet, NEW a \in Nat, NEW b \in Nat, a <= b, b <= NumFrames
    PROVE  /\ Max({Brightest(0, a), Brightest(a, b)}) = Brightest(0, b)
           /\ Brightest(0, b) = 255 => Brightest(0, NumFrames) = 255
<1>1. a <= NumFrames /\ NumFrames \in Nat /\ NumFrames <= NumFrames
  BY Sizes
<1>2. LevelsOf(0, a) \cup LevelsOf(a, b) = LevelsOf(0, b) /\ LevelsOf(0, b) \subseteq LevelsOf(0, NumFrames)
  <2>1. 0..(b - 1) = (0..(a - 1)) \cup (a..(b - 1)) /\ 0..(b - 1) \subseteq 0..(NumFrames - 1)
    BY <1>1, SMTT(30)
  <2> QED BY <2>1 DEF LevelsOf
<1>3. PICK x \in 0..255, y \in 0..255, z \in 0..255, t \in 0..255 :
         /\ x = Brightest(0, a) /\ y = Brightest(a, b) /\ z = Brightest(0, b) /\ t = Brightest(0, NumFrames)
         /\ x \in LevelsOf(0, a) /\ y \in LevelsOf(a, b) /\ z \in LevelsOf(0, b)
         /\ \A u \in LevelsOf(0, a) : u <= x
         /\ \A u \in LevelsOf(a, b) : u <= y
         /\ \A u \in LevelsOf(0, b) : u <= z
         /\ \A u \in LevelsOf(0, NumFrames) : u <= t
  <2>1. Brightest(0, a) \in 0..255 /\ Brightest(0, a) \in LevelsOf(0, a) /\ \A u \in LevelsOf(0, a) : u <= Brightest(0, a)
    BY <1>1, LevelFacts, ZenonT(60)
  <2>2. Brightest(a, b) \in 0..255 /\ Brightest(a, b) \in LevelsOf(a, b) /\ \A u \in LevelsOf(a, b) : u <= Brightest(a, b)
    BY <1>1, LevelFacts, ZenonT(60)
  <2>3. Brightest(0, b) \in 0..255 /\ Brightest(0, b) \in LevelsOf(0, b) /\ \A u \in LevelsOf(0, b) : u <= Brightest(0, b)
    BY <1>1, LevelFacts, ZenonT(60)
  <2>4. Brightest(0, NumFrames) \in 0..255 /\ \A u \in LevelsOf(0, NumFrames) : u <= Brightest(0, NumFrames)
    BY <1>1, LevelFacts, ZenonT(60)
  <2> QED BY <2>1, <2>2, <2>3, <2>4, ZenonT(60)
<1>4. x <= z /\ y <= z /\ (z <= x \/ z <= y) /\ z <= t
  BY <1>2, <1>3
<1>5. Max({x, y}) = IF x >= y THEN x ELSE y
  BY MaxOf
<1>6. Max({x, y}) = z
  BY <1>4, <1>5
<1>7. z = 255 => t = 255
  BY <1>4
<1> QED BY <1>3, <1>6, <1>7

-----------------------------------------------------------------------------
(***************************************************************************)
(* The steps that leave the buffers alone.                                 *)
(***************************************************************************)

\* The places of the window at hand.
LEMMA Marks ==
    ASSUME PlaceInv
    PROVE  /\ next \in Nat \ {0} /\ LoadStart(next) \in Nat /\ DealStart(next) \in Nat
           /\ LoadStart(next) <= DealStart(next) /\ DealStart(next) <= NumFrames
           /\ LoadStart(Cur) \in Nat /\ Decoded \in Nat /\ Decoded <= NumFrames
           /\ next <= Len(Windows) =>
                 /\ next \in 1..Len(Windows) /\ next + 1 \in 1..(Len(Windows) + 1)
                 /\ LoadStart(next + 1) \in Nat /\ DealStart(next + 1) \in Nat
                 /\ LoadStart(next) < LoadStart(next + 1) /\ DealStart(next) < DealStart(next + 1)
                 /\ LoadStart(next + 1) <= DealStart(next + 1) /\ DealStart(next + 1) <= NumFrames
                 /\ Spec1.load_start = LoadStart(next) /\ StableEnd(Spec1) = LoadStart(next + 1)
                 /\ Spec1.deal_start = DealStart(next) /\ Spec1.commit_end = DealStart(next + 1)
                 /\ Spec1.load_end = DealStart(next + 1) /\ Spec1.overlap_left = DealStart(next) - LoadStart(next)
<1>1. next \in 1..(Len(Windows) + 1) /\ Cur \in 1..(Len(Windows) + 1)
  BY DEF PlaceInv
<1>2. Len(Windows) \in Nat
  BY PlanFacts
<1>3. next \in Nat \ {0} /\ (next <= Len(Windows) => next \in 1..Len(Windows) /\ next + 1 \in 1..(Len(Windows) + 1))
  BY <1>1, <1>2
<1>4. /\ LoadStart(next) \in Nat /\ DealStart(next) \in Nat
      /\ LoadStart(next) <= DealStart(next) /\ DealStart(next) <= NumFrames /\ LoadStart(Cur) \in Nat
  BY <1>1, PlanFacts
<1>5. next <= Len(Windows) =>
                 /\ LoadStart(next + 1) \in Nat /\ DealStart(next + 1) \in Nat
                 /\ LoadStart(next) < LoadStart(next + 1) /\ DealStart(next) < DealStart(next + 1)
                 /\ LoadStart(next + 1) <= DealStart(next + 1) /\ DealStart(next + 1) <= NumFrames
  BY <1>3, PlanFacts
<1>6. next <= Len(Windows) =>
                 /\ Spec1.load_start = LoadStart(next) /\ StableEnd(Spec1) = LoadStart(next + 1)
                 /\ Spec1.deal_start = DealStart(next) /\ Spec1.commit_end = DealStart(next + 1)
                 /\ Spec1.load_end = DealStart(next + 1) /\ Spec1.overlap_left = DealStart(next) - LoadStart(next)
  BY <1>3, PlanFacts DEF Spec1
<1>7. Decoded \in Nat /\ Decoded <= NumFrames
  BY <1>4, <1>5 DEF PlaceInv
<1> QED BY <1>3, <1>4, <1>5, <1>6, <1>7

\* The buffers stay, and so does all that is said of them.
LEMMA StoreStays ==
    ASSUME CacheInv, PendingInv, OwnInv, Cur' = Cur, store' = store, next' = next, request' = request,
           queue' = queue, item' = item, written' = written
    PROVE  CacheInv' /\ PendingInv' /\ OwnInv' /\ Decoded' = Decoded
<1>1. Decoded' = Decoded /\ Coming' = Coming /\ Pending' = Pending
  BY DEF Decoded, Coming, Pending
<1> QED BY <1>1 DEF CacheInv, PendingInv, OwnInv

\* Inits.
LEMMA InitIsSound == Init => StoreInv
<1> SUFFICES ASSUME Init PROVE StoreInv
  OBVIOUS
<1> USE DEF Init
<1>1. /\ LoadStart(1) = 0 /\ DealStart(1) = 0 /\ 1 \in 1..(Len(Windows) + 1) /\ Cur = 1 /\ next = 1
  BY PlanFacts DEF Cur
<1>2. /\ \A R : Cached(<<>>, NoFrames(0), 0, 0, R)
      /\ Bufs(NoFrames(0)) = {} /\ WholeChunks(<<>>, NoFrames(0)) /\ NoFrames(0) \in Cache
  <2>1. 0 \in Nat
    OBVIOUS
  <2> QED BY <2>1, NoCached
<1>3. /\ store.heap = <<>> /\ store.video = NoFrames(0) /\ store.mask = NoFrames(0)
      /\ store.output = NoFrames(0) /\ store.overlap = NoFrames(0) /\ NoFrames(0).start = 0
  BY DEF NoFrames
<1>4. Decoded = 0
  <2>1. EndIndex(NoFrames(0)) = 0
    BY <1>2 DEF Cached
  <2> QED BY <1>3, <2>1 DEF Decoded
<1>5. Coming = <<>> /\ Pending = NoFrames(0)
  <2>1. <<>> \o <<>> = <<>> /\ Len(<<>>) = 0
    OBVIOUS
  <2> QED BY <2>1 DEF Coming, Pending, NoFrames
<1>6. request \in RequestSet
  BY StoreAssumption
<1>7. PlaceInv
  BY <1>1, <1>3, <1>4, <1>6 DEF PlaceInv
<1>8. CacheInv
  <2>1. store \in StoreSet
    <3>1. <<>> \in Heap
      BY DEF Heap
    <3> QED BY <1>2, <3>1 DEF StoreSet
  <2> QED BY <1>1, <1>2, <1>3, <1>4, <2>1 DEF CacheInv
<1>9. PendingInv
  <2>1. written = <<>> /\ Len(written) = 0 /\ written \in Seq(FrameRec)
    OBVIOUS
  <2>2. \A R : Rows(written, 0, R)
    BY <2>1 DEF Rows
  <2>3. item \in Seq(View) /\ <<>> \in Seq(View) /\ queue = <<>>
    OBVIOUS
  <2> QED BY <1>1, <1>2, <1>3, <1>5, <2>1, <2>2, <2>3 DEF PendingInv
<1>10. OwnInv
  BY <1>2, <1>3 DEF OwnInv
<1>11. HandInv
  BY DEF HandInv
<1>12. ReaderInv
  <2>1. Reader = [Reader EXCEPT !.at = 0] /\ Reader.at = 0 /\ 0 \in 0..(NumFrames - 1)
    BY Sizes DEF Reader
  <2> QED BY <2>1 DEF ReaderInv
<1>13. ThresholdInv
  <2>1. Brightest(0, 0) = 0
    <3>1. 0..(0 - 1) = {}
      OBVIOUS
    <3>2. LevelsOf(0, 0) = {0}
      BY <3>1 DEF LevelsOf
    <3>3. 0 \in Nat /\ 0 <= NumFrames
      BY Sizes
    <3> QED BY <1>6, <3>2, <3>3, LevelFacts
  <2> QED BY <2>1 DEF ThresholdInv, Reader
<1> QED BY <1>7, <1>8, <1>9, <1>10, <1>11, <1>12, <1>13 DEF StoreInv

\* Ends: the driver goes somewhere else, and nothing changes.
LEMMA EndsSoundly ==
    ASSUME StoreInv, NEW how, Ends(how), pc # "flush",
           \/ how \in {"closing", "joining", "abandoned"} /\ pc # "scan" /\ pc # "closed"
           \/ how = "closed"
           \/ how = "driver" /\ pc = "prepare"
           \/ how = "prepare" /\ pc = "scan" /\ ~Uint8
           \/ how = "read" /\ NeedsFrames
    PROVE  StoreInv'
<1>1. PlaceInv /\ CacheInv /\ PendingInv /\ OwnInv /\ HandInv /\ ReaderInv /\ ThresholdInv
  BY DEF StoreInv
<1>2. /\ pc' = how /\ UNCHANGED <<store, readers, hand, next, threshold>>
      /\ UNCHANGED <<request, queue, item, written>>
  BY DEF Ends, Keeps
<1>3. Cur' = Cur
  BY <1>2 DEF Cur
<1>4. CacheInv' /\ PendingInv' /\ OwnInv' /\ Decoded' = Decoded
  BY <1>1, <1>2, <1>3, StoreStays
<1>5. how = "read" => next <= Len(Windows) /\ Decoded = DealStart(next) /\ pc = "driver"
  <2> SUFFICES ASSUME how = "read" PROVE next <= Len(Windows) /\ Decoded = DealStart(next) /\ pc = "driver"
    OBVIOUS
  <2>1. NeedsFrames
    OBVIOUS
  <2>2. next <= Len(Windows) /\ Spec1.load_end - Decoded > 0 /\ pc = "driver"
    BY <2>1 DEF NeedsFrames, Missing, Decoded
  <2>3. Spec1.load_end = DealStart(next + 1) /\ DealStart(next + 1) \in Nat /\ Decoded \in Nat
    BY <1>1, <2>2, Marks
  <2>4. Decoded # DealStart(next + 1)
    BY <2>2, <2>3
  <2> QED BY <1>1, <2>2, <2>4 DEF PlaceInv
<1>6. PlaceInv'
  BY <1>1, <1>2, <1>3, <1>4, <1>5 DEF PlaceInv
<1>7. HandInv'
  BY <1>2 DEF HandInv
<1>8. ThresholdInv'
  <2>1. Uint8' = Uint8 /\ Brightest(0, NumFrames)' = Brightest(0, NumFrames)
    BY <1>2 DEF Uint8, Brightest, Level
  <2> QED BY <1>1, <1>2, <2>1 DEF ThresholdInv, NeedsFrames
<1>9. ReaderInv'
  <2>1. CASE how = "read"
    <3>1. Len(<<>>) = 0 /\ Decoded + 0 = Decoded
      BY <1>1, Marks
    <3> QED BY <1>1, <1>2, <1>4, <1>5, <2>1, <3>1 DEF ReaderInv
  <2>2. CASE how = "prepare" /\ pc = "scan" /\ ~Uint8
    <3>1. readers.video = Reader /\ readers.mask = Reader
      <4>1. [Reader EXCEPT !.at = 0] = Reader
        BY DEF Reader
      <4> QED BY <1>1, <2>2, <4>1 DEF ReaderInv
    <3>2. Decoded = 0
      BY <1>1, <2>2, PlanFacts DEF PlaceInv
    <3>3. Delivered(Reader, 0)
      BY DEF Delivered, Reader
    <3> QED BY <1>1, <1>2, <1>4, <2>2, <3>1, <3>2, <3>3 DEF ReaderInv
  <2>3. CASE how = "driver" /\ pc = "prepare"
    BY <1>1, <1>2, <1>4, <2>3 DEF ReaderInv
  <2>4. CASE how \in {"closing", "joining", "abandoned", "closed"}
    BY <1>1, <1>2, <1>4, <2>4 DEF ReaderInv
  <2> QED BY <2>1, <2>2, <2>3, <2>4
<1> QED BY <1>4, <1>6, <1>7, <1>8, <1>9 DEF StoreInv

LEMMA ScansMaskSound == StoreInv /\ ScansMask => StoreInv'
<1> SUFFICES ASSUME StoreInv, ScansMask PROVE StoreInv'
  OBVIOUS
<1> DEFINE r == readers.mask
           n == Min({ScanChunk, NumFrames - r.at})
           scanned == r.at + n
           maximum == Max({threshold, Brightest(r.at, scanned)})
           reused == request.scanReuse /\ r.at = 0
<1>1. PlaceInv /\ CacheInv /\ PendingInv /\ OwnInv /\ HandInv /\ ReaderInv /\ ThresholdInv
  BY DEF StoreInv
<1>2. /\ pc = "scan" /\ Uint8 /\ threshold' = maximum
      /\ IF ScanDone(scanned, maximum)
          THEN /\ readers' = [readers EXCEPT !.mask =
                     IF reused THEN [Reader EXCEPT !.at = scanned, !.prefix = scanned]
                     ELSE Reader]
               /\ pc' = "prepare"
          ELSE readers' = [readers EXCEPT !.mask.at = scanned] /\ pc' = pc
      /\ UNCHANGED <<store, hand, next, request, queue, item, written>>
  BY DEF ScansMask, Keeps
<1>3. /\ readers.video = Reader /\ r = [Reader EXCEPT !.at = r.at] /\ r.at \in 0..(NumFrames - 1)
      /\ readers = [video |-> readers.video, mask |-> readers.mask]
      /\ threshold = Brightest(0, r.at)
      /\ hand = [video |-> <<>>, mask |-> <<>>] /\ request \in RequestSet
  BY <1>1, <1>2 DEF ReaderInv, ThresholdInv, PlaceInv
<1>4. PICK a \in Nat, b \in Nat : a = r.at /\ b = scanned /\ a < b /\ b <= NumFrames /\ a < NumFrames
  <2>1. PICK m \in Int : m = NumFrames - r.at /\ m > 0
    BY <1>3, Sizes
  <2>2. ScanChunk \in Int /\ ScanChunk > 0
    BY StoreAssumption
  <2>3. Min({ScanChunk, m}) = IF ScanChunk <= m THEN ScanChunk ELSE m
    BY <2>1, <2>2, MinOf
  <2>4. n = IF ScanChunk <= m THEN ScanChunk ELSE m
    BY <2>1, <2>3
  <2> HIDE DEF n
  <2> QED BY <1>3, <2>1, <2>2, <2>4, Sizes
<1> HIDE DEF n, scanned, r
<1>5. maximum = Brightest(0, b) /\ (Brightest(0, b) = 255 => Brightest(0, NumFrames) = 255)
  BY <1>3, <1>4, BrightestGrows
<1> HIDE DEF maximum, reused
<1>6. Cur' = Cur
  BY <1>2 DEF Cur
<1>7. CacheInv' /\ PendingInv' /\ OwnInv' /\ Decoded' = Decoded
  BY <1>1, <1>2, <1>6, StoreStays
<1>8. PlaceInv'
  BY <1>1, <1>2, <1>6, <1>7 DEF PlaceInv
<1>9. HandInv'
  BY <1>2 DEF HandInv
<1>10. Uint8' = Uint8 /\ \A x, y : Brightest(x, y)' = Brightest(x, y)
  BY <1>2 DEF Uint8, Brightest, Level
<1>11. CASE ScanDone(scanned, maximum)
  <2>1. pc' = "prepare" /\ readers' = [readers EXCEPT !.mask =
                     IF reused THEN [Reader EXCEPT !.at = scanned, !.prefix = scanned] ELSE Reader]
    BY <1>2, <1>11
  <2>2. threshold' = Brightest(0, NumFrames)
    <3>1. CASE b >= NumFrames
      <4>1. b = NumFrames
        BY <1>4, <3>1, Sizes
      <4> QED BY <1>2, <1>5, <4>1
    <3>2. CASE maximum = 255
      BY <1>2, <1>5, <3>2
    <3> QED BY <1>4, <1>11, <3>1, <3>2 DEF ScanDone
  <2>3. ThresholdInv'
    BY <1>10, <2>1, <2>2 DEF ThresholdInv
  <2>4. readers'.video = Reader /\ readers'.mask \in {Reader, [Reader EXCEPT !.at = b, !.prefix = b]}
        /\ readers' = [video |-> readers'.video, mask |-> readers'.mask]
    BY <1>3, <1>4, <2>1
  <2>5. Delivered(Reader, 0) /\ Delivered([Reader EXCEPT !.at = b, !.prefix = b], 0)
    <3> DEFINE x == [Reader EXCEPT !.at = b, !.prefix = b]
    <3>1. x \in [at : Nat, prefix : Nat, offset : Nat, frames_read : Nat]
          /\ x.at = b /\ x.prefix = b /\ x.offset = 0 /\ x.frames_read = 0
      BY DEF Reader
    <3> HIDE DEF x
    <3>2. b # 0 /\ 0 < b
      BY <1>4
    <3>3. Delivered(x, 0)
      BY <3>1, <3>2 DEF Delivered
    <3> QED BY <3>3 DEF x, Delivered, Reader
  <2>6. Decoded' = 0
    BY <1>1, <1>2, <1>7, PlanFacts DEF PlaceInv
  <2>7. Delivered(readers.video, Decoded)' /\ Delivered(readers.mask, Decoded)'
    BY <2>4, <2>5, <2>6
  <2>8. ReaderInv'
    BY <1>2, <1>3, <2>1, <2>4, <2>7 DEF ReaderInv
  <2> QED BY <1>7, <1>8, <1>9, <2>3, <2>8 DEF StoreInv
<1>12. CASE ~ScanDone(scanned, maximum)
  <2>1. pc' = "scan" /\ readers' = [readers EXCEPT !.mask.at = scanned]
    BY <1>2, <1>12
  <2>2. b < NumFrames
    BY <1>4, <1>12, Sizes DEF ScanDone
  <2>3. readers'.video = Reader /\ readers'.mask = [Reader EXCEPT !.at = b]
        /\ readers' = [video |-> readers'.video, mask |-> readers'.mask]
    BY <1>3, <1>4, <2>1 DEF r, Reader
  <2>4. [Reader EXCEPT !.at = b].at = b
    BY DEF Reader
  <2>5. ThresholdInv'
    BY <1>2, <1>5, <1>10, <2>1, <2>3, <2>4 DEF ThresholdInv
  <2>6. b \in 0..(NumFrames - 1)
    BY <1>4, <2>2, Sizes
  <2>7. ReaderInv'
    BY <1>2, <1>3, <1>10, <2>1, <2>3, <2>4, <2>6 DEF ReaderInv
  <2> QED BY <1>7, <1>8, <1>9, <2>5, <2>7 DEF StoreInv
<1> QED BY <1>11, <1>12

-----------------------------------------------------------------------------
(***************************************************************************)
(* Reading frames.                                                         *)
(***************************************************************************)

LEMMA NoFramesOf ==
    ASSUME NEW a \in Nat, NEW x \in Looks, NEW q \in Seq(FrameRec)
    PROVE  FramesOf(a, a, x) \o q = q /\ q \o FramesOf(a, a, x) = q
<1>1. FramesOf(a, a, x) \in Seq(FrameRec) /\ Len(FramesOf(a, a, x)) = a - a /\ a - a = 0
  <2>1. a <= a /\ a - a = 0
    OBVIOUS
  <2> QED BY <2>1, FramesFacts
<1>2. FramesOf(a, a, x) = <<>>
  BY <1>1, NoEntries
<1>3. <<>> \o q = q /\ q \o <<>> = q
  OBVIOUS
<1> QED BY <1>2, <1>3

LEMMA FramesJoined ==
    ASSUME NEW a \in Nat, NEW b \in Nat, NEW c \in Nat, a <= b, b <= c, NEW x \in Looks
    PROVE  FramesOf(a, b, x) \o FramesOf(b, c, x) = FramesOf(a, c, x)
<1>1. PICK q \in Seq(FrameRec), r \in Seq(FrameRec) :
         /\ q = FramesOf(a, b, x) /\ r = FramesOf(b, c, x)
         /\ Len(q) = b - a /\ Len(r) = c - b /\ Rows(q, a, SameRel(x)) /\ Rows(r, b, SameRel(x))
  <2>1. FramesOf(a, b, x) \in Seq(FrameRec) /\ Len(FramesOf(a, b, x)) = b - a /\ Rows(FramesOf(a, b, x), a, SameRel(x))
    BY FramesFacts
  <2>2. FramesOf(b, c, x) \in Seq(FrameRec) /\ Len(FramesOf(b, c, x)) = c - b /\ Rows(FramesOf(b, c, x), b, SameRel(x))
    BY FramesFacts
  <2> QED BY <2>1, <2>2
<1>2. a + Len(q) = b /\ Len(q) + Len(r) = c - a /\ a <= c
  BY <1>1
<1>3. q \o r \in Seq(FrameRec) /\ Len(q \o r) = c - a /\ Rows(q \o r, a, SameRel(x))
  <2>1. Rows(r, a + Len(q), SameRel(x))
    BY <1>1, <1>2
  <2> QED BY <1>1, <1>2, <2>1, RowsJoined
<1>4. q \o r = FramesOf(a, c, x)
  BY <1>2, <1>3, SameFrames
<1> QED BY <1>1, <1>4

\* read_frames delivers the frames that come next.
LEMMA ReadDelivers ==
    ASSUME NEW r, NEW e \in Nat, Delivered(r, e), NEW n \in Nat \ {0}, NEW x \in Looks
    PROVE  /\ ReadFrames(r, n, x).frames = FramesOf(e, e + n, x)
           /\ Delivered(ReadFrames(r, n, x).reader, e + n)
<1>0. \A a, b, c \in Nat : a <= b /\ b <= c => FramesOf(a, b, x) \o FramesOf(b, c, x) = FramesOf(a, c, x)
  BY FramesJoined, ZenonT(60)
<1> DEFINE count == FromPrefix(r, n)
           z == [at |-> r.at + n - count, offset |-> r.offset + count,
                 prefix |-> IF r.offset + count = r.prefix THEN 0 ELSE r.prefix,
                 frames_read |-> r.frames_read + n]
           fs == FramesOf(r.offset, r.offset + count, x) \o FramesOf(r.at, r.at + n - count, x)
<1>1. ReadFrames(r, n, x).frames = fs /\ ReadFrames(r, n, x).reader = z
  BY DEF ReadFrames
<1>2. PICK at \in Nat, prefix \in Nat, offset \in Nat :
        /\ at = r.at /\ prefix = r.prefix /\ offset = r.offset /\ r.frames_read = e
        /\ IF prefix = 0 THEN at = e ELSE offset = e /\ at = prefix /\ e < prefix
  BY DEF Delivered
<1>3. \A a, b \in Nat : a <= b => FramesOf(a, b, x) \in Seq(FrameRec)
  BY FramesFacts
<1>4. CASE prefix = 0
  <2>1. count = 0
    BY <1>2, <1>4 DEF FromPrefix
  <2> HIDE DEF count
  <2>2. offset + 0 = offset /\ at + n - 0 = e + n /\ e + n \in Nat /\ e <= e + n
    BY <1>2, <1>4
  <2>3. fs = FramesOf(offset, offset, x) \o FramesOf(e, e + n, x)
    BY <1>2, <1>4, <2>1, <2>2
  <2>4. fs = FramesOf(e, e + n, x)
    BY <1>3, <2>2, <2>3, NoFramesOf
  <2>5. z = [at |-> e + n, offset |-> offset, prefix |-> 0, frames_read |-> e + n]
    BY <1>2, <1>4, <2>1, <2>2
  <2>6. Delivered(z, e + n)
    <3> HIDE DEF z
    <3> QED BY <2>2, <2>5 DEF Delivered
  <2> QED BY <1>1, <2>4, <2>6
<1>5. CASE prefix # 0
  <2>1. PICK k \in Nat : k = prefix - e /\ k > 0
    BY <1>2, <1>5
  <2>2. count = IF n <= k THEN n ELSE k
    <3>1. Min({n, k}) = IF n <= k THEN n ELSE k
      BY MinOf
    <3> QED BY <1>2, <1>5, <2>1, <3>1 DEF FromPrefix
  <2> HIDE DEF count
  <2>3. PICK c \in Nat : c = count /\ c <= n /\ c <= k /\ (c = n \/ c = k)
    BY <2>2
  <2>4. PICK m \in Nat : m = prefix + n - c /\ prefix <= m /\ e + c <= prefix /\ e + c \in Nat /\ e <= e + c
    BY <2>1, <2>3
  <2>5. fs = FramesOf(e, e + c, x) \o FramesOf(prefix, m, x)
    BY <1>2, <1>5, <2>3, <2>4
  <2>6. z = [at |-> m, offset |-> e + c, prefix |-> IF e + c = prefix THEN 0 ELSE prefix, frames_read |-> e + n]
    BY <1>2, <1>5, <2>3, <2>4
  <2>7. fs = FramesOf(e, e + n, x)
    <3>1. CASE c = n
      <4>1. m = prefix
        BY <2>4, <3>1
      <4>2. fs = FramesOf(e, e + n, x) \o FramesOf(prefix, prefix, x)
        BY <2>5, <3>1, <4>1
      <4>3. FramesOf(e, e + n, x) \in Seq(FrameRec)
        BY <1>3, <2>4, <3>1
      <4> HIDE DEF fs
      <4> QED BY <4>2, <4>3, NoFramesOf
    <3>2. CASE c = k
      <4>1. e + c = prefix /\ m = e + n
        BY <2>1, <2>4, <3>2
      <4>2. fs = FramesOf(e, prefix, x) \o FramesOf(prefix, m, x)
        BY <2>5, <4>1
      <4>3. e <= prefix /\ prefix <= m
        BY <2>4, <4>1
      <4>4. FramesOf(e, prefix, x) \o FramesOf(prefix, m, x) = FramesOf(e, m, x)
        BY <1>0, <4>3
      <4> HIDE DEF fs
      <4> QED BY <4>1, <4>2, <4>4
    <3> QED BY <2>3, <3>1, <3>2
  <2>8. Delivered(z, e + n)
    <3> HIDE DEF z
    <3>1. CASE e + c = prefix
      <4>1. m = e + n
        BY <2>4, <3>1
      <4> QED BY <2>4, <2>6, <3>1, <4>1 DEF Delivered
    <3>2. CASE e + c # prefix
      <4>1. c = n /\ m = prefix /\ e + n < prefix
        BY <2>1, <2>3, <2>4, <3>2
      <4> QED BY <1>5, <2>4, <2>6, <3>2, <4>1 DEF Delivered
    <3> QED BY <3>1, <3>2
  <2> QED BY <1>1, <2>7, <2>8
<1> QED BY <1>4, <1>5

\* The frames a read asks for.
LEMMA MissingFacts ==
    ASSUME PlaceInv, pc = "read"
    PROVE  /\ Missing \in Nat \ {0} /\ Decoded \in Nat /\ Decoded + Missing = DealStart(next + 1)
           /\ DealStart(next + 1) \in Nat /\ Decoded < DealStart(next + 1) /\ Missing = DealStart(next + 1) - Decoded
<1>1. next <= Len(Windows) /\ Decoded = DealStart(next)
  BY DEF PlaceInv
<1>2. PICK e \in Nat, d \in Nat : e = Decoded /\ d = DealStart(next + 1) /\ e < d /\ Spec1.load_end = d
  BY <1>1, Marks
<1>3. Missing = d - e
  BY <1>2 DEF Missing, Decoded
<1> QED BY <1>2, <1>3

\* Frames that come, and there are none without.
LEMMA FramesCome ==
    ASSUME NEW a \in Nat, NEW b \in Nat, a < b, NEW x \in Looks
    PROVE  /\ FramesOf(a, b, x) # <<>> /\ Len(FramesOf(a, b, x)) = b - a /\ FramesOf(a, b, x) \in Seq(FrameRec)
           /\ Rows(FramesOf(a, b, x), a, SameRel(x))
<1>1. /\ Len(FramesOf(a, b, x)) = b - a /\ FramesOf(a, b, x) \in Seq(FrameRec)
      /\ Rows(FramesOf(a, b, x), a, SameRel(x))
  BY FramesFacts
<1>2. Len(<<>>) = 0 /\ b - a # 0
  OBVIOUS
<1> QED BY <1>1, <1>2

LEMMA ReadsVideoSound == StoreInv /\ ReadsVideo => StoreInv'
<1> SUFFICES ASSUME StoreInv, ReadsVideo PROVE StoreInv'
  OBVIOUS
<1>1. PlaceInv /\ CacheInv /\ PendingInv /\ OwnInv /\ HandInv /\ ReaderInv /\ ThresholdInv
  BY DEF StoreInv
<1>2. pc = "read" /\ hand["video"] = <<>> /\ UNCHANGED <<store, next, threshold, request, queue, item, written>>
      /\ \/ pc' = "closing" /\ UNCHANGED <<readers, hand>>
         \/ /\ readers' = [readers EXCEPT !["video"] = ReadFrames(readers["video"], Missing, Raw).reader]
            /\ hand' = [hand EXCEPT !["video"] = ReadFrames(readers["video"], Missing, Raw).frames]
            /\ pc' = "read"
  BY DEF ReadsVideo, Reads, Keeps
<1>3. Cur' = Cur
  BY <1>2 DEF Cur
<1>4. CacheInv' /\ PendingInv' /\ OwnInv' /\ Decoded' = Decoded
  BY <1>1, <1>2, <1>3, StoreStays
<1>5. PlaceInv'
  BY <1>1, <1>2, <1>3, <1>4 DEF PlaceInv
<1>6. HandInv'
  BY <1>2 DEF HandInv
<1>7. ThresholdInv'
  <2>1. Uint8' = Uint8 /\ Brightest(0, NumFrames)' = Brightest(0, NumFrames)
    BY <1>2 DEF Uint8, Brightest, Level
  <2> QED BY <1>1, <1>2, <2>1 DEF ThresholdInv
<1>8. CASE pc' = "closing" /\ UNCHANGED <<readers, hand>>
  <2>1. ReaderInv'
    BY <1>1, <1>8 DEF ReaderInv
  <2> QED BY <1>4, <1>5, <1>6, <1>7, <2>1 DEF StoreInv
<1>9. CASE /\ readers' = [readers EXCEPT !["video"] = ReadFrames(readers["video"], Missing, Raw).reader]
           /\ hand' = [hand EXCEPT !["video"] = ReadFrames(readers["video"], Missing, Raw).frames]
           /\ pc' = "read"
  <2> DEFINE fs == ReadFrames(readers.video, Missing, Raw).frames
             r == ReadFrames(readers.video, Missing, Raw).reader
  <2>1. /\ Missing \in Nat \ {0} /\ Decoded \in Nat /\ Decoded + Missing = DealStart(next + 1)
        /\ DealStart(next + 1) \in Nat /\ Decoded < DealStart(next + 1) /\ Missing = DealStart(next + 1) - Decoded
    BY <1>1, <1>2, MissingFacts
  <2>2. Delivered(readers.video, Decoded)
    <3>1. Len(hand.video) = 0 /\ Decoded + 0 = Decoded
      BY <1>2, <2>1
    <3> QED BY <1>1, <1>2, <3>1 DEF ReaderInv
  <2>3. Raw \in Looks
    BY DEF Raw, Looks
  <2>4. fs = FramesOf(Decoded, Decoded + Missing, Raw) /\ Delivered(r, Decoded + Missing)
    BY <2>1, <2>2, <2>3, ReadDelivers
  <2> HIDE DEF fs, r
  <2>5. fs = FramesOf(Decoded, DealStart(next + 1), Raw) /\ Len(fs) = Missing
    BY <2>1, <2>3, <2>4, FramesCome
  <2>6. /\ readers'.video = r /\ readers'.mask = readers.mask /\ hand'.video = fs /\ hand'.mask = hand.mask
        /\ readers' = [video |-> readers'.video, mask |-> readers'.mask]
    <3>1. readers = [video |-> readers.video, mask |-> readers.mask]
      BY <1>1 DEF ReaderInv
    <3>2. readers' = [video |-> r, mask |-> readers.mask]
      BY <1>9, <3>1 DEF r
    <3>3. hand = [video |-> hand.video, mask |-> hand.mask]
      BY <1>1, <1>2 DEF ReaderInv
    <3>4. hand' = [video |-> fs, mask |-> hand.mask]
      BY <1>9, <3>3 DEF fs
    <3> QED BY <3>2, <3>4
  <2>7. ReaderInv'
    BY <1>1, <1>2, <1>4, <1>9, <2>4, <2>5, <2>6 DEF ReaderInv
  <2> QED BY <1>4, <1>5, <1>6, <1>7, <2>7 DEF StoreInv
<1> QED BY <1>2, <1>8, <1>9

LEMMA ReadsMaskSound == StoreInv /\ ReadsMask => StoreInv'
<1> SUFFICES ASSUME StoreInv, ReadsMask PROVE StoreInv'
  OBVIOUS
<1>1. PlaceInv /\ CacheInv /\ PendingInv /\ OwnInv /\ HandInv /\ ReaderInv /\ ThresholdInv
  BY DEF StoreInv
<1>2. pc = "read" /\ hand["mask"] = <<>> /\ UNCHANGED <<store, next, threshold, request, queue, item, written>>
      /\ \/ pc' = "closing" /\ UNCHANGED <<readers, hand>>
         \/ /\ readers' = [readers EXCEPT !["mask"] = ReadFrames(readers["mask"], Missing, "soft").reader]
            /\ hand' = [hand EXCEPT !["mask"] = ReadFrames(readers["mask"], Missing, "soft").frames]
            /\ pc' = "read"
  BY DEF ReadsMask, Reads, Keeps
<1>3. Cur' = Cur
  BY <1>2 DEF Cur
<1>4. CacheInv' /\ PendingInv' /\ OwnInv' /\ Decoded' = Decoded
  BY <1>1, <1>2, <1>3, StoreStays
<1>5. PlaceInv'
  BY <1>1, <1>2, <1>3, <1>4 DEF PlaceInv
<1>6. HandInv'
  BY <1>2 DEF HandInv
<1>7. ThresholdInv'
  <2>1. Uint8' = Uint8 /\ Brightest(0, NumFrames)' = Brightest(0, NumFrames)
    BY <1>2 DEF Uint8, Brightest, Level
  <2> QED BY <1>1, <1>2, <2>1 DEF ThresholdInv
<1>8. CASE pc' = "closing" /\ UNCHANGED <<readers, hand>>
  <2>1. ReaderInv'
    BY <1>1, <1>8 DEF ReaderInv
  <2> QED BY <1>4, <1>5, <1>6, <1>7, <2>1 DEF StoreInv
<1>9. CASE /\ readers' = [readers EXCEPT !["mask"] = ReadFrames(readers["mask"], Missing, "soft").reader]
           /\ hand' = [hand EXCEPT !["mask"] = ReadFrames(readers["mask"], Missing, "soft").frames]
           /\ pc' = "read"
  <2> DEFINE fs == ReadFrames(readers.mask, Missing, "soft").frames
             r == ReadFrames(readers.mask, Missing, "soft").reader
  <2>1. /\ Missing \in Nat \ {0} /\ Decoded \in Nat /\ Decoded + Missing = DealStart(next + 1)
        /\ DealStart(next + 1) \in Nat /\ Decoded < DealStart(next + 1) /\ Missing = DealStart(next + 1) - Decoded
    BY <1>1, <1>2, MissingFacts
  <2>2. Delivered(readers.mask, Decoded)
    <3>1. Len(hand.mask) = 0 /\ Decoded + 0 = Decoded
      BY <1>2, <2>1
    <3> QED BY <1>1, <1>2, <3>1 DEF ReaderInv
  <2>3. "soft" \in Looks
    BY DEF Looks
  <2>4. fs = FramesOf(Decoded, Decoded + Missing, "soft") /\ Delivered(r, Decoded + Missing)
    BY <2>1, <2>2, <2>3, ReadDelivers
  <2> HIDE DEF fs, r
  <2>5. fs = FramesOf(Decoded, DealStart(next + 1), "soft") /\ Len(fs) = Missing
    BY <2>1, <2>3, <2>4, FramesCome
  <2>6. /\ readers'.mask = r /\ readers'.video = readers.video /\ hand'.mask = fs /\ hand'.video = hand.video
        /\ readers' = [video |-> readers'.video, mask |-> readers'.mask]
    <3>1. readers = [video |-> readers.video, mask |-> readers.mask]
      BY <1>1 DEF ReaderInv
    <3>2. readers' = [video |-> readers.video, mask |-> r]
      BY <1>9, <3>1 DEF r
    <3>3. hand = [video |-> hand.video, mask |-> hand.mask]
      BY <1>1, <1>2 DEF ReaderInv
    <3>4. hand' = [video |-> hand.video, mask |-> fs]
      BY <1>9, <3>3 DEF fs
    <3> QED BY <3>2, <3>4
  <2>7. ReaderInv'
    BY <1>1, <1>2, <1>4, <1>9, <2>4, <2>5, <2>6 DEF ReaderInv
  <2> QED BY <1>4, <1>5, <1>6, <1>7, <2>7 DEF StoreInv
<1> QED BY <1>2, <1>8, <1>9

-----------------------------------------------------------------------------
(***************************************************************************)
(* The frames that have been read reach the caches.                        *)
(***************************************************************************)

\* A new buffer of a store.
LEMMA NewArray ==
    ASSUME NEW s \in StoreSet, NEW q \in Seq(FrameRec)
    PROVE  LET t == Allocated(s, q)
           IN /\ t \in StoreSet /\ Alters(s.heap, t.heap, {}) /\ \A m \in Names : t[m] = s[m]
              /\ Len(t.heap) = Len(s.heap) + 1 /\ t.heap[Len(s.heap) + 1] = q
              /\ WholeOf(t, Len(s.heap) + 1) = [buf |-> Len(s.heap) + 1, at |-> 0, n |-> Len(q)]
              /\ Len(s.heap) + 1 \in DOMAIN t.heap
<1> DEFINE t == Allocated(s, q)
           h == Append(s.heap, q)
<1>1. s.heap \in Heap /\ Len(s.heap) \in Nat
  BY StoreFacts
<1>2. Alters(s.heap, h, {}) /\ h \in Heap /\ Len(h) = Len(s.heap) + 1 /\ h[Len(s.heap) + 1] = q
  BY <1>1, NewBuffer
<1>3. t = [s EXCEPT !.heap = h]
  BY DEF Allocated
<1> HIDE DEF h, t
<1>4. t \in StoreSet /\ t.heap = h /\ \A m \in Names : t[m] = s[m]
  BY <1>2, <1>3, HeapChanged
<1>5. WholeOf(t, Len(s.heap) + 1) = [buf |-> Len(s.heap) + 1, at |-> 0, n |-> Len(q)]
  BY <1>2, <1>4 DEF WholeOf
<1>6. Len(s.heap) + 1 \in DOMAIN t.heap
  BY <1>1, <1>2, <1>4, HeapFacts
<1> QED BY <1>2, <1>4, <1>5, <1>6 DEF t

\* The buffer that is taken over and the copy are the same.
LEMMA OwnedIsCopied ==
    ASSUME NEW s \in StoreSet, NEW name \in Names, NEW q \in Seq(FrameRec), q # <<>>,
           NEW v, v = [buf |-> Fresh(s), at |-> 0, n |-> Len(q)]
    PROVE  AppendOwned(Allocated(s, q), name, v) = AppendCopy(s, name, q)
<1>1. v.n # 0
  <2>1. Len(q) # 0
    BY NoEntries
  <2> QED BY <2>1
<1> QED BY <1>1 DEF AppendOwned, AppendCopy

\* The frames g lie alone in the newest buffer of z, and nothing of s has changed.
Newest(s, z, g) ==
    /\ z \in StoreSet /\ Alters(s.heap, z.heap, {}) /\ \A m \in Names : z[m] = s[m]
    /\ Len(z.heap) > Len(s.heap) /\ Len(z.heap) \in DOMAIN z.heap
    /\ WholeOf(z, Len(z.heap)) = [buf |-> Len(z.heap), at |-> 0, n |-> Len(g)]
    /\ Len(z.heap[Len(z.heap)]) = Len(g)
    /\ \A j \in 1..Len(g) : z.heap[Len(z.heap)][j] = g[j]

LEMMA ThresholdedBuffer ==
    ASSUME NEW s \in StoreSet, NEW q \in Seq(FrameRec), NEW g \in Seq(FrameRec), Len(g) = Len(q),
           NEW t, NEW z, t = Allocated(s, q),
           z = Allocated(t, g) \/ z = Wrote(t, WholeOf(t, Len(s.heap) + 1), g)
    PROVE  /\ z \in StoreSet /\ Alters(s.heap, z.heap, {}) /\ \A m \in Names : z[m] = s[m]
           /\ Len(z.heap) > Len(s.heap) /\ Len(z.heap) \in DOMAIN z.heap
           /\ WholeOf(z, Len(z.heap)) = [buf |-> Len(z.heap), at |-> 0, n |-> Len(g)]
           /\ Len(z.heap[Len(z.heap)]) = Len(g)
           /\ \A j \in 1..Len(g) : z.heap[Len(z.heap)][j] = g[j]
<1> DEFINE l == Len(s.heap)
           v == [buf |-> l + 1, at |-> 0, n |-> Len(q)]
<1>1. /\ t \in StoreSet /\ Alters(s.heap, t.heap, {}) /\ \A m \in Names : t[m] = s[m]
      /\ Len(t.heap) = l + 1 /\ t.heap[l + 1] = q
      /\ WholeOf(t, l + 1) = v /\ l + 1 \in DOMAIN t.heap
  BY NewArray
<1>2. s.heap \in Heap /\ l \in Nat /\ t.heap \in Heap /\ Len(g) \in Nat
  BY <1>1, StoreFacts
<1>3. CASE z = Allocated(t, g)
  <2>1. /\ z \in StoreSet /\ Alters(t.heap, z.heap, {}) /\ \A m \in Names : z[m] = t[m]
        /\ Len(z.heap) = Len(t.heap) + 1 /\ z.heap[Len(t.heap) + 1] = g
        /\ WholeOf(z, Len(t.heap) + 1) = [buf |-> Len(t.heap) + 1, at |-> 0, n |-> Len(g)]
        /\ Len(t.heap) + 1 \in DOMAIN z.heap
    BY <1>1, <1>3, NewArray
  <2>2. Alters(s.heap, z.heap, {} \cup {})
    BY <1>1, <2>1, AltersAgain
  <2>3. {} \cup {} = {} /\ Len(z.heap) > l
    BY <1>1, <1>2, <2>1
  <2> QED BY <1>1, <2>1, <2>2, <2>3
<1>4. CASE z = Wrote(t, WholeOf(t, Len(s.heap) + 1), g)
  <2>1. v \in View /\ v.buf = l + 1 /\ v.at = 0 /\ v.n = Len(q) /\ v.at + v.n <= Len(t.heap[v.buf]) /\ Len(g) <= v.n
    BY <1>1, <1>2 DEF View
  <2> HIDE DEF v, l
  <2>2. /\ z \in StoreSet /\ Alters(t.heap, z.heap, {v.buf}) /\ \A m \in Names : z[m] = t[m]
        /\ \A j \in 1..Len(g) : z.heap[v.buf][v.at + j] = g[j]
    <3>1. z = Wrote(t, v, g) /\ v.buf \in DOMAIN t.heap
      BY <1>1, <1>4, <2>1 DEF l
    <3> QED BY <1>1, <2>1, <3>1, WroteFacts, ZenonT(60)
  <2>6. z.heap \in Heap
    BY <2>2, StoreFacts
  <2>3. Len(z.heap) = l + 1
    <3>1. z.heap = [t.heap EXCEPT ![v.buf] = z.heap[v.buf]]
      <4>1. z = Wrote(t, v, g)
        BY <1>1, <1>4 DEF l
      <4>2. "heap" \in DOMAIN t
        BY <1>1 DEF StoreSet
      <4>3. \E x : z.heap = [t.heap EXCEPT ![v.buf] = x]
        BY <4>1, <4>2, ZenonT(60) DEF Wrote
      <4>4. t.heap \in Seq(Seq(FrameRec)) /\ v.buf \in DOMAIN t.heap
        BY <1>1, <1>2, <2>1 DEF Heap
      <4> QED BY <4>3, <4>4
    <3> DEFINE x == z.heap[v.buf]
    <3>2. z.heap = [t.heap EXCEPT ![v.buf] = x]
      BY <3>1
    <3> HIDE DEF x
    <3>3. Len([t.heap EXCEPT ![v.buf] = x]) = Len(t.heap)
      BY <1>2 DEF Heap
    <3> QED BY <1>1, <3>2, <3>3
  <2>4. l + 1 \in 1..Len(t.heap) /\ Len(z.heap[l + 1]) = Len(t.heap[l + 1]) /\ l + 1 \in DOMAIN z.heap
    BY <1>1, <1>2, <2>2, <2>3, <2>6, HeapFacts, SMTT(30) DEF Alters, l
  <2>5. Alters(s.heap, z.heap, {})
    <3>1. Alters(s.heap, z.heap, {} \cup {v.buf})
      BY <1>1, <2>2, AltersAgain
    <3>2. \A k \in 1..l : k \notin {} \cup {v.buf}
      BY <1>2, <2>1 DEF l
    <3> QED BY <3>1, <3>2 DEF Alters, l
  <2>7. WholeOf(z, l + 1) = [buf |-> l + 1, at |-> 0, n |-> Len(g)] /\ Len(z.heap[l + 1]) = Len(g)
    BY <1>1, <2>4 DEF WholeOf
  <2>8. \A j \in 1..Len(g) : z.heap[l + 1][j] = g[j]
    <3>1. \A j \in 1..Len(g) : 0 + j = j
      OBVIOUS
    <3> QED BY <2>1, <2>2, <3>1
  <2>9. l + 1 > l
    BY <1>2 DEF l
  <2> QED BY <1>1, <2>2, <2>3, <2>4, <2>5, <2>7, <2>8, <2>9 DEF l
<1> QED BY <1>3, <1>4

\* threshold_mask_array, in place or not.
LEMMA Thresholded ==
    ASSUME NEW s \in StoreSet, NEW q \in Seq(FrameRec), NEW g \in Seq(FrameRec), Len(g) = Len(q)
    PROVE  /\ Newest(s, Allocated(Allocated(s, q), g), g)
           /\ Newest(s, Wrote(Allocated(s, q), WholeOf(Allocated(s, q), Len(s.heap) + 1), g), g)
<1>1. ASSUME NEW t, NEW z, t = Allocated(s, q),
             z = Allocated(t, g) \/ z = Wrote(t, WholeOf(t, Len(s.heap) + 1), g)
      PROVE  Newest(s, z, g)
  BY <1>1, ThresholdedBuffer, SMTT(30) DEF Newest
<1>2. /\ Newest(s, Allocated(Allocated(s, q), g), g)
      /\ Newest(s, Wrote(Allocated(s, q), WholeOf(Allocated(s, q), Len(s.heap) + 1), g), g)
  BY <1>1, Zenon
<1> QED BY <1>2

\* What append_owned makes of the store s.
Fits(s, v, b, R) == \A j \in 1..v.n : <<b + j - 1, s.heap[v.buf][v.at + j]>> \in R
Owning(s, t, name, a, b, R, v) ==
    /\ t \in StoreSet /\ t.heap = s.heap /\ \A m \in Names : m # name => t[m] = s[m]
    /\ Cached(t.heap, t[name], a, b + v.n, R)
    /\ Bufs(t[name]) \subseteq Bufs(s[name]) \cup {v.buf}
    /\ WholeChunks(s.heap, s[name]) /\ (v.n > 0 => v.n = Len(s.heap[v.buf])) => WholeChunks(t.heap, t[name])

LEMMA OwnedMore ==
    ASSUME NEW s \in StoreSet, NEW name \in Names, NEW a, NEW b, NEW R, Cached(s.heap, s[name], a, b, R),
           NEW v \in View, v.n > 0 => Lies(s.heap, v), Fits(s, v, b, R)
    PROVE  Owning(s, AppendOwned(s, name, v), name, a, b, R, v)
<1>1. \A j \in 1..v.n : <<b + j - 1, s.heap[v.buf][v.at + j]>> \in R
  BY DEF Fits
<1>2. LET t == AppendOwned(s, name, v)
      IN /\ t \in StoreSet /\ t.heap = s.heap /\ \A m \in Names : m # name => t[m] = s[m]
         /\ Cached(t.heap, t[name], a, b + v.n, R)
         /\ Bufs(t[name]) \subseteq Bufs(s[name]) \cup {v.buf}
         /\ WholeChunks(s.heap, s[name]) /\ (v.n > 0 => v.n = Len(s.heap[v.buf])) => WholeChunks(t.heap, t[name])
  BY <1>1, OwnedAppended
<1> QED BY <1>2 DEF Owning

\* What reaches the caches: the frames as they have been decoded, and the mask thresholded, in buffers of their own.
LEMMA PublishedFacts ==
    ASSUME NEW s \in StoreSet, NEW a, NEW m, NEW b \in Nat, NEW e \in Nat, b < e, NEW R,
           Cached(s.heap, s.video, a, b, RawRel), Cached(s.heap, s.mask, m, b, R),
           Rows(FramesOf(b, e, "binary"), b, R),
           hand.video = FramesOf(b, e, Raw), hand.mask = FramesOf(b, e, "soft"),
           WholeChunks(s.heap, s.video), WholeChunks(s.heap, s.mask), Bufs(s.video) \cap Bufs(s.mask) = {}
    PROVE  LET t == Published(s)
           IN /\ t \in StoreSet /\ Alters(s.heap, t.heap, {}) /\ t.output = s.output /\ t.overlap = s.overlap
              /\ Cached(t.heap, t.video, a, e, RawRel) /\ Cached(t.heap, t.mask, m, e, R)
              /\ WholeChunks(t.heap, t.video) /\ WholeChunks(t.heap, t.mask)
              /\ Bufs(t.video) \cap Bufs(t.mask) = {}
              /\ \A x \in Bufs(t.mask) : x \in Bufs(s.mask) \/ x > Len(s.heap)
<1> DEFINE q == FramesOf(b, e, Raw)
           f == FramesOf(b, e, "soft")
           g == FramesOf(b, e, "binary")
           v == AppendCopy(s, "video", q)
           t == Allocated(v, f)
           z == IF request.inplace /\ Uint8 THEN Wrote(t, WholeOf(t, Fresh(v)), g) ELSE Allocated(t, g)
           w == WholeOf(z, Len(z.heap))
           u == IF request.copyOpt THEN AppendOwned(z, "mask", w) ELSE AppendCopy(z, "mask", Read(z, w))
<1>1. /\ Raw \in Looks /\ "soft" \in Looks /\ "binary" \in Looks
  BY DEF Raw, Looks
<1>2. /\ q \in Seq(FrameRec) /\ Len(q) = e - b /\ q # <<>> /\ Rows(q, b, RawRel)
      /\ f \in Seq(FrameRec) /\ Len(f) = e - b /\ g \in Seq(FrameRec) /\ Len(g) = e - b
      /\ Showing(f, "binary") = g
  <2>1. /\ q # <<>> /\ Len(q) = e - b /\ q \in Seq(FrameRec) /\ Rows(q, b, SameRel(Raw))
    BY <1>1, FramesCome
  <2>2. f \in Seq(FrameRec) /\ Len(f) = e - b /\ g \in Seq(FrameRec) /\ Len(g) = e - b
    BY <1>1, FramesCome
  <2>3. b <= e
    OBVIOUS
  <2>4. Showing(f, "binary") = g
    BY <1>1, <2>3, FramesShown
  <2> QED BY <2>1, <2>2, <2>4 DEF RawRel
<1> HIDE DEF q, f, g
<1>3. Published(s) = u
  <2>1. (IF Uint8 /\ request.copyOpt
             THEN LET tt == Allocated(s, q) IN AppendOwned(tt, "video", WholeOf(tt, Fresh(s)))
             ELSE AppendCopy(s, "video", q)) = v
    <3>1. WholeOf(Allocated(s, q), Fresh(s)) = [buf |-> Fresh(s), at |-> 0, n |-> Len(q)]
      BY <1>2, NewArray DEF Fresh
    <3>2. "video" \in Names
      BY DEF Names
    <3>3. AppendOwned(Allocated(s, q), "video", WholeOf(Allocated(s, q), Fresh(s))) = AppendCopy(s, "video", q)
      BY <1>2, <3>1, <3>2, OwnedIsCopied
    <3> QED BY <3>3
  <2>2. hand.video = q /\ hand.mask = f
    BY DEF q, f
  <2> HIDE DEF v
  <2> QED BY <1>2, <2>1, <2>2 DEF Published
<1> HIDE DEF u
<1>4. Moves(s, v, "video") /\ Cached(v.heap, v.video, a, e, RawRel) /\ WholeChunks(v.heap, v.video)
  <2>1. "video" \in Names /\ b + Len(q) = e
    BY <1>2 DEF Names
  <2>2. /\ Moves(s, v, "video") /\ Cached(v.heap, v["video"], a, b + Len(q), RawRel)
        /\ WholeChunks(s.heap, s["video"]) => WholeChunks(v.heap, v["video"])
    BY <1>2, <2>1, CopyAppended
  <2> QED BY <2>1, <2>2
<1> HIDE DEF v
<1>5. /\ v \in StoreSet /\ Alters(s.heap, v.heap, {}) /\ v.mask = s.mask /\ v.output = s.output /\ v.overlap = s.overlap
      /\ \A x \in Bufs(v.video) : x \in Bufs(s.video) \/ x > Len(s.heap)
      /\ \A x \in Bufs(v.video) : x \in 1..Len(v.heap)
  <2>1. v \in StoreSet /\ Alters(s.heap, v.heap, {})
        /\ v["mask"] = s["mask"] /\ v["output"] = s["output"] /\ v["overlap"] = s["overlap"]
        /\ \A x \in Bufs(v["video"]) : x \in Bufs(s["video"]) \/ x > Len(s.heap)
    BY <1>4 DEF Moves, Names
  <2>2. \A x \in Bufs(v.video) : x \in 1..Len(v.heap)
    <3>1. Bounded(v.heap, v.video) /\ v.heap \in Heap
      BY <1>4, <2>1, StoreFacts DEF Cached
    <3> QED BY <3>1, OnlyOld
  <2> QED BY <2>1, <2>2
<1>6. /\ z \in StoreSet /\ Alters(v.heap, z.heap, {}) /\ \A n \in Names : z[n] = v[n]
      /\ Len(z.heap) > Len(v.heap) /\ Len(z.heap) \in DOMAIN z.heap
      /\ w = [buf |-> Len(z.heap), at |-> 0, n |-> Len(g)]
      /\ Len(z.heap[Len(z.heap)]) = Len(g)
      /\ \A j \in 1..Len(g) : z.heap[Len(z.heap)][j] = g[j]
  <2>1. Len(g) = Len(f) /\ Fresh(v) = Len(v.heap) + 1
    BY <1>2 DEF Fresh
  <2>2. /\ Newest(v, Allocated(Allocated(v, f), g), g)
        /\ Newest(v, Wrote(Allocated(v, f), WholeOf(Allocated(v, f), Len(v.heap) + 1), g), g)
    BY <1>2, <1>5, <2>1, Thresholded
  <2>3. Newest(v, z, g)
    BY <2>1, <2>2
  <2> HIDE DEF z
  <2> QED BY <2>3 DEF Newest
<1> HIDE DEF z
<1>7. z.heap \in Heap /\ Len(z.heap) \in Nat /\ v.heap \in Heap /\ Len(v.heap) \in Nat /\ s.heap \in Heap
      /\ Len(s.heap) \in Nat /\ Len(s.heap) <= Len(v.heap)
  BY <1>5, <1>6, StoreFacts DEF Alters
<1>8. /\ z.video = v.video /\ z.mask = s.mask /\ z.output = s.output /\ z.overlap = s.overlap
  <2>1. z["video"] = v["video"] /\ z["mask"] = v["mask"] /\ z["output"] = v["output"] /\ z["overlap"] = v["overlap"]
    BY <1>6 DEF Names
  <2> QED BY <1>5, <2>1
<1>9. Alters(s.heap, z.heap, {})
  <2>1. Alters(s.heap, z.heap, {} \cup {})
    BY <1>5, <1>6, AltersAgain
  <2> QED BY <2>1, AltersMore
<1>10. Cached(z.heap, z.video, a, e, RawRel) /\ WholeChunks(z.heap, z.video)
  <2>1. Bufs(v.video) \cap {} = {} /\ Bounded(v.heap, v.video)
    BY <1>4 DEF Cached
  <2> QED BY <1>4, <1>6, <1>8, <2>1, CachedStays, WholeStill
<1>11. Cached(z.heap, z.mask, m, b, R) /\ WholeChunks(z.heap, z.mask)
  <2>1. Bufs(s.mask) \cap {} = {} /\ Bounded(s.heap, s.mask)
    BY DEF Cached
  <2> QED BY <1>8, <1>9, <2>1, CachedStays, WholeStill
<1>12. /\ w \in View /\ w.buf = Len(z.heap) /\ w.at = 0 /\ w.n = Len(g) /\ w.n > 0 /\ Lies(z.heap, w)
       /\ w.buf \in DOMAIN z.heap /\ w.at + w.n <= Len(z.heap[w.buf]) /\ w.n = Len(z.heap[w.buf])
  <2>1. Len(g) \in Nat /\ Len(g) > 0
    BY <1>2
  <2>2. w \in View /\ w.buf = Len(z.heap) /\ w.at = 0 /\ w.n = Len(g)
    BY <1>6, <1>7, <2>1 DEF View
  <2> HIDE DEF w
  <2>3. w.at + w.n <= Len(z.heap[w.buf])
    BY <1>6, <2>1, <2>2
  <2> QED BY <1>6, <2>1, <2>2, <2>3 DEF Lies
<1> HIDE DEF w
<1>13. \A j \in 1..Len(g) : <<b + j - 1, z.heap[w.buf][w.at + j]>> \in R
  <2>1. \A j \in 1..Len(g) : 0 + j = j
    OBVIOUS
  <2>2. \A j \in 1..Len(g) : <<b + j - 1, g[j]>> \in R
    BY DEF Rows, g
  <2> QED BY <1>6, <1>12, <2>1, <2>2
<1>14. b + Len(g) = e /\ "mask" \in Names
  BY <1>2 DEF Names
<1>15. /\ u \in StoreSet /\ Alters(z.heap, u.heap, {}) /\ u.video = z.video /\ u.output = z.output /\ u.overlap = z.overlap
       /\ Cached(u.heap, u.mask, m, e, R) /\ WholeChunks(u.heap, u.mask)
       /\ \A x \in Bufs(u.mask) : x \in Bufs(z.mask) \/ x >= Len(z.heap)
  <2>1. CASE request.copyOpt
    <3>1. u = AppendOwned(z, "mask", w)
      BY <2>1 DEF u
    <3>2. /\ u \in StoreSet /\ u.heap = z.heap /\ \A n \in Names : n # "mask" => u[n] = z[n]
          /\ Cached(u.heap, u["mask"], m, b + w.n, R)
          /\ Bufs(u["mask"]) \subseteq Bufs(z["mask"]) \cup {w.buf}
          /\ WholeChunks(z.heap, z["mask"]) /\ (w.n > 0 => w.n = Len(z.heap[w.buf])) => WholeChunks(u.heap, u["mask"])
      <4>1. Cached(z.heap, z["mask"], m, b, R) /\ z \in StoreSet /\ w \in View /\ (w.n > 0 => Lies(z.heap, w))
        BY <1>6, <1>11, <1>12
      <4>2. Fits(z, w, b, R)
        BY <1>12, <1>13 DEF Fits
      <4>3. Owning(z, AppendOwned(z, "mask", w), "mask", m, b, R, w)
        BY <1>14, <4>1, <4>2, OwnedMore
      <4> QED BY <3>1, <4>3 DEF Owning
    <3>3. u["video"] = z["video"] /\ u["output"] = z["output"] /\ u["overlap"] = z["overlap"]
      BY <3>2 DEF Names
    <3>4. Alters(z.heap, u.heap, {})
      BY <1>7, <3>2, AltersNothing
    <3> QED BY <1>7, <1>11, <1>12, <1>14, <3>2, <3>3, <3>4
  <2>2. CASE ~request.copyOpt
    <3> DEFINE r == Read(z, w)
    <3>1. u = AppendCopy(z, "mask", r)
      BY <2>2 DEF u
    <3>2. r \in Seq(FrameRec) /\ Len(r) = w.n /\ \A j \in 1..w.n : r[j] = z.heap[w.buf][w.at + j]
      BY <1>7, <1>12, ReadFacts
    <3> HIDE DEF r
    <3>3. Rows(r, b, R)
      BY <1>12, <1>13, <3>2 DEF Rows
    <3>4. /\ Moves(z, u, "mask") /\ Cached(u.heap, u["mask"], m, b + Len(r), R)
          /\ WholeChunks(z.heap, z["mask"]) => WholeChunks(u.heap, u["mask"])
      BY <1>6, <1>11, <1>14, <3>1, <3>2, <3>3, CopyAppended
    <3>5. /\ u \in StoreSet /\ Alters(z.heap, u.heap, {})
          /\ u["video"] = z["video"] /\ u["output"] = z["output"] /\ u["overlap"] = z["overlap"]
          /\ \A x \in Bufs(u["mask"]) : x \in Bufs(z["mask"]) \/ x > Len(z.heap)
      BY <3>4 DEF Moves, Names
    <3>6. \A x \in Bufs(u.mask) : x \in Nat
      <4>1. Bounded(u.heap, u.mask) /\ u.heap \in Heap /\ Len(u.heap) \in Nat
        BY <3>4, <3>5, StoreFacts DEF Cached
      <4>2. \A x \in Bufs(u.mask) : x \in 1..Len(u.heap)
        BY <4>1, OnlyOld
      <4> QED BY <4>1, <4>2
    <3> QED BY <1>7, <1>11, <1>12, <1>14, <3>2, <3>4, <3>5, <3>6
  <2> QED BY <2>1, <2>2
<1>16. Alters(s.heap, u.heap, {})
  <2>1. Alters(s.heap, u.heap, {} \cup {})
    BY <1>9, <1>15, AltersAgain
  <2> QED BY <2>1, AltersMore
<1>17. Cached(u.heap, u.video, a, e, RawRel) /\ WholeChunks(u.heap, u.video)
  <2>1. Bufs(z.video) \cap {} = {} /\ Bounded(z.heap, z.video)
    BY <1>10 DEF Cached
  <2> QED BY <1>10, <1>15, <2>1, CachedStays, WholeStill
<1>18. \A x \in Bufs(s.mask) : x \in 1..Len(s.heap)
  <2>1. Bounded(s.heap, s.mask)
    BY DEF Cached
  <2> QED BY <1>7, <2>1, OnlyOld
<1>19. \A x \in Bufs(u.mask) : x \in Nat /\ (x \in Bufs(s.mask) \/ x > Len(v.heap))
  <2> TAKE x \in Bufs(u.mask)
  <2>1. x \in Bufs(s.mask) \/ x >= Len(z.heap)
    BY <1>8, <1>15
  <2>2. x \in Nat
    <3>1. Bounded(u.heap, u.mask) /\ u.heap \in Heap
      BY <1>15, StoreFacts DEF Cached
    <3>2. x \in 1..Len(u.heap)
      BY <3>1, OnlyOld
    <3> QED BY <3>2
  <2> QED BY <1>6, <1>7, <2>1, <2>2
<1>20. Bufs(u.video) \cap Bufs(u.mask) = {}
  <2> SUFFICES ASSUME NEW x \in Bufs(u.mask), x \in Bufs(v.video) PROVE FALSE
    BY <1>8, <1>15
  <2>1. x \in Nat /\ x <= Len(v.heap)
    BY <1>5, <1>7
  <2>2. x \in Bufs(s.mask)
    BY <1>7, <1>19, <2>1
  <2>3. x <= Len(s.heap) /\ x \in Bufs(s.video)
    BY <1>5, <1>7, <1>18, <2>1, <2>2
  <2> QED BY <2>2, <2>3
<1>21. \A x \in Bufs(u.mask) : x \in Bufs(s.mask) \/ x > Len(s.heap)
  BY <1>7, <1>19
<1> QED BY <1>3, <1>8, <1>15, <1>16, <1>17, <1>20, <1>21

\* Buffers that are not among those of the mask, when the mask gets new ones.
LEMMA StillOwned ==
    ASSUME NEW h, NEW M, NEW N, NEW c, Bounded(h, c), h \in Heap,
           \A x \in N : x \in M \/ x > Len(h), \A x \in M : x \notin Bufs(c)
    PROVE  \A x \in N : x \notin Bufs(c)
<1>1. \A x \in Bufs(c) : x \in 1..Len(h)
  BY OnlyOld
<1>2. Len(h) \in Nat
  BY HeapFacts
<1> SUFFICES ASSUME NEW x \in N, x \in Bufs(c) PROVE FALSE
  OBVIOUS
<1>3. x \in 1..Len(h) /\ x > Len(h)
  BY <1>1
<1> QED BY <1>2, <1>3

LEMMA PublishesSound == StoreInv /\ Publishes => StoreInv'
<1> SUFFICES ASSUME StoreInv, Publishes PROVE StoreInv'
  OBVIOUS
<1>1. PlaceInv /\ CacheInv /\ PendingInv /\ OwnInv /\ HandInv /\ ReaderInv /\ ThresholdInv
  BY DEF StoreInv
<1>2. /\ pc = "read" /\ hand.video # <<>> /\ hand.mask # <<>>
      /\ (pc' = "driver" /\ store' = Published(store)) \/ (pc' = "closing" /\ store' = store)
      /\ hand' = [video |-> <<>>, mask |-> <<>>]
      /\ UNCHANGED <<readers, next, threshold, request, queue, item, written>>
  BY DEF Publishes, Keeps
<1>3. Cur = next /\ Cur' = next
  BY <1>2 DEF Cur
<1>4. ThresholdInv'
  <2>1. Uint8' = Uint8 /\ Brightest(0, NumFrames)' = Brightest(0, NumFrames)
    BY <1>2 DEF Uint8, Brightest, Level
  <2> QED BY <1>1, <1>2, <2>1 DEF ThresholdInv
<1>5. HandInv'
  BY <1>2 DEF HandInv
<1>6. CASE pc' = "closing" /\ store' = store
  <2>1. CacheInv' /\ PendingInv' /\ OwnInv' /\ Decoded' = Decoded
    BY <1>1, <1>2, <1>3, <1>6, StoreStays
  <2>2. PlaceInv'
    BY <1>1, <1>2, <1>3, <1>6, <2>1 DEF PlaceInv
  <2>3. ReaderInv'
    BY <1>1, <1>2, <1>6 DEF ReaderInv
  <2> QED BY <1>4, <1>5, <2>1, <2>2, <2>3 DEF StoreInv
<1>7. CASE pc' = "driver" /\ store' = Published(store)
  <2> DEFINE b == Decoded
             e == DealStart(next + 1)
             t == Published(store)
  <2>1. b \in Nat /\ e \in Nat /\ b < e /\ b = DealStart(next) /\ next <= Len(Windows)
    BY <1>1, <1>2, MissingFacts DEF PlaceInv
  <2>2. hand.video = FramesOf(b, e, Raw) /\ hand.mask = FramesOf(b, e, "soft")
        /\ Delivered(readers.video, b + Len(hand.video)) /\ Delivered(readers.mask, b + Len(hand.mask))
        /\ readers = [video |-> readers.video, mask |-> readers.mask]
    BY <1>1, <1>2 DEF ReaderInv
  <2>3. b + Len(hand.video) = e /\ b + Len(hand.mask) = e
    <3>1. Raw \in Looks /\ "soft" \in Looks
      BY DEF Raw, Looks
    <3>2. Len(FramesOf(b, e, Raw)) = e - b /\ Len(FramesOf(b, e, "soft")) = e - b
      BY <2>1, <3>1, FramesCome
    <3> QED BY <2>1, <2>2, <3>2
  <2> HIDE DEF b, e, t
  <2>4. /\ store \in StoreSet
        /\ Cached(store.heap, store.video, store.video.start, b, RawRel)
        /\ Cached(store.heap, store.mask, LoadStart(next), b, MaskRel(b))
        /\ Cached(store.heap, store.output, LoadStart(next), LoadStart(next), PlanRel(request))
        /\ Cached(store.heap, store.overlap, LoadStart(next), b, OverRel(request, next - 1))
        /\ WholeChunks(store.heap, store.video) /\ WholeChunks(store.heap, store.mask)
    BY <1>1, <1>3, <2>1 DEF CacheInv, b
  <2>5. Rows(FramesOf(b, e, "binary"), b, MaskRel(b))
    <3>1. "binary" \in Looks
      BY DEF Looks
    <3>2. Rows(FramesOf(b, e, "binary"), b, SameRel("binary"))
      BY <2>1, <3>1, FramesCome
    <3>3. SameRel("binary") \subseteq MaskRel(b)
      BY DEF SameRel, MaskRel
    <3> QED BY <3>2, <3>3 DEF Rows
  <2>6. Bufs(store.video) \cap Bufs(store.mask) = {}
    BY <1>1 DEF OwnInv
  <2>7. /\ t \in StoreSet /\ Alters(store.heap, t.heap, {}) /\ t.output = store.output /\ t.overlap = store.overlap
        /\ Cached(t.heap, t.video, store.video.start, e, RawRel) /\ Cached(t.heap, t.mask, LoadStart(next), e, MaskRel(b))
        /\ WholeChunks(t.heap, t.video) /\ WholeChunks(t.heap, t.mask)
        /\ Bufs(t.video) \cap Bufs(t.mask) = {}
        /\ \A x \in Bufs(t.mask) : x \in Bufs(store.mask) \/ x > Len(store.heap)
    BY <2>1, <2>2, <2>4, <2>5, <2>6, PublishedFacts, ZenonT(60) DEF t
  <2>8. store' = t /\ Coming' = Coming /\ Pending' = Pending
    BY <1>2, <1>7 DEF t, Coming, Pending
  <2>9. Decoded' = e /\ t.video.start = store.video.start
    BY <2>7, <2>8 DEF Decoded, Cached
  <2>10. Cached(t.heap, t.output, LoadStart(next), LoadStart(next), PlanRel(request))
         /\ Cached(t.heap, t.overlap, LoadStart(next), b, OverRel(request, next - 1))
         /\ Cached(t.heap, Pending, Len(written), LoadStart(next), PlanRel(request))
    <3>1. Cached(store.heap, Pending, Len(written), LoadStart(next), PlanRel(request))
      BY <1>1, <1>3 DEF PendingInv
    <3>2. Bufs(store.output) \cap {} = {} /\ Bufs(store.overlap) \cap {} = {} /\ Bufs(Pending) \cap {} = {}
      OBVIOUS
    <3>3. Cached(t.heap, store.output, LoadStart(next), LoadStart(next), PlanRel(request))
      BY <2>4, <2>7, <3>2, CachedStays
    <3>4. Cached(t.heap, store.overlap, LoadStart(next), b, OverRel(request, next - 1))
      BY <2>4, <2>7, <3>2, CachedStays
    <3>5. Cached(t.heap, Pending, Len(written), LoadStart(next), PlanRel(request))
      BY <2>7, <3>1, <3>2, CachedStays
    <3> QED BY <2>7, <3>3, <3>4, <3>5
  <2>11. CacheInv'
    <3>1. CacheInv' = (/\ t \in StoreSet
              /\ Cached(t.heap, t.video, t.video.start, e, RawRel)
              /\ Cached(t.heap, t.mask, LoadStart(next), e, MaskRel(DealStart(next)))
              /\ Cached(t.heap, t.output, LoadStart(next), LoadStart(next), PlanRel(request))
              /\ Cached(t.heap, t.overlap, LoadStart(next), DealStart(next), OverRel(request, next - 1))
              /\ WholeChunks(t.heap, t.video) /\ WholeChunks(t.heap, t.mask))
      BY <1>2, <1>3, <2>8, <2>9 DEF CacheInv
    <3> QED BY <2>1, <2>7, <2>9, <2>10, <3>1
  <2>12. PendingInv'
    BY <1>1, <1>2, <1>3, <2>8, <2>10 DEF PendingInv
  <2>13. OwnInv'
    <3>1. Bounded(store.heap, store.output) /\ Bounded(store.heap, store.overlap) /\ Bounded(store.heap, Pending) /\ store.heap \in Heap
      BY <1>1, <2>4, StoreFacts DEF Cached, PendingInv
    <3>2. \A x \in Bufs(store.mask) : x \notin Bufs(store.output) /\ x \notin Bufs(store.overlap) /\ x \notin Bufs(Pending)
      BY <1>1 DEF OwnInv
    <3>7. \A x \in Bufs(t.mask) : x \in Bufs(store.mask) \/ x > Len(store.heap)
      BY <2>7
    <3>3. \A x \in Bufs(t.mask) : x \notin Bufs(store.output)
      BY <3>1, <3>2, <3>7, StillOwned, ZenonT(60)
    <3>4. \A x \in Bufs(t.mask) : x \notin Bufs(store.overlap)
      BY <3>1, <3>2, <3>7, StillOwned, ZenonT(60)
    <3>5. \A x \in Bufs(t.mask) : x \notin Bufs(Pending)
      BY <3>1, <3>2, <3>7, StillOwned
    <3>6. \A x \in Bufs(t.mask) : x \notin Bufs(t.video)
      BY <2>7
    <3> QED BY <2>7, <2>8, <3>3, <3>4, <3>5, <3>6 DEF OwnInv
  <2>14. PlaceInv'
    BY <1>1, <1>2, <1>3, <1>7, <2>1, <2>8, <2>9 DEF PlaceInv, e
  <2>15. ReaderInv'
    BY <1>2, <1>7, <2>2, <2>3, <2>9 DEF ReaderInv
  <2> QED BY <1>4, <1>5, <2>11, <2>12, <2>13, <2>14, <2>15 DEF StoreInv
<1> QED BY <1>2, <1>6, <1>7

-----------------------------------------------------------------------------
(***************************************************************************)
(* A window is prepared.                                                   *)
(***************************************************************************)

\* The frames a window is run on: they are as many as it loads, and begin with what the window
\* before it has left.
LEMMA WindowFramesFacts ==
    ASSUME PlaceInv, CacheInv, next <= Len(Windows), Decoded = DealStart(next + 1), Cur = next, pc # "flush"
    PROVE  /\ WindowFrames(store, Spec1) \in Seq(FrameRec)
           /\ Len(WindowFrames(store, Spec1)) = DealStart(next + 1) - LoadStart(next)
           /\ \A j \in 1..(DealStart(next) - LoadStart(next)) :
                 <<LoadStart(next) + j - 1, WindowFrames(store, Spec1)[j]>> \in OverRel(request, next - 1)
<1>1. PICK l \in Nat, d \in Nat, e \in Nat :
        /\ l = LoadStart(next) /\ d = DealStart(next) /\ e = DealStart(next + 1) /\ l <= d /\ d < e
        /\ Spec1.load_start = l /\ Spec1.load_end = e /\ Spec1.overlap_left = d - l /\ Spec1.deal_start = d
  BY Marks
<1>2. /\ store \in StoreSet /\ store.heap \in Heap
      /\ Cached(store.heap, store.video, l, e, RawRel)
      /\ Cached(store.heap, store.overlap, l, d, OverRel(request, next - 1))
  <2>1. store.video.start = l
    BY <1>1 DEF PlaceInv
  <2>2. store \in StoreSet
    BY DEF CacheInv
  <2> QED BY <1>1, <2>1, <2>2, StoreFacts DEF CacheInv
<1>3. store.overlap.start = l /\ EndIndex(store.overlap) = d
  BY <1>2 DEF Cached
<1>4. CASE d = l
  <2>1. ~OverlapCached(store, Spec1)
    BY <1>1, <1>4 DEF OverlapCached
  <2>2. WindowFrames(store, Spec1) = Slice(store, store.video, l, e)
    BY <1>1, <2>1 DEF WindowFrames
  <2>3. Slice(store, store.video, l, e) \in Seq(FrameRec) /\ Len(Slice(store, store.video, l, e)) = e - l
    <3>1. l <= l /\ l <= e /\ e <= e
      BY <1>1
    <3> QED BY <1>2, <3>1, SliceFacts
  <2>4. 1..(d - l) = {}
    BY <1>4
  <2> QED BY <1>1, <2>2, <2>3, <2>4
<1>5. CASE d # l
  <2>1. OverlapCached(store, Spec1) /\ Spec1.load_start + Spec1.overlap_left = d
    BY <1>1, <1>3, <1>5 DEF OverlapCached
  <2>2. PICK q \in Seq(FrameRec) : q = Contents(store, store.overlap) /\ Len(q) = d - l /\ Rows(q, l, OverRel(request, next - 1))
    BY <1>2, ContentsFacts
  <2>3. PICK r \in Seq(FrameRec) : r = Slice(store, store.video, d, e) /\ Len(r) = e - d
    <3>1. l <= d /\ d <= e /\ e <= e
      BY <1>1
    <3> QED BY <1>2, <3>1, SliceFacts
  <2>4. WindowFrames(store, Spec1) = q \o r
    BY <1>1, <2>1, <2>2, <2>3 DEF WindowFrames
  <2>5. /\ q \o r \in Seq(FrameRec) /\ Len(q \o r) = Len(q) + Len(r) /\ \A i \in 1..Len(q) : (q \o r)[i] = q[i]
    BY JoinFacts
  <2>6. Len(q) + Len(r) = e - l
    <3>1. (d - l) + (e - d) = e - l
      OBVIOUS
    <3> QED BY <2>2, <2>3, <3>1
  <2>7. ASSUME NEW j \in 1..(d - l) PROVE <<l + j - 1, (q \o r)[j]>> \in OverRel(request, next - 1)
    <3>1. (q \o r)[j] = q[j]
      BY <2>2, <2>5
    <3> QED BY <2>2, <3>1 DEF Rows
  <2> QED BY <1>1, <2>4, <2>5, <2>6, <2>7
<1> QED BY <1>4, <1>5

\* The mask of a window's new frames.
LEMMA WindowMask ==
    ASSUME PlaceInv, CacheInv, next <= Len(Windows), Decoded = DealStart(next + 1), Cur = next
    PROVE  Slice(store, store.mask, Spec1.deal_start, Spec1.commit_end)
              = FramesOf(DealStart(next), DealStart(next + 1), "binary")
<1>1. PICK l \in Nat, d \in Nat, e \in Nat :
        /\ l = LoadStart(next) /\ d = DealStart(next) /\ e = DealStart(next + 1) /\ l <= d /\ d < e
        /\ Spec1.deal_start = d /\ Spec1.commit_end = e
  BY Marks
<1>2. store.heap \in Heap /\ Cached(store.heap, store.mask, l, e, MaskRel(d))
  BY <1>1, StoreFacts DEF CacheInv
<1>3. PICK q \in Seq(FrameRec) : q = Slice(store, store.mask, d, e) /\ Len(q) = e - d /\ Rows(q, d, MaskRel(d))
  <2>1. l <= d /\ d <= e /\ e <= e
    BY <1>1
  <2> QED BY <1>2, <2>1, SliceFacts
<1>4. Rows(q, d, SameRel("binary"))
  <2> SUFFICES ASSUME NEW j \in 1..(e - d) PROVE <<d + j - 1, q[j]>> \in SameRel("binary")
    BY <1>3 DEF Rows
  <2>1. <<d + j - 1, q[j]>> \in MaskRel(d) /\ d + j - 1 >= d
    BY <1>1, <1>3, SMTT(30) DEF Rows
  <2> QED BY <2>1, Pairs
<1>5. d <= e /\ "binary" \in Looks
  BY <1>1 DEF Looks
<1>6. q = FramesOf(d, e, "binary")
  BY <1>3, <1>4, <1>5, SameFrames
<1> QED BY <1>1, <1>3, <1>6

\* The block that is lent is the only one, and it is nowhere else.
LEMMA BorrowedFacts ==
    ASSUME PlaceInv, CacheInv, PendingInv, OwnInv, next <= Len(Windows), Decoded = DealStart(next + 1), Cur = next,
           pc # "flush", Borrows(store, Spec1)
    PROVE  /\ store.video.chunks[1] \in View /\ Lies(store.heap, store.video.chunks[1])
           /\ store.video.chunks[1].n = DealStart(next + 1) - LoadStart(next)
           /\ Len(store.video.chunks) = 1 /\ store.video.chunks[1].buf \in Bufs(store.video)
           /\ Bufs(store.output) = {} /\ Bufs(store.overlap) = {} /\ Bufs(Pending) = {}
           /\ DealStart(next) = 0 /\ LoadStart(next) = 0
<1>1. next = 1 /\ store.video.chunks # <<>> /\ Spec1.load_end = Spec1.load_start + store.video.chunks[1].n
  BY DEF Borrows
<1>2. LoadStart(next) = 0 /\ DealStart(next) = 0
  BY <1>1, PlanFacts
<1>3. PICK e \in Nat : e = DealStart(next + 1) /\ Spec1.load_end = e /\ Spec1.load_start = 0 /\ 0 < e
  BY <1>2, Marks
<1>4. store.video.start = 0 /\ Cached(store.heap, store.video, 0, e, RawRel)
  <2>1. store.video.start = 0
    BY <1>2 DEF PlaceInv
  <2> QED BY <1>3, <2>1 DEF CacheInv
<1>5. PICK p : Seen(store.heap, store.video, 0, e, RawRel, p)
  BY <1>4, SeenCached
<1>6. /\ store.video \in Cache /\ Starting(store.video, p) /\ p[1] = 0 /\ p[Len(store.video.chunks) + 1] = e
      /\ \A i, j \in 1..(Len(store.video.chunks) + 1) : i < j => p[i] < p[j]
      /\ \A i \in 1..Len(store.video.chunks) : Lies(store.heap, store.video.chunks[i])
  BY <1>5 DEF Seen
<1>7. PICK k \in Nat : k = Len(store.video.chunks) /\ store.video.chunks \in Seq(View)
                       /\ \A i \in 1..k : store.video.chunks[i] \in View /\ store.video.chunks[i].n \in Nat
  BY <1>6, CacheFacts
<1>8. k # 0
  BY <1>1, <1>7, NoEntries
<1>9. 1 \in 1..k /\ 2 \in 1..(k + 1) /\ k + 1 \in 1..(k + 1) /\ 1 + 1 = 2
  BY <1>8
<1>10. store.video.chunks[1].n = e
  BY <1>1, <1>3, <1>7, <1>9
<1>11. p[2] = e
  <2>1. p[1 + 1] = p[1] + store.video.chunks[1].n
    BY <1>6, <1>7, <1>9 DEF Starting
  <2> QED BY <1>6, <1>9, <1>10, <2>1
<1>12. k = 1
  <2> SUFFICES ASSUME 1 < k PROVE FALSE
    BY <1>8
  <2>1. 2 < k + 1
    OBVIOUS
  <2>2. p[2] < p[k + 1]
    BY <1>6, <1>7, <1>9, <2>1
  <2> QED BY <1>6, <1>7, <1>11, <2>2
<1>13. store.video.chunks[1].buf \in Bufs(store.video)
  BY <1>7, <1>9 DEF Bufs
<1>14. Bufs(store.output) = {} /\ Bufs(store.overlap) = {}
  <2>1. Cached(store.heap, store.output, 0, 0, PlanRel(request)) /\ Cached(store.heap, store.overlap, 0, 0, OverRel(request, next - 1))
    BY <1>2 DEF CacheInv
  <2> QED BY <2>1, CachedNothing
<1>15. Bufs(Pending) = {}
  <2>1. Cached(store.heap, Pending, Len(written), 0, PlanRel(request))
    BY <1>2 DEF PendingInv
  <2>2. PICK z : Seen(store.heap, Pending, Len(written), 0, PlanRel(request), z)
    BY <2>1, SeenCached
  <2>3. Len(written) \in Nat /\ Len(written) <= 0
    BY <2>2 DEF Seen
  <2>4. Len(written) = 0
    BY <2>3
  <2> QED BY <2>1, <2>4, CachedNothing
<1>16. e - 0 = e
  OBVIOUS
<1> QED BY <1>2, <1>3, <1>6, <1>7, <1>9, <1>10, <1>12, <1>13, <1>14, <1>15, <1>16

\* What holds of a window about to run, and the buffers besides.
LEMMA ReadyFacts ==
    ASSUME PlaceInv, Ready
    PROVE  /\ pc = "driver" /\ next <= Len(Windows) /\ Decoded = DealStart(next + 1) /\ Cur = next
           /\ store.video.start = LoadStart(next)
<1>1. pc = "driver" /\ next <= Len(Windows) /\ Spec1.load_end - Decoded <= 0
  BY DEF Ready, Missing, Decoded
<1>2. PICK d \in Nat, e \in Nat, x \in Nat : d = DealStart(next) /\ e = DealStart(next + 1) /\ x = Decoded /\ d < e /\ Spec1.load_end = e
  BY <1>1, Marks
<1>3. x = d \/ x = e
  BY <1>1, <1>2 DEF PlaceInv
<1>4. x = e
  BY <1>1, <1>2, <1>3
<1> QED BY <1>1, <1>2, <1>4 DEF PlaceInv, Cur

LEMMA MaterializesSound == StoreInv /\ Materializes => StoreInv'
<1> SUFFICES ASSUME StoreInv, Materializes PROVE StoreInv'
  OBVIOUS
<1> DEFINE borrowed == Borrows(store, Spec1)
           l == LoadStart(next)
           d == DealStart(next)
           e == DealStart(next + 1)
           k == Len(store.heap)
<1>1. PlaceInv /\ CacheInv /\ PendingInv /\ OwnInv /\ HandInv /\ ReaderInv /\ ThresholdInv
  BY DEF StoreInv
<1>2. Ready /\ next \notin request.skipped /\ pc' = "run" /\ UNCHANGED <<readers, next, threshold, request, queue, item, written>>
  BY DEF Materializes, Keeps
<1>3. pc = "driver" /\ next <= Len(Windows) /\ Decoded = e /\ Cur = next /\ store.video.start = l
  BY <1>1, <1>2, ReadyFacts
<1>4. /\ l \in Nat /\ d \in Nat /\ e \in Nat /\ l <= d /\ d < e /\ next \in Nat \ {0}
  BY <1>1, <1>3, Marks
<1>5. Cur' = next
  BY <1>2 DEF Cur
<1>6. store \in StoreSet /\ store.heap \in Heap /\ k \in Nat
  BY <1>1, StoreFacts DEF CacheInv
<1>7. PICK q \in Seq(FrameRec) :
         /\ q = WindowFrames(store, Spec1) /\ Len(q) = e - l
         /\ \A j \in 1..(d - l) : <<l + j - 1, q[j]>> \in OverRel(request, next - 1)
  <2>1. pc # "flush"
    BY <1>3
  <2> QED BY <1>1, <1>3, <2>1, WindowFramesFacts
<1>8. Slice(store, store.mask, Spec1.deal_start, Spec1.commit_end) = FramesOf(d, e, "binary")
  BY <1>1, <1>3, WindowMask
<1> HIDE DEF l, d, e, k, borrowed
<1>9. hand'.mask = FramesOf(d, e, "binary") /\ hand'.borrowed = borrowed
      /\ \/ /\ borrowed /\ store' = store /\ hand'.video = store.video.chunks[1]
         \/ /\ ~borrowed /\ store' = Allocated(store, q) /\ hand'.video = [buf |-> k + 1, at |-> 0, n |-> Len(q)]
  <2>1. /\ store' = IF borrowed THEN store ELSE Allocated(store, IF borrowed THEN <<>> ELSE WindowFrames(store, Spec1))
        /\ hand' = [video |-> IF borrowed THEN store.video.chunks[1]
                              ELSE [buf |-> Fresh(store), at |-> 0, n |-> Len(IF borrowed THEN <<>> ELSE WindowFrames(store, Spec1))],
                    mask |-> Slice(store, store.mask, Spec1.deal_start, Spec1.commit_end),
                    borrowed |-> borrowed]
    BY DEF Materializes, borrowed
  <2> QED BY <1>7, <1>8, <2>1 DEF Fresh, k
<1>10. ThresholdInv'
  <2>1. Uint8' = Uint8 /\ Brightest(0, NumFrames)' = Brightest(0, NumFrames)
    BY <1>2 DEF Uint8, Brightest, Level
  <2> QED BY <1>1, <1>2, <1>3, <2>1 DEF ThresholdInv
<1>11. CASE borrowed /\ store' = store /\ hand'.video = store.video.chunks[1]
  <2>1. CacheInv' /\ PendingInv' /\ OwnInv' /\ Decoded' = Decoded
    BY <1>1, <1>2, <1>3, <1>5, <1>11, StoreStays
  <2>2. PlaceInv'
    BY <1>1, <1>2, <1>3, <1>5, <1>11, <2>1 DEF PlaceInv, e, l
  <2>3. ReaderInv'
    BY <1>1, <1>2, <1>3, <2>1 DEF ReaderInv
  <2> DEFINE v == store.video.chunks[1]
  <2>4. /\ v \in View /\ Lies(store.heap, v) /\ v.n = e - l
        /\ Len(store.video.chunks) = 1 /\ v.buf \in Bufs(store.video)
        /\ Bufs(store.output) = {} /\ Bufs(store.overlap) = {} /\ Bufs(Pending) = {}
        /\ d = 0 /\ l = 0
    <3>1. Borrows(store, Spec1) /\ pc # "flush"
      BY <1>3, <1>11 DEF borrowed
    <3> QED BY <1>1, <1>3, <3>1, BorrowedFacts DEF e, d, l
  <2> HIDE DEF v
  <2>5. v.buf \notin Bufs(store.mask)
    BY <1>1, <2>4 DEF OwnInv
  <2>6. Pending' = Pending
    BY <1>2, <1>11 DEF Pending, Coming
  <2>7. 1..(d - l) = {}
    BY <2>4
  <2>8. hand'.video = v /\ v.buf \in DOMAIN store.heap /\ v.at + v.n <= Len(store.heap[v.buf])
    BY <1>11, <2>4 DEF v, Lies
  <2>9. HandInv'
    BY <1>2, <1>9, <1>11, <2>4, <2>5, <2>6, <2>7, <2>8 DEF HandInv, e, d, l
  <2> QED BY <1>10, <2>1, <2>2, <2>3, <2>9 DEF StoreInv
<1>12. CASE /\ ~borrowed /\ store' = Allocated(store, q) /\ hand'.video = [buf |-> k + 1, at |-> 0, n |-> Len(q)]
  <2> DEFINE t == Allocated(store, q)
             v == [buf |-> k + 1, at |-> 0, n |-> Len(q)]
  <2>1. /\ t \in StoreSet /\ Alters(store.heap, t.heap, {}) /\ \A m \in Names : t[m] = store[m]
        /\ Len(t.heap) = k + 1 /\ t.heap[k + 1] = q /\ k + 1 \in DOMAIN t.heap
    BY <1>6, NewArray DEF k
  <2> HIDE DEF t
  <2>2. t.video = store.video /\ t.mask = store.mask /\ t.output = store.output /\ t.overlap = store.overlap
    <3>1. t["video"] = store["video"] /\ t["mask"] = store["mask"] /\ t["output"] = store["output"] /\ t["overlap"] = store["overlap"]
      BY <2>1 DEF Names
    <3> QED BY <3>1
  <2>3. store' = t /\ Coming' = Coming /\ Pending' = Pending
    BY <1>2, <1>12 DEF t, Coming, Pending
  <2>4. Decoded' = Decoded
    BY <2>2, <2>3 DEF Decoded
  <2>5. CacheInv' /\ PendingInv' /\ OwnInv'
    <3>1. /\ Cached(store.heap, store.video, store.video.start, Decoded, RawRel)
          /\ Cached(store.heap, store.mask, l, Decoded, MaskRel(d))
          /\ Cached(store.heap, store.output, l, l, PlanRel(request))
          /\ Cached(store.heap, store.overlap, l, d, OverRel(request, next - 1))
          /\ Cached(store.heap, Pending, Len(written), l, PlanRel(request))
          /\ WholeChunks(store.heap, store.video) /\ WholeChunks(store.heap, store.mask)
      BY <1>1, <1>3 DEF CacheInv, PendingInv, l, d
    <3>2. \A X : X \cap {} = {}
      OBVIOUS
    <3>3. Cached(t.heap, store.video, store.video.start, Decoded, RawRel)
      BY <2>1, <3>1, <3>2, CachedStays
    <3>4. Cached(t.heap, store.mask, l, Decoded, MaskRel(d))
      BY <2>1, <3>1, <3>2, CachedStays
    <3>5. Cached(t.heap, store.output, l, l, PlanRel(request))
      BY <2>1, <3>1, <3>2, CachedStays
    <3>6. Cached(t.heap, store.overlap, l, d, OverRel(request, next - 1))
      BY <2>1, <3>1, <3>2, CachedStays
    <3>7. Cached(t.heap, Pending, Len(written), l, PlanRel(request))
      BY <2>1, <3>1, <3>2, CachedStays
    <3>8. WholeChunks(t.heap, store.video) /\ WholeChunks(t.heap, store.mask)
      <4>1. Bounded(store.heap, store.video) /\ Bounded(store.heap, store.mask)
        BY <3>1 DEF Cached
      <4> QED BY <2>1, <3>1, <4>1, WholeStill
    <3>9. CacheInv'
      BY <1>2, <1>5, <2>1, <2>2, <2>3, <2>4, <3>3, <3>4, <3>5, <3>6, <3>8 DEF CacheInv, l, d
    <3>10. PendingInv'
      BY <1>1, <1>2, <1>5, <2>3, <3>7 DEF PendingInv, l
    <3>11. OwnInv'
      BY <1>1, <2>2, <2>3 DEF OwnInv
    <3> QED BY <3>9, <3>10, <3>11
  <2>6. PlaceInv'
    BY <1>1, <1>2, <1>3, <1>5, <2>2, <2>3, <2>4 DEF PlaceInv, e, l
  <2>7. ReaderInv'
    BY <1>1, <1>2, <1>3, <2>4 DEF ReaderInv
  <2>8. \A c : Bounded(store.heap, c) => k + 1 \notin Bufs(c)
    <3> SUFFICES ASSUME NEW c, Bounded(store.heap, c), k + 1 \in Bufs(c) PROVE FALSE
      OBVIOUS
    <3>1. k + 1 \in 1..k
      BY <1>6, OnlyOld DEF k
    <3> QED BY <1>6, <3>1
  <2>9. k + 1 \notin Bufs(store.mask) /\ k + 1 \notin Bufs(store.output) /\ k + 1 \notin Bufs(store.overlap)
        /\ k + 1 \notin Bufs(Pending) /\ k + 1 \notin Bufs(store.video)
    <3>1. Bounded(store.heap, store.mask) /\ Bounded(store.heap, store.output) /\ Bounded(store.heap, store.overlap)
          /\ Bounded(store.heap, Pending) /\ Bounded(store.heap, store.video)
      BY <1>1 DEF CacheInv, PendingInv, Cached
    <3> QED BY <2>8, <3>1
  <2>10. v \in View /\ v.buf = k + 1 /\ v.at = 0 /\ v.n = e - l /\ v.at + v.n <= Len(t.heap[v.buf]) /\ v.buf \in DOMAIN t.heap
    <3>1. Len(q) \in Nat
      OBVIOUS
    <3>2. v \in View /\ v.buf = k + 1 /\ v.at = 0 /\ v.n = Len(q)
      BY <1>6, <3>1 DEF View
    <3> HIDE DEF v
    <3>3. 0 + Len(q) <= Len(q)
      BY <3>1
    <3> QED BY <1>7, <2>1, <3>2, <3>3
  <2>11. hand'.video = v
    BY <1>12
  <2> HIDE DEF v
  <2>12. \A j \in 1..(d - l) : <<l + j - 1, t.heap[v.buf][v.at + j]>> \in OverRel(request, next - 1)
    <3>1. \A j \in 1..(d - l) : 0 + j = j
      BY <1>4
    <3> QED BY <1>7, <2>1, <2>10, <3>1
  <2>13. HandInv'
    <3>1. ~hand'.borrowed
      BY <1>9, <1>12
    <3> QED BY <1>2, <1>9, <2>2, <2>3, <2>9, <2>10, <2>11, <2>12, <3>1 DEF HandInv, e, d, l
  <2> QED BY <1>10, <2>5, <2>6, <2>7, <2>13 DEF StoreInv
<1> QED BY <1>9, <1>11, <1>12

-----------------------------------------------------------------------------
(***************************************************************************)
(* A window is committed or skipped.                                       *)
(***************************************************************************)

\* While a window is committed the store s holds its frames, from a on the decoded ones, and up to m the output.
Kept(s, a, m) ==
    /\ s \in StoreSet
    /\ Cached(s.heap, s.video, a, Decoded, RawRel)
    /\ Cached(s.heap, s.mask, LoadStart(next), Decoded, MaskRel(DealStart(next)))
    /\ Cached(s.heap, s.output, LoadStart(next), m, PlanRel(request))
    /\ Cached(s.heap, Pending, Len(written), LoadStart(next), PlanRel(request))
    /\ WholeChunks(s.heap, s.video) /\ WholeChunks(s.heap, s.mask)
    /\ \A b \in Bufs(s.mask) : b \notin Bufs(s.video) /\ b \notin Bufs(s.output) /\ b \notin Bufs(Pending)

\* The view v of n frames is in none of the caches.
Free(s, v, n) ==
    /\ v \in View /\ v.buf \in DOMAIN s.heap /\ v.at + v.n <= Len(s.heap[v.buf]) /\ v.n = n
    /\ v.buf \notin Bufs(s.video) /\ v.buf \notin Bufs(s.mask) /\ v.buf \notin Bufs(s.output) /\ v.buf \notin Bufs(Pending)

LEMMA KeptAtFirst ==
    ASSUME PlaceInv, CacheInv, PendingInv, OwnInv, Cur = next
    PROVE  Kept(store, store.video.start, LoadStart(next))
BY DEF CacheInv, PendingInv, OwnInv, Kept

\* Other buffers may change.
LEMMA KeptStays ==
    ASSUME NEW s, NEW a, NEW m, Kept(s, a, m), NEW t \in StoreSet, NEW B, Alters(s.heap, t.heap, B),
           t.video = s.video, t.mask = s.mask, t.output = s.output,
           \A b \in B : b \notin Bufs(s.video) /\ b \notin Bufs(s.mask) /\ b \notin Bufs(s.output) /\ b \notin Bufs(Pending)
    PROVE  Kept(t, a, m)
<1>1. /\ s \in StoreSet
      /\ Cached(s.heap, s.video, a, Decoded, RawRel)
      /\ Cached(s.heap, s.mask, LoadStart(next), Decoded, MaskRel(DealStart(next)))
      /\ Cached(s.heap, s.output, LoadStart(next), m, PlanRel(request))
      /\ Cached(s.heap, Pending, Len(written), LoadStart(next), PlanRel(request))
      /\ WholeChunks(s.heap, s.video) /\ WholeChunks(s.heap, s.mask)
      /\ \A b \in Bufs(s.mask) : b \notin Bufs(s.video) /\ b \notin Bufs(s.output) /\ b \notin Bufs(Pending)
  BY DEF Kept
<1>2. Bufs(s.video) \cap B = {} /\ Bufs(s.mask) \cap B = {} /\ Bufs(s.output) \cap B = {} /\ Bufs(Pending) \cap B = {}
  OBVIOUS
<1>3. Cached(t.heap, s.video, a, Decoded, RawRel)
  BY <1>1, <1>2, CachedStays
<1>4. Cached(t.heap, s.mask, LoadStart(next), Decoded, MaskRel(DealStart(next)))
  BY <1>1, <1>2, CachedStays
<1>5. Cached(t.heap, s.output, LoadStart(next), m, PlanRel(request))
  BY <1>1, <1>2, CachedStays
<1>6. Cached(t.heap, Pending, Len(written), LoadStart(next), PlanRel(request))
  BY <1>1, <1>2, CachedStays
<1>7. WholeChunks(t.heap, s.video) /\ WholeChunks(t.heap, s.mask)
  <2>1. Bounded(s.heap, s.video) /\ Bounded(s.heap, s.mask)
    BY <1>1 DEF Cached
  <2> QED BY <1>1, <2>1, WholeStill
<1> QED BY <1>1, <1>3, <1>4, <1>5, <1>6, <1>7 DEF Kept

\* The buffers of the caches lie in the heap.
LEMMA KeptBufs ==
    ASSUME NEW s, NEW a, NEW m, Kept(s, a, m)
    PROVE  /\ s.heap \in Heap /\ Len(s.heap) \in Nat
           /\ \A b \in Bufs(s.video) \cup Bufs(s.mask) \cup Bufs(s.output) \cup Bufs(Pending) : b \in 1..Len(s.heap)
<1>1. s \in StoreSet /\ Bounded(s.heap, s.video) /\ Bounded(s.heap, s.mask) /\ Bounded(s.heap, s.output) /\ Bounded(s.heap, Pending)
  BY DEF Kept, Cached
<1>2. s.heap \in Heap /\ Len(s.heap) \in Nat
  BY <1>1, StoreFacts
<1>3. \A b \in Bufs(s.video) : b \in 1..Len(s.heap)
  BY <1>1, <1>2, OnlyOld
<1>4. \A b \in Bufs(s.mask) : b \in 1..Len(s.heap)
  BY <1>1, <1>2, OnlyOld
<1>5. \A b \in Bufs(s.output) : b \in 1..Len(s.heap)
  BY <1>1, <1>2, OnlyOld
<1>6. \A b \in Bufs(Pending) : b \in 1..Len(s.heap)
  BY <1>1, <1>2, OnlyOld
<1> QED BY <1>2, <1>3, <1>4, <1>5, <1>6

\* A new array is in none of the caches: v has the frames q alone.
Alone(s, t, v, q, a, m) ==
    /\ t \in StoreSet /\ Alters(s.heap, t.heap, {}) /\ \A x \in Names : t[x] = s[x]
    /\ Kept(t, a, m) /\ Free(t, v, Len(q))
    /\ \A j \in 1..Len(q) : t.heap[v.buf][v.at + j] = q[j]

LEMMA NewFree ==
    ASSUME NEW s, NEW a, NEW m, Kept(s, a, m), NEW q \in Seq(FrameRec)
    PROVE  Alone(s, Allocated(s, q), WholeOf(Allocated(s, q), Len(Allocated(s, q).heap)), q, a, m)
<1> DEFINE t == Allocated(s, q)
           v == WholeOf(t, Len(t.heap))
           k == Len(s.heap)
           n == Len(q)
<1>1. s \in StoreSet
  BY DEF Kept
<1>2. /\ t \in StoreSet /\ Alters(s.heap, t.heap, {}) /\ \A x \in Names : t[x] = s[x]
      /\ Len(t.heap) = k + 1 /\ t.heap[k + 1] = q
      /\ WholeOf(t, k + 1) = [buf |-> k + 1, at |-> 0, n |-> Len(q)]
      /\ k + 1 \in DOMAIN t.heap
  BY <1>1, NewArray
<1>3. /\ s.heap \in Heap /\ k \in Nat
      /\ \A b \in Bufs(s.video) \cup Bufs(s.mask) \cup Bufs(s.output) \cup Bufs(Pending) : b \in 1..k
  BY KeptBufs
<1>4. v = [buf |-> k + 1, at |-> 0, n |-> Len(q)]
  BY <1>2
<1> HIDE DEF t, v, k
<1>5. v \in View /\ v.buf = k + 1 /\ v.at = 0 /\ v.n = n /\ Len(q) \in Nat
  BY <1>3, <1>4 DEF View
<1>6. t.video = s.video /\ t.mask = s.mask /\ t.output = s.output
  <2>1. t["video"] = s["video"] /\ t["mask"] = s["mask"] /\ t["output"] = s["output"]
    BY <1>2 DEF Names
  <2> QED BY <2>1
<1>7. Kept(t, a, m)
  <2> DEFINE B == {}
  <2>1. \A b \in B : b \notin Bufs(s.video) /\ b \notin Bufs(s.mask) /\ b \notin Bufs(s.output) /\ b \notin Bufs(Pending)
    OBVIOUS
  <2>2. Alters(s.heap, t.heap, B)
    BY <1>2
  <2> HIDE DEF B
  <2> QED BY <1>2, <1>6, <2>1, <2>2, KeptStays
<1>8. k + 1 \notin 1..k
  BY <1>3
<1>9. 0 + Len(q) <= Len(q) /\ \A j \in 1..n : 0 + j = j
  BY <1>5
<1>10. Free(t, v, n)
  <2>1. v.at + v.n <= Len(t.heap[v.buf])
    BY <1>2, <1>5, <1>9
  <2> QED BY <1>2, <1>3, <1>5, <1>6, <1>8, <2>1 DEF Free
<1>11. \A j \in 1..n : t.heap[v.buf][v.at + j] = q[j]
  BY <1>2, <1>5, <1>9
<1> QED BY <1>2, <1>7, <1>10, <1>11 DEF t, v, Alone

\* The frames of the view v, from the start of the window on, are seen as R says.
ShowsFrom(s, v, n, R) == \A j \in 1..n : <<LoadStart(next) + j - 1, s.heap[v.buf][v.at + j]>> \in R

\* detach_borrowed_head: the cache keeps a copy of what it needs of its only block, and the block is free.
LEMMA DetachedFacts ==
    ASSUME NEW s, NEW a, NEW m, Kept(s, a, m), NEW end \in Nat, a < end, end <= Decoded, Len(s.video.chunks) = 1,
           NEW v \in View, v.buf \in DOMAIN s.heap, v.at + v.n <= Len(s.heap[v.buf]),
           v.buf \notin Bufs(s.mask), v.buf \notin Bufs(s.output), v.buf \notin Bufs(Pending),
           NEW n, NEW R, ShowsFrom(s, v, n, R)
    PROVE  LET t == PopBefore(s, "video", end)
           IN Kept(t, end, m) /\ t.video.start = end /\ Free(t, v, v.n) /\ ShowsFrom(t, v, n, R)
<1> DEFINE t == PopBefore(s, "video", end)
<1>1. /\ s \in StoreSet
      /\ Cached(s.heap, s.video, a, Decoded, RawRel)
      /\ Cached(s.heap, s.mask, LoadStart(next), Decoded, MaskRel(DealStart(next)))
      /\ Cached(s.heap, s.output, LoadStart(next), m, PlanRel(request))
      /\ Cached(s.heap, Pending, Len(written), LoadStart(next), PlanRel(request))
      /\ WholeChunks(s.heap, s.video) /\ WholeChunks(s.heap, s.mask)
      /\ \A b \in Bufs(s.mask) : b \notin Bufs(s.video) /\ b \notin Bufs(s.output) /\ b \notin Bufs(Pending)
  BY DEF Kept
<1>2. /\ s.heap \in Heap /\ Len(s.heap) \in Nat
      /\ \A b \in Bufs(s.video) \cup Bufs(s.mask) \cup Bufs(s.output) \cup Bufs(Pending) : b \in 1..Len(s.heap)
  BY KeptBufs
<1>3. a \in Nat /\ ~(end <= a)
  <2>1. PICK p : Seen(s.heap, s.video, a, Decoded, RawRel, p)
    BY <1>1, SeenCached
  <2>2. a \in Nat
    BY <2>1 DEF Seen
  <2> QED BY <2>2
<1>4. /\ Moves(s, t, "video") /\ Cached(t.heap, t["video"], IF end <= a THEN a ELSE end, Decoded, RawRel)
      /\ WholeChunks(s.heap, s["video"]) => WholeChunks(t.heap, t["video"])
      /\ a < end /\ Len(s["video"].chunks) = 1 => \A x \in Bufs(t["video"]) : x > Len(s.heap)
  <2>1. "video" \in Names /\ Cached(s.heap, s["video"], a, Decoded, RawRel)
    BY <1>1 DEF Names
  <2> QED BY <1>1, <2>1, Evicted
<1> HIDE DEF t
<1>5. /\ Cached(t.heap, t.video, end, Decoded, RawRel) /\ WholeChunks(t.heap, t.video)
      /\ \A x \in Bufs(t.video) : x > Len(s.heap)
  BY <1>1, <1>3, <1>4
<1>6. /\ t \in StoreSet /\ Alters(s.heap, t.heap, {}) /\ t["mask"] = s["mask"] /\ t["output"] = s["output"]
  BY <1>4 DEF Moves, Names
<1>7. t.mask = s.mask /\ t.output = s.output
  BY <1>6
<1>8. \A X : X \cap {} = {}
  OBVIOUS
<1>9. Cached(t.heap, s.mask, LoadStart(next), Decoded, MaskRel(DealStart(next)))
  BY <1>1, <1>6, <1>8, CachedStays
<1>10. Cached(t.heap, s.output, LoadStart(next), m, PlanRel(request))
  BY <1>1, <1>6, <1>8, CachedStays
<1>11. Cached(t.heap, Pending, Len(written), LoadStart(next), PlanRel(request))
  BY <1>1, <1>6, <1>8, CachedStays
<1>12. WholeChunks(t.heap, s.mask)
  <2>1. Bounded(s.heap, s.mask)
    BY <1>1 DEF Cached
  <2> QED BY <1>1, <1>6, <2>1, WholeStill
<1>13. \A b \in Bufs(s.mask) : b \notin Bufs(t.video)
  <2> SUFFICES ASSUME NEW b \in Bufs(s.mask), b \in Bufs(t.video) PROVE FALSE
    OBVIOUS
  <2>1. b > Len(s.heap) /\ b \in 1..Len(s.heap)
    BY <1>2, <1>5
  <2> QED BY <1>2, <2>1
<1>14. Kept(t, end, m)
  BY <1>1, <1>5, <1>6, <1>7, <1>9, <1>10, <1>11, <1>12, <1>13 DEF Kept
<1>15. v.buf \in 1..Len(s.heap)
  BY <1>2, HeapFacts
<1>16. v.buf \notin Bufs(t.video)
  <2> SUFFICES ASSUME v.buf \in Bufs(t.video) PROVE FALSE
    OBVIOUS
  <2>1. v.buf > Len(s.heap)
    BY <1>5
  <2> QED BY <1>2, <1>15, <2>1
<1>17. t.heap \in Heap /\ Len(t.heap) \in Nat /\ DOMAIN t.heap = 1..Len(t.heap)
  BY <1>6, StoreFacts, HeapFacts
<1>18. v.buf \in DOMAIN t.heap /\ t.heap[v.buf] = s.heap[v.buf]
  BY <1>2, <1>6, <1>15, <1>17 DEF Alters
<1>19. Free(t, v, v.n)
  BY <1>7, <1>16, <1>18 DEF Free
<1>20. ShowsFrom(t, v, n, R)
  BY <1>18 DEF ShowsFrom
<1>21. t.video.start = end
  BY <1>5 DEF Cached
<1> QED BY <1>14, <1>19, <1>20, <1>21 DEF t

\* The array the patch goes into.
LEMMA SourceFacts ==
    ASSUME PlaceInv, CacheInv, PendingInv, OwnInv, HandInv, pc = "run"
    PROVE  LET t == Source(store, Spec1)
               v == SourceView(t, Spec1)
           IN /\ Kept(t, t.video.start, LoadStart(next))
              /\ t.video.start \in {LoadStart(next), LoadStart(next + 1)}
              /\ Free(t, v, DealStart(next + 1) - LoadStart(next))
              /\ ShowsFrom(t, v, DealStart(next) - LoadStart(next), OverRel(request, next - 1))
<1> DEFINE l == LoadStart(next)
           d == DealStart(next)
           e == DealStart(next + 1)
           x == LoadStart(next + 1)
           Q == OverRel(request, next - 1)
<1>1. next <= Len(Windows) /\ Decoded = e /\ Cur = next /\ store.video.start = l
  BY DEF PlaceInv, Cur
<1>2. l \in Nat /\ d \in Nat /\ e \in Nat /\ x \in Nat /\ l <= d /\ d < e /\ l < x /\ x <= e
      /\ StableEnd(Spec1) = x
  BY <1>1, Marks
<1> HIDE DEF l, d, e, x, Q
<1>3. Kept(store, l, l)
  <2>1. Kept(store, store.video.start, LoadStart(next))
    BY <1>1, KeptAtFirst
  <2> QED BY <1>1, <2>1 DEF l
<1>4. CASE ~Uint8
  <2> DEFINE q == WindowFrames(store, Spec1)
             t == Allocated(store, q)
             v == WholeOf(t, Len(t.heap))
  <2>1. q \in Seq(FrameRec) /\ Len(q) = e - l /\ \A j \in 1..(d - l) : <<l + j - 1, q[j]>> \in Q
    <3>1. Decoded = DealStart(next + 1)
      BY <1>1 DEF e
    <3> QED BY <1>1, <3>1, WindowFramesFacts DEF d, e, l, Q
  <2> HIDE DEF q
  <2>2. /\ t \in StoreSet /\ \A n \in Names : t[n] = store[n]
        /\ Kept(t, l, l) /\ Free(t, v, e - l)
        /\ \A j \in 1..(e - l) : t.heap[v.buf][v.at + j] = q[j]
    <3>1. Alone(store, Allocated(store, q), WholeOf(Allocated(store, q), Len(Allocated(store, q).heap)), q, l, l)
      BY <1>3, <2>1, NewFree
    <3>2. Alone(store, t, v, q, l, l)
      BY <3>1
    <3> HIDE DEF t, v
    <3> QED BY <2>1, <3>2 DEF Alone
  <2>3. t.video.start = l
    <3>1. t["video"] = store["video"]
      BY <2>2 DEF Names
    <3> QED BY <1>1, <3>1
  <2>4. Source(store, Spec1) = t /\ SourceView(t, Spec1) = v
    BY <1>4 DEF Source, SourceView, q
  <2> HIDE DEF t, v
  <2>5. ShowsFrom(t, v, d - l, Q)
    <3>1. 1..(d - l) \subseteq 1..(e - l)
      BY <1>2
    <3> QED BY <2>1, <2>2, <3>1 DEF ShowsFrom, l
  <2> QED BY <2>2, <2>3, <2>4, <2>5 DEF l, d, e, x, Q
<1>5. CASE Uint8
  <2> DEFINE v == hand.video
  <2>1. /\ v \in View /\ v.buf \in DOMAIN store.heap /\ v.at + v.n <= Len(store.heap[v.buf]) /\ v.n = e - l
        /\ v.buf \notin Bufs(store.mask) /\ v.buf \notin Bufs(store.output) /\ v.buf \notin Bufs(Pending)
        /\ hand.borrowed => Len(store.video.chunks) = 1
        /\ ~hand.borrowed => v.buf \notin Bufs(store.video)
        /\ ShowsFrom(store, v, d - l, Q)
    BY DEF HandInv, e, l, d, Q, ShowsFrom
  <2>2. \A t : SourceView(t, Spec1) = v
    BY <1>5 DEF SourceView
  <2> HIDE DEF v
  <2>3. CASE hand.borrowed
    <3> DEFINE t == PopBefore(store, "video", x)
    <3>1. Source(store, Spec1) = t
      BY <1>2, <1>5, <2>3 DEF Source, Detached
    <3>2. Kept(t, x, l) /\ t.video.start = x /\ Free(t, v, v.n) /\ ShowsFrom(t, v, d - l, Q)
      <4>1. x <= Decoded /\ l < x
        BY <1>1, <1>2
      <4> QED BY <1>2, <1>3, <2>1, <2>3, <4>1, DetachedFacts
    <3> HIDE DEF t
    <3> QED BY <2>1, <2>2, <3>1, <3>2 DEF l, d, e, x, Q
  <2>4. CASE ~hand.borrowed
    <3>1. Source(store, Spec1) = store
      BY <1>5, <2>4 DEF Source
    <3>2. Free(store, v, e - l)
      BY <2>1, <2>4 DEF Free
    <3> QED BY <1>1, <1>3, <2>1, <2>2, <3>1, <3>2 DEF l, d, e, x, Q
  <2> QED BY <2>3, <2>4
<1> QED BY <1>4, <1>5

\* A free array is written into, and stays free.
Overwritten(s, t, v, q, a, m, n) ==
    /\ t \in StoreSet /\ Kept(t, a, m) /\ Free(t, v, n)
    /\ \A j \in 1..Len(q) : t.heap[v.buf][v.at + j] = q[j]
    /\ \A j \in (Len(q) + 1)..n : t.heap[v.buf][v.at + j] = s.heap[v.buf][v.at + j]

LEMMA WroteFree ==
    ASSUME NEW s, NEW a, NEW m, Kept(s, a, m), NEW v, NEW n, Free(s, v, n), NEW q \in Seq(FrameRec), Len(q) <= n
    PROVE  Overwritten(s, Wrote(s, v, q), v, q, a, m, n)
<1> DEFINE t == Wrote(s, v, q)
<1>1. /\ s \in StoreSet /\ v \in View /\ v.buf \in DOMAIN s.heap /\ v.at + v.n <= Len(s.heap[v.buf]) /\ v.n = n
      /\ v.buf \notin Bufs(s.video) /\ v.buf \notin Bufs(s.mask) /\ v.buf \notin Bufs(s.output) /\ v.buf \notin Bufs(Pending)
  BY DEF Kept, Free
<1>2. /\ t \in StoreSet /\ Alters(s.heap, t.heap, {v.buf}) /\ \A x \in Names : t[x] = s[x]
      /\ \A j \in 1..Len(q) : t.heap[v.buf][v.at + j] = q[j]
      /\ \A j \in (Len(q) + 1)..v.n : t.heap[v.buf][v.at + j] = s.heap[v.buf][v.at + j]
  BY <1>1, WroteFacts, ZenonT(60)
<1> HIDE DEF t
<1>3. t.video = s.video /\ t.mask = s.mask /\ t.output = s.output
  <2>1. t["video"] = s["video"] /\ t["mask"] = s["mask"] /\ t["output"] = s["output"]
    BY <1>2 DEF Names
  <2> QED BY <2>1
<1>4. Kept(t, a, m)
  <2> DEFINE B == {v.buf}
  <2>1. \A b \in B : b \notin Bufs(s.video) /\ b \notin Bufs(s.mask) /\ b \notin Bufs(s.output) /\ b \notin Bufs(Pending)
    BY <1>1
  <2>2. Alters(s.heap, t.heap, B)
    BY <1>2
  <2> HIDE DEF B
  <2> QED BY <1>2, <1>3, <2>1, <2>2, KeptStays
<1>5. v.buf \in DOMAIN t.heap /\ Len(t.heap[v.buf]) = Len(s.heap[v.buf])
  <2>1. s.heap \in Heap /\ t.heap \in Heap
    BY <1>1, <1>2, StoreFacts
  <2>2. DOMAIN s.heap = 1..Len(s.heap) /\ DOMAIN t.heap = 1..Len(t.heap) /\ Len(s.heap) \in Nat /\ Len(t.heap) \in Nat
    BY <2>1, HeapFacts
  <2> QED BY <1>1, <1>2, <2>2 DEF Alters
<1>6. Free(t, v, n)
  BY <1>1, <1>3, <1>5 DEF Free
<1> QED BY <1>1, <1>2, <1>4, <1>6 DEF t, Overwritten

\* All the n frames of the view are the window's.
Painted(s, v, n) == \A j \in 1..n : s.heap[v.buf][v.at + j] = [f |-> LoadStart(next) + j - 1, shows |-> next]

\* The patch is spliced in, or taken as it is.
LEMMA SplicedFacts ==
    ASSUME PlaceInv, next <= Len(Windows), NEW t, NEW v, NEW a, NEW m, Kept(t, a, m),
           Free(t, v, DealStart(next + 1) - LoadStart(next))
    PROVE  LET u == Spliced(t, v, Spec1)
               o == SplicedView(u, v)
           IN /\ Kept(u, a, m) /\ Free(u, o, DealStart(next + 1) - LoadStart(next))
              /\ Painted(u, o, DealStart(next + 1) - LoadStart(next))
<1>1. PICK l \in Nat, e \in Nat : l = LoadStart(next) /\ e = DealStart(next + 1) /\ l < e
                                  /\ Spec1.load_start = l /\ Spec1.load_end = e
  <2>1. LoadStart(next) \in Nat /\ DealStart(next + 1) \in Nat /\ LoadStart(next) < DealStart(next + 1)
        /\ Spec1.load_start = LoadStart(next) /\ Spec1.load_end = DealStart(next + 1)
    <3>1. /\ LoadStart(next) \in Nat /\ DealStart(next) \in Nat /\ DealStart(next + 1) \in Nat
          /\ LoadStart(next) <= DealStart(next) /\ DealStart(next) < DealStart(next + 1)
          /\ Spec1.load_start = LoadStart(next) /\ Spec1.load_end = DealStart(next + 1)
      BY Marks
    <3> QED BY <3>1
  <2> QED BY <2>1
<1>2. PICK n \in Nat : n = e - l /\ n = DealStart(next + 1) - LoadStart(next)
  BY <1>1
<1>3. next \in Looks
  BY Marks DEF Looks
<1>4. PICK q \in Seq(FrameRec) : q = Patch(Spec1) /\ Len(q) = n /\ \A j \in 1..n : q[j] = [f |-> l + j - 1, shows |-> next]
  <2>1. l <= e
    BY <1>1
  <2>2. /\ FramesOf(l, e, next) \in Seq(FrameRec) /\ Len(FramesOf(l, e, next)) = e - l
        /\ \A j \in 1..(e - l) : FramesOf(l, e, next)[j] = [f |-> l + j - 1, shows |-> next]
    BY <1>3, <2>1, FramesFacts, ZenonT(60)
  <2>3. Patch(Spec1) = FramesOf(l, e, next)
    BY <1>1 DEF Patch
  <2> QED BY <1>2, <2>2, <2>3
<1>5. CASE request.whole
  <2> DEFINE u == Allocated(t, q)
             o == WholeOf(u, Len(u.heap))
  <2>1. Alone(t, Allocated(t, q), WholeOf(Allocated(t, q), Len(Allocated(t, q).heap)), q, a, m)
    BY NewFree
  <2>2. Alone(t, u, o, q, a, m)
    BY <2>1
  <2>3. Spliced(t, v, Spec1) = u /\ SplicedView(u, v) = o
    BY <1>4, <1>5 DEF Spliced, SplicedView
  <2> HIDE DEF u, o
  <2>4. Painted(u, o, n)
    BY <1>1, <1>4, <2>2 DEF Alone, Painted
  <2>5. Kept(u, a, m) /\ Free(u, o, n)
    BY <1>4, <2>2 DEF Alone
  <2> QED BY <1>2, <2>3, <2>4, <2>5
<1>6. CASE ~request.whole
  <2> DEFINE u == Wrote(t, v, q)
  <2>1. Overwritten(t, Wrote(t, v, q), v, q, a, m, n)
    <3>1. Len(q) <= n /\ Free(t, v, n)
      BY <1>2, <1>4
    <3> QED BY <3>1, WroteFree
  <2>2. Overwritten(t, u, v, q, a, m, n)
    BY <2>1
  <2>3. Spliced(t, v, Spec1) = u /\ SplicedView(u, v) = v
    BY <1>4, <1>6 DEF Spliced, SplicedView
  <2> HIDE DEF u
  <2>4. Painted(u, v, n)
    BY <1>1, <1>4, <2>2 DEF Overwritten, Painted
  <2>5. Kept(u, a, m) /\ Free(u, v, n)
    BY <2>2 DEF Overwritten
  <2> QED BY <1>2, <2>3, <2>4, <2>5
<1> QED BY <1>5, <1>6

\* The frames of the overlap are kept or not; then the array shows what the plan says.
LEMMA BlendedFacts ==
    ASSUME PlaceInv, next <= Len(Windows), next \notin request.skipped,
           NEW u, NEW o, NEW a, NEW m, Kept(u, a, m), NEW q,
           Free(u, o, DealStart(next + 1) - LoadStart(next)),
           Painted(u, o, DealStart(next + 1) - LoadStart(next)),
           q \in Seq(FrameRec), Len(q) = DealStart(next) - LoadStart(next),
           Rows(q, LoadStart(next), OverRel(request, next - 1))
    PROVE  LET x == IF request.fuse = "before" THEN Wrote(u, o, q) ELSE u
           IN /\ Kept(x, a, m) /\ Free(x, o, DealStart(next + 1) - LoadStart(next))
              /\ ShowsFrom(x, o, DealStart(next + 1) - LoadStart(next), OverRel(request, next))
<1>1. PICK l \in Nat, d \in Nat, e \in Nat : l = LoadStart(next) /\ d = DealStart(next) /\ e = DealStart(next + 1) /\ l <= d /\ d < e
  BY Marks
<1>2. PICK n \in Nat, k \in Nat : n = e - l /\ k = d - l /\ k <= n
  BY <1>1, SMTT(30)
<1>3. Kept(u, a, m) /\ Free(u, o, n) /\ Painted(u, o, n) /\ Len(q) = k /\ Rows(q, l, OverRel(request, next - 1))
  BY <1>1, <1>2
<1>4. next \in 1..Len(Windows) /\ next \in Nat \ {0}
  BY Marks
<1>5. \A f : Showers(request, f)[next] = IF request.fuse = "before" /\ f < d THEN Showers(request, f)[next - 1] ELSE next
  BY <1>1, <1>4, ShowersFacts, SMTT(30)
<1>6. \A j \in 1..n : u.heap[o.buf][o.at + j] = [f |-> l + j - 1, shows |-> next]
  BY <1>1, <1>3 DEF Painted
<1>7. \A f \in Nat : [f |-> f, shows |-> next] \in FrameRec
  BY <1>4 DEF FrameRec
<1>8. ASSUME NEW j \in 1..n, ~(request.fuse = "before" /\ l + j - 1 < d)
      PROVE  <<l + j - 1, [f |-> l + j - 1, shows |-> next]>> \in OverRel(request, next)
  <2>1. l + j - 1 \in Nat
    OBVIOUS
  <2>2. Showers(request, l + j - 1)[next] = next
    BY <1>5, <1>8
  <2> QED BY <1>7, <2>1, <2>2, Pairs
<1>9. CASE request.fuse = "before"
  <2> DEFINE x == Wrote(u, o, q)
  <2>1. Overwritten(u, x, o, q, a, m, n)
    <3>1. Overwritten(u, Wrote(u, o, q), o, q, a, m, n)
      <4>1. Len(q) <= n
        BY <1>2, <1>3
      <4> QED BY <1>3, <4>1, WroteFree
    <3> QED BY <3>1
  <2> HIDE DEF x
  <2>2. ASSUME NEW j \in 1..n PROVE <<l + j - 1, x.heap[o.buf][o.at + j]>> \in OverRel(request, next)
    <3>1. CASE j <= k
      <4>1. j \in 1..k /\ l + j - 1 < d /\ l + j - 1 \in Nat
        BY <1>1, <1>2, <3>1
      <4>2. x.heap[o.buf][o.at + j] = q[j]
        BY <1>3, <2>1, <4>1 DEF Overwritten
      <4>3. <<l + j - 1, q[j]>> \in OverRel(request, next - 1)
        BY <1>3, <4>1 DEF Rows
      <4>4. Showers(request, l + j - 1)[next] = Showers(request, l + j - 1)[next - 1]
        BY <1>5, <1>9, <4>1
      <4> QED BY <4>2, <4>3, <4>4, Pairs
    <3>2. CASE ~(j <= k)
      <4>1. j \in (k + 1)..n /\ ~(l + j - 1 < d)
        BY <1>1, <1>2, <3>2
      <4>2. x.heap[o.buf][o.at + j] = u.heap[o.buf][o.at + j]
        BY <1>3, <2>1, <4>1 DEF Overwritten
      <4> QED BY <1>6, <1>8, <4>1, <4>2
    <3> QED BY <3>1, <3>2
  <2>3. ShowsFrom(x, o, n, OverRel(request, next))
    BY <1>1, <2>2 DEF ShowsFrom
  <2>4. Kept(x, a, m) /\ Free(x, o, n)
    BY <2>1 DEF Overwritten
  <2> QED BY <1>1, <1>2, <1>9, <2>3, <2>4 DEF x
<1>10. CASE request.fuse # "before"
  <2>1. ShowsFrom(u, o, n, OverRel(request, next))
    BY <1>1, <1>6, <1>8, <1>10 DEF ShowsFrom
  <2> QED BY <1>1, <1>2, <1>3, <1>10, <2>1
<1> QED BY <1>9, <1>10

\* What window k shows of its stable frames is what the plan says of them.
LEMMA StableAsPlanned ==
    ASSUME NEW q, NEW k \in 1..Len(Windows), NEW f \in LoadStart(k)..(LoadStart(k + 1) - 1), NEW x,
           <<f, x>> \in OverRel(q, k)
    PROVE  <<f, x>> \in PlanRel(q)
<1>1. f \in Nat /\ x \in FrameRec /\ x = [f |-> f, shows |-> Showers(q, f)[k]]
  BY Pairs
<1> QED BY <1>1, PlanPairs

\* The stable frames join the output in their own array.
LEMMA OutputOwned ==
    ASSUME PlaceInv, next <= Len(Windows), NEW x, NEW o, NEW a, NEW n \in Nat, Kept(x, a, LoadStart(next)), Free(x, o, n),
           NEW k \in Nat, k = LoadStart(next + 1) - LoadStart(next), k <= n, ShowsFrom(x, o, k, PlanRel(request))
    PROVE  Kept(AppendOwned(x, "output", [o EXCEPT !.n = k]), a, LoadStart(next + 1))
<1> DEFINE v == [o EXCEPT !.n = k]
           y == AppendOwned(x, "output", v)
           l == LoadStart(next)
           e == LoadStart(next + 1)
           R == PlanRel(request)
<1>1. l \in Nat /\ e \in Nat /\ l < e /\ k = e - l /\ k > 0
  BY Marks
<1> HIDE DEF l, e, R
<1>2. /\ x \in StoreSet
      /\ Cached(x.heap, x.video, a, Decoded, RawRel)
      /\ Cached(x.heap, x.mask, LoadStart(next), Decoded, MaskRel(DealStart(next)))
      /\ Cached(x.heap, x.output, l, l, R)
      /\ Cached(x.heap, Pending, Len(written), LoadStart(next), PlanRel(request))
      /\ WholeChunks(x.heap, x.video) /\ WholeChunks(x.heap, x.mask)
      /\ \A b \in Bufs(x.mask) : b \notin Bufs(x.video) /\ b \notin Bufs(x.output) /\ b \notin Bufs(Pending)
  BY DEF Kept, l, R
<1>3. o \in View /\ o.buf \in DOMAIN x.heap /\ o.at + o.n <= Len(x.heap[o.buf]) /\ o.n = n /\ o.buf \notin Bufs(x.mask)
  BY DEF Free
<1>4. v \in View /\ v.buf = o.buf /\ v.at = o.at /\ v.n = k
  BY <1>3 DEF View
<1> HIDE DEF v
<1>5. Lies(x.heap, v)
  <2>1. PICK at \in Nat : at = o.at
    BY <1>3 DEF View
  <2>2. PICK len \in Nat : len = Len(x.heap[o.buf])
    <3>1. x.heap \in Heap
      BY <1>2, StoreFacts
    <3> QED BY <1>3, <3>1, HeapFacts
  <2>3. at + k <= len
    BY <1>3, <2>1, <2>2
  <2> QED BY <1>1, <1>3, <1>4, <2>1, <2>2, <2>3 DEF Lies
<1>6. Fits(x, v, l, R)
  BY <1>4 DEF Fits, ShowsFrom, l, R
<1>7. Owning(x, AppendOwned(x, "output", v), "output", l, l, R, v)
  <2>1. "output" \in Names /\ Cached(x.heap, x["output"], l, l, R)
    BY <1>2 DEF Names
  <2> QED BY <1>2, <1>4, <1>5, <1>6, <2>1, OwnedMore
<1>8. Owning(x, y, "output", l, l, R, v)
  BY <1>7
<1> HIDE DEF y
<1>9. /\ y \in StoreSet /\ y.heap = x.heap /\ y.video = x.video /\ y.mask = x.mask
      /\ Cached(x.heap, y.output, l, l + v.n, R) /\ Bufs(y.output) \subseteq Bufs(x.output) \cup {v.buf}
  <2>1. /\ y \in StoreSet /\ y.heap = x.heap /\ y["video"] = x["video"] /\ y["mask"] = x["mask"]
        /\ Cached(y.heap, y["output"], l, l + v.n, R) /\ Bufs(y["output"]) \subseteq Bufs(x["output"]) \cup {v.buf}
    BY <1>8 DEF Owning, Names
  <2> QED BY <2>1
<1>10. l + v.n = e
  BY <1>1, <1>4
<1>11. \A b \in Bufs(x.mask) : b \notin Bufs(y.output)
  BY <1>2, <1>3, <1>4, <1>9
<1>12. Kept(y, a, e)
  BY <1>2, <1>9, <1>10, <1>11 DEF Kept, l, R
<1> QED BY <1>12 DEF y, e, v

\* Or in a copy.
LEMMA OutputCopied ==
    ASSUME PlaceInv, next <= Len(Windows), NEW x, NEW a, Kept(x, a, LoadStart(next)),
           NEW q \in Seq(FrameRec), Len(q) = LoadStart(next + 1) - LoadStart(next), Rows(q, LoadStart(next), PlanRel(request))
    PROVE  Kept(AppendCopy(x, "output", q), a, LoadStart(next + 1))
<1> DEFINE y == AppendCopy(x, "output", q)
           l == LoadStart(next)
           e == LoadStart(next + 1)
           R == PlanRel(request)
<1>1. l \in Nat /\ e \in Nat /\ Len(q) = e - l
  BY Marks
<1> HIDE DEF l, e, R
<1>2. /\ x \in StoreSet
      /\ Cached(x.heap, x.video, a, Decoded, RawRel)
      /\ Cached(x.heap, x.mask, LoadStart(next), Decoded, MaskRel(DealStart(next)))
      /\ Cached(x.heap, x.output, l, l, R)
      /\ Cached(x.heap, Pending, Len(written), LoadStart(next), PlanRel(request))
      /\ WholeChunks(x.heap, x.video) /\ WholeChunks(x.heap, x.mask)
      /\ \A b \in Bufs(x.mask) : b \notin Bufs(x.video) /\ b \notin Bufs(x.output) /\ b \notin Bufs(Pending)
  BY DEF Kept, l, R
<1>3. Moves(x, y, "output") /\ Cached(y.heap, y["output"], l, l + Len(q), R)
  <2>1. "output" \in Names /\ Cached(x.heap, x["output"], l, l, R) /\ Rows(q, l, R)
    BY <1>2 DEF Names, l, R
  <2> QED BY <1>2, <2>1, CopyAppended
<1> HIDE DEF y
<1>4. /\ y \in StoreSet /\ Alters(x.heap, y.heap, {}) /\ y["video"] = x["video"] /\ y["mask"] = x["mask"]
      /\ \A b \in Bufs(y["output"]) : b \in Bufs(x["output"]) \/ b > Len(x.heap)
  BY <1>3 DEF Moves, Names
<1>5. y.video = x.video /\ y.mask = x.mask /\ l + Len(q) = e
  BY <1>1, <1>4
<1>6. \A X : X \cap {} = {}
  OBVIOUS
<1>7. Cached(y.heap, x.video, a, Decoded, RawRel)
  BY <1>2, <1>4, <1>6, CachedStays
<1>8. Cached(y.heap, x.mask, LoadStart(next), Decoded, MaskRel(DealStart(next)))
  BY <1>2, <1>4, <1>6, CachedStays
<1>9. Cached(y.heap, Pending, Len(written), LoadStart(next), PlanRel(request))
  BY <1>2, <1>4, <1>6, CachedStays
<1>10. WholeChunks(y.heap, x.video) /\ WholeChunks(y.heap, x.mask)
  <2>1. Bounded(x.heap, x.video) /\ Bounded(x.heap, x.mask)
    BY <1>2 DEF Cached
  <2> QED BY <1>2, <1>4, <2>1, WholeStill
<1>11. \A b \in Bufs(x.mask) : b \notin Bufs(y.output)
  <2> SUFFICES ASSUME NEW b \in Bufs(x.mask), b \in Bufs(y.output) PROVE FALSE
    OBVIOUS
  <2>1. b \in 1..Len(x.heap) /\ Len(x.heap) \in Nat
    BY KeptBufs
  <2>2. b \notin Bufs(x.output)
    BY <1>2
  <2>3. b > Len(x.heap)
    BY <1>4, <2>2
  <2> QED BY <2>1, <2>3
<1>12. Kept(y, a, e)
  BY <1>2, <1>3, <1>4, <1>5, <1>7, <1>8, <1>9, <1>10, <1>11 DEF Kept, l, R
<1> QED BY <1>12 DEF y, e

\* The overlap of the next window is a copy.
LEMMA OverlapSaved ==
    ASSUME PlaceInv, next <= Len(Windows), NEW y, NEW a, NEW m, Kept(y, a, m), NEW q \in Seq(FrameRec),
           Len(q) = DealStart(next + 1) - LoadStart(next + 1), Rows(q, LoadStart(next + 1), OverRel(request, next))
    PROVE  LET z == WithOverlap(y, LoadStart(next + 1), q)
           IN /\ Kept(z, a, m)
              /\ Cached(z.heap, z.overlap, LoadStart(next + 1), DealStart(next + 1), OverRel(request, next))
              /\ \A b \in Bufs(z.mask) : b \notin Bufs(z.overlap)
<1> DEFINE l == LoadStart(next + 1)
           e == DealStart(next + 1)
           R == OverRel(request, next)
           u == WithCache(y, "overlap", NoFrames(l))
           z == WithOverlap(y, l, q)
<1>1. l \in Nat /\ e \in Nat /\ Len(q) = e - l
  BY Marks
<1> HIDE DEF l, e, R
<1>2. y \in StoreSet /\ y.heap \in Heap
  BY StoreFacts DEF Kept
<1>3. Cached(y.heap, NoFrames(l), l, l, R) /\ Bufs(NoFrames(l)) = {} /\ NoFrames(l) \in Cache
  BY <1>1, NoCached
<1>4. "overlap" \in Names
  BY DEF Names
<1>5. u \in StoreSet /\ u.heap = y.heap /\ u["overlap"] = NoFrames(l) /\ \A x \in Names : x # "overlap" => u[x] = y[x]
  BY <1>2, <1>3, <1>4, CacheChanged
<1>6. z = AppendCopy(u, "overlap", q)
  <2>1. u = [y EXCEPT !.overlap = NoFrames(l)]
    BY DEF WithCache
  <2> HIDE DEF u
  <2> QED BY <2>1 DEF WithOverlap
<1> HIDE DEF u, z
<1>7. Moves(u, z, "overlap") /\ Cached(z.heap, z["overlap"], l, l + Len(q), R)
  <2>1. Cached(u.heap, u["overlap"], l, l, R) /\ Rows(q, l, R)
    BY <1>3, <1>5 DEF l, R
  <2> QED BY <1>4, <1>5, <1>6, <2>1, CopyAppended
<1>8. /\ z \in StoreSet /\ Alters(y.heap, z.heap, {}) /\ z["video"] = y["video"] /\ z["mask"] = y["mask"] /\ z["output"] = y["output"]
      /\ \A b \in Bufs(z["overlap"]) : b \in {} \/ b > Len(y.heap)
  BY <1>3, <1>5, <1>7 DEF Moves, Names
<1>9. z.video = y.video /\ z.mask = y.mask /\ z.output = y.output /\ l + Len(q) = e
  BY <1>1, <1>8
<1>10. Kept(z, a, m)
  <2> DEFINE B == {}
  <2>1. \A b \in B : b \notin Bufs(y.video) /\ b \notin Bufs(y.mask) /\ b \notin Bufs(y.output) /\ b \notin Bufs(Pending)
    OBVIOUS
  <2>2. Alters(y.heap, z.heap, B)
    BY <1>8
  <2> HIDE DEF B
  <2> QED BY <1>8, <1>9, <2>1, <2>2, KeptStays
<1>11. \A b \in Bufs(y.mask) : b \notin Bufs(z.overlap)
  <2> SUFFICES ASSUME NEW b \in Bufs(y.mask), b \in Bufs(z.overlap) PROVE FALSE
    OBVIOUS
  <2>1. b \in 1..Len(y.heap) /\ Len(y.heap) \in Nat
    BY KeptBufs
  <2>2. b > Len(y.heap)
    BY <1>8
  <2> QED BY <2>1, <2>2
<1> QED BY <1>7, <1>9, <1>10, <1>11 DEF z, l, e, R

\* consume_window_mask changes the buffers of the mask only, and there it changes no frame's place.
LEMMA ConsumedFacts ==
    ASSUME NEW s \in StoreSet, NEW w
    PROVE  LET t == Consumed(s, w)
           IN t \in StoreSet /\ Alters(s.heap, t.heap, Bufs(s.mask)) /\ \A m \in Names : t[m] = s[m]
<1> DEFINE B == Bufs(s.mask)
           h == s.heap
           g == [b \in DOMAIN h |-> [j \in DOMAIN h[b] |->
                    IF Cleared(s.mask, b, j - 1, w) THEN [h[b][j] EXCEPT !.shows = "clear"] ELSE h[b][j]]]
           t == Consumed(s, w)
<1>1. h \in Heap /\ DOMAIN h = 1..Len(h) /\ Len(h) \in Nat
      /\ \A k \in 1..Len(h) : h[k] \in Seq(FrameRec) /\ Len(h[k]) \in Nat /\ \A j \in 1..Len(h[k]) : h[k][j] \in FrameRec
  BY StoreFacts, HeapFacts
<1>2. t = [s EXCEPT !.heap = g]
  BY DEF Consumed
<1>3. s.mask \in Cache /\ DOMAIN s.mask.chunks = 1..Len(s.mask.chunks)
  <2>1. s.mask \in Cache
    BY DEF StoreSet
  <2> QED BY <2>1, CacheFacts
<1> HIDE DEF t
<1>4. ASSUME NEW k \in 1..Len(h)
      PROVE  g[k] \in Seq(FrameRec) /\ Len(g[k]) = Len(h[k]) /\ (k \notin B => g[k] = h[k])
  <2> DEFINE f == [j \in DOMAIN h[k] |->
                    IF Cleared(s.mask, k, j - 1, w) THEN [h[k][j] EXCEPT !.shows = "clear"] ELSE h[k][j]]
             n == Len(h[k])
  <2>1. g[k] = f
    BY <1>1
  <2>2. h[k] \in Seq(FrameRec) /\ n \in Nat /\ DOMAIN h[k] = 1..n /\ \A j \in 1..n : h[k][j] \in FrameRec
    BY <1>1
  <2> HIDE DEF n
  <2>3. \A j \in 1..n : f[j] = IF Cleared(s.mask, k, j - 1, w) THEN [h[k][j] EXCEPT !.shows = "clear"] ELSE h[k][j]
    BY <2>2
  <2>4. \A x \in FrameRec : [x EXCEPT !.shows = "clear"] \in FrameRec
    BY DEF FrameRec
  <2>5. \A j \in 1..n : f[j] \in FrameRec
    BY <2>2, <2>3, <2>4
  <2>6. f = [j \in 1..n |-> f[j]]
    BY <2>2
  <2>7. f \in Seq(FrameRec) /\ Len(f) = n
    <3> HIDE DEF f
    <3> QED BY <2>2, <2>5, <2>6, ListFacts
  <2>8. ASSUME k \notin B PROVE f = h[k]
    <3>1. \A j \in 1..n : ~Cleared(s.mask, k, j - 1, w)
      BY <1>3, <2>8 DEF Cleared, Bufs
    <3>2. \A j \in 1..n : f[j] = h[k][j]
      BY <2>3, <3>1
    <3>3. h[k] = [j \in 1..n |-> h[k][j]]
      BY <2>2 DEF n
    <3> HIDE DEF f
    <3> QED BY <2>6, <3>2, <3>3
  <2> QED BY <2>1, <2>7, <2>8 DEF n
<1>5. g \in Heap /\ Len(g) = Len(h)
  <2>1. g = [k \in 1..Len(h) |-> g[k]]
    BY <1>1
  <2> DEFINE S == Seq(FrameRec)
  <2>2. \A k \in 1..Len(h) : g[k] \in S
    BY <1>4
  <2> HIDE DEF g, S, h
  <2>3. g \in Seq(S) /\ Len(g) = Len(h)
    BY <1>1, <2>1, <2>2, ListFacts
  <2> QED BY <2>3 DEF Heap, S
<1> HIDE DEF g, h
<1>6. Alters(h, g, B)
  BY <1>1, <1>4, <1>5 DEF Alters
<1>7. t \in StoreSet /\ t.heap = g /\ \A m \in Names : t[m] = s[m]
  BY <1>2, <1>5, HeapChanged
<1> QED BY <1>6, <1>7 DEF t, h

\* The window is done, with its output, its overlap and its mask.
LEMMA CommitEnds ==
    ASSUME StoreInv, next <= Len(Windows), Decoded = DealStart(next + 1), pc \in {"run", "driver"},
           pc' = "flush", next' = next + 1, UNCHANGED <<readers, threshold, request, queue, item, written>>,
           hand' = [video |-> <<>>, mask |-> <<>>], Delivered(readers.video, Decoded), Delivered(readers.mask, Decoded),
           NEW z, NEW a, Kept(z, a, LoadStart(next + 1)), a \in {LoadStart(next), LoadStart(next + 1)},
           Cached(z.heap, z.overlap, LoadStart(next + 1), DealStart(next + 1), OverRel(request, next)),
           \A b \in Bufs(z.mask) : b \notin Bufs(z.overlap),
           store' \in StoreSet, Alters(z.heap, store'.heap, Bufs(z.mask)), \A n \in Names : store'[n] = z[n]
    PROVE  StoreInv'
<1> DEFINE l == LoadStart(next)
           d == DealStart(next)
           x == LoadStart(next + 1)
           e == DealStart(next + 1)
<1>1. PlaceInv /\ CacheInv /\ PendingInv /\ OwnInv /\ HandInv /\ ReaderInv /\ ThresholdInv
  BY DEF StoreInv
<1>2. /\ l \in Nat /\ d \in Nat /\ x \in Nat /\ e \in Nat /\ l <= d /\ d < e /\ l < x /\ x <= e
      /\ next \in 1..Len(Windows) /\ next + 1 \in 1..(Len(Windows) + 1) /\ (next + 1) - 1 = next /\ next \in Nat
  BY <1>1, Marks
<1>3. Cur' = next /\ Cur = next
  BY <1>2 DEF Cur
<1> HIDE DEF l, d, x, e
<1>4. /\ z \in StoreSet
      /\ Cached(z.heap, z.video, a, e, RawRel)
      /\ Cached(z.heap, z.mask, l, e, MaskRel(d))
      /\ Cached(z.heap, z.output, l, x, PlanRel(request))
      /\ Cached(z.heap, z.overlap, x, e, OverRel(request, next))
      /\ Cached(z.heap, Pending, Len(written), l, PlanRel(request))
      /\ WholeChunks(z.heap, z.video) /\ WholeChunks(z.heap, z.mask)
      /\ \A b \in Bufs(z.mask) : b \notin Bufs(z.video) /\ b \notin Bufs(z.output) /\ b \notin Bufs(Pending)
  BY DEF Kept, l, d, x, e
<1>5. PICK t : t = store' /\ t \in StoreSet /\ Alters(z.heap, t.heap, Bufs(z.mask))
               /\ t.video = z.video /\ t.mask = z.mask /\ t.output = z.output /\ t.overlap = z.overlap
  <2>1. store'["video"] = z["video"] /\ store'["mask"] = z["mask"] /\ store'["output"] = z["output"] /\ store'["overlap"] = z["overlap"]
    BY DEF Names
  <2> QED BY <2>1
<1>6. /\ Bufs(z.video) \cap Bufs(z.mask) = {} /\ Bufs(z.output) \cap Bufs(z.mask) = {}
      /\ Bufs(z.overlap) \cap Bufs(z.mask) = {} /\ Bufs(Pending) \cap Bufs(z.mask) = {}
  BY <1>4
<1>7. Cached(t.heap, z.video, a, e, RawRel)
  BY <1>4, <1>5, <1>6, CachedStays
<1>8. Cached(t.heap, z.output, l, x, PlanRel(request))
  BY <1>4, <1>5, <1>6, CachedStays
<1>9. Cached(t.heap, z.overlap, x, e, OverRel(request, next))
  BY <1>4, <1>5, <1>6, CachedStays
<1>10. Cached(t.heap, Pending, Len(written), l, PlanRel(request))
  BY <1>4, <1>5, <1>6, CachedStays
<1>11. Cached(t.heap, z.mask, l, e, MaskRel(e))
  <2>1. \A f \in l..(e - 1) : \A r \in FrameRec : <<f, r>> \in MaskRel(e)
    <3> TAKE f \in l..(e - 1)
    <3> TAKE r \in FrameRec
    <3>1. f \in Nat /\ ~(f >= e)
      BY <1>2
    <3> QED BY <3>1, Pairs
  <2> QED BY <1>4, <1>5, <2>1, CachedChanges
<1>12. WholeChunks(t.heap, z.video) /\ WholeChunks(t.heap, z.mask)
  <2>1. Bounded(z.heap, z.video) /\ Bounded(z.heap, z.mask)
    BY <1>4 DEF Cached
  <2> QED BY <1>4, <1>5, <2>1, WholeStill
<1>13. Decoded' = e /\ t.video.start = a
  BY <1>5, <1>7 DEF Decoded, Cached
<1>14. Pending' = Pending /\ Coming' = Coming
  BY DEF Pending, Coming
<1>15. CacheInv'
  <2>1. CacheInv' = (/\ t \in StoreSet
              /\ Cached(t.heap, t.video, t.video.start, e, RawRel)
              /\ Cached(t.heap, t.mask, LoadStart(next), e, MaskRel(DealStart(next + 1)))
              /\ Cached(t.heap, t.output, LoadStart(next), LoadStart(next + 1), PlanRel(request))
              /\ Cached(t.heap, t.overlap, LoadStart(next + 1), DealStart(next + 1), OverRel(request, (next + 1) - 1))
              /\ WholeChunks(t.heap, t.video) /\ WholeChunks(t.heap, t.mask))
    BY <1>3, <1>5, <1>13 DEF CacheInv
  <2> QED BY <1>2, <1>5, <1>7, <1>8, <1>9, <1>11, <1>12, <1>13, <2>1 DEF l, x, e
<1>16. PendingInv'
  BY <1>1, <1>3, <1>5, <1>10, <1>14 DEF PendingInv, l
<1>17. OwnInv'
  BY <1>4, <1>5, <1>14 DEF OwnInv
<1>18. HandInv'
  BY DEF HandInv
<1>19. PlaceInv'
  <2>1. l <= a /\ a <= x
    BY <1>2 DEF l, x
  <2> QED BY <1>1, <1>2, <1>3, <1>5, <1>13, <2>1 DEF PlaceInv, l, x, e
<1>20. ReaderInv'
  <2>1. readers = [video |-> readers.video, mask |-> readers.mask] /\ Decoded' = Decoded
    BY <1>1, <1>13 DEF ReaderInv, e
  <2> QED BY <2>1 DEF ReaderInv
<1>21. ThresholdInv'
  <2>1. Uint8' = Uint8 /\ Brightest(0, NumFrames)' = Brightest(0, NumFrames)
    BY DEF Uint8, Brightest, Level
  <2> QED BY <1>1, <2>1 DEF ThresholdInv
<1> QED BY <1>15, <1>16, <1>17, <1>18, <1>19, <1>20, <1>21 DEF StoreInv

LEMMA CommitsSound == StoreInv /\ Commits => StoreInv'
<1> SUFFICES ASSUME StoreInv, Commits PROVE StoreInv'
  OBVIOUS
<1>1. PlaceInv /\ CacheInv /\ PendingInv /\ OwnInv /\ HandInv /\ ReaderInv /\ ThresholdInv
  BY DEF StoreInv
<1>2. /\ pc = "run" /\ hand' = [video |-> <<>>, mask |-> <<>>] /\ next' = next + 1 /\ pc' = "flush"
      /\ UNCHANGED <<readers, threshold, request, queue, item, written>>
  BY DEF Commits, Keeps
<1>3. PICK source, v, kept, spliced, out, blended, whole, appended, saved :
        /\ source = Source(store, Spec1) /\ v = SourceView(source, Spec1)
        /\ kept = KeptOverlap(source, v, Spec1)
        /\ spliced = Spliced(source, v, Spec1) /\ out = SplicedView(spliced, v)
        /\ blended = (IF request.fuse = "before" THEN Wrote(spliced, out, kept) ELSE spliced)
        /\ whole = Read(blended, out)
        /\ appended = (IF Uint8 THEN AppendOwned(blended, "output", [out EXCEPT !.n = StableEnd(Spec1) - Spec1.load_start])
                       ELSE AppendCopy(blended, "output", SubSeq(whole, 1, StableEnd(Spec1) - Spec1.load_start)))
        /\ saved = WithOverlap(appended, StableEnd(Spec1),
                      SubSeq(whole, (StableEnd(Spec1) - Spec1.load_start) + 1, Spec1.commit_end - Spec1.load_start))
        /\ store' = Consumed(saved, Spec1)
  BY SMTT(60) DEF Commits
<1>4. next <= Len(Windows) /\ Decoded = DealStart(next + 1) /\ next \notin request.skipped
  BY <1>1, <1>2 DEF PlaceInv, HandInv
<1>5. PICK l \in Nat, d \in Nat, x \in Nat, e \in Nat :
        /\ l = LoadStart(next) /\ d = DealStart(next) /\ x = LoadStart(next + 1) /\ e = DealStart(next + 1)
        /\ l <= d /\ d < e /\ l < x /\ x <= e
        /\ Spec1.load_start = l /\ StableEnd(Spec1) = x /\ Spec1.commit_end = e /\ Spec1.overlap_left = d - l
  BY <1>1, <1>4, Marks
<1>6. PICK n \in Nat, k \in Nat, p \in Nat : n = e - l /\ k = x - l /\ p = d - l /\ k <= n /\ p <= n /\ l + k = x /\ n - k = e - x /\ 0 < k
  <2>1. l <= d /\ d < e /\ l < x /\ x <= e
    BY <1>5
  <2>2. /\ e - l \in Nat /\ x - l \in Nat /\ d - l \in Nat /\ x - l <= e - l /\ d - l <= e - l
        /\ l + (x - l) = x /\ (e - l) - (x - l) = e - x /\ 0 < x - l
    BY <2>1
  <2> QED BY <2>2
<1>7. PICK a : a = source.video.start
  OBVIOUS
<1>8. /\ Kept(source, a, l) /\ a \in {l, x} /\ Free(source, v, n) /\ ShowsFrom(source, v, p, OverRel(request, next - 1))
  <2>1. LET t == Source(store, Spec1)
            u == SourceView(t, Spec1)
        IN /\ Kept(t, t.video.start, LoadStart(next))
           /\ t.video.start \in {LoadStart(next), LoadStart(next + 1)}
           /\ Free(t, u, DealStart(next + 1) - LoadStart(next))
           /\ ShowsFrom(t, u, DealStart(next) - LoadStart(next), OverRel(request, next - 1))
    BY <1>1, <1>2, SourceFacts
  <2> QED BY <1>3, <1>5, <1>6, <1>7, <2>1
<1>9. kept \in Seq(FrameRec) /\ Len(kept) = p /\ Rows(kept, l, OverRel(request, next - 1))
  <2>1. /\ source.heap \in Heap /\ v \in View /\ v.buf \in DOMAIN source.heap /\ v.at + v.n <= Len(source.heap[v.buf]) /\ v.n = n
    BY <1>8, StoreFacts DEF Kept, Free
  <2>2. PICK q \in Seq(FrameRec) : q = Read(source, v) /\ Len(q) = n /\ \A j \in 1..n : q[j] = source.heap[v.buf][v.at + j]
    BY <2>1, ReadFacts
  <2>3. kept = SubSeq(q, 1, p)
    BY <1>3, <1>5, <1>6, <2>2 DEF KeptOverlap
  <2>4. SubSeq(q, 1, p) \in Seq(FrameRec) /\ Len(SubSeq(q, 1, p)) = p - 1 + 1
        /\ \A i \in 1..(p - 1 + 1) : SubSeq(q, 1, p)[i] = q[1 + i - 1]
    <3>1. 1 \in Int /\ p \in Int /\ 0 < 1 /\ p <= Len(q) /\ 1 <= p + 1
      BY <1>6, <2>2
    <3> QED BY <3>1, PartFacts
  <2>5. p - 1 + 1 = p /\ \A i \in 1..p : 1 + i - 1 = i /\ i \in 1..n
    BY <1>6
  <2>6. ASSUME NEW i \in 1..p PROVE <<l + i - 1, kept[i]>> \in OverRel(request, next - 1)
    <3>1. kept[i] = source.heap[v.buf][v.at + i]
      BY <2>2, <2>3, <2>4, <2>5
    <3> QED BY <1>5, <1>8, <3>1 DEF ShowsFrom
  <2> QED BY <2>3, <2>4, <2>5, <2>6 DEF Rows
<1>10. Kept(spliced, a, l) /\ Free(spliced, out, n) /\ Painted(spliced, out, n)
  <2>1. Kept(source, a, l) /\ Free(source, v, DealStart(next + 1) - LoadStart(next))
    BY <1>5, <1>6, <1>8
  <2>2. LET u == Spliced(source, v, Spec1)
            o == SplicedView(u, v)
        IN /\ Kept(u, a, l) /\ Free(u, o, DealStart(next + 1) - LoadStart(next))
           /\ Painted(u, o, DealStart(next + 1) - LoadStart(next))
    BY <1>1, <1>4, <2>1, SplicedFacts
  <2> QED BY <1>3, <1>5, <1>6, <2>2
<1>11. Kept(blended, a, l) /\ Free(blended, out, n) /\ ShowsFrom(blended, out, n, OverRel(request, next))
  <2>1. /\ Kept(spliced, a, l) /\ Free(spliced, out, DealStart(next + 1) - LoadStart(next))
        /\ Painted(spliced, out, DealStart(next + 1) - LoadStart(next))
        /\ Len(kept) = DealStart(next) - LoadStart(next)
        /\ Rows(kept, LoadStart(next), OverRel(request, next - 1)) /\ kept \in Seq(FrameRec)
    BY <1>5, <1>6, <1>9, <1>10
  <2>2. LET b == IF request.fuse = "before" THEN Wrote(spliced, out, kept) ELSE spliced
        IN /\ Kept(b, a, l) /\ Free(b, out, DealStart(next + 1) - LoadStart(next))
           /\ ShowsFrom(b, out, DealStart(next + 1) - LoadStart(next), OverRel(request, next))
    BY <1>1, <1>4, <2>1, BlendedFacts
  <2> QED BY <1>3, <1>5, <1>6, <2>2
<1>12. next \in 1..Len(Windows)
  BY <1>1, <1>4, Marks
<1>13. whole \in Seq(FrameRec) /\ Len(whole) = n /\ Rows(whole, l, OverRel(request, next))
  <2>1. /\ blended.heap \in Heap /\ out \in View /\ out.buf \in DOMAIN blended.heap
        /\ out.at + out.n <= Len(blended.heap[out.buf]) /\ out.n = n
    BY <1>11, StoreFacts DEF Kept, Free
  <2>2. PICK q \in Seq(FrameRec) : q = Read(blended, out) /\ Len(q) = n /\ \A j \in 1..n : q[j] = blended.heap[out.buf][out.at + j]
    BY <2>1, ReadFacts
  <2>3. whole = q
    BY <1>3, <2>2
  <2> QED BY <1>5, <1>11, <2>2, <2>3 DEF Rows, ShowsFrom
<1>14. Kept(appended, a, x)
  <2>1. CASE Uint8
    <3>1. appended = AppendOwned(blended, "output", [out EXCEPT !.n = k])
      BY <1>3, <1>5, <1>6, <2>1
    <3>2. ShowsFrom(blended, out, k, PlanRel(request))
      <4> SUFFICES ASSUME NEW j \in 1..k PROVE <<l + j - 1, blended.heap[out.buf][out.at + j]>> \in PlanRel(request)
        BY <1>5 DEF ShowsFrom
      <4>1. <<l + j - 1, blended.heap[out.buf][out.at + j]>> \in OverRel(request, next)
        BY <1>5, <1>6, <1>11 DEF ShowsFrom
      <4>2. l + j - 1 \in LoadStart(next)..(LoadStart(next + 1) - 1)
        BY <1>5, <1>6
      <4> QED BY <1>12, <4>1, <4>2, StableAsPlanned
    <3>3. Kept(blended, a, LoadStart(next)) /\ k = LoadStart(next + 1) - LoadStart(next)
      BY <1>5, <1>6, <1>11
    <3>4. Kept(AppendOwned(blended, "output", [out EXCEPT !.n = k]), a, LoadStart(next + 1))
      BY <1>1, <1>4, <1>6, <1>11, <3>2, <3>3, OutputOwned
    <3> QED BY <1>5, <3>1, <3>4
  <2>2. CASE ~Uint8
    <3> DEFINE q == SubSeq(whole, 0 + 1, k)
    <3>1. appended = AppendCopy(blended, "output", q)
      BY <1>3, <1>5, <1>6, <2>2
    <3>2. q \in Seq(FrameRec) /\ Len(q) = k - 0 /\ Rows(q, l + 0, OverRel(request, next))
      <4>1. 0 \in Nat /\ 0 <= k /\ k <= Len(whole)
        BY <1>6, <1>13
      <4> QED BY <1>13, <4>1, RowsPart
    <3> HIDE DEF q
    <3>3. k - 0 = k /\ l + 0 = l
      OBVIOUS
    <3>4. Rows(q, l, PlanRel(request))
      <4> SUFFICES ASSUME NEW j \in 1..k PROVE <<l + j - 1, q[j]>> \in PlanRel(request)
        BY <3>2, <3>3 DEF Rows
      <4>1. <<l + j - 1, q[j]>> \in OverRel(request, next)
        BY <3>2, <3>3 DEF Rows
      <4>2. l + j - 1 \in LoadStart(next)..(LoadStart(next + 1) - 1)
        BY <1>5, <1>6
      <4> QED BY <1>12, <4>1, <4>2, StableAsPlanned
    <3>5. Kept(AppendCopy(blended, "output", q), a, LoadStart(next + 1))
      <4>1. Kept(blended, a, LoadStart(next)) /\ Len(q) = LoadStart(next + 1) - LoadStart(next) /\ Rows(q, LoadStart(next), PlanRel(request))
        BY <1>5, <1>6, <1>11, <3>2, <3>3, <3>4
      <4> QED BY <1>1, <1>4, <3>2, <4>1, OutputCopied
    <3> QED BY <1>5, <3>1, <3>5
  <2> QED BY <2>1, <2>2
<1>15. /\ Kept(saved, a, LoadStart(next + 1))
       /\ Cached(saved.heap, saved.overlap, LoadStart(next + 1), DealStart(next + 1), OverRel(request, next))
       /\ \A b \in Bufs(saved.mask) : b \notin Bufs(saved.overlap)
  <2> DEFINE q == SubSeq(whole, k + 1, n)
  <2>1. saved = WithOverlap(appended, LoadStart(next + 1), q)
    BY <1>3, <1>5, <1>6
  <2>2. q \in Seq(FrameRec) /\ Len(q) = n - k /\ Rows(q, l + k, OverRel(request, next))
    <3>1. k <= n /\ n <= Len(whole)
      BY <1>6, <1>13
    <3> QED BY <1>13, <3>1, RowsPart
  <2> HIDE DEF q
  <2>3. Kept(appended, a, LoadStart(next + 1)) /\ Len(q) = DealStart(next + 1) - LoadStart(next + 1)
        /\ Rows(q, LoadStart(next + 1), OverRel(request, next))
    BY <1>5, <1>6, <1>14, <2>2
  <2>4. LET z == WithOverlap(appended, LoadStart(next + 1), q)
        IN /\ Kept(z, a, LoadStart(next + 1))
           /\ Cached(z.heap, z.overlap, LoadStart(next + 1), DealStart(next + 1), OverRel(request, next))
           /\ \A b \in Bufs(z.mask) : b \notin Bufs(z.overlap)
    BY <1>1, <1>4, <2>2, <2>3, OverlapSaved
  <2> QED BY <2>1, <2>4
<1>16. saved \in StoreSet /\ store' \in StoreSet /\ Alters(saved.heap, store'.heap, Bufs(saved.mask)) /\ \A m \in Names : store'[m] = saved[m]
  <2>1. saved \in StoreSet
    BY <1>15 DEF Kept
  <2> QED BY <1>3, <2>1, ConsumedFacts
<1>17. a \in {LoadStart(next), LoadStart(next + 1)} /\ pc \in {"run", "driver"}
  BY <1>2, <1>5, <1>8
<1>18. Delivered(readers.video, Decoded) /\ Delivered(readers.mask, Decoded)
  BY <1>1, <1>2 DEF ReaderInv
<1> QED BY <1>2, <1>4, <1>15, <1>16, <1>17, <1>18, CommitEnds

\* A window that is skipped leaves the decoded frames.
LEMMA SkipsSound == StoreInv /\ Skips => StoreInv'
<1> SUFFICES ASSUME StoreInv, Skips PROVE StoreInv'
  OBVIOUS
<1>1. PlaceInv /\ CacheInv /\ PendingInv /\ OwnInv /\ HandInv /\ ReaderInv /\ ThresholdInv
  BY DEF StoreInv
<1>2. /\ Ready /\ next \in request.skipped /\ next' = next + 1 /\ pc' = "flush"
      /\ UNCHANGED <<readers, hand, threshold, request, queue, item, written>>
      /\ store' = WithOverlap(AppendCopy(store, "output", Slice(store, store.video, Spec1.load_start, StableEnd(Spec1))),
                     StableEnd(Spec1), Slice(store, store.video, StableEnd(Spec1), Spec1.commit_end))
  BY DEF Skips, Keeps
<1>3. pc = "driver" /\ next <= Len(Windows) /\ Decoded = DealStart(next + 1) /\ Cur = next /\ store.video.start = LoadStart(next)
  BY <1>1, <1>2, ReadyFacts
<1>4. PICK l \in Nat, x \in Nat, e \in Nat :
        /\ l = LoadStart(next) /\ x = LoadStart(next + 1) /\ e = DealStart(next + 1)
        /\ l < x /\ x <= e
        /\ Spec1.load_start = l /\ StableEnd(Spec1) = x /\ Spec1.commit_end = e
  BY <1>1, <1>3, Marks
<1>5. Kept(store, l, LoadStart(next))
  BY <1>1, <1>3, <1>4, KeptAtFirst
<1>6. store \in StoreSet /\ store.heap \in Heap /\ Cached(store.heap, store.video, l, e, RawRel)
  BY <1>3, <1>4, <1>5, StoreFacts DEF Kept
<1>7. next \in 1..Len(Windows)
  BY <1>1, <1>3, Marks
<1>8. ASSUME NEW q \in Seq(FrameRec), NEW f \in Nat, Rows(q, f, RawRel)
      PROVE  Rows(q, f, OverRel(request, next))
  <2> SUFFICES ASSUME NEW j \in 1..Len(q) PROVE <<f + j - 1, q[j]>> \in OverRel(request, next)
    BY DEF Rows
  <2>1. <<f + j - 1, q[j]>> \in SameRel(Raw)
    BY <1>8 DEF Rows, RawRel
  <2>2. Showers(request, f + j - 1)[next] = Raw
    BY <1>2, <1>7, ShowersFacts
  <2> QED BY <2>1, <2>2, Pairs
<1>9. PICK q \in Seq(FrameRec) : q = Slice(store, store.video, l, x) /\ Len(q) = x - l /\ Rows(q, l, RawRel)
  <2>1. l <= l /\ l <= x /\ x <= e
    BY <1>4
  <2> QED BY <1>6, <2>1, SliceFacts
<1>10. PICK r \in Seq(FrameRec) : r = Slice(store, store.video, x, e) /\ Len(r) = e - x /\ Rows(r, x, RawRel)
  <2>1. l <= x /\ x <= e /\ e <= e
    BY <1>4
  <2> QED BY <1>6, <2>1, SliceFacts
<1>11. Rows(q, l, PlanRel(request))
  <2> SUFFICES ASSUME NEW j \in 1..Len(q) PROVE <<l + j - 1, q[j]>> \in PlanRel(request)
    BY DEF Rows
  <2>1. <<l + j - 1, q[j]>> \in OverRel(request, next)
    BY <1>8, <1>9 DEF Rows
  <2>2. l + j - 1 \in LoadStart(next)..(LoadStart(next + 1) - 1)
    BY <1>4, <1>9
  <2> QED BY <1>7, <2>1, <2>2, StableAsPlanned
<1>12. PICK y : y = AppendCopy(store, "output", q) /\ Kept(y, l, LoadStart(next + 1))
  <2>1. Len(q) = LoadStart(next + 1) - LoadStart(next) /\ Rows(q, LoadStart(next), PlanRel(request))
    BY <1>4, <1>9, <1>11
  <2>2. Kept(AppendCopy(store, "output", q), l, LoadStart(next + 1))
    BY <1>1, <1>3, <1>5, <2>1, OutputCopied
  <2> QED BY <2>2
<1>13. PICK z : /\ z = WithOverlap(y, LoadStart(next + 1), r) /\ Kept(z, l, LoadStart(next + 1))
                /\ Cached(z.heap, z.overlap, LoadStart(next + 1), DealStart(next + 1), OverRel(request, next))
                /\ \A b \in Bufs(z.mask) : b \notin Bufs(z.overlap)
  <2>1. Len(r) = DealStart(next + 1) - LoadStart(next + 1) /\ Rows(r, LoadStart(next + 1), OverRel(request, next))
    BY <1>4, <1>8, <1>10
  <2>2. LET z == WithOverlap(y, LoadStart(next + 1), r)
        IN /\ Kept(z, l, LoadStart(next + 1))
           /\ Cached(z.heap, z.overlap, LoadStart(next + 1), DealStart(next + 1), OverRel(request, next))
           /\ \A b \in Bufs(z.mask) : b \notin Bufs(z.overlap)
    BY <1>1, <1>3, <1>12, <2>1, OverlapSaved
  <2> QED BY <2>2
<1>14. store' = z
  BY <1>2, <1>4, <1>9, <1>10, <1>12, <1>13
<1>15. z \in StoreSet /\ Alters(z.heap, z.heap, Bufs(z.mask))
  BY <1>13, StoreFacts, AltersNothing DEF Kept
<1>16. hand' = [video |-> <<>>, mask |-> <<>>] /\ Delivered(readers.video, Decoded) /\ Delivered(readers.mask, Decoded)
  BY <1>1, <1>2, <1>3 DEF ReaderInv
<1>17. l \in {LoadStart(next), LoadStart(next + 1)} /\ pc \in {"run", "driver"}
  BY <1>3, <1>4
<1>18. store' \in StoreSet /\ Alters(z.heap, store'.heap, Bufs(z.mask)) /\ \A n \in Names : store'[n] = z[n]
  BY <1>14, <1>15
<1> QED BY <1>2, <1>3, <1>13, <1>16, <1>17, <1>18, CommitEnds

-----------------------------------------------------------------------------
(***************************************************************************)
(* The output goes to the writer's thread, and the caches are evicted.     *)
(***************************************************************************)

\* The chunks of two caches, of which one goes on where the other ends.
Joined(c, d) == [start |-> c.start, chunks |-> c.chunks \o d.chunks]

\* The views of two sequences joined.
LEMMA ViewsJoined ==
    ASSUME NEW s \in Seq(View), NEW t \in Seq(View)
    PROVE  /\ s \o t \in Seq(View) /\ Len(s \o t) = Len(s) + Len(t)
           /\ \A i \in 1..Len(s) : (s \o t)[i] = s[i]
           /\ \A i \in 1..Len(t) : (s \o t)[Len(s) + i] = t[i]
BY JoinFacts

LEMMA CachesJoined ==
    ASSUME NEW h, NEW c, NEW a, NEW m, NEW R, Cached(h, c, a, m, R), NEW d, NEW b, Cached(h, d, m, b, R)
    PROVE  Cached(h, Joined(c, d), a, b, R) /\ Bufs(Joined(c, d)) = Bufs(c) \cup Bufs(d)
<1> DEFINE k == Len(c.chunks)
           n == Len(d.chunks)
           z == Joined(c, d)
<1>1. PICK p : Seen(h, c, a, m, R, p)
  BY SeenCached
<1>2. PICK q : Seen(h, d, m, b, R, q)
  BY SeenCached
<1>3. c \in Cache /\ d \in Cache
  BY <1>1, <1>2 DEF Seen
<1>4. /\ c.start \in Nat /\ c.chunks \in Seq(View) /\ k \in Nat /\ d.chunks \in Seq(View) /\ n \in Nat
      /\ \A i \in 1..k : c.chunks[i] \in View /\ c.chunks[i].n \in Nat
      /\ \A i \in 1..n : d.chunks[i] \in View /\ d.chunks[i].n \in Nat
  BY <1>3, CacheFacts
<1>5. /\ z.start = c.start /\ z.chunks \in Seq(View) /\ Len(z.chunks) = k + n
      /\ \A i \in 1..k : z.chunks[i] = c.chunks[i]
      /\ \A i \in 1..n : z.chunks[k + i] = d.chunks[i]
  <2> DEFINE u == c.chunks
             w == d.chunks
             x == u \o w
  <2>1. u \in Seq(View) /\ w \in Seq(View) /\ Len(u) = k /\ Len(w) = n
    BY <1>4
  <2>2. z = [start |-> c.start, chunks |-> x]
    BY DEF Joined
  <2> HIDE DEF u, w, k, n, z
  <2>3. /\ x \in Seq(View) /\ Len(x) = Len(u) + Len(w)
        /\ \A i \in 1..Len(u) : x[i] = u[i]
        /\ \A i \in 1..Len(w) : x[Len(u) + i] = w[i]
    BY <2>1, ViewsJoined
  <2> HIDE DEF x
  <2>4. z.start = c.start /\ z.chunks = x
    BY <2>2
  <2> QED BY <2>1, <2>3, <2>4 DEF u, w
<1>6. z \in Cache
  BY <1>4, <1>5 DEF Cache, Joined
<1> HIDE DEF k, n, z
<1>7. /\ p \in [1..(k + 1) -> Nat] /\ p[1] = a /\ p[k + 1] = m /\ a = c.start
      /\ \A i \in 1..k : p[i + 1] = p[i] + c.chunks[i].n
      /\ q \in [1..(n + 1) -> Nat] /\ q[1] = m /\ q[n + 1] = b
      /\ \A i \in 1..n : q[i + 1] = q[i] + d.chunks[i].n
  BY <1>1, <1>2 DEF Seen, Starting, k, n
<1> DEFINE r == [i \in 1..(k + n + 1) |-> IF i <= k + 1 THEN p[i] ELSE q[i - k]]
<1>8. \A i \in 1..(k + 1) : r[i] = p[i]
  BY <1>4
<1>9. \A i \in 1..(n + 1) : r[k + i] = q[i]
  <2> TAKE i \in 1..(n + 1)
  <2>1. CASE i = 1
    BY <1>4, <1>7, <2>1
  <2>2. CASE i # 1
    <3>1. k + i \in 1..(k + n + 1) /\ ~(k + i <= k + 1) /\ (k + i) - k = i
      BY <1>4, <2>2
    <3> QED BY <3>1
  <2> QED BY <2>1, <2>2
<1>10. r \in [1..(k + n + 1) -> Nat]
  <2> SUFFICES ASSUME NEW i \in 1..(k + n + 1) PROVE (IF i <= k + 1 THEN p[i] ELSE q[i - k]) \in Nat
    OBVIOUS
  <2>1. CASE i <= k + 1
    <3>1. i \in 1..(k + 1)
      BY <1>4, <2>1
    <3> QED BY <1>7, <2>1, <3>1
  <2>2. CASE ~(i <= k + 1)
    <3>1. i - k \in 1..(n + 1)
      BY <1>4, <2>2
    <3> QED BY <1>7, <2>2, <3>1
  <2> QED BY <2>1, <2>2
<1> HIDE DEF r
<1>11. \A i \in 1..(k + n) : i \in 1..k \/ \E j \in 1..n : i = k + j
  <2> TAKE i \in 1..(k + n)
  <2>1. CASE ~(i <= k)
    <3>1. i - k \in 1..n /\ i = k + (i - k)
      BY <1>4, <2>1
    <3> QED BY <3>1
  <2> QED BY <1>4, <2>1
<1>12. Starting(z, r)
  <2>1. ASSUME NEW i \in 1..(k + n) PROVE r[i + 1] = r[i] + z.chunks[i].n
    <3>1. CASE i \in 1..k
      <4>1. i \in 1..(k + 1) /\ i + 1 \in 1..(k + 1)
        BY <1>4, <3>1
      <4> QED BY <1>5, <1>7, <1>8, <3>1, <4>1
    <3>2. ASSUME NEW j \in 1..n, i = k + j PROVE r[i + 1] = r[i] + z.chunks[i].n
      <4>1. j \in 1..(n + 1) /\ j + 1 \in 1..(n + 1) /\ i + 1 = k + (j + 1)
        BY <1>4, <3>2
      <4> QED BY <1>5, <1>7, <1>9, <3>2, <4>1
    <3> QED BY <1>11, <3>1, <3>2
  <2>2. 1 \in 1..(k + 1)
    BY <1>4
  <2> QED BY <1>5, <1>7, <1>8, <1>10, <2>1, <2>2 DEF Starting
<1>13. \A i \in 1..(k + n) : Lies(h, z.chunks[i])
  <2>1. (\A i \in 1..k : Lies(h, c.chunks[i])) /\ (\A i \in 1..n : Lies(h, d.chunks[i]))
    BY <1>1, <1>2 DEF Seen, k, n
  <2> TAKE i \in 1..(k + n)
  <2> QED BY <1>5, <1>11, <2>1
<1>14. ASSUME NEW i \in 1..(k + n), NEW j \in 1..z.chunks[i].n
       PROVE  <<r[i] + j - 1, h[z.chunks[i].buf][z.chunks[i].at + j]>> \in R
  <2>1. CASE i \in 1..k
    <3>1. i \in 1..(k + 1) /\ r[i] = p[i] /\ z.chunks[i] = c.chunks[i]
      BY <1>4, <1>5, <1>8, <2>1
    <3> QED BY <1>1, <2>1, <3>1 DEF Seen, k
  <2>2. ASSUME NEW o \in 1..n, i = k + o
        PROVE  <<r[i] + j - 1, h[z.chunks[i].buf][z.chunks[i].at + j]>> \in R
    <3>1. o \in 1..(n + 1)
      BY <1>4
    <3>2. r[i] = q[o] /\ z.chunks[i] = d.chunks[o]
      BY <1>5, <1>9, <2>2, <3>1
    <3> QED BY <1>2, <3>2 DEF Seen, n
  <2> QED BY <1>11, <2>1, <2>2
<1>15. Cached(h, z, r[1], r[k + n + 1], R)
  BY <1>5, <1>6, <1>12, <1>13, <1>14, MadeCached
<1>16. r[1] = a /\ r[k + n + 1] = b
  <2>1. 1 \in 1..(k + 1) /\ n + 1 \in 1..(n + 1) /\ k + n + 1 = k + (n + 1)
    BY <1>4
  <2> QED BY <1>7, <1>8, <1>9, <2>1
<1>17. Bufs(z) = Bufs(c) \cup Bufs(d)
  <2>1. ASSUME NEW x \in Bufs(z) PROVE x \in Bufs(c) \cup Bufs(d)
    <3>1. PICK i \in 1..(k + n) : x = z.chunks[i].buf
      BY <1>5 DEF Bufs
    <3>2. CASE i \in 1..k
      BY <1>5, <3>1, <3>2 DEF Bufs, k
    <3>3. ASSUME NEW o \in 1..n, i = k + o PROVE x \in Bufs(d)
      BY <1>5, <3>1, <3>3 DEF Bufs, n
    <3> QED BY <1>11, <3>2, <3>3
  <2>2. ASSUME NEW x \in Bufs(c) PROVE x \in Bufs(z)
    <3>1. PICK i \in 1..k : x = c.chunks[i].buf
      BY DEF Bufs, k
    <3>2. i \in 1..(k + n)
      BY <1>4
    <3> QED BY <1>5, <3>1, <3>2 DEF Bufs
  <2>3. ASSUME NEW x \in Bufs(d) PROVE x \in Bufs(z)
    <3>1. PICK i \in 1..n : x = d.chunks[i].buf
      BY DEF Bufs, n
    <3>2. k + i \in 1..(k + n)
      BY <1>4
    <3> QED BY <1>5, <3>1, <3>2 DEF Bufs
  <2> QED BY <2>1, <2>2, <2>3
<1> QED BY <1>15, <1>16, <1>17 DEF z

\* The first chunk is taken from a cache.
Without(c, v) == [start |-> c.start + v.n, chunks |-> Tail(c.chunks)]

LEMMA FirstTaken ==
    ASSUME NEW s, s.heap \in Heap, NEW c, NEW a, NEW b, NEW R, Cached(s.heap, c, a, b, R), c.chunks # <<>>
    PROVE  LET v == Head(c.chunks)
           IN /\ v \in View /\ v.n \in Nat /\ c.start = a /\ a \in Nat
              /\ Read(s, v) \in Seq(FrameRec) /\ Len(Read(s, v)) = v.n /\ Rows(Read(s, v), a, R)
              /\ Cached(s.heap, Without(c, v), a + v.n, b, R) /\ Bufs(Without(c, v)) \subseteq Bufs(c)
<1> DEFINE v == Head(c.chunks)
           h == s.heap
<1>1. PICK p : Seen(h, c, a, b, R, p)
  BY SeenCached
<1>2. c \in Cache
  BY <1>1 DEF Seen
<1>3. /\ c.start \in Nat /\ c.chunks \in Seq(View) /\ Len(c.chunks) \in Nat
      /\ \A i \in 1..Len(c.chunks) : c.chunks[i] \in View /\ c.chunks[i].n \in Nat
  BY <1>2, CacheFacts
<1>4. Len(c.chunks) # 0
  BY <1>3, NoEntries
<1>5. 1 \in 1..Len(c.chunks) /\ 1 \in 1..(Len(c.chunks) + 1) /\ 2 \in 1..(Len(c.chunks) + 1)
  BY <1>3, <1>4
<1>6. v = c.chunks[1] /\ v \in View /\ v.n \in Nat
  BY <1>3, <1>5
<1> HIDE DEF v
<1>7. /\ p[1] = a /\ a \in Nat /\ c.start = a /\ p[1 + 1] = p[1] + c.chunks[1].n /\ Lies(h, v)
      /\ \A j \in 1..v.n : <<p[1] + j - 1, h[v.buf][v.at + j]>> \in R
      /\ ChunkStart(c, 1 + 1) = p[1 + 1]
  BY <1>1, <1>5, <1>6 DEF Seen, Starting
<1>8. ChunkStart(c, 1 + 1) = a + v.n
  BY <1>6, <1>7
<1>9. PICK q \in Seq(FrameRec) : q = Read(s, v) /\ Len(q) = v.n /\ \A j \in 1..v.n : q[j] = h[v.buf][v.at + j]
  BY <1>6, <1>7, ReadFacts DEF Lies
<1>10. Rows(q, a, R)
  BY <1>7, <1>9 DEF Rows
<1>11. Cached(h, Remaining(c, 1), ChunkStart(c, 1 + 1), b, R) /\ Bufs(Remaining(c, 1)) \subseteq Bufs(c)
  <2>1. a + v.n \in Nat /\ a + v.n <= ChunkStart(c, 1 + 1)
    BY <1>6, <1>7, <1>8
  <2> QED BY <1>5, <2>1, RemainsFacts
<1>12. Remaining(c, 1) = Without(c, v)
  <2>1. SubSeq(c.chunks, 1 + 1, Len(c.chunks)) = Tail(c.chunks)
    BY <1>3
  <2> QED BY <1>7, <1>8, <2>1 DEF Remaining, Without
<1> QED BY <1>6, <1>7, <1>8, <1>9, <1>10, <1>11, <1>12 DEF v

\* While the caches are evicted the store s holds, from a, f and g on, what the driver needs of it, and what is to be written.
Holds(s, P, a, f, g) ==
    /\ s \in StoreSet
    /\ Cached(s.heap, s.video, a, Decoded, RawRel)
    /\ Cached(s.heap, s.mask, f, Decoded, MaskRel(DealStart(next)))
    /\ Cached(s.heap, s.output, g, LoadStart(next), PlanRel(request))
    /\ Cached(s.heap, s.overlap, LoadStart(next), DealStart(next), OverRel(request, next - 1))
    /\ Cached(s.heap, P, Len(written), LoadStart(next), PlanRel(request))
    /\ WholeChunks(s.heap, s.video) /\ WholeChunks(s.heap, s.mask)
    /\ \A b \in Bufs(s.mask) : b \notin Bufs(s.video) /\ b \notin Bufs(s.output) /\ b \notin Bufs(s.overlap) /\ b \notin Bufs(P)

\* A cache that another one's eviction leaves alone.
LEMMA StaysBehind ==
    ASSUME NEW s, NEW t, NEW name, Moves(s, t, name), NEW c, NEW a, NEW b, NEW R, Cached(s.heap, c, a, b, R)
    PROVE  Cached(t.heap, c, a, b, R) /\ (WholeChunks(s.heap, c) => WholeChunks(t.heap, c))
<1>1. Alters(s.heap, t.heap, {}) /\ Bufs(c) \cap {} = {} /\ Bounded(s.heap, c)
  BY DEF Moves, Cached
<1> DEFINE B == {}
<1>2. Alters(s.heap, t.heap, B) /\ Bufs(c) \cap B = {}
  BY <1>1
<1> HIDE DEF B
<1> QED BY <1>1, <1>2, CachedStays, WholeStill

\* Buffers that belong to others, when a cache that has none of them gets new ones.
LEMMA StillOthers ==
    ASSUME NEW h, NEW c, Bounded(h, c), h \in Heap, NEW N, NEW M, \A x \in N : x \in M \/ x > Len(h),
           \A x \in Bufs(c) : x \notin M
    PROVE  \A x \in Bufs(c) : x \notin N
<1> TAKE x \in Bufs(c)
<1>1. x \in 1..Len(h) /\ Len(h) \in Nat
  BY OnlyOld, HeapFacts
<1> QED BY <1>1

LEMMA OutputEvicted ==
    ASSUME PlaceInv, NEW s, NEW P, NEW a, NEW f, NEW g \in Nat, g <= LoadStart(next), Holds(s, P, a, f, g)
    PROVE  Holds(PopBefore(s, "output", LoadStart(next)), P, a, f, LoadStart(next))
<1> DEFINE x == LoadStart(next)
           t == PopBefore(s, "output", x)
<1>1. /\ s \in StoreSet /\ s.heap \in Heap
      /\ Cached(s.heap, s.video, a, Decoded, RawRel)
      /\ Cached(s.heap, s.mask, f, Decoded, MaskRel(DealStart(next)))
      /\ Cached(s.heap, s.output, g, x, PlanRel(request))
      /\ Cached(s.heap, s.overlap, x, DealStart(next), OverRel(request, next - 1))
      /\ Cached(s.heap, P, Len(written), x, PlanRel(request))
      /\ WholeChunks(s.heap, s.video) /\ WholeChunks(s.heap, s.mask)
      /\ \A b \in Bufs(s.mask) : b \notin Bufs(s.video) /\ b \notin Bufs(s.output) /\ b \notin Bufs(s.overlap) /\ b \notin Bufs(P)
  BY StoreFacts DEF Holds
<1>2. x \in Nat /\ x <= x /\ (IF x <= g THEN g ELSE x) = x
  BY Marks
<1> HIDE DEF x
<1>3. Moves(s, t, "output") /\ Cached(t.heap, t.output, IF x <= g THEN g ELSE x, x, PlanRel(request))
  <2>1. "output" \in Names /\ s["output"] = s.output /\ t["output"] = t.output
    BY DEF Names
  <2> QED BY <1>1, <1>2, <2>1, Evicted
<1> HIDE DEF t
<1>4. t \in StoreSet /\ t.video = s.video /\ t.mask = s.mask /\ t.overlap = s.overlap
      /\ \A b \in Bufs(t.output) : b \in Bufs(s.output) \/ b > Len(s.heap)
  <2>1. /\ t["video"] = s["video"] /\ t["mask"] = s["mask"] /\ t["overlap"] = s["overlap"]
        /\ \A b \in Bufs(t["output"]) : b \in Bufs(s["output"]) \/ b > Len(s.heap)
    BY <1>3 DEF Moves, Names
  <2> QED BY <1>3, <2>1 DEF Moves
<1>5. /\ Cached(t.heap, s.video, a, Decoded, RawRel) /\ WholeChunks(t.heap, s.video)
      /\ Cached(t.heap, s.mask, f, Decoded, MaskRel(DealStart(next))) /\ WholeChunks(t.heap, s.mask)
  BY <1>1, <1>3, StaysBehind
<1>6. /\ Cached(t.heap, s.overlap, x, DealStart(next), OverRel(request, next - 1))
      /\ Cached(t.heap, P, Len(written), x, PlanRel(request))
  BY <1>1, <1>3, StaysBehind, SMTT(30)
<1>7. \A b \in Bufs(s.mask) : b \notin Bufs(t.output)
  <2>1. Bounded(s.heap, s.mask) /\ s.heap \in Heap
    BY <1>1 DEF Cached
  <2>2. \A b \in Bufs(s.mask) : b \notin Bufs(s.output)
    BY <1>1
  <2>3. \A b \in Bufs(t.output) : b \in Bufs(s.output) \/ b > Len(s.heap)
    BY <1>4
  <2> QED BY <2>1, <2>2, <2>3, StillOthers
<1> QED BY <1>1, <1>2, <1>3, <1>4, <1>5, <1>6, <1>7 DEF Holds, t, x

LEMMA VideoEvicted ==
    ASSUME PlaceInv, NEW s, NEW P, NEW a \in Nat, a <= LoadStart(next), NEW f, NEW g, Holds(s, P, a, f, g)
    PROVE  Holds(PopBefore(s, "video", LoadStart(next)), P, LoadStart(next), f, g)
<1> DEFINE x == LoadStart(next)
           t == PopBefore(s, "video", x)
<1>1. /\ s \in StoreSet /\ s.heap \in Heap
      /\ Cached(s.heap, s.video, a, Decoded, RawRel)
      /\ Cached(s.heap, s.mask, f, Decoded, MaskRel(DealStart(next)))
      /\ Cached(s.heap, s.output, g, x, PlanRel(request))
      /\ Cached(s.heap, s.overlap, x, DealStart(next), OverRel(request, next - 1))
      /\ Cached(s.heap, P, Len(written), x, PlanRel(request))
      /\ WholeChunks(s.heap, s.video) /\ WholeChunks(s.heap, s.mask)
      /\ \A b \in Bufs(s.mask) : b \notin Bufs(s.video) /\ b \notin Bufs(s.output) /\ b \notin Bufs(s.overlap) /\ b \notin Bufs(P)
  BY StoreFacts DEF Holds
<1>2. x \in Nat /\ x <= Decoded /\ (IF x <= a THEN a ELSE x) = x
  <2>1. x \in Nat /\ (IF x <= a THEN a ELSE x) = x
    BY Marks
  <2>2. x <= DealStart(next) /\ DealStart(next) \in Nat /\ Decoded \in Nat
    BY Marks
  <2>3. DealStart(next) <= Decoded
    BY Marks DEF PlaceInv
  <2> QED BY <2>1, <2>2, <2>3
<1> HIDE DEF x
<1>3. Moves(s, t, "video") /\ Cached(t.heap, t.video, IF x <= a THEN a ELSE x, Decoded, RawRel)
      /\ (WholeChunks(s.heap, s.video) => WholeChunks(t.heap, t.video))
  <2>1. "video" \in Names /\ s["video"] = s.video /\ t["video"] = t.video
    BY DEF Names
  <2> QED BY <1>1, <1>2, <2>1, Evicted
<1> HIDE DEF t
<1>4. t \in StoreSet /\ t.output = s.output /\ t.mask = s.mask /\ t.overlap = s.overlap
      /\ \A b \in Bufs(t.video) : b \in Bufs(s.video) \/ b > Len(s.heap)
  <2>1. /\ t["output"] = s["output"] /\ t["mask"] = s["mask"] /\ t["overlap"] = s["overlap"]
        /\ \A b \in Bufs(t["video"]) : b \in Bufs(s["video"]) \/ b > Len(s.heap)
    BY <1>3 DEF Moves, Names
  <2> QED BY <1>3, <2>1 DEF Moves
<1>5. /\ Cached(t.heap, s.output, g, x, PlanRel(request))
      /\ Cached(t.heap, s.mask, f, Decoded, MaskRel(DealStart(next))) /\ WholeChunks(t.heap, s.mask)
  BY <1>1, <1>3, StaysBehind
<1>6. /\ Cached(t.heap, s.overlap, x, DealStart(next), OverRel(request, next - 1))
      /\ Cached(t.heap, P, Len(written), x, PlanRel(request))
  BY <1>1, <1>3, StaysBehind
<1>7. \A b \in Bufs(s.mask) : b \notin Bufs(t.video)
  <2>1. Bounded(s.heap, s.mask) /\ s.heap \in Heap
    BY <1>1 DEF Cached
  <2>2. \A b \in Bufs(s.mask) : b \notin Bufs(s.video)
    BY <1>1
  <2>3. \A b \in Bufs(t.video) : b \in Bufs(s.video) \/ b > Len(s.heap)
    BY <1>4
  <2> QED BY <2>1, <2>2, <2>3, StillOthers
<1> QED BY <1>1, <1>2, <1>3, <1>4, <1>5, <1>6, <1>7 DEF Holds, t, x

LEMMA MaskEvicted ==
    ASSUME PlaceInv, NEW s, NEW P, NEW a, NEW f \in Nat, f <= LoadStart(next), NEW g, Holds(s, P, a, f, g)
    PROVE  Holds(PopBefore(s, "mask", LoadStart(next)), P, a, LoadStart(next), g)
<1> DEFINE x == LoadStart(next)
           t == PopBefore(s, "mask", x)
<1>1. /\ s \in StoreSet /\ s.heap \in Heap
      /\ Cached(s.heap, s.video, a, Decoded, RawRel)
      /\ Cached(s.heap, s.mask, f, Decoded, MaskRel(DealStart(next)))
      /\ Cached(s.heap, s.output, g, x, PlanRel(request))
      /\ Cached(s.heap, s.overlap, x, DealStart(next), OverRel(request, next - 1))
      /\ Cached(s.heap, P, Len(written), x, PlanRel(request))
      /\ WholeChunks(s.heap, s.video) /\ WholeChunks(s.heap, s.mask)
      /\ \A b \in Bufs(s.mask) : b \notin Bufs(s.video) /\ b \notin Bufs(s.output) /\ b \notin Bufs(s.overlap) /\ b \notin Bufs(P)
  BY StoreFacts DEF Holds
<1>2. x \in Nat /\ x <= Decoded /\ (IF x <= f THEN f ELSE x) = x
  <2>1. x \in Nat /\ (IF x <= f THEN f ELSE x) = x
    BY Marks
  <2>2. x <= DealStart(next) /\ DealStart(next) \in Nat /\ Decoded \in Nat
    BY Marks
  <2>3. DealStart(next) <= Decoded
    BY Marks DEF PlaceInv
  <2> QED BY <2>1, <2>2, <2>3
<1> HIDE DEF x
<1>3. Moves(s, t, "mask") /\ Cached(t.heap, t.mask, IF x <= f THEN f ELSE x, Decoded, MaskRel(DealStart(next)))
      /\ (WholeChunks(s.heap, s.mask) => WholeChunks(t.heap, t.mask))
  <2>1. "mask" \in Names /\ s["mask"] = s.mask /\ t["mask"] = t.mask
    BY DEF Names
  <2> QED BY <1>1, <1>2, <2>1, Evicted
<1> HIDE DEF t
<1>4. t \in StoreSet /\ t.output = s.output /\ t.video = s.video /\ t.overlap = s.overlap
      /\ \A b \in Bufs(t.mask) : b \in Bufs(s.mask) \/ b > Len(s.heap)
  <2>1. /\ t["output"] = s["output"] /\ t["video"] = s["video"] /\ t["overlap"] = s["overlap"]
        /\ \A b \in Bufs(t["mask"]) : b \in Bufs(s["mask"]) \/ b > Len(s.heap)
    BY <1>3 DEF Moves, Names
  <2> QED BY <1>3, <2>1 DEF Moves
<1>5. /\ Cached(t.heap, s.output, g, x, PlanRel(request))
      /\ Cached(t.heap, s.video, a, Decoded, RawRel) /\ WholeChunks(t.heap, s.video)
  BY <1>1, <1>3, StaysBehind
<1>6. /\ Cached(t.heap, s.overlap, x, DealStart(next), OverRel(request, next - 1))
      /\ Cached(t.heap, P, Len(written), x, PlanRel(request))
  BY <1>1, <1>3, StaysBehind
<1>7. \A b \in Bufs(t.mask) : b \notin Bufs(s.video) /\ b \notin Bufs(s.output) /\ b \notin Bufs(s.overlap) /\ b \notin Bufs(P)
  <2>1. /\ Bounded(s.heap, s.video) /\ Bounded(s.heap, s.output) /\ Bounded(s.heap, s.overlap) /\ Bounded(s.heap, P)
        /\ s.heap \in Heap
    BY <1>1 DEF Cached
  <2>2. \A b \in Bufs(t.mask) : b \in Bufs(s.mask) \/ b > Len(s.heap)
    BY <1>4
  <2>3. \A b \in Bufs(t.mask) : b \notin Bufs(s.video)
    <3>1. \A b \in Bufs(s.mask) : b \notin Bufs(s.video)
      BY <1>1
    <3> QED BY <2>1, <2>2, <3>1, StillOwned
  <2>4. \A b \in Bufs(t.mask) : b \notin Bufs(s.output)
    <3>1. \A b \in Bufs(s.mask) : b \notin Bufs(s.output)
      BY <1>1
    <3> QED BY <2>1, <2>2, <3>1, StillOwned
  <2>5. \A b \in Bufs(t.mask) : b \notin Bufs(s.overlap)
    <3>1. \A b \in Bufs(s.mask) : b \notin Bufs(s.overlap)
      BY <1>1
    <3> QED BY <2>1, <2>2, <3>1, StillOwned
  <2>6. \A b \in Bufs(t.mask) : b \notin Bufs(P)
    <3>1. \A b \in Bufs(s.mask) : b \notin Bufs(P)
      BY <1>1
    <3> QED BY <2>1, <2>2, <3>1, StillOwned
  <2> QED BY <2>3, <2>4, <2>5, <2>6
<1> QED BY <1>1, <1>2, <1>3, <1>4, <1>5, <1>6, <1>7 DEF Holds, t, x

\* The frames that go to the writer: those of the output, in its buffers or in a new one.
LEMMA HandsOver ==
    ASSUME StoreInv, pc = "flush", queue = <<>>
    PROVE  /\ HandedOver(store, LoadStart(next)) \in Seq(View)
           /\ Holds(Popped(store, LoadStart(next)),
                    [start |-> Len(written), chunks |-> item \o HandedOver(store, LoadStart(next))],
                    store.video.start, LoadStart(Cur), LoadStart(Cur))
           /\ LoadStart(Cur) \in Nat /\ LoadStart(Cur) <= LoadStart(next)
<1>1. PlaceInv /\ CacheInv /\ PendingInv /\ OwnInv
  BY DEF StoreInv
<1> DEFINE l == LoadStart(Cur)
           x == LoadStart(next)
           H == HandedOver(store, x)
           y == Popped(store, x)
           c == [start |-> l, chunks |-> H]
           R == PlanRel(request)
<1>2. l \in Nat /\ x \in Nat /\ l < x
  <2>1. Cur = next - 1 /\ Cur \in 1..(Len(Windows) + 1) /\ next \in 1..(Len(Windows) + 1)
    BY <1>1 DEF PlaceInv, Cur
  <2>2. Len(Windows) \in Nat
    BY PlanFacts
  <2>3. Cur \in 1..Len(Windows) /\ Cur + 1 = next
    BY <2>1, <2>2
  <2>4. LoadStart(Cur) < LoadStart(Cur + 1)
    BY <2>3, PlanFacts
  <2> QED BY <1>1, <2>3, <2>4, Marks
<1>3. /\ store \in StoreSet /\ store.heap \in Heap /\ Len(store.heap) \in Nat
      /\ Cached(store.heap, store.video, store.video.start, Decoded, RawRel)
      /\ Cached(store.heap, store.mask, l, Decoded, MaskRel(DealStart(next)))
      /\ Cached(store.heap, store.output, l, x, R)
      /\ Cached(store.heap, store.overlap, x, DealStart(next), OverRel(request, next - 1))
      /\ WholeChunks(store.heap, store.video) /\ WholeChunks(store.heap, store.mask)
      /\ Cached(store.heap, Pending, Len(written), l, R)
      /\ \A b \in Bufs(store.mask) : b \notin Bufs(store.video) /\ b \notin Bufs(store.output)
                                      /\ b \notin Bufs(store.overlap) /\ b \notin Bufs(Pending)
  <2>1. store \in StoreSet
    BY <1>1 DEF CacheInv
  <2>2. store.heap \in Heap /\ Len(store.heap) \in Nat
    BY <2>1, StoreFacts
  <2> QED BY <1>1, <2>1, <2>2 DEF CacheInv, PendingInv, OwnInv
<1> HIDE DEF l, x, R
<1>4. /\ y \in StoreSet /\ Alters(store.heap, y.heap, {}) /\ y.video = store.video /\ y.mask = store.mask
      /\ y.output = store.output /\ y.overlap = store.overlap
      /\ H \in Seq(View) /\ Cached(y.heap, c, l, x, R) /\ \A b \in Bufs(c) : b \notin Bufs(store.mask)
  <2>1. CASE Uint8 /\ request.handoff
    <3>1. y = store /\ H = Blocks(store.output, x)
      BY <2>1 DEF Popped, HandedOver
    <3>2. H = store.output.chunks
      BY <1>2, <1>3, <3>1, AllBlocks
    <3>3. store.output \in Cache /\ store.output.start = l
      BY <1>3 DEF Cached, Bounded
    <3>4. store.output = [start |-> l, chunks |-> store.output.chunks] /\ store.output.chunks \in Seq(View)
      BY <3>3, CacheFacts
    <3>5. c = store.output
      BY <3>2, <3>4
    <3>6. Alters(store.heap, store.heap, {})
      BY <1>3, AltersNothing
    <3> HIDE DEF c, H, y
    <3>7. \A b \in Bufs(c) : b \notin Bufs(store.mask)
      BY <1>3, <3>5
    <3> QED BY <1>3, <3>1, <3>2, <3>4, <3>5, <3>6, <3>7
  <2>2. CASE ~(Uint8 /\ request.handoff)
    <3> DEFINE k == x - l
    <3>1. store.output.start = l
      BY <1>3 DEF Cached
    <3>2. PICK q \in Seq(FrameRec) : q = Slice(store, store.output, l, x) /\ Len(q) = x - l /\ Rows(q, l, R)
      <4>1. l <= l /\ l <= x /\ x <= x
        BY <1>2
      <4> QED BY <1>2, <1>3, <4>1, SliceFacts
    <3>3. PICK v : v = [buf |-> Len(store.heap) + 1, at |-> 0, n |-> x - l]
      OBVIOUS
    <3>4. v \in View /\ v.buf = Len(store.heap) + 1 /\ v.at = 0 /\ v.n = x - l /\ v.n > 0
      BY <1>2, <1>3, <3>3 DEF View
    <3>5. y = Allocated(store, q) /\ H = <<v>>
      BY <2>2, <3>1, <3>2, <3>3 DEF Popped, HandedOver, Fresh
    <3> HIDE DEF H, y
    <3>6. /\ y \in StoreSet /\ Alters(store.heap, y.heap, {}) /\ \A m \in Names : y[m] = store[m]
          /\ Len(y.heap) = Len(store.heap) + 1 /\ y.heap[Len(store.heap) + 1] = q
          /\ Len(store.heap) + 1 \in DOMAIN y.heap
      BY <1>3, <3>5, NewArray, ZenonT(60)
    <3>7. y.video = store.video /\ y.mask = store.mask /\ y.output = store.output /\ y.overlap = store.overlap
      <4>1. y["video"] = store["video"] /\ y["mask"] = store["mask"] /\ y["output"] = store["output"] /\ y["overlap"] = store["overlap"]
        BY <3>6 DEF Names
      <4> QED BY <4>1
    <3>8. H \in Seq(View) /\ Len(H) = 1 /\ H[1] = v
      BY <3>4, <3>5, OneEntry
    <3>9. Lies(y.heap, v)
      BY <3>2, <3>4, <3>6 DEF Lies
    <3>10. c \in Cache /\ c.start = l /\ c.chunks = H
      BY <1>2, <3>8 DEF Cache
    <3> HIDE DEF c
    <3> DEFINE p == [i \in 1..2 |-> IF i = 1 THEN l ELSE x]
    <3>11. p[1] = l /\ p[2] = x /\ p \in [1..2 -> Nat]
      BY <1>2
    <3> HIDE DEF p
    <3>21. Len(c.chunks) = 1 /\ c.chunks[1] = v
      BY <3>8, <3>10
    <3>12. Len(c.chunks) + 1 = 2 /\ 1 + 1 = 2 /\ l + (x - l) = x
      BY <1>2, <3>21
    <3>13. Starting(c, p)
      <4>1. ASSUME NEW i \in 1..Len(c.chunks) PROVE p[i + 1] = p[i] + c.chunks[i].n
        <5>1. i = 1
          BY <3>21
        <5> QED BY <3>4, <3>21, <3>11, <3>12, <5>1
      <4> QED BY <3>10, <3>11, <3>12, <4>1 DEF Starting
    <3>14. \A i \in 1..Len(c.chunks) : i = 1
      BY <3>21
    <3>15. \A i \in 1..Len(c.chunks) : Lies(y.heap, c.chunks[i])
      BY <3>9, <3>21, <3>14
    <3>16. ASSUME NEW i \in 1..Len(c.chunks), NEW j \in 1..c.chunks[i].n
           PROVE  <<p[i] + j - 1, y.heap[c.chunks[i].buf][c.chunks[i].at + j]>> \in R
      <4>1. i = 1 /\ c.chunks[i] = v /\ p[i] = l
        BY <3>21, <3>11, <3>14
      <4>2. j \in 1..Len(q) /\ v.at + j = j
        BY <3>2, <3>4, <4>1
      <4>3. y.heap[v.buf][v.at + j] = q[j]
        BY <3>4, <3>6, <4>2
      <4>4. <<l + j - 1, q[j]>> \in R
        BY <3>2, <4>2 DEF Rows
      <4> QED BY <4>1, <4>3, <4>4
    <3>17. Cached(y.heap, c, p[1], p[Len(c.chunks) + 1], R)
      BY <3>10, <3>13, <3>15, <3>16, MadeCached
    <3>18. \A b \in Bufs(c) : b = Len(store.heap) + 1
      BY <3>4, <3>21, <3>14 DEF Bufs
    <3>19. \A b \in Bufs(store.mask) : b \in 1..Len(store.heap)
      <4>1. Bounded(store.heap, store.mask)
        BY <1>3 DEF Cached
      <4> QED BY <1>3, <4>1, OnlyOld
    <3>20. \A b \in Bufs(c) : b \notin Bufs(store.mask)
      BY <1>3, <3>18, <3>19
    <3> QED BY <3>6, <3>7, <3>8, <3>11, <3>12, <3>17, <3>20
  <2> QED BY <2>1, <2>2
<1> DEFINE P == [start |-> Len(written), chunks |-> item \o H]
<1>5. P = Joined(Pending, c)
  <2>1. Coming = <<>> /\ item \in Seq(View)
    BY <1>1 DEF Coming, PendingInv
  <2>2. item \o <<>> = item
    BY <2>1
  <2>3. Pending = [start |-> Len(written), chunks |-> item]
    BY <2>1, <2>2 DEF Pending
  <2> HIDE DEF H
  <2> QED BY <2>3 DEF Joined
<1> HIDE DEF H, y, c, P
<1>6. y.heap \in Heap
  BY <1>4, StoreFacts
<1> DEFINE B == {}
<1>7. Alters(store.heap, y.heap, B) /\ \A S : S \cap B = {}
  BY <1>4
<1> HIDE DEF B
<1>8. Cached(y.heap, Pending, Len(written), l, R)
  BY <1>3, <1>7, CachedStays
<1>9. Cached(y.heap, P, Len(written), x, R) /\ Bufs(P) = Bufs(Pending) \cup Bufs(c)
  BY <1>4, <1>5, <1>8, CachesJoined
<1>10. /\ Cached(y.heap, store.video, store.video.start, Decoded, RawRel)
       /\ Cached(y.heap, store.mask, l, Decoded, MaskRel(DealStart(next)))
  BY <1>3, <1>7, CachedStays
<1>11. /\ Cached(y.heap, store.output, l, x, R)
       /\ Cached(y.heap, store.overlap, x, DealStart(next), OverRel(request, next - 1))
  BY <1>3, <1>7, CachedStays
<1>12. WholeChunks(y.heap, store.video) /\ WholeChunks(y.heap, store.mask)
  <2>1. Bounded(store.heap, store.video) /\ Bounded(store.heap, store.mask)
    BY <1>3 DEF Cached
  <2> QED BY <1>3, <1>7, <2>1, WholeStill
<1>13. \A b \in Bufs(store.mask) : b \notin Bufs(P)
  BY <1>3, <1>4, <1>9
<1>14. Holds(y, P, store.video.start, l, l)
  BY <1>3, <1>4, <1>9, <1>10, <1>11, <1>12, <1>13 DEF Holds, x, R
<1> QED BY <1>2, <1>4, <1>14 DEF l, x, y, H, P

LEMMA FlushesSound == StoreInv /\ Flushes => StoreInv'
<1> SUFFICES ASSUME StoreInv, Flushes PROVE StoreInv'
  OBVIOUS
<1>1. PlaceInv /\ CacheInv /\ PendingInv /\ OwnInv /\ HandInv /\ ReaderInv /\ ThresholdInv
  BY DEF StoreInv
<1> DEFINE x == LoadStart(next)
           H == HandedOver(store, x)
<1>2. /\ pc = "flush" /\ Len(queue) < 1 /\ pc' = "driver"
      /\ UNCHANGED <<request, readers, hand, next, threshold, item, written, open>>
  BY DEF Flushes, QueueDepth
<1>3. queue = <<>>
  BY <1>1, <1>2 DEF PendingInv
<1>4. FlushEnd = x /\ EvictTarget(FlushEnd) = x
  <2>1. EndIndex(store.output) = x
    BY <1>1 DEF CacheInv, Cached
  <2>2. next <= Len(Windows) => Windows[next].load_start = x
    BY DEF LoadStart
  <2>3. x \in Nat /\ Min({x, x}) = x
    BY <1>1, Marks, MinOf
  <2> QED BY <2>1, <2>2, <2>3 DEF FlushEnd, EvictTarget
<1> DEFINE P == [start |-> Len(written), chunks |-> item \o H]
           y == Popped(store, x)
           o == PopBefore(y, "output", x)
           v == PopBefore(o, "video", x)
           m == PopBefore(v, "mask", x)
<1>5. queue' = Append(queue, H) /\ store' = m
  <2>1. /\ queue' = Append(queue, HandedOver(store, FlushEnd))
        /\ \E popped \in {Popped(store, FlushEnd)} :
           \E output \in {PopBefore(popped, "output", FlushEnd)} :
           \E video \in {PopBefore(output, "video", EvictTarget(FlushEnd))} :
              store' = PopBefore(video, "mask", FlushEnd)
    BY DEF Flushes
  <2> QED BY <1>4, <2>1
<1>6. /\ H \in Seq(View) /\ Holds(y, P, store.video.start, LoadStart(Cur), LoadStart(Cur))
      /\ LoadStart(Cur) \in Nat /\ LoadStart(Cur) <= x
  BY <1>2, <1>3, HandsOver
<1>7. store.video.start \in Nat /\ store.video.start <= x /\ x \in Nat
  <2>1. store.video \in Cache
    BY <1>1 DEF CacheInv, StoreSet
  <2>2. store.video.start \in Nat
    BY <2>1, CacheFacts
  <2>3. store.video.start <= x
    BY <1>1 DEF PlaceInv
  <2> QED BY <1>1, <2>2, <2>3, Marks
<1> HIDE DEF H, P, y, o, v, m
<1>8. Holds(o, P, store.video.start, LoadStart(Cur), x)
  BY <1>1, <1>6, OutputEvicted DEF o
<1>9. Holds(v, P, x, LoadStart(Cur), x)
  BY <1>1, <1>7, <1>8, VideoEvicted DEF v
<1>10. Holds(m, P, x, x, x)
  BY <1>1, <1>6, <1>9, MaskEvicted DEF m
<1> HIDE DEF x
<1>11. /\ m \in StoreSet
       /\ Cached(m.heap, m.video, x, Decoded, RawRel)
       /\ Cached(m.heap, m.mask, x, Decoded, MaskRel(DealStart(next)))
       /\ Cached(m.heap, m.output, x, x, PlanRel(request))
       /\ Cached(m.heap, m.overlap, x, DealStart(next), OverRel(request, next - 1))
       /\ Cached(m.heap, P, Len(written), x, PlanRel(request))
       /\ WholeChunks(m.heap, m.video) /\ WholeChunks(m.heap, m.mask)
       /\ \A b \in Bufs(m.mask) : b \notin Bufs(m.video) /\ b \notin Bufs(m.output) /\ b \notin Bufs(m.overlap) /\ b \notin Bufs(P)
  BY <1>10 DEF Holds, x
<1>12. Cur' = next /\ Decoded' = Decoded /\ m.video.start = x
  BY <1>2, <1>5, <1>11 DEF Cur, Decoded, Cached
<1>13. queue' = <<H>> /\ Coming' = H /\ Pending' = P
  <2>1. queue' = <<H>>
    BY <1>3, <1>5
  <2>2. queue' # <<>> /\ queue'[1] = H
    BY <2>1
  <2>3. Coming' = H
    BY <2>2 DEF Coming
  <2> QED BY <1>2, <2>1, <2>3 DEF Pending, P
<1>14. CacheInv'
  <2>1. CacheInv' = (/\ m \in StoreSet
              /\ Cached(m.heap, m.video, m.video.start, Decoded, RawRel)
              /\ Cached(m.heap, m.mask, LoadStart(next), Decoded, MaskRel(DealStart(next)))
              /\ Cached(m.heap, m.output, LoadStart(next), LoadStart(next), PlanRel(request))
              /\ Cached(m.heap, m.overlap, LoadStart(next), DealStart(next), OverRel(request, next - 1))
              /\ WholeChunks(m.heap, m.video) /\ WholeChunks(m.heap, m.mask))
    BY <1>2, <1>5, <1>12 DEF CacheInv
  <2> QED BY <1>11, <1>12, <2>1 DEF x
<1>15. PendingInv'
  <2>1. PendingInv' = (/\ written \in Seq(FrameRec) /\ Rows(written, 0, PlanRel(request))
              /\ item \in Seq(View) /\ H \in Seq(View) /\ queue' \in {<<>>, <<H>>}
              /\ Cached(m.heap, P, Len(written), LoadStart(next), PlanRel(request)))
    BY <1>2, <1>5, <1>12, <1>13 DEF PendingInv
  <2> QED BY <1>1, <1>6, <1>11, <1>13, <2>1 DEF PendingInv, x
<1>16. OwnInv'
  BY <1>5, <1>11, <1>13 DEF OwnInv
<1>17. HandInv'
  BY <1>2 DEF HandInv
<1>18. PlaceInv'
  <2>1. request \in RequestSet /\ next \in 1..(Len(Windows) + 1) /\ Decoded = DealStart(next)
    BY <1>1, <1>2 DEF PlaceInv
  <2>2. Decoded' = DealStart(next) /\ store'.video.start = LoadStart(next) /\ LoadStart(next) <= LoadStart(next)
    BY <1>5, <1>7, <1>12, <2>1 DEF x
  <2> QED BY <1>2, <1>12, <2>1, <2>2 DEF PlaceInv
<1>19. ReaderInv'
  <2>1. /\ Delivered(readers.video, Decoded) /\ Delivered(readers.mask, Decoded)
        /\ hand = [video |-> <<>>, mask |-> <<>>] /\ readers = [video |-> readers.video, mask |-> readers.mask]
    BY <1>1, <1>2 DEF ReaderInv
  <2> QED BY <1>2, <1>12, <2>1 DEF ReaderInv
<1>20. ThresholdInv'
  <2>1. Uint8' = Uint8 /\ Brightest(0, NumFrames)' = Brightest(0, NumFrames)
    BY <1>2 DEF Uint8, Brightest, Level
  <2> QED BY <1>1, <1>2, <2>1 DEF ThresholdInv
<1> QED BY <1>14, <1>15, <1>16, <1>17, <1>18, <1>19, <1>20 DEF StoreInv

-----------------------------------------------------------------------------
(***************************************************************************)
(* The writer's thread.                                                    *)
(***************************************************************************)

\* What the thread does concerns only what it has still to write.
LEMMA ThreadLeaves ==
    ASSUME StoreInv, UNCHANGED ThreadVars, PendingInv', Bufs(Pending') \subseteq Bufs(Pending)
    PROVE  StoreInv'
<1>1. PlaceInv /\ CacheInv /\ PendingInv /\ OwnInv /\ HandInv /\ ReaderInv /\ ThresholdInv
  BY DEF StoreInv
<1>2. UNCHANGED <<request, pc, store, readers, hand, next, threshold, open>>
  BY DEF ThreadVars
<1>3. Cur' = Cur /\ Decoded' = Decoded
  BY <1>2 DEF Cur, Decoded
<1>4. PlaceInv'
  BY <1>1, <1>2, <1>3 DEF PlaceInv
<1>5. CacheInv'
  BY <1>1, <1>2, <1>3 DEF CacheInv
<1>6. OwnInv'
  BY <1>1, <1>2 DEF OwnInv
<1>7. HandInv'
  BY <1>1, <1>2 DEF HandInv
<1>8. ReaderInv'
  <2>1. Uint8' = Uint8
    BY <1>2 DEF Uint8
  <2> QED BY <1>1, <1>2, <1>3, <2>1 DEF ReaderInv
<1>9. ThresholdInv'
  <2>1. Uint8' = Uint8 /\ Brightest(0, NumFrames)' = Brightest(0, NumFrames)
        /\ Brightest(0, readers.mask.at)' = Brightest(0, readers.mask.at)
    BY <1>2 DEF Uint8, Brightest, Level
  <2> QED BY <1>1, <1>2, <2>1 DEF ThresholdInv
<1> QED BY <1>4, <1>5, <1>6, <1>7, <1>8, <1>9 DEF StoreInv

LEMMA TakesItemSound == StoreInv /\ TakesItem => StoreInv'
<1> SUFFICES ASSUME StoreInv, TakesItem PROVE StoreInv'
  OBVIOUS
<1>1. /\ item = <<>> /\ queue # <<>> /\ item' = Head(queue) /\ queue' = Tail(queue)
      /\ written' = written /\ UNCHANGED ThreadVars
  BY DEF TakesItem
<1>2. /\ written \in Seq(FrameRec) /\ Rows(written, 0, PlanRel(request))
      /\ Coming \in Seq(View) /\ queue \in {<<>>, <<Coming>>}
      /\ Cached(store.heap, Pending, Len(written), LoadStart(Cur), PlanRel(request))
  BY DEF StoreInv, PendingInv
<1> DEFINE c == Coming
<1>3. queue = <<c>> /\ c \in Seq(View)
  BY <1>1, <1>2
<1> HIDE DEF c
<1>4. item' = c /\ queue' = <<>>
  BY <1>1, <1>3
<1>5. Coming' = <<>>
  BY <1>4 DEF Coming
<1>6. <<>> \o c = c /\ c \o <<>> = c /\ <<>> \in Seq(View)
  BY <1>3
<1>7. Pending' = Pending
  BY <1>1, <1>4, <1>5, <1>6 DEF Pending, c
<1>8. UNCHANGED <<request, pc, store, next>> /\ Cur' = Cur
  BY <1>1 DEF ThreadVars, Cur
<1>9. PendingInv'
  BY <1>1, <1>2, <1>3, <1>4, <1>5, <1>6, <1>7, <1>8 DEF PendingInv
<1> QED BY <1>1, <1>7, <1>9, ThreadLeaves

LEMMA WritesBlockSound == StoreInv /\ WritesBlock => StoreInv'
<1> SUFFICES ASSUME StoreInv, WritesBlock PROVE StoreInv'
  OBVIOUS
<1>1. /\ item # <<>> /\ written' = written \o Read(store, Head(item)) /\ item' = Tail(item)
      /\ queue' = queue /\ UNCHANGED ThreadVars
  BY DEF WritesBlock
<1> DEFINE c == Pending
           R == PlanRel(request)
           b == LoadStart(Cur)
           more == Coming
<1>2. /\ written \in Seq(FrameRec) /\ Rows(written, 0, R)
      /\ item \in Seq(View) /\ more \in Seq(View) /\ queue \in {<<>>, <<more>>}
      /\ Cached(store.heap, c, Len(written), b, R) /\ store.heap \in Heap
  <2>1. store \in StoreSet
    BY DEF StoreInv, CacheInv
  <2> QED BY <2>1, StoreFacts DEF StoreInv, PendingInv
<1> HIDE DEF more
<1>3. c.chunks = item \o more /\ c.start = Len(written)
  BY DEF Pending, more
<1> HIDE DEF c
<1>4. item \o more # <<>> /\ Head(item \o more) = Head(item) /\ Tail(item \o more) = Tail(item) \o more
      /\ Tail(item) \in Seq(View)
  BY <1>1, <1>2
<1> DEFINE v == Head(item)
<1>5. v = Head(c.chunks) /\ c.chunks # <<>>
  BY <1>3, <1>4
<1> HIDE DEF v, R, b
<1>6. /\ v \in View /\ v.n \in Nat /\ Len(written) \in Nat
      /\ Read(store, v) \in Seq(FrameRec) /\ Len(Read(store, v)) = v.n /\ Rows(Read(store, v), Len(written), R)
      /\ Cached(store.heap, Without(c, v), Len(written) + v.n, b, R) /\ Bufs(Without(c, v)) \subseteq Bufs(c)
  BY <1>2, <1>5, FirstTaken
<1>7. PICK q \in Seq(FrameRec) : q = Read(store, v) /\ Len(q) = v.n /\ Rows(q, Len(written), R)
  BY <1>6
<1>8. 0 + Len(written) = Len(written)
  BY <1>6
<1>9. written \o q \in Seq(FrameRec) /\ Len(written \o q) = Len(written) + Len(q) /\ Rows(written \o q, 0, R)
  BY <1>2, <1>7, <1>8, RowsJoined
<1>10. written' = written \o q
  BY <1>1, <1>7 DEF v
<1>11. Coming' = more
  BY <1>1 DEF Coming, more
<1>12. Pending' = Without(c, v)
  <2>1. Pending' = [start |-> Len(written'), chunks |-> item' \o Coming']
    BY DEF Pending
  <2>2. Without(c, v) = [start |-> Len(written) + v.n, chunks |-> Tail(item \o more)]
    BY <1>3 DEF Without
  <2>3. Len(written') = Len(written) + v.n /\ item' \o Coming' = Tail(item \o more)
    BY <1>1, <1>4, <1>7, <1>9, <1>10, <1>11
  <2> QED BY <2>1, <2>2, <2>3
<1>13. UNCHANGED <<request, pc, store, next>> /\ Cur' = Cur
  BY <1>1 DEF ThreadVars, Cur
<1>14. PendingInv'
  <2>1. PendingInv' = (/\ written' \in Seq(FrameRec) /\ Rows(written', 0, R)
              /\ item' \in Seq(View) /\ more \in Seq(View) /\ queue \in {<<>>, <<more>>}
              /\ Cached(store.heap, Without(c, v), Len(written'), b, R))
    BY <1>1, <1>11, <1>12, <1>13 DEF PendingInv, R, b
  <2>2. Len(written') = Len(written) + v.n
    BY <1>7, <1>9, <1>10
  <2> QED BY <1>1, <1>2, <1>4, <1>6, <1>9, <1>10, <2>1, <2>2
<1>15. Bufs(Pending') \subseteq Bufs(Pending)
  BY <1>6, <1>12 DEF c
<1> QED BY <1>1, <1>14, <1>15, ThreadLeaves

-----------------------------------------------------------------------------
(***************************************************************************)
(* Every step keeps the invariant, which says what the runs check.         *)
(***************************************************************************)

LEMMA StepsSound == StoreInv /\ [Next]_vars => StoreInv'
<1> SUFFICES ASSUME StoreInv, [Next]_vars PROVE StoreInv'
  OBVIOUS
<1>1. ASSUME UNCHANGED vars PROVE StoreInv'
  <2>1. UNCHANGED ThreadVars /\ UNCHANGED <<queue, item, written, request, pc, store, next>>
    BY <1>1 DEF vars, ThreadVars
  <2>2. Pending' = Pending /\ Coming' = Coming /\ Cur' = Cur
    BY <2>1 DEF Pending, Coming, Cur
  <2>3. PendingInv' /\ Bufs(Pending') \subseteq Bufs(Pending)
    BY <2>1, <2>2 DEF StoreInv, PendingInv
  <2> QED BY <2>1, <2>3, ThreadLeaves
<1>2. CASE ScansMask
  BY <1>2, ScansMaskSound
<1>3. CASE ScanStops
  BY <1>3, EndsSoundly DEF ScanStops
<1>4. CASE OpensWithoutScan
  BY <1>4, EndsSoundly DEF OpensWithoutScan
<1>5. CASE Prepares
  BY <1>5, EndsSoundly DEF Prepares
<1>6. CASE PreparationFails
  BY <1>6, EndsSoundly DEF PreparationFails
<1>7. CASE BeginsRead
  BY <1>7, EndsSoundly DEF BeginsRead, NeedsFrames
<1>8. CASE ReadsVideo
  BY <1>8, ReadsVideoSound
<1>9. CASE ReadsMask
  BY <1>9, ReadsMaskSound
<1>10. CASE Publishes
  BY <1>10, PublishesSound
<1>11. CASE Materializes
  BY <1>11, MaterializesSound
<1>12. CASE ExecutionFails
  BY <1>12, EndsSoundly DEF ExecutionFails
<1>13. CASE Commits
  BY <1>13, CommitsSound
<1>14. CASE Skips
  BY <1>14, SkipsSound
<1>15. CASE Flushes
  BY <1>15, FlushesSound
<1>16. CASE TakesItem
  BY <1>16, TakesItemSound
<1>17. CASE WritesBlock
  BY <1>17, WritesBlockSound
<1>18. CASE Finishes
  BY <1>18, EndsSoundly DEF Finishes
<1>19. CASE ClosesReaders
  BY <1>19, EndsSoundly DEF ClosesReaders
<1>20. CASE ClosesWriter
  BY <1>20, EndsSoundly DEF ClosesWriter
<1>21. CASE Over
  BY <1>1, <1>21 DEF Over
<1> QED BY <1>1, <1>2, <1>3, <1>4, <1>5, <1>6, <1>7, <1>8, <1>9, <1>10, <1>11, <1>12, <1>13, <1>14,
           <1>15, <1>16, <1>17, <1>18, <1>19, <1>20, <1>21 DEF Next, Driver, Thread, Faults, ScanFallsShort

\* In every state the caches hold what the driver needs, and the thread what it writes, whatever the options, the windows and
\* the failures.
THEOREM StoreAlwaysSound == Spec => []StoreInv
<1>1. Init => StoreInv
  BY InitIsSound
<1>2. StoreInv /\ [Next]_vars => StoreInv'
  BY StepsSound
<1> QED BY <1>1, <1>2, PTL DEF Spec

\* What the decoders, the caches and the borrowed block hold between them.
LEMMA InputsFollow == StoreInv => InputsSound
<1> SUFFICES ASSUME StoreInv PROVE InputsSound
  OBVIOUS
<1>1. PlaceInv /\ CacheInv /\ HandInv /\ ThresholdInv
  BY DEF StoreInv
<1>2. /\ store \in StoreSet /\ store.heap \in Heap /\ store.video \in Cache
      /\ Cached(store.heap, store.video, store.video.start, Decoded, RawRel)
      /\ Cached(store.heap, store.mask, LoadStart(Cur), Decoded, MaskRel(DealStart(next)))
      /\ Cached(store.heap, store.output, LoadStart(Cur), LoadStart(next), PlanRel(request))
      /\ Cached(store.heap, store.overlap, LoadStart(next), DealStart(next), OverRel(request, next - 1))
  <2>1. store \in StoreSet
    BY <1>1 DEF CacheInv
  <2>2. store.heap \in Heap /\ store["video"] \in Cache
    BY <2>1, StoreFacts DEF Names
  <2> QED BY <1>1, <2>1, <2>2 DEF CacheInv
<1>3. /\ store.video.start \in Nat /\ Decoded \in Nat /\ store.video.start <= Decoded
      /\ store.video.start <= LoadStart(next)
  <2>1. store.video.start \in Nat
    BY <1>2, CacheFacts
  <2>2. store.video.start <= EndIndex(store.video)
    BY <1>2, CacheStarts
  <2> QED BY <1>1, <2>1, <2>2, Marks DEF PlaceInv, Decoded
<1>4. StoreTypeOK
  <2>1. Bounded(store.heap, store.video) /\ Bounded(store.heap, store.mask)
        /\ Bounded(store.heap, store.output) /\ Bounded(store.heap, store.overlap)
    BY <1>2 DEF Cached
  <2>2. ASSUME NEW c, Bounded(store.heap, c), NEW i \in DOMAIN c.chunks
        PROVE  /\ c.chunks[i].buf \in DOMAIN store.heap /\ c.chunks[i].n > 0
               /\ c.chunks[i].at + c.chunks[i].n <= Len(store.heap[c.chunks[i].buf])
    <3>1. c \in Cache /\ i \in 1..Len(c.chunks)
      BY <2>2, CacheFacts DEF Bounded
    <3> QED BY <2>2, <3>1 DEF Bounded, Lies
  <2>3. ASSUME NEW name \in Names PROVE Bounded(store.heap, store[name])
    <3>1. /\ Bounded(store.heap, store["video"]) /\ Bounded(store.heap, store["mask"])
          /\ Bounded(store.heap, store["output"]) /\ Bounded(store.heap, store["overlap"])
      BY <2>1
    <3> QED BY <3>1 DEF Names
  <2>4. EndIndex(store.video) = Decoded /\ EndIndex(store.mask) = Decoded /\ EndIndex(store.output) = LoadStart(next)
    BY <1>2 DEF Cached
  <2> QED BY <1>3, <2>2, <2>3, <2>4 DEF StoreTypeOK
<1>5. InputIsRaw
  <2>1. /\ Contents(store, store.video) \in Seq(FrameRec) /\ Len(Contents(store, store.video)) = Decoded - store.video.start
        /\ Rows(Contents(store, store.video), store.video.start, RawRel)
    BY <1>2, ContentsFacts
  <2>2. Raw \in Looks
    BY DEF Raw, Looks
  <2>3. Rows(Contents(store, store.video), store.video.start, SameRel(Raw))
    BY <2>1 DEF RawRel
  <2>4. Contents(store, store.video) = FramesOf(store.video.start, Decoded, Raw)
    BY <1>3, <2>1, <2>2, <2>3, SameFrames
  <2> QED BY <2>4 DEF InputIsRaw, Decoded
<1>6. MaskOfWindow
  <2> SUFFICES ASSUME pc = "run" PROVE hand.mask = FramesOf(Spec1.deal_start, Spec1.commit_end, "binary")
    BY DEF MaskOfWindow
  <2>1. hand.mask = FramesOf(DealStart(next), DealStart(next + 1), "binary") /\ next <= Len(Windows)
    BY <1>1 DEF HandInv, PlaceInv
  <2>2. Spec1.deal_start = DealStart(next) /\ Spec1.commit_end = DealStart(next + 1)
    BY <1>1, <2>1, Marks
  <2> QED BY <2>1, <2>2
<1>7. ThresholdIsGlobal
  BY <1>1 DEF ThresholdInv, ThresholdIsGlobal
<1>8. NothingPinned
  <2>1. ASSUME NEW c, Bounded(store.heap, c), WholeChunks(store.heap, c), NEW i \in DOMAIN c.chunks
        PROVE  c.chunks[i].n = Len(store.heap[c.chunks[i].buf])
    <3>1. c \in Cache /\ i \in 1..Len(c.chunks)
      BY <2>1, CacheFacts DEF Bounded
    <3> QED BY <2>1, <3>1 DEF WholeChunks
  <2>2. ASSUME NEW name \in {"video", "mask"} PROVE Bounded(store.heap, store[name]) /\ WholeChunks(store.heap, store[name])
    <3>1. /\ Bounded(store.heap, store["video"]) /\ WholeChunks(store.heap, store["video"])
          /\ Bounded(store.heap, store["mask"]) /\ WholeChunks(store.heap, store["mask"])
      BY <1>1, <1>2 DEF CacheInv, Cached
    <3> QED BY <3>1
  <2> QED BY <2>1, <2>2 DEF NothingPinned
<1> QED BY <1>4, <1>5, <1>6, <1>7, <1>8 DEF InputsSound

\* What the encoder has received.
LEMMA WrittenFollows == StoreInv => WrittenAsPlanned
<1> SUFFICES ASSUME StoreInv PROVE WrittenAsPlanned
  OBVIOUS
<1>1. written \in Seq(FrameRec) /\ Rows(written, 0, PlanRel(request))
  BY DEF StoreInv, PendingInv
<1>2. ASSUME NEW i \in DOMAIN written
      PROVE  \E k \in DOMAIN Windows :
                /\ i - 1 \in Windows[k].load_start..(StableEnd(Windows[k]) - 1)
                /\ written[i] = [f |-> i - 1, shows |-> ShownBy(i - 1)[k]]
  <2>1. i \in 1..Len(written) /\ Len(written) \in Nat
    BY <1>1
  <2>2. 0 + i - 1 = i - 1 /\ i - 1 \in Nat
    BY <2>1
  <2>3. <<0 + i - 1, written[i]>> \in PlanRel(request)
    BY <1>1, <2>1 DEF Rows
  <2>4. <<i - 1, written[i]>> \in PlanRel(request)
    BY <2>2, <2>3
  <2> DEFINE n == i - 1
             x == written[i]
  <2>5. <<n, x>> \in PlanRel(request)
    BY <2>4
  <2> HIDE DEF n, x
  <2>6. \E k \in DOMAIN Windows :
           /\ n \in Windows[k].load_start..(StableEnd(Windows[k]) - 1)
           /\ x = [f |-> n, shows |-> Showers(request, n)[k]]
    BY <2>5 DEF PlanRel
  <2>7. Showers(request, n) = ShownBy(n)
    BY DEF Showers, ShownBy
  <2> QED BY <2>6, <2>7 DEF n, x
<1> QED BY <1>2 DEF WrittenAsPlanned

\* What a window reads is what was decoded, under the mask of that window, in buffers that pin no memory: whichever
\* of the options replace copies by transfers of ownership and by a loan, and wherever a read or a window fails.
THEOREM InputsAlwaysSound == Spec => []InputsSound
BY StoreAlwaysSound, InputsFollow, PTL

\* Every frame that reaches the encoder shows what the plan of the windows says, whenever the writer's thread comes
\* to read the buffers.
THEOREM AlwaysWrittenAsPlanned == Spec => []WrittenAsPlanned
BY StoreAlwaysSound, WrittenFollows, PTL

-----------------------------------------------------------------------------
(***************************************************************************)
(* The writer.                                                             *)
(***************************************************************************)

-----------------------------------------------------------------------------
(***************************************************************************)
(* The inductive invariant.                                                *)
(***************************************************************************)

\* Points of the driver before it has called close.
Producing == {"producing", "checking", "offering", "writing"}

\* What the driver holds in its hand follows what it has handed over; without
\* a thread it is the rest of what it has handed over to itself.
DriverOK ==
    /\ driver \in {"checking", "offering"} =>
         Async /\ batch.first = accepted + 1 /\ batch.first <= batch.last
    /\ driver = "writing" =>
         /\ ~Async /\ ~closed
         /\ batch.first = Len(piped) + 1
         /\ batch.first <= batch.last /\ batch.last = accepted
    /\ ~Async /\ driver # "writing" /\ ~cleanup => Len(piped) = accepted
    /\ driver \in Producing => ~cleanup

\* The thread works on an item only while nothing has failed, and there is no
\* thread when the depth is 0.
ThreadOK ==
    /\ ~Async => thread = "returned" /\ asyncQueue = <<>> /\ ~error
    /\ thread = "writing" =>
         /\ ~error /\ ~closed
         /\ asyncItem.first = Len(piped) + 1
         /\ asyncItem.first <= asyncItem.last /\ asyncItem.last <= accepted
    /\ thread = "returned" => asyncQueue = <<>>
    /\ driver \in {"deciding", "waiting", "done"} => thread = "returned"
    /\ Async /\ thread = "returned" =>
         driver \notin (Producing \cup {"stopping"})

\* The last block the thread has taken from the queue.
Front == IF thread = "writing" THEN asyncItem.last ELSE Len(piped)

\* The last block before position i of the queue.
Before(i) == IF i = 1 THEN Front ELSE asyncQueue[i - 1].last

Healthy == Async /\ ~error /\ thread # "raising"

\* While nothing has failed the queue continues, item by item, where the
\* thread is, up to what has been accepted.
BacklogOK ==
    /\ \A i \in DOMAIN asyncQueue :
         \/ asyncQueue[i] = Sentinel /\ i = Len(asyncQueue) /\ driver = "joining"
         \/ asyncQueue[i].first <= asyncQueue[i].last /\ asyncQueue[i].last <= accepted
    /\ Healthy =>
         /\ \A i \in DOMAIN asyncQueue :
              asyncQueue[i] # Sentinel => asyncQueue[i].first = Before(i) + 1
         /\ IF asyncQueue = <<>> THEN Front = accepted
            ELSE IF asyncQueue[Len(asyncQueue)] = Sentinel
                 THEN Before(Len(asyncQueue)) = accepted
                 ELSE asyncQueue[Len(asyncQueue)].last = accepted

\* Who may have closed the pipe, and what is known when it is closed.
CloseOK ==
    /\ closed => \/ cleanup \/ error \/ thread = "raising"
                 \/ driver \in {"waiting", "done"}
    /\ closed => error \/ thread \in {"raising", "returned"}
    /\ closed /\ encoder = "running" => driver = "waiting"
    /\ driver = "waiting" => closed
    /\ encoder = "finished" => closed /\ driver \notin Producing
    /\ verdict # "open" <=> driver = "done"
    /\ collected = IF closed /\ driver # "waiting" THEN 1 ELSE 0
    /\ driver = "done" => closed

WInv == WriterTypeOK /\ DriverOK /\ ThreadOK /\ BacklogOK /\ CloseOK

-----------------------------------------------------------------------------
(***************************************************************************)
(* Facts about sequences, and that the writer starts well.                 *)
(***************************************************************************)

\* The positions and the items of a queue, and of an empty one.
LEMMA SeqFacts ==
    ASSUME NEW S
    PROVE  /\ <<>> \in Seq(S) /\ Len(<<>>) = 0 /\ DOMAIN <<>> = {}
           /\ \A q \in Seq(S) : /\ Len(q) \in Nat /\ DOMAIN q = 1..Len(q)
                                 /\ q = <<>> <=> Len(q) = 0
                                 /\ \A i \in DOMAIN q : q[i] \in S
OBVIOUS

\* What Queue.put does to the items that are already queued: nothing.
LEMMA AppendFacts ==
    ASSUME NEW S, NEW q \in Seq(S), NEW e \in S
    PROVE  /\ Append(q, e) \in Seq(S)
           /\ Len(Append(q, e)) = Len(q) + 1
           /\ \A i \in 1..Len(q) : Append(q, e)[i] = q[i]
           /\ Append(q, e)[Len(q) + 1] = e
OBVIOUS

\* What Queue.get leaves behind: every item one place further ahead.
LEMMA TailFacts ==
    ASSUME NEW S, NEW q \in Seq(S), q # <<>>
    PROVE  /\ Tail(q) \in Seq(S) /\ Head(q) \in S /\ Head(q) = q[1]
           /\ Len(q) \in Nat \ {0} /\ Len(Tail(q)) = Len(q) - 1
           /\ \A i \in 1..(Len(q) - 1) : Tail(q)[i] = q[i + 1]
OBVIOUS

\* A writer that has just been constructed satisfies the invariant.
LEMMA InitKeeps ==
    ASSUME WriterInit
    PROVE  WInv
<1> USE DEF WriterInit, Async, Run, Sentinel
<1>1. WriterTypeOK
  <2>1. depth \in Nat /\ asyncQueue \in Seq(Runs) /\ Len(asyncQueue) <= depth
    BY WriterAssumption, SeqFacts
  <2> QED BY <2>1, SeqFacts DEF WriterTypeOK, Runs
<1>2. DriverOK
  BY SeqFacts DEF DriverOK, Producing
<1>3. ThreadOK
  BY SeqFacts DEF ThreadOK, Producing
<1>4. BacklogOK
  BY SeqFacts DEF BacklogOK, Front
<1>5. CloseOK
  BY DEF CloseOK, Producing
<1> QED BY <1>1, <1>2, <1>3, <1>4, <1>5 DEF WInv

-----------------------------------------------------------------------------
(***************************************************************************)
(* Every step keeps it.                                                    *)
(***************************************************************************)

\* The driver takes the next blocks into its hand.
LEMMA FlushBeginsKeeps ==
    ASSUME NEW n \in 1..MaxBatch, WInv, FlushBegins(n), UNCHANGED depth
    PROVE  WInv'
<1> USE DEF WInv, FlushBegins, Run, Async, threadVars, flagVars, encoderVars
<1>1. WriterTypeOK'
  BY WriterAssumption DEF WriterTypeOK, DriverOK, ThreadOK, Runs, Producing
<1>2. DriverOK'
  <2>1. accepted \in Nat /\ n \in Nat /\ n > 0 /\ depth' = depth
    BY WriterAssumption DEF WriterTypeOK
  <2>2. batch'.first = accepted + 1 /\ batch'.last = accepted + n
    OBVIOUS
  <2>3. CASE Async
    BY <2>1, <2>2, <2>3 DEF DriverOK, Producing
  <2>4. CASE ~Async
    <3>1. Len(piped) = accepted
      BY <2>4 DEF DriverOK, Producing
    <3>2. ~cleanup /\ ~error /\ thread = "returned"
      BY <2>4 DEF DriverOK, ThreadOK, Producing
    <3>3. ~closed
      BY <2>4, <3>2 DEF CloseOK
    <3> QED BY <2>1, <2>2, <2>4, <3>1, <3>3 DEF DriverOK, Producing
  <2> QED BY <2>3, <2>4
<1>3. ThreadOK'
  BY WriterAssumption DEF WriterTypeOK, ThreadOK, DriverOK, BacklogOK,
      CloseOK, Runs, Producing, Sentinel, Healthy, Before, Front
<1>4. BacklogOK'
  <2>1. CASE Async
    BY <2>1 DEF BacklogOK, Healthy, Front, Before
  <2>2. CASE ~Async
    BY <2>2 DEF ThreadOK, BacklogOK, Healthy
  <2> QED BY <2>1, <2>2
<1>5. CloseOK'
  BY WriterAssumption DEF WriterTypeOK, CloseOK, ThreadOK, DriverOK, Runs,
      Producing
<1> QED BY <1>1, <1>2, <1>3, <1>4, <1>5

\* _enqueue_async looks at _async_error.
LEMMA EnqueueChecksKeeps ==
    ASSUME WInv, EnqueueChecks, UNCHANGED depth
    PROVE  WInv'
<1> USE DEF WInv, EnqueueChecks, threadVars, flagVars, encoderVars, Async
<1>1. WriterTypeOK'
  BY DEF WriterTypeOK, DriverOK, ThreadOK, Runs, Producing
<1>2. DriverOK'
  BY DEF WriterTypeOK, DriverOK, ThreadOK, CloseOK, BacklogOK, Runs,
      Producing, Sentinel, Healthy, Before, Front, Run
<1>3. ThreadOK'
  BY DEF WriterTypeOK, ThreadOK, DriverOK, BacklogOK, CloseOK, Runs,
      Producing, Sentinel, Healthy, Before, Front, Run
<1>4. BacklogOK'
  BY DEF WriterTypeOK, BacklogOK, ThreadOK, DriverOK, CloseOK, Runs, Sentinel,
      Healthy, Before, Front, Producing, Run
<1>5. CloseOK'
  BY DEF WriterTypeOK, CloseOK, ThreadOK, DriverOK, Runs, Producing
<1> QED BY <1>1, <1>2, <1>3, <1>4, <1>5

\* The batch becomes the last item of the queue.
LEMMA EnqueuePutsKeeps ==
    ASSUME WInv, EnqueuePuts, UNCHANGED depth
    PROVE  WInv'
<1> USE DEF WInv, EnqueuePuts, Size, Sentinel, threadVars, flagVars,
      encoderVars, Run, Async
<1>1. WriterTypeOK'
  BY DEF WriterTypeOK, DriverOK, ThreadOK, Runs, Producing
<1>2. DriverOK'
  BY DEF WriterTypeOK, DriverOK, ThreadOK, CloseOK, BacklogOK, Runs,
      Producing, Healthy, Before, Front
<1>3. ThreadOK'
  BY DEF WriterTypeOK, ThreadOK, DriverOK, BacklogOK, CloseOK, Runs,
      Producing, Healthy, Before, Front
<1>4. BacklogOK'
  <2>1. asyncQueue \in Seq(Runs) /\ batch \in Runs /\ accepted \in Nat
    BY DEF WriterTypeOK
  <2>2. batch.first = accepted + 1 /\ batch.first <= batch.last
    BY DEF DriverOK
  <2>3. accepted' = batch.last
    BY <2>1, <2>2 DEF Runs
  <2>4. batch # Sentinel
    BY <2>1, <2>2
  <2>5. /\ asyncQueue' \in Seq(Runs) /\ Len(asyncQueue') = Len(asyncQueue) + 1
        /\ \A i \in 1..Len(asyncQueue) : asyncQueue'[i] = asyncQueue[i]
        /\ asyncQueue'[Len(asyncQueue) + 1] = batch
    BY <2>1, AppendFacts
  <2>6. \A i \in DOMAIN asyncQueue :
          asyncQueue[i].first <= asyncQueue[i].last /\ asyncQueue[i].last <= accepted
    BY DEF BacklogOK
  <2>7. \A i \in DOMAIN asyncQueue' :
          asyncQueue'[i].first <= asyncQueue'[i].last /\ asyncQueue'[i].last <= accepted'
    <3>1. \A i \in DOMAIN asyncQueue :
            asyncQueue[i] \in Runs /\ asyncQueue[i].last \in Nat /\ asyncQueue[i].last <= batch.last
      <4>1. accepted < batch.last /\ batch.last \in Nat
        BY <2>1, <2>2 DEF Runs
      <4>2. \A i \in DOMAIN asyncQueue : asyncQueue[i] \in Runs /\ asyncQueue[i].last \in Nat
        <5>1. \A i \in DOMAIN asyncQueue : asyncQueue[i] \in Runs
          BY <2>1, SeqFacts
        <5> QED BY <5>1 DEF Runs
      <4> QED BY <2>1, <2>6, <4>1, <4>2
    <3>2. DOMAIN asyncQueue' = 1..(Len(asyncQueue) + 1) /\ DOMAIN asyncQueue = 1..Len(asyncQueue)
      BY <2>1, <2>5
    <3>3. \A i \in DOMAIN asyncQueue' : i \in DOMAIN asyncQueue \/ i = Len(asyncQueue) + 1
      BY <2>1, <3>2
    <3>4. ASSUME NEW i \in DOMAIN asyncQueue
          PROVE  asyncQueue'[i].first <= asyncQueue'[i].last /\ asyncQueue'[i].last <= accepted'
      <4>1. asyncQueue'[i] = asyncQueue[i]
        BY <2>5, <3>2
      <4> QED BY <2>3, <2>6, <3>1, <4>1
    <3>5. ASSUME NEW i, i = Len(asyncQueue) + 1
          PROVE  asyncQueue'[i].first <= asyncQueue'[i].last /\ asyncQueue'[i].last <= accepted'
      <4>1. asyncQueue'[i] = batch
        BY <2>5, <3>5
      <4> QED BY <2>1, <2>2, <2>3, <4>1 DEF Runs
    <3> QED BY <3>3, <3>4, <3>5
  <2>8. ASSUME Healthy'
        PROVE  /\ \A i \in DOMAIN asyncQueue' :
                    asyncQueue'[i] # Sentinel => asyncQueue'[i].first = Before(i)' + 1
               /\ asyncQueue' # <<>> /\ asyncQueue'[Len(asyncQueue')].last = accepted'
    <3>1. Healthy /\ Front' = Front
      BY <2>8 DEF Healthy, Front
    <3>2. \A i \in DOMAIN asyncQueue : asyncQueue[i] # Sentinel
      BY <2>1, <2>6 DEF Runs
    <3>3. \A i \in 1..Len(asyncQueue) : asyncQueue'[i].first = Before(i)' + 1
      BY <2>1, <2>5, <3>1, <3>2 DEF BacklogOK, Before
    <3>4. ASSUME NEW i, i = Len(asyncQueue) + 1
          PROVE  Before(i)' = accepted
      <4>1. CASE asyncQueue = <<>>
        BY <2>1, <3>1, <3>4, <4>1, SeqFacts DEF BacklogOK, Before
      <4>2. CASE asyncQueue # <<>>
        <5>1. Len(asyncQueue) \in DOMAIN asyncQueue /\ Len(asyncQueue) \in Nat \ {0}
          BY <2>1, <4>2, SeqFacts
        <5>2. asyncQueue[Len(asyncQueue)].last = accepted
          BY <3>1, <3>2, <4>2, <5>1 DEF BacklogOK
        <5> QED BY <2>5, <3>4, <5>1, <5>2 DEF Before
      <4> QED BY <4>1, <4>2
    <3>5. DOMAIN asyncQueue' = 1..(Len(asyncQueue) + 1) /\ Len(asyncQueue) \in Nat
      BY <2>1, <2>5
    <3>6. asyncQueue' # <<>> /\ asyncQueue'[Len(asyncQueue')].last = accepted'
      BY <2>3, <2>5, <3>5, SeqFacts
    <3>7. \A i \in DOMAIN asyncQueue' : i \in 1..Len(asyncQueue) \/ i = Len(asyncQueue) + 1
      BY <3>5
    <3> QED BY <2>2, <2>5, <3>3, <3>4, <3>6, <3>7
  <2>9. asyncQueue' # <<>> /\ asyncQueue'[Len(asyncQueue')] # Sentinel
    BY <2>1, <2>4, <2>5
  <2> QED BY <2>7, <2>8, <2>9 DEF BacklogOK
<1>5. CloseOK'
  BY DEF WriterTypeOK, CloseOK, ThreadOK, DriverOK, Runs, Producing
<1> QED BY <1>1, <1>2, <1>3, <1>4, <1>5

\* Queue.put gives up on a full queue.
LEMMA EnqueueTimesOutKeeps ==
    ASSUME WInv, EnqueueTimesOut, UNCHANGED depth
    PROVE  WInv'
<1> USE DEF WInv, EnqueueTimesOut, threadVars, flagVars, encoderVars, Async
<1>1. WriterTypeOK'
  BY DEF WriterTypeOK, DriverOK, ThreadOK, Runs, Producing
<1>2. DriverOK'
  BY DEF WriterTypeOK, DriverOK, ThreadOK, CloseOK, BacklogOK, Runs,
      Producing, Sentinel, Healthy, Before, Front, Run
<1>3. ThreadOK'
  BY DEF WriterTypeOK, ThreadOK, DriverOK, BacklogOK, CloseOK, Runs,
      Producing, Sentinel, Healthy, Before, Front, Run
<1>4. BacklogOK'
  BY DEF WriterTypeOK, BacklogOK, ThreadOK, DriverOK, CloseOK, Runs, Sentinel,
      Healthy, Before, Front, Producing, Run
<1>5. CloseOK'
  BY DEF WriterTypeOK, CloseOK, ThreadOK, DriverOK, Runs, Producing
<1> QED BY <1>1, <1>2, <1>3, <1>4, <1>5

\* Without a thread the driver writes one block.
LEMMA DriverWritesKeeps ==
    ASSUME WInv, DriverWrites, UNCHANGED depth
    PROVE  WInv'
<1> USE DEF WInv, DriverWrites, PipeTakes, AfterFirst, threadVars, flagVars,
      Run, Async
<1>1. WriterTypeOK'
  BY DEF WriterTypeOK, DriverOK, ThreadOK, Runs, Producing
<1>2. DriverOK'
  BY DEF WriterTypeOK, DriverOK, ThreadOK, CloseOK, BacklogOK, Runs,
      Producing, Sentinel, Healthy, Before, Front
<1>3. ThreadOK'
  BY DEF WriterTypeOK, ThreadOK, DriverOK, BacklogOK, CloseOK, Runs,
      Producing, Sentinel, Healthy, Before, Front
<1>4. BacklogOK'
  BY DEF WriterTypeOK, BacklogOK, ThreadOK, DriverOK, CloseOK, Runs, Sentinel,
      Healthy, Before, Front, Producing
<1>5. CloseOK'
  BY DEF WriterTypeOK, CloseOK, ThreadOK, DriverOK, Runs, Producing
<1> QED BY <1>1, <1>2, <1>3, <1>4, <1>5

\* The driver collects a dead encoder.
LEMMA DriverMeetsBrokenPipeKeeps ==
    ASSUME WInv, DriverMeetsBrokenPipe, UNCHANGED depth
    PROVE  WInv'
<1> USE DEF WInv, DriverMeetsBrokenPipe, PipeIsBroken, ShutsPipe, Reaps,
      Sentinel, threadVars, Run, Async
<1>1. WriterTypeOK'
  BY DEF WriterTypeOK, DriverOK, ThreadOK, Runs, Producing
<1>2. DriverOK'
  BY DEF WriterTypeOK, DriverOK, ThreadOK, CloseOK, BacklogOK, Runs,
      Producing, Healthy, Before, Front
<1>3. ThreadOK'
  BY DEF WriterTypeOK, ThreadOK, DriverOK, BacklogOK, CloseOK, Runs,
      Producing, Healthy, Before, Front
<1>4. BacklogOK'
  BY DEF WriterTypeOK, BacklogOK, ThreadOK, DriverOK, CloseOK, Runs, Healthy,
      Before, Front, Producing
<1>5. CloseOK'
  BY DEF WriterTypeOK, CloseOK, ThreadOK, DriverOK, Runs, Producing
<1> QED BY <1>1, <1>2, <1>3, <1>4, <1>5

\* The request ends early.
LEMMA RequestFailsKeeps ==
    ASSUME WInv, RequestFails, UNCHANGED depth
    PROVE  WInv'
<1> USE DEF WInv, RequestFails, threadVars, flagVars, encoderVars, Async
<1>1. WriterTypeOK'
  BY DEF WriterTypeOK, DriverOK, ThreadOK, Runs, Producing
<1>2. DriverOK'
  BY DEF WriterTypeOK, DriverOK, ThreadOK, CloseOK, BacklogOK, Runs,
      Producing, Sentinel, Healthy, Before, Front, Run
<1>3. ThreadOK'
  BY DEF WriterTypeOK, ThreadOK, DriverOK, BacklogOK, CloseOK, Runs,
      Producing, Sentinel, Healthy, Before, Front, Run
<1>4. BacklogOK'
  BY DEF WriterTypeOK, BacklogOK, ThreadOK, DriverOK, CloseOK, Runs, Sentinel,
      Healthy, Before, Front, Producing, Run
<1>5. CloseOK'
  BY DEF WriterTypeOK, CloseOK, ThreadOK, DriverOK, Runs, Producing
<1> QED BY <1>1, <1>2, <1>3, <1>4, <1>5

\* finalize_output begins.
LEMMA FinalizesKeeps ==
    ASSUME WInv, Finalizes, UNCHANGED depth
    PROVE  WInv'
<1> USE DEF WInv, Finalizes, threadVars, flagVars, encoderVars, Async
<1>1. WriterTypeOK'
  BY DEF WriterTypeOK, DriverOK, ThreadOK, Runs, Producing
<1>2. DriverOK'
  BY DEF WriterTypeOK, DriverOK, ThreadOK, CloseOK, BacklogOK, Runs,
      Producing, Sentinel, Healthy, Before, Front, Run
<1>3. ThreadOK'
  BY DEF WriterTypeOK, ThreadOK, DriverOK, BacklogOK, CloseOK, Runs,
      Producing, Sentinel, Healthy, Before, Front, Run
<1>4. BacklogOK'
  BY DEF WriterTypeOK, BacklogOK, ThreadOK, DriverOK, CloseOK, Runs, Sentinel,
      Healthy, Before, Front, Producing, Run
<1>5. CloseOK'
  BY DEF WriterTypeOK, CloseOK, ThreadOK, DriverOK, Runs, Producing
<1> QED BY <1>1, <1>2, <1>3, <1>4, <1>5

\* The thread takes the first item of the queue.
LEMMA ThreadGetsKeeps ==
    ASSUME WInv, ThreadGets, UNCHANGED depth
    PROVE  WInv'
<1> USE DEF WInv, ThreadGets, Sentinel, threadVars, driverVars, flagVars,
      encoderVars, Run, Async
<1>1. WriterTypeOK'
  <2>1. Tail(asyncQueue) \in Seq(Runs) /\ Head(asyncQueue) \in Runs
    BY TailFacts DEF WriterTypeOK
  <2> QED BY <2>1 DEF WriterTypeOK
<1>2. DriverOK'
  BY DEF WriterTypeOK, DriverOK, ThreadOK, CloseOK, BacklogOK, Runs,
      Producing, Healthy, Before, Front
<1>3. ThreadOK'
  <2>1. /\ asyncQueue' \in Seq(Runs) /\ Head(asyncQueue) = asyncQueue[1]
        /\ Len(asyncQueue) \in Nat \ {0} /\ Len(asyncQueue') = Len(asyncQueue) - 1
    BY TailFacts DEF WriterTypeOK
  <2>2. Async /\ 1 \in DOMAIN asyncQueue
    BY <2>1 DEF WriterTypeOK, ThreadOK
  <2>3. CASE Head(asyncQueue) = Sentinel
    <3>1. ~(asyncQueue[1].first <= asyncQueue[1].last)
      BY <2>1, <2>3
    <3>2. Len(asyncQueue) = 1 /\ driver = "joining"
      BY <2>2, <3>1 DEF BacklogOK
    <3>3. asyncQueue' = <<>>
      BY <2>1, <3>2, SeqFacts
    <3> QED BY <2>2, <2>3, <3>2, <3>3 DEF ThreadOK, Producing
  <2>4. CASE Head(asyncQueue) # Sentinel /\ error
    BY <2>2, <2>4 DEF ThreadOK
  <2>5. CASE Head(asyncQueue) # Sentinel /\ ~error
    <3>1. Healthy /\ Front = Len(piped) /\ Before(1) = Len(piped)
      BY <2>2, <2>5 DEF Healthy, Front, Before
    <3>2. asyncItem' = asyncQueue[1] /\ asyncItem'.first = Len(piped) + 1
      BY <2>1, <2>2, <2>5, <3>1 DEF BacklogOK
    <3>3. asyncItem'.first <= asyncItem'.last /\ asyncItem'.last <= accepted
      BY <2>1, <2>2, <2>5, <3>2 DEF BacklogOK
    <3>4. ~closed
      BY <2>5 DEF CloseOK
    <3> QED BY <2>2, <2>5, <3>2, <3>3, <3>4 DEF ThreadOK
  <2> QED BY <2>3, <2>4, <2>5
<1>4. BacklogOK'
  <2>1. /\ asyncQueue' \in Seq(Runs) /\ Head(asyncQueue) = asyncQueue[1]
        /\ Len(asyncQueue) \in Nat \ {0} /\ Len(asyncQueue') = Len(asyncQueue) - 1
        /\ \A i \in 1..(Len(asyncQueue) - 1) : asyncQueue'[i] = asyncQueue[i + 1]
    BY TailFacts DEF WriterTypeOK
  <2>2. asyncQueue \in Seq(Runs) /\ accepted \in Nat
    BY DEF WriterTypeOK
  <2>3. \A i \in DOMAIN asyncQueue' :
          \/ asyncQueue'[i] = Sentinel /\ i = Len(asyncQueue') /\ driver' = "joining"
          \/ asyncQueue'[i].first <= asyncQueue'[i].last /\ asyncQueue'[i].last <= accepted'
    <3>1. TAKE i \in DOMAIN asyncQueue'
    <3>2. i \in 1..(Len(asyncQueue) - 1) /\ i + 1 \in DOMAIN asyncQueue
      BY <2>1, <2>2
    <3>3. \/ asyncQueue[i + 1] = Sentinel /\ i + 1 = Len(asyncQueue) /\ driver = "joining"
          \/ /\ asyncQueue[i + 1].first <= asyncQueue[i + 1].last
             /\ asyncQueue[i + 1].last <= accepted
      BY <3>2 DEF BacklogOK
    <3> QED BY <2>1, <3>2, <3>3
  <2>4. CASE Head(asyncQueue) = Sentinel
    <3>1. Len(asyncQueue) = 1 /\ asyncQueue' = <<>>
      <4>1. 1 \in DOMAIN asyncQueue /\ ~(asyncQueue[1].first <= asyncQueue[1].last)
        BY <2>1, <2>2, <2>4
      <4>2. Len(asyncQueue) = 1
        BY <4>1 DEF BacklogOK
      <4> QED BY <2>1, <4>2, SeqFacts
    <3>2. ASSUME Healthy'
          PROVE  Front' = accepted'
      BY <2>1, <2>2, <2>4, <3>1, <3>2 DEF Healthy, BacklogOK, Front, Before
    <3> QED BY <3>1, <3>2, <2>1 DEF BacklogOK
  <2>5. CASE Head(asyncQueue) # Sentinel /\ error
    BY <2>3, <2>5 DEF BacklogOK, Healthy
  <2>6. CASE Head(asyncQueue) # Sentinel /\ ~error
    <3>1. Front' = asyncQueue[1].last /\ (Healthy' => Healthy)
      BY <2>1, <2>6 DEF Front, Healthy
    <3>2. \A i \in DOMAIN asyncQueue' : Before(i)' = Before(i + 1)
      BY <2>1, <2>2, <3>1 DEF Before
    <3>3. ASSUME Healthy'
          PROVE  \A i \in DOMAIN asyncQueue' :
                   asyncQueue'[i] # Sentinel => asyncQueue'[i].first = Before(i)' + 1
      <4>1. \A j \in DOMAIN asyncQueue :
              asyncQueue[j] # Sentinel => asyncQueue[j].first = Before(j) + 1
        BY <3>1, <3>3 DEF BacklogOK
      <4>2. \A i \in DOMAIN asyncQueue' :
              i + 1 \in DOMAIN asyncQueue /\ asyncQueue'[i] = asyncQueue[i + 1]
        BY <2>1, <2>2
      <4> QED BY <4>1, <4>2, <3>2
    <3>4. ASSUME Healthy'
          PROVE  IF asyncQueue' = <<>> THEN Front' = accepted'
                 ELSE IF asyncQueue'[Len(asyncQueue')] = Sentinel
                      THEN Before(Len(asyncQueue))' = accepted'
                      ELSE asyncQueue'[Len(asyncQueue')].last = accepted'
      <4>1. asyncQueue # <<>> /\ IF asyncQueue[Len(asyncQueue)] = Sentinel
                            THEN Before(Len(asyncQueue)) = accepted
                            ELSE asyncQueue[Len(asyncQueue)].last = accepted
        BY <3>1, <3>4 DEF BacklogOK
      <4>2. CASE asyncQueue' = <<>>
        <5>1. Len(asyncQueue) = 1
          <6>1. Len(asyncQueue') = 0
            BY <4>2, SeqFacts
          <6> QED BY <2>1, <6>1
        <5> QED BY <2>1, <2>6, <3>1, <4>1, <4>2, <5>1
      <4>3. CASE asyncQueue' # <<>>
        <5>1. /\ Len(asyncQueue') \in DOMAIN asyncQueue' /\ Len(asyncQueue') + 1 = Len(asyncQueue)
              /\ asyncQueue'[Len(asyncQueue')] = asyncQueue[Len(asyncQueue)]
          BY <2>1, <2>2, <4>3
        <5>2. Before(Len(asyncQueue))' = Before(Len(asyncQueue))
          BY <3>2, <5>1
        <5> QED BY <4>1, <4>3, <5>1, <5>2
      <4> QED BY <4>2, <4>3
    <3> QED BY <2>3, <3>3, <3>4 DEF BacklogOK
  <2> QED BY <2>4, <2>5, <2>6
<1>5. CloseOK'
  BY DEF WriterTypeOK, CloseOK, ThreadOK, DriverOK, Runs, Producing
<1> QED BY <1>1, <1>2, <1>3, <1>4, <1>5

\* The thread writes one block of its item.
LEMMA ThreadWritesKeeps ==
    ASSUME WInv, ThreadWrites, UNCHANGED depth
    PROVE  WInv'
<1> USE DEF WInv, ThreadWrites, PipeTakes, AfterFirst, driverVars, flagVars,
      Run, Async
<1>1. WriterTypeOK'
  BY DEF WriterTypeOK, DriverOK, ThreadOK, Runs, Producing
<1>2. DriverOK'
  BY DEF WriterTypeOK, DriverOK, ThreadOK, CloseOK, BacklogOK, Runs,
      Producing, Sentinel, Healthy, Before, Front
<1>3. ThreadOK'
  BY DEF WriterTypeOK, ThreadOK, DriverOK, BacklogOK, CloseOK, Runs,
      Producing, Sentinel, Healthy, Before, Front
<1>4. BacklogOK'
  <2>1. asyncItem.first = Len(piped) + 1 /\ asyncItem.first <= asyncItem.last /\ asyncItem \in Runs
    BY DEF ThreadOK, WriterTypeOK
  <2>2. Len(piped) \in Nat /\ Len(piped') = Len(piped) + 1
    BY <2>1 DEF WriterTypeOK, Runs
  <2>3. Front' = Front
    BY <2>1, <2>2 DEF Front, Runs
  <2>4. (Healthy' => Healthy) /\ \A i \in DOMAIN asyncQueue : Before(i)' = Before(i)
    BY <2>3 DEF Healthy, Before
  <2> QED
    <3>1. asyncQueue' = asyncQueue /\ accepted' = accepted /\ driver' = driver
      OBVIOUS
    <3>2. Before(Len(asyncQueue))' = Before(Len(asyncQueue))
      BY <2>3, <3>1 DEF Before
    <3> QED BY <2>3, <2>4, <3>1, <3>2 DEF BacklogOK
<1>5. CloseOK'
  BY DEF WriterTypeOK, CloseOK, ThreadOK, DriverOK, Runs, Producing
<1> QED BY <1>1, <1>2, <1>3, <1>4, <1>5

\* The thread collects a dead encoder.
LEMMA ThreadMeetsBrokenPipeKeeps ==
    ASSUME WInv, ThreadMeetsBrokenPipe, UNCHANGED depth
    PROVE  WInv'
<1> USE DEF WInv, ThreadMeetsBrokenPipe, PipeIsBroken, ShutsPipe, Reaps,
      driverVars, Async
<1>1. WriterTypeOK'
  BY DEF WriterTypeOK, DriverOK, ThreadOK, Runs, Producing
<1>2. DriverOK'
  BY DEF WriterTypeOK, DriverOK, ThreadOK, CloseOK, BacklogOK, Runs,
      Producing, Sentinel, Healthy, Before, Front, Run
<1>3. ThreadOK'
  BY DEF WriterTypeOK, ThreadOK, DriverOK, BacklogOK, CloseOK, Runs,
      Producing, Sentinel, Healthy, Before, Front, Run
<1>4. BacklogOK'
  BY DEF WriterTypeOK, BacklogOK, ThreadOK, DriverOK, CloseOK, Runs, Sentinel,
      Healthy, Before, Front, Producing, Run
<1>5. CloseOK'
  BY DEF WriterTypeOK, CloseOK, ThreadOK, DriverOK, Runs, Producing
<1> QED BY <1>1, <1>2, <1>3, <1>4, <1>5

\* The thread sets _async_error.
LEMMA ThreadRecordsErrorKeeps ==
    ASSUME WInv, ThreadRecordsError, UNCHANGED depth
    PROVE  WInv'
<1> USE DEF WInv, ThreadRecordsError, Sentinel, driverVars, encoderVars, Run,
      Async
<1>1. WriterTypeOK'
  BY DEF WriterTypeOK, DriverOK, ThreadOK, Runs, Producing
<1>2. DriverOK'
  BY DEF WriterTypeOK, DriverOK, ThreadOK, CloseOK, BacklogOK, Runs,
      Producing, Healthy, Before, Front
<1>3. ThreadOK'
  BY DEF WriterTypeOK, ThreadOK, DriverOK, BacklogOK, CloseOK, Runs,
      Producing, Healthy, Before, Front
<1>4. BacklogOK'
  BY DEF WriterTypeOK, BacklogOK, ThreadOK, DriverOK, CloseOK, Runs, Healthy,
      Before, Front, Producing
<1>5. CloseOK'
  BY DEF WriterTypeOK, CloseOK, ThreadOK, DriverOK, Runs, Producing
<1> QED BY <1>1, <1>2, <1>3, <1>4, <1>5

\* The thread fails without touching the process.
LEMMA ThreadFailsKeeps ==
    ASSUME WInv, ThreadFails, UNCHANGED depth
    PROVE  WInv'
<1> USE DEF WInv, ThreadFails, Sentinel, driverVars, encoderVars, Run, Async
<1>1. WriterTypeOK'
  BY DEF WriterTypeOK, DriverOK, ThreadOK, Runs, Producing
<1>2. DriverOK'
  BY DEF WriterTypeOK, DriverOK, ThreadOK, CloseOK, BacklogOK, Runs,
      Producing, Healthy, Before, Front
<1>3. ThreadOK'
  BY DEF WriterTypeOK, ThreadOK, DriverOK, BacklogOK, CloseOK, Runs,
      Producing, Healthy, Before, Front
<1>4. BacklogOK'
  BY DEF WriterTypeOK, BacklogOK, ThreadOK, DriverOK, CloseOK, Runs, Healthy,
      Before, Front, Producing
<1>5. CloseOK'
  BY DEF WriterTypeOK, CloseOK, ThreadOK, DriverOK, Runs, Producing
<1> QED BY <1>1, <1>2, <1>3, <1>4, <1>5

\* close looks whether the thread is alive.
LEMMA CloseBeginsKeeps ==
    ASSUME WInv, CloseBegins, UNCHANGED depth
    PROVE  WInv'
<1> USE DEF WInv, CloseBegins, ThreadAlive, threadVars, flagVars, encoderVars,
      Async
<1>1. WriterTypeOK'
  BY DEF WriterTypeOK, DriverOK, ThreadOK, Runs, Producing
<1>2. DriverOK'
  BY DEF WriterTypeOK, DriverOK, ThreadOK, CloseOK, BacklogOK, Runs,
      Producing, Sentinel, Healthy, Before, Front, Run
<1>3. ThreadOK'
  BY DEF WriterTypeOK, ThreadOK, DriverOK, BacklogOK, CloseOK, Runs,
      Producing, Sentinel, Healthy, Before, Front, Run
<1>4. BacklogOK'
  BY DEF WriterTypeOK, BacklogOK, ThreadOK, DriverOK, CloseOK, Runs, Sentinel,
      Healthy, Before, Front, Producing, Run
<1>5. CloseOK'
  BY DEF WriterTypeOK, CloseOK, ThreadOK, DriverOK, Runs, Producing
<1> QED BY <1>1, <1>2, <1>3, <1>4, <1>5

\* The sentinel becomes the last item of the queue.
LEMMA ClosePutsSentinelKeeps ==
    ASSUME WInv, ClosePutsSentinel, UNCHANGED depth
    PROVE  WInv'
<1> USE DEF WInv, ClosePutsSentinel, Sentinel, threadVars, flagVars,
      encoderVars, Run, Async
<1>1. WriterTypeOK'
  BY DEF WriterTypeOK, DriverOK, ThreadOK, Runs, Producing
<1>2. DriverOK'
  BY DEF WriterTypeOK, DriverOK, ThreadOK, CloseOK, BacklogOK, Runs,
      Producing, Healthy, Before, Front
<1>3. ThreadOK'
  BY DEF WriterTypeOK, ThreadOK, DriverOK, BacklogOK, CloseOK, Runs,
      Producing, Healthy, Before, Front
<1>4. BacklogOK'
  <2>1. asyncQueue \in Seq(Runs) /\ accepted \in Nat /\ Sentinel \in Runs
    BY DEF WriterTypeOK, Runs
  <2>2. /\ asyncQueue' \in Seq(Runs) /\ Len(asyncQueue') = Len(asyncQueue) + 1
        /\ \A i \in 1..Len(asyncQueue) : asyncQueue'[i] = asyncQueue[i]
        /\ asyncQueue'[Len(asyncQueue) + 1] = Sentinel
    BY <2>1, AppendFacts
  <2>3. \A i \in DOMAIN asyncQueue :
          asyncQueue[i].first <= asyncQueue[i].last /\ asyncQueue[i].last <= accepted
    BY DEF BacklogOK
  <2>4. \A i \in DOMAIN asyncQueue' :
          \/ asyncQueue'[i] = Sentinel /\ i = Len(asyncQueue') /\ driver' = "joining"
          \/ asyncQueue'[i].first <= asyncQueue'[i].last /\ asyncQueue'[i].last <= accepted'
    BY <2>1, <2>2, <2>3
  <2>5. ASSUME Healthy'
        PROVE  /\ \A i \in DOMAIN asyncQueue' :
                    asyncQueue'[i] # Sentinel => asyncQueue'[i].first = Before(i)' + 1
               /\ Before(Len(asyncQueue))' = accepted'
    <3>1. Healthy /\ Front' = Front
      BY <2>5 DEF Healthy, Front
    <3>2. \A i \in DOMAIN asyncQueue : asyncQueue[i] # Sentinel
      BY <2>1, <2>3 DEF Runs
    <3>3. \A i \in 1..Len(asyncQueue) : asyncQueue'[i].first = Before(i)' + 1
      BY <2>1, <2>2, <3>1, <3>2 DEF BacklogOK, Before
    <3>4. ASSUME NEW i, i = Len(asyncQueue) + 1
          PROVE  Before(i)' = accepted
      <4>1. CASE asyncQueue = <<>>
        BY <2>1, <3>1, <3>4, <4>1, SeqFacts DEF BacklogOK, Before
      <4>2. CASE asyncQueue # <<>>
        <5>1. Len(asyncQueue) \in DOMAIN asyncQueue /\ Len(asyncQueue) \in Nat \ {0}
          BY <2>1, <4>2, SeqFacts
        <5>2. asyncQueue[Len(asyncQueue)].last = accepted
          BY <3>1, <3>2, <4>2, <5>1 DEF BacklogOK
        <5> QED BY <2>2, <3>4, <5>1, <5>2 DEF Before
      <4> QED BY <4>1, <4>2
    <3>5. DOMAIN asyncQueue' = 1..(Len(asyncQueue) + 1) /\ Len(asyncQueue) \in Nat
      BY <2>1, <2>2
    <3>6. Before(Len(asyncQueue))' = accepted
      BY <2>2, <3>4
    <3>7. \A i \in DOMAIN asyncQueue' : i \in 1..Len(asyncQueue) \/ i = Len(asyncQueue) + 1
      BY <3>5
    <3> QED BY <2>2, <3>3, <3>4, <3>6, <3>7
  <2>6. asyncQueue' # <<>> /\ asyncQueue'[Len(asyncQueue')] = Sentinel
    BY <2>1, <2>2
  <2> QED BY <2>4, <2>5, <2>6 DEF BacklogOK
<1>5. CloseOK'
  BY DEF WriterTypeOK, CloseOK, ThreadOK, DriverOK, Runs, Producing
<1> QED BY <1>1, <1>2, <1>3, <1>4, <1>5

\* The thread has returned.
LEMMA CloseJoinsKeeps ==
    ASSUME WInv, CloseJoins, UNCHANGED depth
    PROVE  WInv'
<1> USE DEF WInv, CloseJoins, ThreadAlive, threadVars, flagVars, encoderVars,
      Async
<1>1. WriterTypeOK'
  BY DEF WriterTypeOK, DriverOK, ThreadOK, Runs, Producing
<1>2. DriverOK'
  BY DEF WriterTypeOK, DriverOK, ThreadOK, CloseOK, BacklogOK, Runs,
      Producing, Sentinel, Healthy, Before, Front, Run
<1>3. ThreadOK'
  BY DEF WriterTypeOK, ThreadOK, DriverOK, BacklogOK, CloseOK, Runs,
      Producing, Sentinel, Healthy, Before, Front, Run
<1>4. BacklogOK'
  BY DEF WriterTypeOK, BacklogOK, ThreadOK, DriverOK, CloseOK, Runs, Sentinel,
      Healthy, Before, Front, Producing, Run
<1>5. CloseOK'
  BY DEF WriterTypeOK, CloseOK, ThreadOK, DriverOK, Runs, Producing
<1> QED BY <1>1, <1>2, <1>3, <1>4, <1>5

\* Somebody else has collected the process.
LEMMA CloseFindsClosedKeeps ==
    ASSUME WInv, CloseFindsClosed, UNCHANGED depth
    PROVE  WInv'
<1> USE DEF WInv, CloseFindsClosed, CloseEnds, threadVars, flagVars,
      encoderVars, Async
<1>1. WriterTypeOK'
  BY DEF WriterTypeOK, DriverOK, ThreadOK, Runs, Producing
<1>2. DriverOK'
  BY DEF WriterTypeOK, DriverOK, ThreadOK, CloseOK, BacklogOK, Runs,
      Producing, Sentinel, Healthy, Before, Front, Run
<1>3. ThreadOK'
  BY DEF WriterTypeOK, ThreadOK, DriverOK, BacklogOK, CloseOK, Runs,
      Producing, Sentinel, Healthy, Before, Front, Run
<1>4. BacklogOK'
  BY DEF WriterTypeOK, BacklogOK, ThreadOK, DriverOK, CloseOK, Runs, Sentinel,
      Healthy, Before, Front, Producing, Run
<1>5. CloseOK'
  BY DEF WriterTypeOK, CloseOK, ThreadOK, DriverOK, Runs, Producing
<1> QED BY <1>1, <1>2, <1>3, <1>4, <1>5

\* close sets _closed and closes the pipe.
LEMMA CloseShutsPipeKeeps ==
    ASSUME WInv, CloseShutsPipe, UNCHANGED depth
    PROVE  WInv'
<1> USE DEF WInv, CloseShutsPipe, ShutsPipe, threadVars, Async
<1>1. WriterTypeOK'
  BY DEF WriterTypeOK, DriverOK, ThreadOK, Runs, Producing
<1>2. DriverOK'
  BY DEF WriterTypeOK, DriverOK, ThreadOK, CloseOK, BacklogOK, Runs,
      Producing, Sentinel, Healthy, Before, Front, Run
<1>3. ThreadOK'
  BY DEF WriterTypeOK, ThreadOK, DriverOK, BacklogOK, CloseOK, Runs,
      Producing, Sentinel, Healthy, Before, Front, Run
<1>4. BacklogOK'
  BY DEF WriterTypeOK, BacklogOK, ThreadOK, DriverOK, CloseOK, Runs, Sentinel,
      Healthy, Before, Front, Producing, Run
<1>5. CloseOK'
  BY DEF WriterTypeOK, CloseOK, ThreadOK, DriverOK, Runs, Producing
<1> QED BY <1>1, <1>2, <1>3, <1>4, <1>5

\* close has waited for the process.
LEMMA CloseReapsKeeps ==
    ASSUME WInv, CloseReaps, UNCHANGED depth
    PROVE  WInv'
<1> USE DEF WInv, CloseReaps, Reaps, CloseEnds, threadVars, encoderVars, Async
<1>1. WriterTypeOK'
  <2>1. collected' \in Nat
    BY DEF WriterTypeOK
  <2>2. driver' \in {"closing", "done"} /\ verdict' \in {"open", "saved",
      "failed"}
    BY DEF WriterTypeOK
  <2>3. cleanup' \in BOOLEAN
    BY DEF WriterTypeOK
  <2> QED BY <2>1, <2>2, <2>3 DEF WriterTypeOK
<1>2. DriverOK'
  BY DEF WriterTypeOK, DriverOK, ThreadOK, CloseOK, BacklogOK, Runs,
      Producing, Sentinel, Healthy, Before, Front, Run
<1>3. ThreadOK'
  BY DEF WriterTypeOK, ThreadOK, DriverOK, BacklogOK, CloseOK, Runs,
      Producing, Sentinel, Healthy, Before, Front, Run
<1>4. BacklogOK'
  BY DEF WriterTypeOK, BacklogOK, ThreadOK, DriverOK, CloseOK, Runs, Sentinel,
      Healthy, Before, Front, Producing, Run
<1>5. CloseOK'
  BY DEF WriterTypeOK, CloseOK, ThreadOK, DriverOK, Runs, Producing
<1> QED BY <1>1, <1>2, <1>3, <1>4, <1>5

\* The encoder exits before the end of its input.
LEMMA EncoderDiesKeeps ==
    ASSUME WInv, EncoderDies, UNCHANGED depth
    PROVE  WInv'
<1> USE DEF WInv, EncoderDies, driverVars, threadVars, flagVars, Async
<1>1. WriterTypeOK'
  BY DEF WriterTypeOK, DriverOK, ThreadOK, Runs, Producing
<1>2. DriverOK'
  BY DEF WriterTypeOK, DriverOK, ThreadOK, CloseOK, BacklogOK, Runs,
      Producing, Sentinel, Healthy, Before, Front, Run
<1>3. ThreadOK'
  BY DEF WriterTypeOK, ThreadOK, DriverOK, BacklogOK, CloseOK, Runs,
      Producing, Sentinel, Healthy, Before, Front, Run
<1>4. BacklogOK'
  BY DEF WriterTypeOK, BacklogOK, ThreadOK, DriverOK, CloseOK, Runs, Sentinel,
      Healthy, Before, Front, Producing, Run
<1>5. CloseOK'
  BY DEF WriterTypeOK, CloseOK, ThreadOK, DriverOK, Runs, Producing
<1> QED BY <1>1, <1>2, <1>3, <1>4, <1>5

\* The encoder exits at the end of its input.
LEMMA EncoderEndsKeeps ==
    ASSUME WInv, EncoderEnds, UNCHANGED depth
    PROVE  WInv'
<1> USE DEF WInv, EncoderEnds, driverVars, threadVars, flagVars, Async
<1>1. WriterTypeOK'
  BY DEF WriterTypeOK, DriverOK, ThreadOK, Runs, Producing
<1>2. DriverOK'
  BY DEF WriterTypeOK, DriverOK, ThreadOK, CloseOK, BacklogOK, Runs,
      Producing, Sentinel, Healthy, Before, Front, Run
<1>3. ThreadOK'
  BY DEF WriterTypeOK, ThreadOK, DriverOK, BacklogOK, CloseOK, Runs,
      Producing, Sentinel, Healthy, Before, Front, Run
<1>4. BacklogOK'
  BY DEF WriterTypeOK, BacklogOK, ThreadOK, DriverOK, CloseOK, Runs, Sentinel,
      Healthy, Before, Front, Producing, Run
<1>5. CloseOK'
  BY DEF WriterTypeOK, CloseOK, ThreadOK, DriverOK, Runs, Producing
<1> QED BY <1>1, <1>2, <1>3, <1>4, <1>5

-----------------------------------------------------------------------------
(***************************************************************************)
(* The theorems.                                                           *)
(***************************************************************************)

\* The invariant is inductive.
LEMMA NextKeeps == WInv /\ [WriterNext]_writerVars => WInv'
<1> SUFFICES ASSUME WInv, [WriterNext]_writerVars
             PROVE  WInv'
  OBVIOUS
<1>1. CASE UNCHANGED writerVars
  BY <1>1 DEF writerVars, driverVars, threadVars, flagVars, encoderVars, WInv,
     WriterTypeOK, DriverOK, ThreadOK, BacklogOK, CloseOK, Front, Before,
     Healthy, Async
<1>2. CASE Done
  BY <1>1, <1>2 DEF Done
<1>3. CASE Step /\ UNCHANGED depth
  <2>1. CASE \E n \in 1..MaxBatch : FlushBegins(n)
    BY <1>3, <2>1, FlushBeginsKeeps
  <2>2. CASE EnqueueChecks
    BY <1>3, <2>2, EnqueueChecksKeeps
  <2>3. CASE EnqueuePuts
    BY <1>3, <2>3, EnqueuePutsKeeps
  <2>4. CASE EnqueueTimesOut
    BY <1>3, <2>4, EnqueueTimesOutKeeps
  <2>5. CASE DriverWrites
    BY <1>3, <2>5, DriverWritesKeeps
  <2>6. CASE DriverMeetsBrokenPipe
    BY <1>3, <2>6, DriverMeetsBrokenPipeKeeps
  <2>7. CASE RequestFails
    BY <1>3, <2>7, RequestFailsKeeps
  <2>8. CASE Finalizes
    BY <1>3, <2>8, FinalizesKeeps
  <2>9. CASE ThreadGets
    BY <1>3, <2>9, ThreadGetsKeeps
  <2>10. CASE ThreadWrites
    BY <1>3, <2>10, ThreadWritesKeeps
  <2>11. CASE ThreadMeetsBrokenPipe
    BY <1>3, <2>11, ThreadMeetsBrokenPipeKeeps
  <2>12. CASE ThreadRecordsError
    BY <1>3, <2>12, ThreadRecordsErrorKeeps
  <2>13. CASE ThreadFails
    BY <1>3, <2>13, ThreadFailsKeeps
  <2>14. CASE CloseBegins
    BY <1>3, <2>14, CloseBeginsKeeps
  <2>15. CASE ClosePutsSentinel
    BY <1>3, <2>15, ClosePutsSentinelKeeps
  <2>16. CASE CloseJoins
    BY <1>3, <2>16, CloseJoinsKeeps
  <2>17. CASE CloseFindsClosed
    BY <1>3, <2>17, CloseFindsClosedKeeps
  <2>18. CASE CloseShutsPipe
    BY <1>3, <2>18, CloseShutsPipeKeeps
  <2>19. CASE CloseReaps
    BY <1>3, <2>19, CloseReapsKeeps
  <2>20. CASE EncoderDies
    BY <1>3, <2>20, EncoderDiesKeeps
  <2>21. CASE EncoderEnds
    BY <1>3, <2>21, EncoderEndsKeeps
  <2> QED BY <1>3, <2>1, <2>2, <2>3, <2>4, <2>5, <2>6, <2>7, <2>8, <2>9,
      <2>10, <2>11, <2>12, <2>13, <2>14, <2>15, <2>16, <2>17, <2>18, <2>19,
      <2>20, <2>21
      DEF Step, Produces, DriverSteps, ThreadSteps
<1> QED BY <1>1, <1>2, <1>3 DEF WriterNext

\* The strengthened invariant holds in every state of the writer.
LEMMA WriterInvariant == WriterSpec => []WInv
BY InitKeeps, NextKeeps, PTL DEF WriterSpec

\* The encoder process is waited for at most once, whether the thread, the
\* driver or close notices its end, and exactly once when the request is over.
THEOREM ProcessCollectedOnce == WriterSpec => []CollectedOnce
<1>1. WInv => CollectedOnce
  BY DEF WInv, CloseOK, CollectedOnce
<1> QED BY <1>1, WriterInvariant, PTL

\* Whatever failed, a request that is over leaves neither the writer's thread
\* nor the encoder behind.
THEOREM RequestLeavesNothing == WriterSpec => []NothingLeft
<1>1. WInv => NothingLeft
  BY DEF WInv, CloseOK, ThreadOK, NothingLeft, ThreadAlive
<1> QED BY <1>1, WriterInvariant, PTL

\* The pipe receives the blocks in the order in which they were produced.
THEOREM BlocksInOrder == WriterSpec => []WrittenInOrder
<1>1. WriterInit => WrittenInOrder
  BY SeqFacts DEF WriterInit, WrittenInOrder
<1>2. WInv /\ WrittenInOrder /\ [WriterNext]_writerVars => WrittenInOrder'
  <2> SUFFICES ASSUME WInv, WrittenInOrder, [WriterNext]_writerVars
               PROVE  WrittenInOrder'
    OBVIOUS
  <2>1. \/ UNCHANGED piped
        \/ piped' = Append(piped, Len(piped) + 1)
    BY DEF WriterNext, Step, Done, Produces, DriverSteps, ThreadSteps, writerVars,
      driverVars, threadVars, flagVars, encoderVars, FlushBegins,
      EnqueueChecks, EnqueuePuts, EnqueueTimesOut, DriverWrites,
      DriverMeetsBrokenPipe, RequestFails, Finalizes, ThreadGets,
      ThreadWrites, ThreadMeetsBrokenPipe, ThreadRecordsError, ThreadFails,
      CloseBegins, ClosePutsSentinel, CloseJoins, CloseFindsClosed,
      CloseShutsPipe, CloseReaps, EncoderDies, EncoderEnds, PipeTakes,
      ShutsPipe,
      WInv, DriverOK, ThreadOK
  <2>2. piped \in Seq(Nat) /\ Len(piped) + 1 \in Nat
    BY DEF WInv, WriterTypeOK
  <2>3. CASE UNCHANGED piped
    BY <2>3 DEF WrittenInOrder
  <2>4. CASE piped' = Append(piped, Len(piped) + 1)
    <3>1. /\ piped' \in Seq(Nat) /\ Len(piped') = Len(piped) + 1
          /\ \A i \in 1..Len(piped) : piped'[i] = piped[i]
          /\ piped'[Len(piped) + 1] = Len(piped) + 1
      BY <2>2, <2>4, AppendFacts
    <3>2. DOMAIN piped = 1..Len(piped) /\ DOMAIN piped' = 1..Len(piped')
      BY <2>2, <3>1, SeqFacts
    <3>3. \A i \in DOMAIN piped' : i \in DOMAIN piped \/ i = Len(piped) + 1
      BY <2>2, <3>1, <3>2
    <3> QED BY <3>1, <3>2, <3>3 DEF WrittenInOrder
  <2> QED BY <2>1, <2>3, <2>4
<1> QED BY <1>1, <1>2, WriterInvariant, PTL DEF WriterSpec

\* What the owner of the encoder process relies on holds in every instance:
\* order on the pipe, one collection of the process, nothing left behind.
THEOREM EncoderIsSound == WriterSpec => []EncoderSound
<1>1. WrittenInOrder /\ CollectedOnce /\ NothingLeft => EncoderSound
  BY DEF EncoderSound
<1> QED BY <1>1, BlocksInOrder, ProcessCollectedOnce, RequestLeavesNothing, PTL

-----------------------------------------------------------------------------
(***************************************************************************)
(* Refinement.                                                             *)
(***************************************************************************)

\* A step that concerns neither the frames nor the outcome.
LEMMA Stutters ==
    ASSUME UNCHANGED <<accepted, piped, verdict>>,
           encoder' = "finished" <=> encoder = "finished"
    PROVE  UNCHANGED Sink!sinkVars
BY DEF Sink!sinkVars

\* One more block reaches the pipe.
LEMMA Delivers ==
    ASSUME WInv, Len(piped) < accepted,
           piped' = Append(piped, Len(piped) + 1),
           UNCHANGED <<accepted, verdict, encoder>>
    PROVE  Sink!Deliver
<1>1. Len(piped') = Len(piped) + 1
  BY AppendFacts DEF WInv, WriterTypeOK
<1> QED BY <1>1 DEF Sink!Deliver

\* A request that ends as saved ends with everything delivered: close raises
\* the thread's error even when the encoder has finished the file.
LEMMA SavedMeansAll ==
    ASSUME WInv, CloseReaps
    PROVE  Sink!Next \/ UNCHANGED Sink!sinkVars
<1> USE DEF CloseReaps, CloseEnds, Reaps, encoderVars
<1>1. verdict = "open" /\ thread = "returned" /\ asyncQueue = <<>>
  BY DEF WInv, WriterTypeOK, CloseOK, ThreadOK
<1>2. UNCHANGED <<accepted, piped, encoder>>
  OBVIOUS
<1>3. CASE (error \/ encoder # "finished") /\ ~cleanup
  BY <1>2, <1>3, Stutters
<1>4. CASE cleanup
  BY <1>1, <1>2, <1>4 DEF Sink!Next, Sink!Fail
<1>5. CASE ~error /\ encoder = "finished" /\ ~cleanup
  <2>1. Len(piped) = accepted
    <3>1. CASE Async
      BY <1>1, <1>5, <3>1 DEF WInv, BacklogOK, Healthy, Front
    <3>2. CASE ~Async
      BY <1>5, <3>2 DEF WInv, DriverOK
    <3> QED BY <3>1, <3>2
  <2> QED BY <1>1, <1>2, <1>5, <2>1 DEF Sink!Next, Sink!Save
<1>6. cleanup \in BOOLEAN /\ error \in BOOLEAN
  BY DEF WInv, WriterTypeOK
<1> QED BY <1>3, <1>4, <1>5, <1>6

\* A close that finds the writer closed never reports it as saved.
LEMMA FoundClosedIsFailure ==
    ASSUME WInv, CloseFindsClosed
    PROVE  Sink!Next \/ UNCHANGED Sink!sinkVars
<1> USE DEF CloseFindsClosed, CloseEnds, encoderVars
<1>1. verdict = "open" /\ thread = "returned" /\ (cleanup \/ error)
  BY DEF WInv, WriterTypeOK, CloseOK, ThreadOK
<1>2. UNCHANGED <<accepted, piped, encoder>>
  OBVIOUS
<1>3. CASE cleanup
  BY <1>1, <1>2, <1>3 DEF Sink!Next, Sink!Fail
<1>4. CASE ~cleanup
  BY <1>1, <1>2, <1>4, Stutters
<1> QED BY <1>3, <1>4

\* Every step of the writer is a step of the sink, or none.
LEMMA StepRefines == WInv /\ [WriterNext]_writerVars => [Sink!Next]_(Sink!sinkVars)
<1> SUFFICES ASSUME WInv, [WriterNext]_writerVars
             PROVE  Sink!Next \/ UNCHANGED Sink!sinkVars
  OBVIOUS
<1>1. CASE UNCHANGED writerVars
  BY <1>1, Stutters DEF writerVars, driverVars, encoderVars
<1>2. CASE Done
  BY <1>1, <1>2 DEF Done
<1>3. CASE Step
  <2>1. ASSUME NEW n \in 1..MaxBatch, FlushBegins(n)
        PROVE  Sink!Next \/ UNCHANGED Sink!sinkVars
    <3>1. CASE Async
      BY <2>1, <3>1, Stutters DEF FlushBegins, encoderVars
    <3>2. CASE ~Async
      <4>1. accepted' \in Nat /\ accepted' > accepted
        BY <2>1, <3>2, WriterAssumption DEF FlushBegins, WInv, WriterTypeOK
      <4>2. verdict = "open" /\ encoder # "finished"
        BY <2>1 DEF FlushBegins, WInv, WriterTypeOK, CloseOK, Producing
      <4> QED BY <2>1, <4>1, <4>2 DEF FlushBegins, encoderVars, Sink!Next,
      Sink!Accept
    <3> QED BY <3>1, <3>2
  <2>2. CASE EnqueuePuts
    <3>1. accepted' \in Nat /\ accepted' > accepted
      BY <2>2 DEF EnqueuePuts, Size, WInv, WriterTypeOK, DriverOK, Runs
    <3>2. verdict = "open" /\ encoder # "finished"
      BY <2>2 DEF EnqueuePuts, WInv, WriterTypeOK, CloseOK, Producing
    <3> QED BY <2>2, <3>1, <3>2 DEF EnqueuePuts, encoderVars, Sink!Next,
      Sink!Accept
  <2>3. CASE DriverWrites
    <3>1. Len(piped) < accepted /\ batch.first = Len(piped) + 1
      BY <2>3 DEF DriverWrites, WInv, WriterTypeOK, DriverOK, Runs
    <3> QED BY <2>3, <3>1, Delivers DEF DriverWrites, PipeTakes, Sink!Next
  <2>4. CASE ThreadWrites
    <3>1. Len(piped) < accepted /\ asyncItem.first = Len(piped) + 1
      BY <2>4 DEF ThreadWrites, WInv, WriterTypeOK, ThreadOK, Runs
    <3> QED BY <2>4, <3>1, Delivers
        DEF ThreadWrites, PipeTakes, driverVars, Sink!Next
  <2>5. CASE EncoderEnds
    <3>1. verdict = "open"
      BY <2>5 DEF EncoderEnds, WInv, WriterTypeOK, CloseOK
    <3>2. CASE encoder' = "finished"
      BY <2>5, <3>1, <3>2 DEF EncoderEnds, driverVars, Sink!Next, Sink!Finish
    <3>3. CASE encoder' = "refused"
      BY <2>5, <3>3, Stutters DEF EncoderEnds, driverVars
    <3> QED BY <2>5, <3>2, <3>3 DEF EncoderEnds
  <2>6. CASE EncoderDies
    BY <2>6, Stutters DEF EncoderDies, driverVars
  <2>7. CASE CloseReaps
    BY <2>7, SavedMeansAll
  <2>8. CASE CloseFindsClosed
    BY <2>8, FoundClosedIsFailure
  <2>9. CASE \/ EnqueueChecks \/ EnqueueTimesOut \/ DriverMeetsBrokenPipe
             \/ RequestFails \/ Finalizes
    BY <2>9, Stutters DEF EnqueueChecks, EnqueueTimesOut, RequestFails,
       DriverMeetsBrokenPipe, ShutsPipe, Finalizes, encoderVars
  <2>10. CASE \/ ThreadGets \/ ThreadMeetsBrokenPipe \/ ThreadRecordsError
              \/ ThreadFails
    BY <2>10, Stutters DEF ThreadGets, ThreadMeetsBrokenPipe, ShutsPipe,
       ThreadRecordsError, ThreadFails, driverVars, encoderVars
  <2>11. CASE CloseBegins \/ ClosePutsSentinel \/ CloseJoins \/ CloseShutsPipe
    BY <2>11, Stutters DEF CloseBegins, ClosePutsSentinel, CloseJoins,
       CloseShutsPipe, ShutsPipe, encoderVars
  <2> QED BY <1>3, <2>1, <2>2, <2>3, <2>4, <2>5, <2>6, <2>7, <2>8, <2>9,
      <2>10, <2>11
      DEF Step, Produces, DriverSteps, ThreadSteps
<1> QED BY <1>1, <1>2, <1>3 DEF WriterNext

\* SequentialVideoWriter is a FrameSink: what close lets pass as saved is the
\* whole video, in order, in a file the encoder has finished.
THEOREM WriterKeepsSink == WriterSpec => KeepsSink
<1>1. WriterInit => Sink!Init
  BY SeqFacts DEF WriterInit, Sink!Init
<1> QED BY <1>1, StepRefines, WriterInvariant, PTL DEF WriterSpec, KeepsSink,
      Sink!Spec
==============================================================================
