---------------------------- MODULE ChainProofs ----------------------------
(***************************************************************************)
(* The object chain, for any video, any scenes, any number of objects and  *)
(* any window: no frame is lost, repeated, misplaced or left unerased, the *)
(* caches stay small, and a request fails for the known reasons only.      *)
(***************************************************************************)
EXTENDS ObjectChain, TLAPS
WF == INSTANCE WellFoundedInduction

-----------------------------------------------------------------------------
(***************************************************************************)
(* Numbers and sequences.                                                  *)
(***************************************************************************)

\* Max and Min of two numbers.
LEMMA MaxOf ==
    ASSUME NEW a \in Int, NEW b \in Int
    PROVE  Max({a, b}) = IF a >= b THEN a ELSE b
<1>1. \E x \in {a, b} : \A y \in {a, b} : x >= y
  OBVIOUS
<1> QED BY <1>1 DEF Max

\* The smaller of two numbers.
LEMMA MinOf ==
    ASSUME NEW a \in Int, NEW b \in Int
    PROVE  Min({a, b}) = IF a <= b THEN a ELSE b
<1>1. \E x \in {a, b} : \A y \in {a, b} : x <= y
  OBVIOUS
<1> QED BY <1>1 DEF Min

\* A set of natural numbers has a least one.
LEMMA LeastNumber ==
    ASSUME NEW T, T \subseteq Nat, T # {}
    PROVE  \E n \in T : \A m \in T : n <= m
<1> DEFINE R == WF!OpToRel(<, Nat)
<1>1. WF!IsWellFoundedOn(R, Nat)
  BY WF!NatLessThanWellFounded
<1>2. \A a, b \in Nat : a < b => <<a, b>> \in R
  BY DEF WF!OpToRel
<1> HIDE DEF R
<1>3. PICK x \in T : \A y \in T : ~(<<y, x>> \in R)
  BY <1>1, WF!WFMin
<1>4. ASSUME NEW m \in T PROVE x <= m
  <2>1. x \in Nat /\ m \in Nat /\ ~(m < x)
    BY <1>2, <1>3
  <2> QED BY <2>1
<1> QED BY <1>4

\* Induction, over the numbers for which something holds.
LEMMA SetInduction ==
    ASSUME NEW S, 0 \in S, \A n \in Nat : n \in S => n + 1 \in S
    PROVE  \A n \in Nat : n \in S
<1> SUFFICES ASSUME NEW k \in Nat, k \notin S PROVE FALSE
  OBVIOUS
<1> DEFINE T == {n \in Nat : n \notin S}
<1>1. PICK n \in T : \A m \in T : n <= m
  <2>1. T \subseteq Nat /\ T # {}
    OBVIOUS
  <2> HIDE DEF T
  <2> QED BY <2>1, LeastNumber
<1>2. n # 0 /\ n - 1 \in Nat /\ n - 1 \in S
  BY <1>1
<1> QED BY <1>1, <1>2

\* The entries of two sequences joined.
LEMMA JoinFacts ==
    ASSUME NEW S, NEW s \in Seq(S), NEW t \in Seq(S)
    PROVE  /\ s \o t \in Seq(S) /\ Len(s \o t) = Len(s) + Len(t)
           /\ Len(s) \in Nat /\ Len(t) \in Nat
           /\ \A i \in 1..Len(s) : (s \o t)[i] = s[i]
           /\ \A i \in 1..Len(t) : (s \o t)[Len(s) + i] = t[i]
OBVIOUS

\* A part of a sequence.
LEMMA PartFacts ==
    ASSUME NEW S, NEW s \in Seq(S), NEW a \in Int, NEW b \in Int, 0 < a, b <= Len(s), a <= b + 1
    PROVE  /\ SubSeq(s, a, b) \in Seq(S) /\ Len(SubSeq(s, a, b)) = b - a + 1
           /\ \A i \in 1..(b - a + 1) : SubSeq(s, a, b)[i] = s[a + i - 1]
<1>1. Len(s) \in Nat /\ \A i \in a..b : s[i] \in S
  OBVIOUS
<1> QED BY <1>1

\* A sequence given by its entries.
LEMMA ListFacts ==
    ASSUME NEW S, NEW n \in Nat, NEW f, f = [i \in 1..n |-> f[i]], \A i \in 1..n : f[i] \in S
    PROVE  f \in Seq(S) /\ Len(f) = n /\ DOMAIN f = 1..n
OBVIOUS

\* Whatever g is, its values can be joined one after the other.
LEMMA CanJoin ==
    ASSUME NEW n \in Nat, NEW g
    PROVE  \E f : f = [i \in 0..n |-> IF i = 0 THEN <<>> ELSE f[i - 1] \o g[i]]
<1> DEFINE Rule(f, m) == f = [i \in 0..m |-> IF i = 0 THEN <<>> ELSE f[i - 1] \o g[i]]
           Exists == {m \in Nat : \E f : Rule(f, m)}
<1>1. 0 \in Exists
  <2> DEFINE f == [i \in 0..0 |-> <<>>]
  <2>1. Rule(f, 0)
    OBVIOUS
  <2> QED BY <2>1
<1>2. ASSUME NEW m \in Nat, m \in Exists PROVE m + 1 \in Exists
  <2>1. PICK f : Rule(f, m)
    BY <1>2
  <2> DEFINE h == [i \in 0..(m + 1) |-> IF i <= m THEN f[i] ELSE f[m] \o g[m + 1]]
             k == [i \in 0..(m + 1) |-> IF i = 0 THEN <<>> ELSE h[i - 1] \o g[i]]
  <2>2. ASSUME NEW i \in 0..(m + 1) PROVE h[i] = k[i]
    <3>1. CASE i = 0
      <4>1. f[0] = <<>>
        BY <2>1
      <4> QED BY <3>1, <4>1
    <3>2. CASE i # 0 /\ i <= m
      <4>1. i \in 0..m
        BY <3>2
      <4>2. f[i] = f[i - 1] \o g[i]
        BY <2>1, <3>2, <4>1
      <4>3. i - 1 \in 0..(m + 1) /\ i - 1 <= m
        BY <3>2
      <4> QED BY <3>2, <4>2, <4>3
    <3>3. CASE i = m + 1
      <4>1. i - 1 = m /\ m \in 0..(m + 1) /\ ~(i <= m) /\ i # 0
        BY <3>3
      <4>2. h[m] = f[m] /\ h[i] = f[m] \o g[m + 1]
        <5>1. h[m] = f[m]
          BY <4>1
        <5>2. m + 1 \in 0..(m + 1) /\ ~(m + 1 <= m)
          OBVIOUS
        <5>3. h[m + 1] = f[m] \o g[m + 1]
          BY <5>2
        <5> QED BY <3>3, <5>1, <5>3
      <4>3. k[i] = h[m] \o g[m + 1]
        BY <3>3, <4>1
      <4> QED BY <4>2, <4>3
    <3> QED BY <3>1, <3>2, <3>3
  <2>3. h = k
    BY <2>2
  <2>4. Rule(h, m + 1)
    BY <2>3
  <2> HIDE DEF h
  <2> QED BY <2>4
<1> HIDE DEF Exists
<1>3. n \in Exists
  BY <1>1, <1>2, SetInduction
<1> QED BY <1>3 DEF Exists

\* Of which every prefix is a sequence.
LEMMA JoinedTyped ==
    ASSUME NEW S, NEW n \in Nat, NEW g, NEW f, \A i \in 1..n : g[i] \in Seq(S),
           f = [i \in 0..n |-> IF i = 0 THEN <<>> ELSE f[i - 1] \o g[i]]
    PROVE  \A i \in 0..n : f[i] \in Seq(S)
<1> DEFINE Good == {m \in Nat : m <= n => f[m] \in Seq(S)}
<1>1. 0 \in Good
  <2>1. f[0] = <<>>
    OBVIOUS
  <2> QED BY <2>1
<1>2. ASSUME NEW m \in Nat, m \in Good PROVE m + 1 \in Good
  <2> SUFFICES ASSUME m + 1 <= n PROVE f[m + 1] \in Seq(S)
    OBVIOUS
  <2>1. m + 1 \in 0..n /\ m + 1 \in 1..n /\ m + 1 # 0 /\ (m + 1) - 1 = m
    OBVIOUS
  <2>2. f[m + 1] = f[m] \o g[m + 1]
    BY <2>1
  <2>3. f[m] \in Seq(S) /\ g[m + 1] \in Seq(S)
    BY <1>2, <2>1
  <2> QED BY <2>2, <2>3, JoinFacts
<1> HIDE DEF Good
<1>3. \A m \in Nat : m \in Good
  BY <1>1, <1>2, SetInduction
<1> QED
  <2> TAKE i \in 0..n
  <2>1. i \in Nat /\ i <= n
    OBVIOUS
  <2> QED BY <1>3, <2>1 DEF Good

-----------------------------------------------------------------------------
(***************************************************************************)
(* The windows of a plan.                                                  *)
(***************************************************************************)

\* The sizes are numbers that fit together.
LEMMA Sizes ==
    /\ NumFrames \in Nat \ {0} /\ InferLen \in Nat \ {0} /\ Overlap \in Nat
    /\ Overlap < InferLen /\ ObjectCount \in Nat \ {0}
    /\ NumFrames \in Int /\ InferLen \in Int /\ Overlap \in Int
BY ChainAssumption

\* A scene that lies in the video.
SceneSet == {s \in Nat \X Nat : s[2] > 0 /\ s[1] + s[2] <= NumFrames}

\* Normalized scenes lie in the video, and there is at least one.
LEMMA ScenesFit ==
    ASSUME NEW scenes \in Seq(Int \X Int)
    PROVE  NormalizeScenes(scenes) \in Seq(SceneSet) /\ Len(NormalizeScenes(scenes)) > 0
<1> DEFINE usable(s)  == s[2] > 0 /\ s[1] < NumFrames
           clipped(s) == <<Max({0, s[1]}), Min({s[2], NumFrames - Max({0, s[1]})})>>
           n == Len(scenes)
           g == [i \in 1..n |-> IF usable(scenes[i]) THEN <<clipped(scenes[i])>> ELSE <<>>]
           Rule(f) == f = [i \in 0..n |-> IF i = 0 THEN <<>>
                        ELSE f[i - 1] \o (IF usable(scenes[i]) THEN <<clipped(scenes[i])>> ELSE <<>>)]
           upTo == CHOOSE f : Rule(f)
<1>1. n \in Nat /\ \A i \in 1..n : scenes[i] \in Int \X Int
  OBVIOUS
<1>2. NormalizeScenes(scenes) = IF upTo[n] = <<>> THEN <<<<0, NumFrames>>>> ELSE upTo[n]
  BY DEF NormalizeScenes
<1>3. Rule(upTo)
  <2>1. PICK f : f = [i \in 0..n |-> IF i = 0 THEN <<>> ELSE f[i - 1] \o g[i]]
    <3> HIDE DEF g
    <3> QED BY <1>1, CanJoin
  <2>2. [i \in 0..n |-> IF i = 0 THEN <<>> ELSE f[i - 1] \o g[i]]
          = [i \in 0..n |-> IF i = 0 THEN <<>>
                        ELSE f[i - 1] \o (IF usable(scenes[i]) THEN <<clipped(scenes[i])>> ELSE <<>>)]
    <3>1. \A i \in 1..n : g[i] = IF usable(scenes[i]) THEN <<clipped(scenes[i])>> ELSE <<>>
      OBVIOUS
    <3>2. \A i \in 0..n : i # 0 => i \in 1..n
      BY <1>1
    <3> HIDE DEF g, usable, clipped
    <3> QED BY <3>1, <3>2
  <2>3. Rule(f)
    BY <2>1, <2>2
  <2> HIDE DEF Rule
  <2> QED BY <2>3
<1>4. ASSUME NEW i \in 1..n PROVE g[i] \in Seq(SceneSet)
  <2> DEFINE a == scenes[i][1]
             b == scenes[i][2]
             start == Max({0, a})
             length == Min({b, NumFrames - start})
  <2>1. a \in Int /\ b \in Int /\ clipped(scenes[i]) = <<start, length>>
    BY <1>1
  <2>2. g[i] = IF b > 0 /\ a < NumFrames THEN <<clipped(scenes[i])>> ELSE <<>>
    OBVIOUS
  <2> HIDE DEF a, b, clipped, g
  <2>3. ASSUME b > 0, a < NumFrames PROVE <<start, length>> \in SceneSet
    <3>0. a \in Int /\ 0 \in Int
      BY <2>1
    <3>1. start = IF 0 >= a THEN 0 ELSE a
      BY <3>0, MaxOf
    <3>2. start \in Nat /\ start < NumFrames /\ NumFrames - start \in Int
      BY <2>1, <2>3, <3>1, Sizes
    <3> HIDE DEF start
    <3>3. length = IF b <= NumFrames - start THEN b ELSE NumFrames - start
      BY <2>1, <3>2, MinOf
    <3> HIDE DEF length
    <3>4. length \in Nat /\ length > 0 /\ start + length <= NumFrames
      BY <2>1, <2>3, <3>2, <3>3, Sizes
    <3> QED BY <3>2, <3>4 DEF SceneSet
  <2>4. CASE b > 0 /\ a < NumFrames
    <3>1. \A x \in SceneSet : <<x>> \in Seq(SceneSet)
      OBVIOUS
    <3> QED BY <2>1, <2>2, <2>3, <2>4, <3>1
  <2>5. CASE ~(b > 0 /\ a < NumFrames)
    BY <2>2, <2>5
  <2> QED BY <2>4, <2>5
<1>5. upTo = [i \in 0..n |-> IF i = 0 THEN <<>> ELSE upTo[i - 1] \o g[i]]
  <2> HIDE DEF upTo
  <2>1. [i \in 0..n |-> IF i = 0 THEN <<>> ELSE upTo[i - 1] \o g[i]]
          = [i \in 0..n |-> IF i = 0 THEN <<>>
                        ELSE upTo[i - 1] \o (IF usable(scenes[i]) THEN <<clipped(scenes[i])>> ELSE <<>>)]
    <3>1. \A i \in 1..n : g[i] = IF usable(scenes[i]) THEN <<clipped(scenes[i])>> ELSE <<>>
      OBVIOUS
    <3>2. \A i \in 0..n : i # 0 => i \in 1..n
      BY <1>1
    <3> HIDE DEF g, usable, clipped
    <3> QED BY <3>1, <3>2
  <2>2. Rule(upTo)
    BY <1>3 DEF upTo
  <2> QED BY <2>1, <2>2
<1>6. upTo[n] \in Seq(SceneSet)
  <2> HIDE DEF upTo, g
  <2>1. \A i \in 0..n : upTo[i] \in Seq(SceneSet)
    BY <1>1, <1>4, <1>5, JoinedTyped
  <2> QED BY <1>1, <2>1
<1>7. <<<<0, NumFrames>>>> \in Seq(SceneSet) /\ Len(<<<<0, NumFrames>>>>) > 0
  <2>1. <<0, NumFrames>> \in SceneSet
    BY Sizes DEF SceneSet
  <2> QED BY <2>1
<1> HIDE DEF upTo
<1>8. upTo[n] # <<>> => Len(upTo[n]) > 0
  BY <1>6
<1> QED BY <1>2, <1>6, <1>7, <1>8

\* A window loads what it deals with and what it overlaps with, and no more than its length.
WindowOK(w) ==
    /\ w.load_start <= w.deal_start /\ w.deal_start < w.commit_end
    /\ w.commit_end <= w.load_end /\ w.load_end <= NumFrames
    /\ w.load_end - w.load_start <= InferLen
    /\ w.overlap_left = w.deal_start - w.load_start
    /\ w.load_start <= StableEnd(w)

WindowSet == {w \in [scene : Nat, load_start : Nat, load_end : Nat, deal_start : Nat,
                     commit_end : Nat, overlap_left : Nat, overlap_right : Nat] : WindowOK(w)}

\* What is known of the window that begins at next.
LEMMA WindowFacts ==
    ASSUME NEW s \in SceneSet, NEW index \in Nat, NEW next \in Nat,
           next < s[1] + s[2]
    PROVE  LET w == Window(s, index, next)
               end == s[1] + s[2]
           IN /\ w.scene = index /\ w.deal_start = next
              /\ w.commit_end \in (next + 1)..end
              /\ w.load_start = IF next > s[1] THEN next - Overlap ELSE next
              /\ w.commit_end < end => w.overlap_right = Overlap
              /\ w.commit_end = end => w.overlap_right = 0
              /\ next = s[1] \/ next >= s[1] + InferLen =>
                    /\ w \in WindowSet
                    /\ w.commit_end = end \/ w.commit_end >= s[1] + InferLen
<1> DEFINE w == Window(s, index, next)
           a == s[1]
           b == s[2]
           end == a + b
           left == IF next > a THEN Overlap ELSE 0
           need == Max({1, InferLen - left})
           deal == Min({need, end - next})
           load == Min({NumFrames - next, need})
           right == IF next + deal < end THEN Overlap ELSE 0
<1>1. a \in Nat /\ b \in Nat /\ b > 0 /\ end <= NumFrames /\ next < end
  BY DEF SceneSet
<1>2. w = [scene |-> index, load_start |-> next - left, load_end |-> next + load,
           deal_start |-> next, commit_end |-> next + deal, overlap_left |-> left,
           overlap_right |-> right]
  BY DEF Window
<1> HIDE DEF w, a, b
<1>3. left \in Nat /\ left < InferLen /\ InferLen - left \in Int /\ InferLen - left >= 1
  BY <1>1, Sizes
<1>4. need = InferLen - left
  <2> HIDE DEF left
  <2> QED BY <1>3, MaxOf
<1>5. deal = IF need <= end - next THEN need ELSE end - next
  <2>1. need \in Int /\ end - next \in Int
    BY <1>1, <1>3, <1>4
  <2> HIDE DEF need, end
  <2> QED BY <2>1, MinOf
<1>6. load = IF NumFrames - next <= need THEN NumFrames - next ELSE need
  <2>1. need \in Int /\ NumFrames - next \in Int
    BY <1>1, <1>3, <1>4, Sizes
  <2> HIDE DEF need
  <2> QED BY <2>1, MinOf
<1>7. left = IF next > a THEN Overlap ELSE 0
  OBVIOUS
<1>8. right = IF next + deal < end THEN Overlap ELSE 0
  OBVIOUS
<1>9. end = a + b
  OBVIOUS
<1> HIDE DEF left, need, deal, load, right, end
<1>10. w.scene = index /\ w.deal_start = next /\ w.commit_end = next + deal /\ w.load_start = next - left
       /\ w.load_end = next + load /\ w.overlap_left = left /\ w.overlap_right = right
  BY <1>2
<1>11. deal \in Nat /\ deal >= 1 /\ next + deal <= end /\ load \in Nat /\ deal <= load /\ next + load <= NumFrames
       /\ load <= InferLen - left
  BY <1>1, <1>3, <1>4, <1>5, <1>6, <1>9, Sizes
<1>12. w.commit_end \in (next + 1)..end
  BY <1>1, <1>9, <1>10, <1>11
<1>13. w.load_start = IF next > a THEN next - Overlap ELSE next
  BY <1>1, <1>7, <1>10
<1>14. (w.commit_end < end => w.overlap_right = Overlap) /\ (w.commit_end = end => w.overlap_right = 0)
  BY <1>1, <1>8, <1>9, <1>10, <1>11
<1>15. ASSUME next = a \/ next >= a + InferLen
       PROVE  w \in WindowSet /\ (w.commit_end = end \/ w.commit_end >= a + InferLen)
  <2>1. left <= next - a
    BY <1>1, <1>7, <1>15, Sizes
  <2>2. next - left \in Nat /\ next + load \in Nat /\ next + deal \in Nat /\ right \in Nat
    BY <1>1, <1>3, <1>8, <1>11, <2>1, Sizes
  <2>3. w \in [scene : Nat, load_start : Nat, load_end : Nat, deal_start : Nat,
               commit_end : Nat, overlap_left : Nat, overlap_right : Nat]
    BY <1>2, <1>3, <2>2
  <2>4. CASE deal = need
    <3>1. w.commit_end - w.load_start = InferLen
      BY <1>1, <1>3, <1>4, <1>10, <2>4, Sizes
    <3>2. w.load_start <= w.commit_end - w.overlap_right
      BY <1>8, <1>10, <2>2, <3>1, Sizes
    <3>3. w.commit_end >= a + InferLen
      BY <1>1, <1>3, <1>4, <1>10, <2>1, <3>1, <2>2, Sizes
    <3>4. WindowOK(w)
      BY <1>1, <1>3, <1>10, <1>11, <2>2, <3>2, Sizes DEF WindowOK, StableEnd
    <3> QED BY <2>3, <3>3, <3>4 DEF WindowSet
  <2>5. CASE deal # need
    <3>1. next + deal = end /\ right = 0
      BY <1>1, <1>5, <1>8, <1>9, <2>5
    <3>2. WindowOK(w)
      BY <1>1, <1>3, <1>10, <1>11, <2>2, <3>1, Sizes DEF WindowOK, StableEnd
    <3> QED BY <1>10, <2>3, <3>1, <3>2 DEF WindowSet
  <2> QED BY <2>4, <2>5
<1> QED BY <1>10, <1>12, <1>13, <1>14, <1>15 DEF w, a, b, end

\* f solves the recursion that takes the entries of first and goes on where jump says.
Descends(f, n, e, first, jump) ==
    f = [i \in 0..n |-> IF i >= e THEN <<>> ELSE first[i] \o f[jump[i]]]

\* A recursion that jumps upwards has a solution.
LEMMA CanDescend ==
    ASSUME NEW n \in Nat, NEW e \in Int, NEW first, NEW jump,
           \A i \in 0..n : i < e => jump[i] \in (i + 1)..n
    PROVE  \E f : Descends(f, n, e, first, jump)
<1> DEFINE Rule(f, m) == f = [i \in (n - m)..n |-> IF i >= e THEN <<>> ELSE first[i] \o f[jump[i]]]
           Exists == {m \in Nat : m <= n => \E f : Rule(f, m)}
<1>1. 0 \in Exists
  <2> DEFINE f == [i \in n..n |-> <<>>]
             h == [i \in n..n |-> IF i >= e THEN <<>> ELSE first[i] \o f[jump[i]]]
  <2>1. n - 0 = n
    OBVIOUS
  <2>2. ASSUME NEW i \in n..n PROVE f[i] = h[i]
    <3>1. i = n /\ i \in 0..n
      OBVIOUS
    <3>2. ~(i < e)
      <4> SUFFICES ASSUME i < e PROVE FALSE
        BY <3>1
      <4>1. jump[i] \in (i + 1)..n
        BY <3>1
      <4> QED BY <3>1, <4>1
    <3>3. i >= e
      BY <3>1, <3>2
    <3> QED BY <3>3
  <2>3. f = h
    BY <2>2
  <2>4. Rule(f, 0)
    BY <2>1, <2>3
  <2> HIDE DEF f
  <2> QED BY <2>4
<1>2. ASSUME NEW m \in Nat, m \in Exists PROVE m + 1 \in Exists
  <2> SUFFICES ASSUME m + 1 <= n PROVE \E f : Rule(f, m + 1)
    <3> HIDE DEF Rule
    <3> QED OBVIOUS
  <2>1. PICK f : Rule(f, m)
    <3> HIDE DEF Rule
    <3> QED BY <1>2
  <2> DEFINE low == n - (m + 1)
             h == [i \in low..n |-> IF i = low THEN IF low >= e THEN <<>> ELSE first[low] \o f[jump[low]]
                                    ELSE f[i]]
             k == [i \in low..n |-> IF i >= e THEN <<>> ELSE first[i] \o h[jump[i]]]
  <2>2. low \in Nat /\ low \in 0..n /\ n - m = low + 1
    OBVIOUS
  <2>3. ASSUME NEW i \in low..n, i < e PROVE h[jump[i]] = f[jump[i]]
    <3>1. i \in 0..n
      BY <2>2
    <3>2. jump[i] \in (i + 1)..n
      BY <2>3, <3>1
    <3> DEFINE j == jump[i]
    <3> HIDE DEF j
    <3>3. j \in low..n /\ j # low
      BY <2>2, <3>2 DEF j
    <3>4. h[j] = f[j]
      BY <3>3
    <3> QED BY <3>4 DEF j
  <2>4. ASSUME NEW i \in low..n PROVE h[i] = k[i]
    <3>1. CASE i = low
      <4>1. h[i] = IF i >= e THEN <<>> ELSE first[i] \o f[jump[i]]
        BY <3>1
      <4>2. k[i] = IF i >= e THEN <<>> ELSE first[i] \o h[jump[i]]
        OBVIOUS
      <4>3. ~(i >= e) => i < e
        BY <2>2
      <4> HIDE DEF h, k
      <4> QED BY <2>3, <4>1, <4>2, <4>3
    <3>2. CASE i # low
      <4>1. i \in (n - m)..n
        BY <2>2, <3>2
      <4>2. f[i] = IF i >= e THEN <<>> ELSE first[i] \o f[jump[i]]
        BY <2>1, <4>1
      <4>3. h[i] = f[i]
        BY <3>2
      <4>4. k[i] = IF i >= e THEN <<>> ELSE first[i] \o h[jump[i]]
        OBVIOUS
      <4>5. ~(i >= e) => i < e
        BY <2>2
      <4> HIDE DEF h, k
      <4> QED BY <2>3, <4>2, <4>3, <4>4, <4>5
    <3> QED BY <3>1, <3>2
  <2>5. h = k
    BY <2>4
  <2>6. Rule(h, m + 1)
    BY <2>5
  <2> HIDE DEF h
  <2> QED BY <2>6
<1>3. n \in Exists
  <2> HIDE DEF Exists
  <2> QED BY <1>1, <1>2, SetInduction
<1>4. PICK f : Rule(f, n)
  <2> HIDE DEF Rule
  <2> QED BY <1>3
<1>5. n - n = 0
  OBVIOUS
<1>6. f = [i \in 0..n |-> IF i >= e THEN <<>> ELSE first[i] \o f[jump[i]]]
  BY <1>4, <1>5
<1>7. Descends(f, n, e, first, jump)
  BY <1>6 DEF Descends
<1> QED BY <1>7

\* w goes on in the scene of v, where v has stopped being final.
GoesOnFrom(v, w) ==
    w.scene = v.scene /\ w.deal_start = v.commit_end /\ w.load_start = StableEnd(v)

\* The windows p of a scene from frame n on, up to its end.
Reaches(p, s, index, n) ==
    /\ p \in Seq(WindowSet) /\ Len(p) > 0
    /\ \A k \in 1..Len(p) : p[k].scene = index
    /\ p[1].deal_start = n /\ p[1].load_start = IF n > s[1] THEN n - Overlap ELSE n
    /\ \A k \in 2..Len(p) : GoesOnFrom(p[k - 1], p[k])
    /\ p[Len(p)].commit_end = s[1] + s[2] /\ p[Len(p)].overlap_right = 0

\* A window put before the windows that go on from it.
LEMMA OneMore ==
    ASSUME NEW s, NEW index, NEW n, NEW w \in WindowSet, NEW p, NEW m,
           Reaches(p, s, index, m), w.scene = index, w.deal_start = n, w.commit_end = m,
           w.load_start = IF n > s[1] THEN n - Overlap ELSE n,
           p[1].load_start = StableEnd(w)
    PROVE  Reaches(<<w>> \o p, s, index, n)
<1> DEFINE q == <<w>> \o p
<1>1. p \in Seq(WindowSet) /\ Len(p) \in Nat /\ Len(p) > 0
  BY DEF Reaches
<1>2. <<w>> \in Seq(WindowSet) /\ Len(<<w>>) = 1 /\ <<w>>[1] = w
  OBVIOUS
<1>3. /\ q \in Seq(WindowSet) /\ Len(q) = 1 + Len(p)
      /\ \A i \in 1..Len(<<w>>) : q[i] = <<w>>[i]
      /\ \A i \in 1..Len(p) : q[Len(<<w>>) + i] = p[i]
  <2> HIDE DEF WindowSet
  <2> QED BY <1>1, <1>2, JoinFacts
<1> HIDE DEF q
<1>4. q[1] = w /\ \A i \in 1..Len(p) : q[1 + i] = p[i]
  BY <1>2, <1>3
<1>5. \A k \in 2..Len(q) : k - 1 \in 1..Len(p) /\ q[k] = p[k - 1]
  <2> TAKE k \in 2..Len(q)
  <2>1. k - 1 \in 1..Len(p) /\ 1 + (k - 1) = k
    BY <1>1, <1>3
  <2> QED BY <1>4, <2>1
<1>6. \A k \in 1..Len(q) : q[k].scene = index
  <2> TAKE k \in 1..Len(q)
  <2>1. CASE k = 1
    BY <1>4, <2>1
  <2>2. CASE k # 1
    <3>1. k \in 2..Len(q)
      BY <1>1, <1>3, <2>2
    <3> QED BY <1>5, <3>1 DEF Reaches
  <2> QED BY <2>1, <2>2
<1>7. \A k \in 2..Len(q) : GoesOnFrom(q[k - 1], q[k])
  <2> TAKE k \in 2..Len(q)
  <2>1. CASE k = 2
    <3>1. q[k] = p[1] /\ q[k - 1] = w
      BY <1>4, <1>5, <2>1
    <3>2. p[1].scene = index /\ p[1].deal_start = m
      BY <1>1 DEF Reaches
    <3> QED BY <3>1, <3>2 DEF GoesOnFrom
  <2>2. CASE k # 2
    <3>1. k - 1 \in 2..Len(q) /\ k - 1 \in 2..Len(p)
      BY <1>1, <1>3, <2>2
    <3>2. q[k] = p[k - 1] /\ q[k - 1] = p[(k - 1) - 1]
      BY <1>5, <3>1
    <3> QED BY <3>1, <3>2 DEF Reaches
  <2> QED BY <2>1, <2>2
<1>8. q[Len(q)] = p[Len(p)]
  <2>1. Len(p) \in 1..Len(p) /\ Len(q) = 1 + Len(p)
    BY <1>1, <1>3
  <2> QED BY <1>4, <2>1
<1>9. Len(q) > 0
  BY <1>1, <1>3
<1> QED BY <1>3, <1>4, <1>6, <1>7, <1>8, <1>9 DEF Reaches, q

\* The last window alone.
LEMMA LastOne ==
    ASSUME NEW s, NEW index, NEW n, NEW w \in WindowSet, w.scene = index, w.deal_start = n,
           w.load_start = IF n > s[1] THEN n - Overlap ELSE n,
           w.commit_end = s[1] + s[2], w.overlap_right = 0
    PROVE  Reaches(<<w>> \o <<>>, s, index, n)
<1> DEFINE q == <<w>> \o <<>>
<1>1. q \in Seq(WindowSet) /\ Len(q) = 1 /\ q[1] = w
  <2> HIDE DEF WindowSet
  <2> QED OBVIOUS
<1> HIDE DEF q
<1>2. \A k \in 1..Len(q) : q[k] = w
  BY <1>1
<1>3. \A k \in 2..Len(q) : FALSE
  BY <1>1
<1> QED BY <1>1, <1>2, <1>3 DEF Reaches, q

\* The windows of a scene.
LEMMA SceneIsCut ==
    ASSUME NEW s \in SceneSet, NEW index \in Nat
    PROVE  Reaches(SceneWindows(s, index), s, index, s[1])
<1> DEFINE end == s[1] + s[2]
           W(n) == Window(s, index, n)
           first == [n \in 0..NumFrames |-> <<W(n)>>]
           jump == [n \in 0..NumFrames |-> W(n).commit_end]
           Rule(f) == f = [n \in 0..NumFrames |-> IF n >= end THEN <<>> ELSE <<W(n)>> \o f[W(n).commit_end]]
           from == CHOOSE f : Rule(f)
<1>1. s[1] \in Nat /\ s[2] \in Nat /\ s[2] > 0 /\ end <= NumFrames /\ end \in Int
  BY Sizes DEF SceneSet
<1>2. SceneWindows(s, index) = from[s[1]]
  BY DEF SceneWindows
<1>3. \A n \in 0..NumFrames : n < end => W(n).commit_end \in (n + 1)..NumFrames
  <2> SUFFICES ASSUME NEW n \in 0..NumFrames, n < end PROVE W(n).commit_end \in (n + 1)..NumFrames
    OBVIOUS
  <2>1. n \in Nat
    OBVIOUS
  <2>2. W(n).commit_end \in (n + 1)..end
    BY <2>1, WindowFacts
  <2> QED BY <1>1, <2>1, <2>2, Sizes
<1> HIDE DEF W, end
<1>4. Rule(from)
  <2>1. PICK f : Descends(f, NumFrames, end, first, jump)
    <3>1. \A n \in 0..NumFrames : n < end => jump[n] \in (n + 1)..NumFrames
      BY <1>3
    <3>2. NumFrames \in Nat /\ end \in Int
      BY <1>1, Sizes
    <3> HIDE DEF first, jump
    <3> QED BY <3>1, <3>2, CanDescend
  <2>2. \A n \in 0..NumFrames : first[n] = <<W(n)>> /\ jump[n] = W(n).commit_end
    OBVIOUS
  <2>3. Rule(f)
    <3> HIDE DEF first, jump
    <3> QED BY <2>1, <2>2 DEF Descends
  <2> HIDE DEF Rule
  <2> QED BY <2>3
<1> HIDE DEF from, first, jump
<1>5. \A n \in 0..NumFrames : from[n] = IF n >= end THEN <<>> ELSE <<W(n)>> \o from[W(n).commit_end]
  BY <1>4
<1> DEFINE Place(n) == n \in Nat /\ n < end /\ (n = s[1] \/ n >= s[1] + InferLen)
           Good == {m \in Nat : \A n \in Nat : Place(n) /\ end - n <= m => Reaches(from[n], s, index, n)}
<1>6. 0 \in Good
  BY <1>1
<1>7. ASSUME NEW m \in Nat, m \in Good PROVE m + 1 \in Good
  <2> SUFFICES ASSUME NEW n \in Nat, Place(n), end - n <= m + 1 PROVE Reaches(from[n], s, index, n)
    OBVIOUS
  <2>1. n \in 0..NumFrames /\ n < end /\ ~(n >= end)
    BY <1>1, Sizes
  <2> DEFINE w == W(n)
  <2>2. /\ w.scene = index /\ w.deal_start = n /\ w.commit_end \in (n + 1)..end
        /\ w.load_start = IF n > s[1] THEN n - Overlap ELSE n
        /\ w.commit_end < end => w.overlap_right = Overlap
        /\ w.commit_end = end => w.overlap_right = 0
        /\ w \in WindowSet /\ (w.commit_end = end \/ w.commit_end >= s[1] + InferLen)
    BY <2>1, WindowFacts DEF W, end
  <2> HIDE DEF w
  <2>3. from[n] = <<w>> \o from[w.commit_end]
    BY <1>5, <2>1 DEF w
  <2>4. CASE w.commit_end = end
    <3>1. from[end] = <<>>
      <4>1. end \in 0..NumFrames /\ end >= end
        BY <1>1, <2>1, Sizes
      <4> QED BY <1>5, <4>1
    <3>2. from[n] = <<w>> \o <<>>
      BY <2>3, <2>4, <3>1
    <3>3. w.commit_end = s[1] + s[2] /\ w.overlap_right = 0
      BY <2>2, <2>4 DEF end
    <3> QED BY <2>2, <3>2, <3>3, LastOne
  <2>5. CASE w.commit_end # end
    <3> DEFINE c == w.commit_end
    <3>1. c \in Nat /\ c < end /\ c >= s[1] + InferLen /\ c > n /\ end - c <= m
      BY <1>1, <2>2, <2>5
    <3> HIDE DEF c
    <3>2. Reaches(from[c], s, index, c)
      BY <1>7, <3>1
    <3>3. c > s[1]
      BY <1>1, <3>1, Sizes
    <3>4. from[c][1].load_start = c - Overlap
      BY <3>2, <3>3 DEF Reaches
    <3>5. StableEnd(w) = c - Overlap
      BY <2>2, <3>1, <1>1 DEF StableEnd, c
    <3>6. from[c][1].load_start = StableEnd(w) /\ w.commit_end = c
      BY <3>4, <3>5 DEF c
    <3>7. Reaches(<<w>> \o from[c], s, index, n)
      BY <2>2, <3>2, <3>6, OneMore
    <3> QED BY <2>3, <3>7 DEF c
  <2> QED BY <2>4, <2>5
<1> HIDE DEF Good
<1>8. \A m \in Nat : m \in Good
  BY <1>6, <1>7, SetInduction
<1>9. end - s[1] \in Nat /\ Place(s[1])
  BY <1>1 DEF end
<1>10. end - s[1] \in Good
  BY <1>8, <1>9
<1>11. end - s[1] <= end - s[1] /\ s[1] \in Nat
  BY <1>1, <1>9
<1>12. Reaches(from[s[1]], s, index, s[1])
  BY <1>9, <1>10, <1>11 DEF Good
<1> QED BY <1>2, <1>12

\* w is the window after v: in the same scene, or the first of a later one.
Follows(v, w) ==
    \/ GoesOnFrom(v, w)
    \/ w.scene > v.scene /\ w.overlap_left = 0 /\ v.overlap_right = 0

PlanOK(p) ==
    /\ p \in Seq(WindowSet) /\ Len(p) > 0
    /\ p[1].overlap_left = 0 /\ p[Len(p)].overlap_right = 0
    /\ \A k \in 2..Len(p) : Follows(p[k - 1], p[k])

\* The windows p of the first i scenes, the last of which is s.
PlanUpTo(p, s, i) ==
    /\ PlanOK(p)
    /\ \A k \in 1..Len(p) : p[k].scene <= i
    /\ p[Len(p)].commit_end = s[1] + s[2]

\* The windows of one scene are a plan.
LEMMA OneScene ==
    ASSUME NEW s \in SceneSet, NEW i \in Nat, NEW q, Reaches(q, s, i, s[1])
    PROVE  PlanUpTo(q, s, i)
<1>1. q \in Seq(WindowSet) /\ Len(q) \in Nat /\ Len(q) > 0 /\ s[1] \in Nat
  BY DEF Reaches, SceneSet
<1>2. q[1] \in WindowSet /\ q[1].deal_start = s[1] /\ q[1].load_start = s[1]
  BY <1>1 DEF Reaches
<1>3. q[1].overlap_left = 0
  <2>1. \A w \in WindowSet : w.overlap_left = w.deal_start - w.load_start
    BY DEF WindowSet, WindowOK
  <2>2. q[1].overlap_left = s[1] - s[1]
    BY <1>2, <2>1
  <2> QED BY <1>1, <2>2
<1>4. \A k \in 1..Len(q) : q[k].scene <= i
  BY <1>1 DEF Reaches
<1> QED BY <1>1, <1>3, <1>4 DEF PlanUpTo, PlanOK, Reaches, Follows

\* So are those of the scenes before it, followed by them.
LEMMA NextScene ==
    ASSUME NEW s, NEW t \in SceneSet, NEW i \in Nat, NEW p, PlanUpTo(p, s, i),
           NEW q, Reaches(q, t, i + 1, t[1])
    PROVE  PlanUpTo(p \o q, t, i + 1)
<1> DEFINE r == p \o q
<1>1. /\ p \in Seq(WindowSet) /\ Len(p) \in Nat /\ Len(p) > 0
      /\ q \in Seq(WindowSet) /\ Len(q) \in Nat /\ Len(q) > 0 /\ t[1] \in Nat
  BY DEF Reaches, SceneSet, PlanUpTo, PlanOK
<1>2. /\ r \in Seq(WindowSet) /\ Len(r) = Len(p) + Len(q)
      /\ \A k \in 1..Len(p) : r[k] = p[k]
      /\ \A k \in 1..Len(q) : r[Len(p) + k] = q[k]
  <2> HIDE DEF WindowSet
  <2> QED BY <1>1, JoinFacts
<1> HIDE DEF r
<1>3. PlanUpTo(q, t, i + 1)
  BY OneScene
<1>4. \A k \in 1..Len(r) : k <= Len(p) \/ (k - Len(p) \in 1..Len(q) /\ Len(p) + (k - Len(p)) = k)
  BY <1>1, <1>2
<1>5. ASSUME NEW k \in 1..Len(r) PROVE r[k].scene <= i + 1
  <2>1. CASE k <= Len(p)
    <3>1. k \in 1..Len(p) /\ p[k] \in WindowSet
      BY <1>1, <2>1
    <3>2. r[k] = p[k] /\ p[k].scene <= i /\ p[k].scene \in Nat
      BY <1>2, <3>1 DEF PlanUpTo, WindowSet
    <3> QED BY <3>2
  <2>2. CASE k - Len(p) \in 1..Len(q) /\ Len(p) + (k - Len(p)) = k
    BY <1>2, <1>3, <2>2 DEF PlanUpTo
  <2> QED BY <1>4, <2>1, <2>2
<1>6. ASSUME NEW k \in 2..Len(r) PROVE Follows(r[k - 1], r[k])
  <2>1. CASE k <= Len(p)
    <3>1. k \in 2..Len(p) /\ k \in 1..Len(p) /\ k - 1 \in 1..Len(p)
      BY <1>1, <2>1
    <3>2. r[k] = p[k] /\ r[k - 1] = p[k - 1] /\ Follows(p[k - 1], p[k])
      BY <1>2, <3>1 DEF PlanUpTo, PlanOK
    <3> QED BY <3>2
  <2>2. CASE k = Len(p) + 1
    <3>1. k - 1 = Len(p) /\ Len(p) \in 1..Len(p) /\ 1 \in 1..Len(q)
      BY <1>1, <2>2
    <3>2. r[k] = q[1] /\ r[k - 1] = p[Len(p)]
      BY <1>2, <2>2, <3>1
    <3>3. p[Len(p)].scene <= i /\ p[Len(p)].scene \in Nat /\ p[Len(p)].overlap_right = 0
      <4>1. p[Len(p)] \in WindowSet
        BY <1>1
      <4> QED BY <3>1, <4>1 DEF PlanUpTo, PlanOK, WindowSet
    <3>4. q[1].scene = i + 1 /\ q[1].overlap_left = 0
      BY <1>3, <3>1 DEF Reaches, PlanUpTo, PlanOK
    <3>5. i + 1 > p[Len(p)].scene
      BY <3>3
    <3> QED BY <3>2, <3>3, <3>4, <3>5 DEF Follows
  <2>3. CASE k > Len(p) + 1
    <3>1. /\ k - Len(p) \in 2..Len(q) /\ k - Len(p) \in 1..Len(q) /\ Len(p) + (k - Len(p)) = k
          /\ (k - Len(p)) - 1 \in 1..Len(q) /\ Len(p) + ((k - Len(p)) - 1) = k - 1
      <4>1. k \in Int /\ Len(p) \in Int /\ Len(q) \in Int /\ k <= Len(p) + Len(q) /\ k > Len(p) + 1
        BY <1>1, <1>2, <2>3
      <4> QED BY <4>1
    <3>2. r[k] = q[k - Len(p)] /\ r[k - 1] = q[(k - Len(p)) - 1]
      BY <1>2, <3>1
    <3>3. Follows(q[(k - Len(p)) - 1], q[k - Len(p)])
      BY <1>3, <3>1 DEF PlanUpTo, PlanOK
    <3> QED BY <3>2, <3>3
  <2>4. k <= Len(p) \/ k = Len(p) + 1 \/ k > Len(p) + 1
    BY <1>1
  <2> QED BY <2>1, <2>2, <2>3, <2>4
<1>7. Len(r) > 0 /\ r[1] = p[1] /\ r[Len(r)] = q[Len(q)]
  <2>1. 1 \in 1..Len(p) /\ Len(q) \in 1..Len(q)
    BY <1>1
  <2> QED BY <1>1, <1>2, <2>1
<1>8. PlanOK(r)
  BY <1>2, <1>3, <1>6, <1>7 DEF PlanOK, PlanUpTo
<1>9. r[Len(r)].commit_end = t[1] + t[2]
  BY <1>3, <1>7 DEF PlanUpTo
<1> QED BY <1>5, <1>8, <1>9 DEF PlanUpTo, r

\* The last scene of a list.
LastScene(scenes) == NormalizeScenes(scenes)[Len(NormalizeScenes(scenes))]

\* build_window_specs makes a plan that ends where the last scene ends.
LEMMA PlansFit ==
    ASSUME NEW scenes \in Seq(Int \X Int)
    PROVE  /\ PlanOK(BuildWindowSpecs(scenes))
           /\ BuildWindowSpecs(scenes)[Len(BuildWindowSpecs(scenes))].commit_end
                = LastScene(scenes)[1] + LastScene(scenes)[2]
<1> DEFINE normal == NormalizeScenes(scenes)
           n == Len(normal)
           Rule(f) == f = [i \in 0..n |-> IF i = 0 THEN <<>> ELSE f[i - 1] \o SceneWindows(normal[i], i)]
           upTo == CHOOSE f : Rule(f)
           g == [i \in 1..n |-> SceneWindows(normal[i], i)]
<1>1. normal \in Seq(SceneSet) /\ n \in Nat /\ n > 0 /\ \A i \in 1..n : normal[i] \in SceneSet
  <2>1. normal \in Seq(SceneSet) /\ n > 0
    BY ScenesFit
  <2> HIDE DEF normal, SceneSet
  <2> QED BY <2>1
<1>2. BuildWindowSpecs(scenes) = upTo[n]
  BY DEF BuildWindowSpecs
<1> HIDE DEF normal
<1>3. Rule(upTo)
  <2>1. PICK f : f = [i \in 0..n |-> IF i = 0 THEN <<>> ELSE f[i - 1] \o g[i]]
    <3> HIDE DEF g, n
    <3> QED BY <1>1, CanJoin
  <2>2. [i \in 0..n |-> IF i = 0 THEN <<>> ELSE f[i - 1] \o g[i]]
          = [i \in 0..n |-> IF i = 0 THEN <<>> ELSE f[i - 1] \o SceneWindows(normal[i], i)]
    <3>1. \A i \in 1..n : g[i] = SceneWindows(normal[i], i)
      OBVIOUS
    <3>2. \A i \in 0..n : i # 0 => i \in 1..n
      BY <1>1
    <3> HIDE DEF g, n
    <3> QED BY <3>1, <3>2
  <2>3. Rule(f)
    BY <2>1, <2>2
  <2> HIDE DEF Rule
  <2> QED BY <2>3
<1> HIDE DEF upTo
<1>4. /\ upTo[0] = <<>>
      /\ \A i \in 1..n : upTo[i] = upTo[i - 1] \o SceneWindows(normal[i], i)
  <2>1. 0 \in 0..n /\ \A i \in 1..n : i \in 0..n /\ i # 0
    BY <1>1
  <2> HIDE DEF n
  <2> QED BY <1>3, <2>1
<1> HIDE DEF n
<1>5. \A i \in 1..n : Reaches(SceneWindows(normal[i], i), normal[i], i, normal[i][1])
  <2> TAKE i \in 1..n
  <2>1. i \in Nat /\ normal[i] \in SceneSet
    BY <1>1
  <2> QED BY <2>1, SceneIsCut
<1> DEFINE Good == {i \in Nat : i + 1 <= n => PlanUpTo(upTo[i + 1], normal[i + 1], i + 1)}
<1>6. 0 \in Good
  <2>1. 1 \in 1..n /\ 1 - 1 = 0 /\ 0 + 1 = 1 /\ 1 \in Nat
    BY <1>1
  <2> DEFINE q == SceneWindows(normal[1], 1)
  <2>2. Reaches(q, normal[1], 1, normal[1][1]) /\ upTo[1] = <<>> \o q
    BY <1>4, <1>5, <2>1
  <2> HIDE DEF q
  <2>3. upTo[1] = q
    <3>1. q \in Seq(WindowSet)
      BY <2>2 DEF Reaches
    <3> HIDE DEF WindowSet
    <3> QED BY <2>2, <3>1
  <2>4. PlanUpTo(upTo[1], normal[1], 1)
    BY <1>1, <2>1, <2>2, <2>3, OneScene
  <2> QED BY <2>1, <2>4
<1>7. ASSUME NEW i \in Nat, i \in Good PROVE i + 1 \in Good
  <2> SUFFICES ASSUME (i + 1) + 1 <= n
               PROVE PlanUpTo(upTo[(i + 1) + 1], normal[(i + 1) + 1], (i + 1) + 1)
    OBVIOUS
  <2> DEFINE j == i + 1
  <2>1. j \in Nat /\ j + 1 \in 1..n /\ (j + 1) - 1 = j /\ j <= n
    BY <1>1
  <2>2. PlanUpTo(upTo[j], normal[j], j)
    BY <1>7, <2>1
  <2> HIDE DEF j
  <2> DEFINE q == SceneWindows(normal[j + 1], j + 1)
  <2>3. Reaches(q, normal[j + 1], j + 1, normal[j + 1][1]) /\ upTo[j + 1] = upTo[j] \o q
    BY <1>4, <1>5, <2>1
  <2> HIDE DEF q
  <2>4. PlanUpTo(upTo[j + 1], normal[j + 1], j + 1)
    BY <1>1, <2>1, <2>2, <2>3, NextScene
  <2> QED BY <2>4 DEF j
<1> HIDE DEF Good
<1>8. \A i \in Nat : i \in Good
  BY <1>6, <1>7, SetInduction
<1>9. n - 1 \in Nat /\ (n - 1) + 1 = n
  BY <1>1
<1>10. PlanUpTo(upTo[n], normal[n], n)
  BY <1>8, <1>9 DEF Good
<1> QED BY <1>2, <1>10 DEF PlanUpTo, LastScene, n, normal

\* The plan of every object.
LEMMA SpecsFit ==
    ASSUME request \in Requests, NEW o \in Objects
    PROVE  /\ PlanOK(Specs(o))
           /\ Covered(o) = LastScene(request.scenes[o])[1] + LastScene(request.scenes[o])[2]
<1>1. request.scenes[o] \in SceneLists
  BY DEF Requests
<1>2. request.scenes[o] \in Seq(Int \X Int)
  BY <1>1, ChainAssumption
<1>3. Specs(o) = BuildWindowSpecs(request.scenes[o])
  BY <1>1 DEF Specs, Plans
<1> QED BY <1>2, <1>3, PlansFit DEF Covered

-----------------------------------------------------------------------------
(***************************************************************************)
(* Caches, by the frames of the video they hold.                           *)
(***************************************************************************)

\* What c holds for frame f of the video, if it holds anything.
FrameAt(c, f) == c.frames[f - c.start + 1]

Holds(c, f) == f \in c.start..(EndIndex(c) - 1)

\* A cache begins and ends somewhere and is filled between.
LEMMA CacheFacts ==
    ASSUME NEW S, NEW c \in CacheOf(S)
    PROVE  /\ c.start \in Nat /\ c.start <= NumFrames /\ EndIndex(c) \in Nat
           /\ c.start <= EndIndex(c) /\ Len(c.frames) = EndIndex(c) - c.start
           /\ DOMAIN c.frames = 1..(EndIndex(c) - c.start)
           /\ \A f : Holds(c, f) => FrameAt(c, f) \in S
           /\ c = [start |-> c.start, frames |-> c.frames]
<1>1. c.start \in 0..NumFrames /\ c.frames \in Seq(S) /\ c = [start |-> c.start, frames |-> c.frames]
  BY DEF CacheOf
<1> DEFINE n == Len(c.frames)
<1>2. n \in Nat /\ DOMAIN c.frames = 1..n /\ \A i \in 1..n : c.frames[i] \in S
  BY <1>1
<1>3. c.start \in Nat /\ c.start <= NumFrames
  BY <1>1, Sizes
<1>4. EndIndex(c) = c.start + n
  BY DEF EndIndex
<1> HIDE DEF n
<1>5. ASSUME NEW f, Holds(c, f) PROVE FrameAt(c, f) \in S
  <2>1. f \in Int /\ c.start <= f /\ f < c.start + n
    BY <1>2, <1>3, <1>4, <1>5 DEF Holds
  <2>2. f - c.start + 1 \in 1..n
    BY <1>2, <1>3, <2>1
  <2> QED BY <1>2, <2>2 DEF FrameAt
<1>6. n = EndIndex(c) - c.start /\ EndIndex(c) \in Nat /\ c.start <= EndIndex(c)
  BY <1>2, <1>3, <1>4
<1> QED BY <1>1, <1>2, <1>3, <1>5, <1>6 DEF n

\* What slice returns.
LEMMA SliceFacts ==
    ASSUME NEW S, NEW c \in CacheOf(S), NEW a \in Int, NEW b \in Int, CanSlice(c, a, b)
    PROVE  /\ Slice(c, a, b) \in Seq(S) /\ Len(Slice(c, a, b)) = b - a
           /\ \A i \in 1..(b - a) : Slice(c, a, b)[i] = FrameAt(c, a + i - 1)
<1>1. c.start \in Nat /\ EndIndex(c) \in Nat /\ Len(c.frames) = EndIndex(c) - c.start
  BY CacheFacts
<1>2. c.frames \in Seq(S)
  BY DEF CacheOf
<1>3. c.start <= a /\ a <= b /\ b <= EndIndex(c)
  BY DEF CanSlice
<1> DEFINE x == a - c.start + 1
           y == b - c.start
<1>4. x \in Int /\ y \in Int /\ 0 < x /\ y <= Len(c.frames) /\ x <= y + 1 /\ y - x + 1 = b - a
  BY <1>1, <1>3, SMTT(60)
<1>5. Slice(c, a, b) = SubSeq(c.frames, x, y)
  BY DEF Slice
<1>6. ASSUME NEW i \in 1..(b - a) PROVE x + i - 1 = a + i - 1 - c.start + 1
  BY <1>1
<1> HIDE DEF x, y
<1> DEFINE s == c.frames
<1>7. s \in Seq(S)
  BY <1>2
<1>8. y <= Len(s)
  BY <1>4
<1>9. /\ Slice(c, a, b) = SubSeq(s, x, y)
      /\ \A i \in 1..(b - a) : s[x + i - 1] = FrameAt(c, a + i - 1)
  <2>1. ASSUME NEW i \in 1..(b - a) PROVE FrameAt(c, a + i - 1) = s[x + i - 1]
    <3> DEFINE f == a + i - 1
    <3>1. f \in Int /\ x + i - 1 = f - c.start + 1
      BY <1>1, <1>6
    <3> HIDE DEF f
    <3>2. FrameAt(c, f) = s[f - c.start + 1]
      BY DEF FrameAt
    <3> QED BY <3>1, <3>2 DEF f
  <2> QED BY <1>5, <2>1
<1> HIDE DEF s
<1>10. /\ SubSeq(s, x, y) \in Seq(S) /\ Len(SubSeq(s, x, y)) = y - x + 1
       /\ \A i \in 1..(y - x + 1) : SubSeq(s, x, y)[i] = s[x + i - 1]
  BY <1>4, <1>7, <1>8, PartFacts
<1> QED BY <1>4, <1>9, <1>10

\* A cache made of frames.
LEMMA NewFacts ==
    ASSUME NEW S, NEW n \in Nat, n <= NumFrames, NEW s \in Seq(S)
    PROVE  LET c == [start |-> n, frames |-> s]
           IN /\ c \in CacheOf(S) /\ c.start = n /\ EndIndex(c) = n + Len(s)
              /\ \A i \in 1..Len(s) : FrameAt(c, n + i - 1) = s[i]
<1> DEFINE c == [start |-> n, frames |-> s]
<1>1. c \in CacheOf(S) /\ c.start = n /\ c.frames = s
  BY Sizes DEF CacheOf
<1>2. \A i \in 1..Len(s) : (n + i - 1) - n + 1 = i
  OBVIOUS
<1> HIDE DEF c
<1>3. EndIndex(c) = n + Len(s)
  BY <1>1 DEF EndIndex
<1>4. ASSUME NEW i \in 1..Len(s) PROVE FrameAt(c, n + i - 1) = s[i]
  <2>1. (n + i - 1) - n + 1 = i
    BY <1>2
  <2>2. FrameAt(c, n + i - 1) = s[(n + i - 1) - n + 1]
    BY <1>1 DEF FrameAt
  <2> QED BY <2>1, <2>2
<1> QED BY <1>1, <1>3, <1>4 DEF c

\* An empty cache ends where it begins.
LEMMA EmptyFacts ==
    ASSUME NEW S, NEW n \in Nat, n <= NumFrames
    PROVE  /\ EmptyCache(n) \in CacheOf(S) /\ EmptyCache(n).start = n /\ EndIndex(EmptyCache(n)) = n
<1>1. <<>> \in Seq(S) /\ Len(<<>>) = 0
  OBVIOUS
<1>2. n + 0 = n
  OBVIOUS
<1> QED BY <1>1, <1>2, NewFacts DEF EmptyCache

\* What extending a cache does to it.
LEMMA ExtendFacts ==
    ASSUME NEW S, NEW c \in CacheOf(S), NEW s \in Seq(S)
    PROVE  /\ Extend(c, s) \in CacheOf(S) /\ Extend(c, s).start = c.start
           /\ EndIndex(Extend(c, s)) = EndIndex(c) + Len(s)
           /\ \A f : Holds(c, f) => FrameAt(Extend(c, s), f) = FrameAt(c, f)
           /\ \A i \in 1..Len(s) : FrameAt(Extend(c, s), EndIndex(c) + i - 1) = s[i]
<1> DEFINE t == c.frames
           d == Extend(c, s)
<1>1. /\ c.start \in Nat /\ EndIndex(c) \in Nat /\ Len(t) = EndIndex(c) - c.start /\ c.start <= NumFrames
      /\ c = [start |-> c.start, frames |-> t]
  BY CacheFacts
<1>2. t \in Seq(S)
  BY DEF CacheOf
<1>3. d = [start |-> c.start, frames |-> t \o s]
  <2> DEFINE u == t \o s
  <2>1. d = [c EXCEPT !.frames = u]
    BY DEF Extend
  <2> HIDE DEF u, t
  <2>2. [c EXCEPT !.frames = u] = [start |-> c.start, frames |-> u]
    BY <1>1
  <2> QED BY <2>1, <2>2 DEF u
<1> DEFINE u == t \o s
<1> HIDE DEF t
<1>4. /\ u \in Seq(S) /\ Len(u) = Len(t) + Len(s) /\ Len(t) \in Nat /\ Len(s) \in Nat
      /\ \A i \in 1..Len(t) : u[i] = t[i]
      /\ \A i \in 1..Len(s) : u[Len(t) + i] = s[i]
  BY <1>2, JoinFacts
<1> HIDE DEF u, d
<1>5. d = [start |-> c.start, frames |-> u]
  BY <1>3 DEF u
<1>6. d \in CacheOf(S) /\ d.start = c.start /\ d.frames = u
  BY <1>1, <1>4, <1>5, NewFacts
<1>7. EndIndex(d) = EndIndex(c) + Len(s)
  BY <1>1, <1>4, <1>6 DEF EndIndex
<1>8. ASSUME NEW f, Holds(c, f) PROVE FrameAt(d, f) = FrameAt(c, f)
  <2>1. f - c.start + 1 \in 1..Len(t)
    BY <1>1, <1>8 DEF Holds
  <2>2. u[f - c.start + 1] = t[f - c.start + 1]
    BY <1>4, <2>1
  <2> QED BY <1>6, <2>2 DEF FrameAt, t
<1>9. ASSUME NEW i \in 1..Len(s) PROVE FrameAt(d, EndIndex(c) + i - 1) = s[i]
  <2>1. (EndIndex(c) + i - 1) - c.start + 1 = Len(t) + i
    BY <1>1
  <2> QED BY <1>4, <1>6, <2>1 DEF FrameAt
<1> QED BY <1>6, <1>7, <1>8, <1>9 DEF d

\* What evicting a cache does to it.
LEMMA PopFacts ==
    ASSUME NEW S, NEW c \in CacheOf(S), NEW end \in Int, end <= EndIndex(c), end <= NumFrames
    PROVE  /\ PopBefore(c, end) \in CacheOf(S)
           /\ PopBefore(c, end).start = (IF end <= c.start THEN c.start ELSE end)
           /\ EndIndex(PopBefore(c, end)) = EndIndex(c)
           /\ \A f : Holds(PopBefore(c, end), f) =>
                 Holds(c, f) /\ FrameAt(PopBefore(c, end), f) = FrameAt(c, f)
<1>1. c.start \in Nat /\ EndIndex(c) \in Nat
  BY CacheFacts
<1>2. CASE end <= c.start
  BY <1>1, <1>2 DEF PopBefore
<1>3. CASE ~(end <= c.start)
  <2> DEFINE s == Slice(c, end, EndIndex(c))
             d == PopBefore(c, end)
  <2>1. end \in Nat /\ CanSlice(c, end, EndIndex(c)) /\ EndIndex(c) \in Int
    BY <1>1, <1>3 DEF CanSlice
  <2>2. /\ s \in Seq(S) /\ Len(s) = EndIndex(c) - end
        /\ \A i \in 1..(EndIndex(c) - end) : s[i] = FrameAt(c, end + i - 1)
    BY <2>1, SliceFacts
  <2>3. d = [start |-> end, frames |-> s]
    BY <1>3 DEF PopBefore
  <2> HIDE DEF s, d
  <2>4. /\ d \in CacheOf(S) /\ d.start = end /\ EndIndex(d) = end + Len(s)
        /\ \A i \in 1..Len(s) : FrameAt(d, end + i - 1) = s[i]
    BY <2>1, <2>2, <2>3, NewFacts
  <2>5. EndIndex(d) = EndIndex(c)
    BY <1>1, <2>2, <2>4
  <2>6. ASSUME NEW f, Holds(d, f) PROVE Holds(c, f) /\ FrameAt(d, f) = FrameAt(c, f)
    <3>1. f \in Int /\ end <= f /\ f < EndIndex(c) /\ c.start < end
      BY <1>1, <1>3, <2>4, <2>5, <2>6 DEF Holds
    <3>2. f - end + 1 \in 1..Len(s) /\ end + (f - end + 1) - 1 = f
      BY <1>1, <2>2, <3>1
    <3>3. FrameAt(d, f) = s[f - end + 1] /\ s[f - end + 1] = FrameAt(c, f)
      BY <2>2, <2>4, <3>2
    <3>4. Holds(c, f)
      BY <1>1, <3>1 DEF Holds
    <3> QED BY <3>3, <3>4
  <2> QED BY <1>3, <2>4, <2>5, <2>6 DEF d
<1> QED BY <1>2, <1>3

-----------------------------------------------------------------------------
(***************************************************************************)
(* What the operations of the chain do, field by field.                    *)
(***************************************************************************)

Caches == CacheOf(FrameRecords)

ChainSet == [input : [Objects -> Caches], output : [Objects -> Caches], overlap : [Objects -> Caches],
             mask : CacheOf(SUBSET Objects), input_frontier : [Objects -> 0..NumFrames],
             flush_frontier : [Objects -> 0..NumFrames], next : [Objects -> Nat \ {0}],
             next_write : 0..NumFrames, written : Seq(FrameRecords)]

\* All of d but the named fields is what it is in ch.
SameButIO(ch, d) ==
    /\ d.overlap = ch.overlap /\ d.mask = ch.mask /\ d.flush_frontier = ch.flush_frontier
    /\ d.next = ch.next /\ d.next_write = ch.next_write /\ d.written = ch.written

\* The objects are numbers in a row.
LEMMA ObjectFacts ==
    ASSUME NEW o \in Objects
    PROVE  /\ o \in Nat /\ 1 <= o /\ o <= ObjectCount /\ ObjectCount \in Objects /\ 1 \in Objects
           /\ o = ObjectCount \/ (o < ObjectCount /\ o + 1 \in Objects)
           /\ o = 1 \/ (1 < o /\ o - 1 \in Objects)
BY Sizes DEF Objects

\* Extending by nothing changes nothing.
LEMMA ExtendByNothing ==
    ASSUME NEW c \in Caches, NEW s \in Seq(FrameRecords), Len(s) = 0
    PROVE  Extend(c, s) = c
<1>1. c = [start |-> c.start, frames |-> c.frames] /\ c.frames \in Seq(FrameRecords)
  BY CacheFacts DEF Caches, CacheOf
<1> DEFINE t == c.frames
           u == t \o s
<1>2. u = t
  <2> HIDE DEF t
  <2>1. t \in Seq(FrameRecords) /\ s = <<>>
    BY <1>1 DEF t
  <2> HIDE DEF FrameRecords
  <2> QED BY <2>1
<1>3. Extend(c, s) = [c EXCEPT !.frames = u]
  BY DEF Extend
<1> HIDE DEF u
<1> QED BY <1>1, <1>2, <1>3

\* Two sequences with the same elements are the same.
LEMMA SameList ==
    ASSUME NEW S, NEW s \in Seq(S), NEW t \in Seq(S), Len(s) = Len(t), \A i \in 1..Len(s) : s[i] = t[i]
    PROVE  s = t
OBVIOUS

\* The frames just appended can be sliced off again.
LEMMA SliceOfExtended ==
    ASSUME NEW S, NEW c \in CacheOf(S), NEW s \in Seq(S), NEW a \in Int, NEW b \in Int
    PROVE  a = EndIndex(c) /\ b - a = Len(s) => Slice(Extend(c, s), a, b) = s
<1> DEFINE d == Extend(c, s)
           t == Slice(d, a, b)
<1>1. c.start \in Nat /\ EndIndex(c) \in Nat /\ c.start <= EndIndex(c) /\ Len(s) \in Nat
  BY CacheFacts
<1>2. /\ d \in CacheOf(S) /\ d.start = c.start /\ EndIndex(d) = EndIndex(c) + Len(s)
      /\ \A i \in 1..Len(s) : FrameAt(d, EndIndex(c) + i - 1) = s[i]
  BY ExtendFacts
<1> HIDE DEF d
<1>3. CanSlice(d, a, b) =>
        t \in Seq(S) /\ Len(t) = b - a /\ \A i \in 1..(b - a) : t[i] = FrameAt(d, a + i - 1)
  BY <1>2, SliceFacts
<1> HIDE DEF t
<1>4. ASSUME a = EndIndex(c), b - a = Len(s) PROVE t = s
  <2>1. CanSlice(d, a, b)
    BY <1>1, <1>2, <1>4 DEF CanSlice
  <2>2. t \in Seq(S) /\ Len(t) = b - a /\ \A i \in 1..(b - a) : t[i] = FrameAt(d, a + i - 1)
    BY <1>3, <2>1
  <2>3. Len(t) = Len(s) /\ \A i \in 1..Len(s) : t[i] = s[i]
    BY <1>2, <1>4, <2>2
  <2> QED BY <2>2, <2>3, SameList
<1> QED BY <1>4 DEF t, d

\* The frames s of a..b are what comes next in the output of object o.
Appends(ch, o, a, b, s, channel) ==
    /\ a <= b /\ b <= NumFrames /\ Len(s) = b - a /\ a = EndIndex(ch.output[o])
    /\ channel = "raw" => s = Slice(ch.input[o], a, b)

\* What Emit and PassGap do with them.
Delivered(ch, o, a, b, s, channel) ==
    Forward([ch EXCEPT !.output[o] = Extend(@, s)], o, a, b, channel)

\* Frames are appended to the output of o and forwarded to the next object.
LEMMA DeliverFacts ==
    ASSUME NEW ch \in ChainSet, NEW o \in Objects, NEW a \in Nat, NEW b \in Nat,
           NEW s \in Seq(FrameRecords), NEW channel, Appends(ch, o, a, b, s, channel)
    PROVE  LET d == Delivered(ch, o, a, b, s, channel)
           IN /\ d \in ChainSet /\ SameButIO(ch, d)
              /\ d.output[o] = Extend(ch.output[o], s)
              /\ \A q \in Objects : q # o => d.output[q] = ch.output[q]
              /\ \A q \in Objects : q # o + 1 => d.input[q] = ch.input[q]
                                                 /\ d.input_frontier[q] = ch.input_frontier[q]
              /\ o < ObjectCount => d.input[o + 1] = Extend(ch.input[o + 1], s)
              /\ o < ObjectCount => d.input_frontier[o + 1] =
                    IF a < b /\ ch.input_frontier[o + 1] < b THEN b ELSE ch.input_frontier[o + 1]
<1> DEFINE new == Extend(ch.output[o], s)
           e == [ch EXCEPT !.output[o] = Extend(@, s)]
           d == Delivered(ch, o, a, b, s, channel)
<1>0. /\ a <= b /\ b <= NumFrames /\ Len(s) = b - a /\ a = EndIndex(ch.output[o])
      /\ channel = "raw" => s = Slice(ch.input[o], a, b)
  BY DEF Appends
<1>1. ch.output[o] \in Caches /\ ch.input[o] \in Caches
  BY DEF ChainSet
<1>2. new \in Caches
  BY <1>1, ExtendFacts DEF Caches
<1>3. e = [ch EXCEPT !.output[o] = new]
  OBVIOUS
<1> HIDE DEF new, e
<1>4. /\ e \in ChainSet /\ SameButIO(ch, e) /\ e.input = ch.input /\ e.input_frontier = ch.input_frontier
      /\ e.output[o] = new /\ \A q \in Objects : q # o => e.output[q] = ch.output[q]
  <2> HIDE DEF Caches
  <2> QED BY <1>2, <1>3 DEF ChainSet, SameButIO
<1>5. CASE o = ObjectCount \/ b <= a
  <2>1. d = e
    BY <1>5 DEF Forward, Delivered, e
  <2>2. o < ObjectCount => Len(s) = 0 /\ o + 1 \in Objects /\ ~(a < b)
    BY <1>0, <1>5, ObjectFacts
  <2>3. o < ObjectCount => Extend(ch.input[o + 1], s) = ch.input[o + 1]
    <3>1. o < ObjectCount => ch.input[o + 1] \in Caches
      BY <2>2 DEF ChainSet
    <3> QED BY <2>2, <3>1, ExtendByNothing
  <2> QED BY <1>4, <2>1, <2>2, <2>3 DEF new, e
<1>6. CASE ~(o = ObjectCount \/ b <= a)
  <2>1. o < ObjectCount /\ o + 1 \in Objects /\ a < b
    BY <1>6, ObjectFacts
  <2> DEFINE p == o + 1
  <2>2. p \in Objects /\ p # o /\ ch.input[p] \in Caches /\ ch.input_frontier[p] \in 0..NumFrames
    BY <2>1, ObjectFacts DEF ChainSet
  <2>3. Slice(IF channel = "raw" THEN e.input[o] ELSE e.output[o], a, b) = s
    <3>1. CASE channel = "raw"
      BY <1>0, <1>4, <3>1
    <3>2. CASE channel # "raw"
      <4>1. b - a = Len(s) /\ a = EndIndex(ch.output[o])
        BY <1>0
      <4>2. Slice(new, a, b) = s
        <5> DEFINE c == ch.output[o]
        <5>1. c \in CacheOf(FrameRecords) /\ new = Extend(c, s) /\ a = EndIndex(c) /\ b - a = Len(s)
          BY <1>1, <4>1 DEF new, Caches
        <5> HIDE DEF c
        <5>2. a \in Int /\ b \in Int
          OBVIOUS
        <5>3. Slice(Extend(c, s), a, b) = s
          BY <5>1, <5>2, SliceOfExtended
        <5> QED BY <5>1, <5>3
      <4> QED BY <1>4, <3>2, <4>2
    <3> QED BY <3>1, <3>2
  <2> DEFINE x == Extend(ch.input[p], s)
             y == Max({ch.input_frontier[p], b})
  <2>4. x \in Caches
    BY <2>2, ExtendFacts DEF Caches
  <2>5. y \in 0..NumFrames
    <3>1. b \in 0..NumFrames /\ b \in Int /\ ch.input_frontier[p] \in Int
      BY <1>0, <2>2, Sizes
    <3>2. y = IF ch.input_frontier[p] >= b THEN ch.input_frontier[p] ELSE b
      BY <3>1, MaxOf
    <3> QED BY <2>2, <3>1, <3>2
  <2>50. y = IF a < b /\ ch.input_frontier[p] < b THEN b ELSE ch.input_frontier[p]
    <3>1. b \in Int /\ ch.input_frontier[p] \in Int
      BY <2>2, Sizes
    <3>2. y = IF ch.input_frontier[p] >= b THEN ch.input_frontier[p] ELSE b
      BY <3>1, MaxOf
    <3> QED BY <2>1, <3>1, <3>2
  <2>6. d = [e EXCEPT !.input[p] = x, !.input_frontier[p] = y]
    <3>1. d = [e EXCEPT !.input[o + 1] = Extend(@, Slice(IF channel = "raw" THEN e.input[o] ELSE e.output[o], a, b)),
                        !.input_frontier[o + 1] = Max({@, b})]
      BY <1>6 DEF Forward, Delivered, e
    <3> QED BY <1>4, <2>3, <3>1
  <2> HIDE DEF p, x, y, d
  <2>7. /\ d \in ChainSet /\ SameButIO(e, d) /\ d.output = e.output
        /\ d.input[p] = x /\ d.input_frontier[p] = y
        /\ \A q \in Objects : q # p => d.input[q] = e.input[q] /\ d.input_frontier[q] = e.input_frontier[q]
    <3> HIDE DEF Caches
    <3> QED BY <1>4, <2>2, <2>4, <2>5, <2>6 DEF ChainSet, SameButIO
  <2>8. SameButIO(ch, d)
    BY <1>4, <2>7 DEF SameButIO
  <2>9. o < ObjectCount => d.input_frontier[o + 1] =
          IF a < b /\ ch.input_frontier[o + 1] < b THEN b ELSE ch.input_frontier[o + 1]
    BY <2>7, <2>50 DEF p
  <2> QED BY <1>4, <2>1, <2>7, <2>8, <2>9 DEF p, x, d, new, e
<1> QED BY <1>5, <1>6

-----------------------------------------------------------------------------
\* d is c with the frames new appended up to n.
Grown(c, d, n, new) ==
    /\ d \in Caches /\ d.start = c.start /\ EndIndex(d) = n /\ EndIndex(c) <= n
    /\ \A f : Holds(c, f) => FrameAt(d, f) = FrameAt(c, f)
    /\ \A f \in EndIndex(c)..(n - 1) : FrameAt(d, f) = new[f]

\* What a cache is, as the lemmas below use it.
LEMMA CacheNumbers ==
    ASSUME NEW c \in Caches
    PROVE  /\ c \in CacheOf(FrameRecords) /\ c.start \in Nat /\ EndIndex(c) \in Nat
           /\ c.start <= NumFrames /\ c.start <= EndIndex(c)
           /\ \A f : Holds(c, f) => FrameAt(c, f) \in FrameRecords
BY CacheFacts DEF Caches

\* A cache grows by what is appended to it.
LEMMA GrownBy ==
    ASSUME NEW c \in Caches, NEW s \in Seq(FrameRecords), NEW n \in Int, NEW new,
           n = EndIndex(c) + Len(s), \A i \in 1..Len(s) : s[i] = new[EndIndex(c) + i - 1]
    PROVE  Grown(c, Extend(c, s), n, new)
<1> DEFINE d == Extend(c, s)
<1>1. c.start \in Nat /\ EndIndex(c) \in Nat /\ Len(s) \in Nat /\ c \in CacheOf(FrameRecords)
  BY CacheNumbers
<1>2. /\ d \in CacheOf(FrameRecords) /\ d.start = c.start /\ EndIndex(d) = EndIndex(c) + Len(s)
      /\ \A f : Holds(c, f) => FrameAt(d, f) = FrameAt(c, f)
      /\ \A i \in 1..Len(s) : FrameAt(d, EndIndex(c) + i - 1) = s[i]
  BY <1>1, ExtendFacts
<1> HIDE DEF d
<1>3. ASSUME NEW f \in EndIndex(c)..(n - 1) PROVE FrameAt(d, f) = new[f]
  <2>1. f \in Int
    OBVIOUS
  <2>2. PICK i \in 1..Len(s) : EndIndex(c) + i - 1 = f
    <3>1. f - EndIndex(c) + 1 \in 1..Len(s) /\ EndIndex(c) + (f - EndIndex(c) + 1) - 1 = f
      BY <1>1
    <3> QED BY <3>1
  <2> QED BY <1>2, <2>2
<1> QED BY <1>1, <1>2, <1>3 DEF Grown, Caches, d

\* Growing twice.
LEMMA GrownTwice ==
    ASSUME NEW c \in Caches, NEW d, NEW e, NEW n \in Int, NEW m \in Int, NEW new,
           Grown(c, d, n, new), Grown(d, e, m, new)
    PROVE  Grown(c, e, m, new)
<1>1. c.start \in Nat /\ EndIndex(c) \in Nat /\ c.start <= EndIndex(c)
  BY CacheNumbers
<1>2. /\ e \in Caches /\ e.start = c.start /\ EndIndex(e) = m /\ EndIndex(c) <= n /\ n <= m /\ EndIndex(d) = n
      /\ d.start = c.start
  BY DEF Grown
<1>3. ASSUME NEW f, Holds(c, f) PROVE FrameAt(e, f) = FrameAt(c, f)
  <2>1. Holds(d, f)
    BY <1>1, <1>2, <1>3 DEF Holds
  <2> QED BY <1>3, <2>1 DEF Grown
<1>4. ASSUME NEW f \in EndIndex(c)..(m - 1) PROVE FrameAt(e, f) = new[f]
  <2>1. CASE f < n
    <3>1. Holds(d, f) /\ f \in EndIndex(c)..(n - 1)
      BY <1>1, <1>2, <2>1 DEF Holds
    <3> QED BY <3>1 DEF Grown
  <2>2. CASE ~(f < n)
    <3>1. f \in EndIndex(d)..(m - 1)
      BY <1>1, <1>2, <2>2
    <3> QED BY <3>1 DEF Grown
  <2> QED BY <2>1, <2>2
<1>5. EndIndex(c) <= m
  BY <1>1, <1>2
<1> QED BY <1>2, <1>3, <1>4, <1>5 DEF Grown

\* The input of the next object ends where the output of o ends.
Linked(ch, o) ==
    o < ObjectCount =>
        /\ EndIndex(ch.input[o + 1]) = EndIndex(ch.output[o])
        /\ ch.input_frontier[o + 1] = EndIndex(ch.output[o])

\* Object o has appended the frames new, up to n, and passed them on.
Passed(ch, d, o, n, new) ==
    /\ d \in ChainSet /\ SameButIO(ch, d) /\ Linked(d, o)
    /\ Grown(ch.output[o], d.output[o], n, new)
    /\ \A q \in Objects : q # o => d.output[q] = ch.output[q]
    /\ \A q \in Objects : q # o + 1 => d.input[q] = ch.input[q]
                                       /\ d.input_frontier[q] = ch.input_frontier[q]
    /\ o < ObjectCount => Grown(ch.input[o + 1], d.input[o + 1], n, new)

\* What an object appends to its successor passes on the new frames.
LEMMA PassesOn ==
    ASSUME NEW ch \in ChainSet, NEW o \in Objects, NEW a \in Nat, NEW b \in Nat,
           NEW s \in Seq(FrameRecords), NEW channel, Appends(ch, o, a, b, s, channel), Linked(ch, o),
           NEW new, \A i \in 1..(b - a) : s[i] = new[a + i - 1]
    PROVE  Passed(ch, Delivered(ch, o, a, b, s, channel), o, b, new)
<1> DEFINE d == Delivered(ch, o, a, b, s, channel)
<1>1. /\ d \in ChainSet /\ SameButIO(ch, d)
      /\ d.output[o] = Extend(ch.output[o], s)
      /\ \A q \in Objects : q # o => d.output[q] = ch.output[q]
      /\ \A q \in Objects : q # o + 1 => d.input[q] = ch.input[q]
                                         /\ d.input_frontier[q] = ch.input_frontier[q]
      /\ o < ObjectCount => d.input[o + 1] = Extend(ch.input[o + 1], s)
      /\ o < ObjectCount => d.input_frontier[o + 1] =
            IF a < b /\ ch.input_frontier[o + 1] < b THEN b ELSE ch.input_frontier[o + 1]
  BY DeliverFacts
<1> HIDE DEF d
<1>2. ch.output[o] \in Caches /\ (o < ObjectCount => o + 1 \in Objects /\ ch.input[o + 1] \in Caches)
  BY ObjectFacts, SMTT(60) DEF ChainSet
<1> HIDE DEF Caches
<1>3. /\ a \in Int /\ b \in Int /\ EndIndex(ch.output[o]) = a /\ b = a + Len(s)
      /\ Len(s) \in Nat /\ b - a = Len(s)
  BY DEF Appends
<1>31. b = EndIndex(ch.output[o]) + Len(s) /\ \A i \in 1..Len(s) : s[i] = new[EndIndex(ch.output[o]) + i - 1]
  BY <1>3
<1>32. Grown(ch.output[o], d.output[o], b, new)
  BY <1>1, <1>2, <1>31, GrownBy
<1>4. o < ObjectCount => Grown(ch.input[o + 1], d.input[o + 1], b, new)
  <2>1. o < ObjectCount => EndIndex(ch.input[o + 1]) = EndIndex(ch.output[o])
    BY DEF Linked
  <2> QED BY <1>1, <1>2, <1>31, <2>1, GrownBy
<1>5. Linked(d, o)
  <2> SUFFICES ASSUME o < ObjectCount
               PROVE  EndIndex(d.input[o + 1]) = EndIndex(d.output[o])
                      /\ d.input_frontier[o + 1] = EndIndex(d.output[o])
    BY DEF Linked
  <2>1. EndIndex(d.input[o + 1]) = b /\ EndIndex(d.output[o]) = b
    BY <1>32, <1>4 DEF Grown
  <2>2. ch.input_frontier[o + 1] = a /\ a <= b
    BY <1>3 DEF Linked, Appends
  <2> QED BY <1>1, <2>1, <2>2
<1> QED BY <1>1, <1>32, <1>4, <1>5 DEF Passed, d

\* Frames passed on in two steps that follow one another are passed on.
LEMMA PassedTwice ==
    ASSUME NEW ch \in ChainSet, NEW o \in Objects, NEW n \in Int, NEW m \in Int, NEW d, NEW e, NEW new,
           Passed(ch, d, o, n, new), Passed(d, e, o, m, new)
    PROVE  Passed(ch, e, o, m, new)
<1>1. ch.output[o] \in Caches /\ (o < ObjectCount => o + 1 \in Objects /\ ch.input[o + 1] \in Caches)
  BY ObjectFacts, SMTT(60) DEF ChainSet
<1>2. Grown(ch.output[o], e.output[o], m, new)
  BY <1>1, GrownTwice DEF Passed
<1>3. o < ObjectCount => Grown(ch.input[o + 1], e.input[o + 1], m, new)
  BY <1>1, GrownTwice DEF Passed
<1>4. SameButIO(ch, e)
  BY DEF Passed, SameButIO
<1> QED BY <1>2, <1>3, <1>4 DEF Passed

-----------------------------------------------------------------------------
(***************************************************************************)
(* A window, skipped or executed.                                          *)
(***************************************************************************)

Indexed(c) == \A f : Holds(c, f) => FrameAt(c, f).index = f

AllIndexed(ch) ==
    \A o \in Objects : Indexed(ch.input[o]) /\ Indexed(ch.output[o]) /\ Indexed(ch.overlap[o])

\* The checks of a commit or of a skip have passed.
Allowed(ch, o, w) ==
    /\ EndIndex(ch.output[o]) <= w.load_start /\ w.commit_end <= EndIndex(ch.input[o])
    /\ EndIndex(ch.output[o]) < w.load_start => ch.input[o].start <= EndIndex(ch.output[o])
    /\ NoBBox(o, w) => ch.input[o].start <= w.load_start
    /\ ~NoBBox(o, w) =>
          /\ ch.input[o].start <= (IF OverlapCached(ch, o, w) THEN w.deal_start ELSE w.load_start)
          /\ w.load_end <= EndIndex(ch.input[o])
          /\ ch.mask.start <= w.deal_start /\ w.commit_end <= EndIndex(ch.mask)

\* The frame o appends for frame f of the video when it handles window w.
NewFrame(ch, o, w, f) ==
    IF f < w.load_start \/ NoBBox(o, w) THEN FrameAt(ch.input[o], f)
    ELSE IF f < w.deal_start
         THEN FrameAt(IF OverlapCached(ch, o, w) THEN ch.overlap[o] ELSE ch.input[o], f)
         ELSE [index  |-> FrameAt(ch.input[o], f).index,
               erased |-> FrameAt(ch.input[o], f).erased \cup (FrameAt(ch.mask, f) \cap Cropped(o))]

NewFrames(ch, o, w) == [f \in Frames |-> NewFrame(ch, o, w, f)]

\* What a window is, as the lemmas below use it.
LEMMA WindowNumbers ==
    ASSUME NEW w \in WindowSet
    PROVE  /\ w.load_start \in Nat /\ w.load_end \in Nat /\ w.deal_start \in Nat /\ w.commit_end \in Nat
           /\ w.overlap_left \in Nat /\ w.overlap_right \in Nat /\ w.scene \in Nat
           /\ w.load_start <= w.deal_start /\ w.deal_start < w.commit_end
           /\ w.commit_end <= w.load_end /\ w.load_end <= NumFrames
           /\ w.load_end - w.load_start <= InferLen
           /\ w.load_start + w.overlap_left = w.deal_start
           /\ StableEnd(w) = w.commit_end - w.overlap_right
           /\ StableEnd(w) \in Nat /\ w.load_start <= StableEnd(w) /\ StableEnd(w) <= w.commit_end
BY DEF WindowSet, WindowOK, StableEnd

\* The parts of a chain are caches.
LEMMA ChainParts ==
    ASSUME NEW ch \in ChainSet, NEW o \in Objects
    PROVE  ch.input[o] \in Caches /\ ch.output[o] \in Caches /\ ch.overlap[o] \in Caches
           /\ ch.mask \in CacheOf(SUBSET Objects)
BY DEF ChainSet

\* The smaller of two numbers, when the first is known not to exceed the second.
LEMMA MinIsFirst ==
    ASSUME NEW a \in Int, NEW b \in Int, a <= b
    PROVE  Min({a, b}) = a
BY MinOf

\* A window that may be skipped is one whose frames are at hand.
LEMMA SkipAllows ==
    ASSUME NEW ch \in ChainSet, NEW o \in Objects, NEW w \in WindowSet, ~SkipRefused(ch, o, w), NoBBox(o, w)
    PROVE  Allowed(ch, o, w)
<1> DEFINE e == EndIndex(ch.output[o])
           c == ch.input[o]
<1>1. e \in Nat /\ EndIndex(c) \in Nat /\ c.start \in Nat
  BY ChainParts, CacheNumbers
<1>2. w.load_start \in Nat /\ w.commit_end \in Nat
  BY WindowNumbers
<1>3. e <= w.load_start
  BY <1>1, <1>2 DEF SkipRefused
<1>4. Min({e, w.load_start}) = e
  BY <1>1, <1>2, <1>3, MinIsFirst
<1>5. CanSlice(c, e, w.commit_end)
  BY <1>4 DEF SkipRefused
<1> HIDE DEF e, c
<1>6. c.start <= e /\ w.commit_end <= EndIndex(c)
  BY <1>5 DEF CanSlice
<1>7. c.start <= w.load_start
  BY <1>1, <1>2, <1>3, <1>6
<1> QED BY <1>3, <1>6, <1>7 DEF Allowed, e, c

\* A window that may be committed is one whose frames are at hand.
LEMMA CommitAllows ==
    ASSUME NEW ch \in ChainSet, NEW o \in Objects, NEW w \in WindowSet, ~CommitRefused(ch, o, w), ~NoBBox(o, w)
    PROVE  Allowed(ch, o, w)
<1> DEFINE e == EndIndex(ch.output[o])
           c == ch.input[o]
<1>1. e \in Nat /\ EndIndex(c) \in Nat /\ c.start \in Nat
  BY ChainParts, CacheNumbers
<1>2. w.load_start \in Nat /\ w.commit_end \in Nat /\ w.load_end \in Nat /\ w.commit_end <= w.load_end
  BY WindowNumbers
<1>3. ~(e > w.load_start)
  BY DEF CommitRefused
<1>4. e < w.load_start => CanSlice(c, e, w.load_start)
  BY DEF CommitRefused
<1>5. CanSlice(c, IF OverlapCached(ch, o, w) THEN w.deal_start ELSE w.load_start, w.load_end)
  BY DEF CommitRefused
<1>6. CanSlice(ch.mask, w.deal_start, w.commit_end)
  BY DEF CommitRefused
<1> HIDE DEF e, c
<1>7. e <= w.load_start
  BY <1>1, <1>2, <1>3
<1>8. e < w.load_start => c.start <= e
  BY <1>4 DEF CanSlice
<1>9. /\ c.start <= (IF OverlapCached(ch, o, w) THEN w.deal_start ELSE w.load_start)
      /\ w.load_end <= EndIndex(c)
  BY <1>5 DEF CanSlice
<1>10. ch.mask.start <= w.deal_start /\ w.commit_end <= EndIndex(ch.mask)
  BY <1>6 DEF CanSlice
<1>11. w.commit_end <= EndIndex(c)
  BY <1>1, <1>2, <1>9
<1> QED BY <1>7, <1>8, <1>9, <1>10, <1>11 DEF Allowed, e, c

\* The overlap of the previous window is held from load_start to deal_start.
LEMMA OverlapHeld ==
    ASSUME NEW ch \in ChainSet, NEW o \in Objects, NEW w \in WindowSet, OverlapCached(ch, o, w)
    PROVE  /\ ch.overlap[o].start = w.load_start /\ EndIndex(ch.overlap[o]) = w.deal_start
           /\ \A f \in w.load_start..(w.deal_start - 1) : Holds(ch.overlap[o], f)
BY WindowNumbers DEF OverlapCached, Holds

\* Where the new frames come from is there.
LEMMA SourceHeld ==
    ASSUME NEW ch \in ChainSet, NEW o \in Objects, NEW w \in WindowSet, Allowed(ch, o, w),
           NEW f \in EndIndex(ch.output[o])..(w.commit_end - 1)
    PROVE  /\ f \in Frames
           /\ \/ Holds(ch.input[o], f)
              \/ ~NoBBox(o, w) /\ OverlapCached(ch, o, w) /\ f \in w.load_start..(w.deal_start - 1)
           /\ ~NoBBox(o, w) /\ f >= w.deal_start => Holds(ch.mask, f)
<1> DEFINE e == EndIndex(ch.output[o])
           c == ch.input[o]
<1>1. e \in Nat /\ EndIndex(c) \in Nat /\ c.start \in Nat /\ NumFrames \in Nat
  BY ChainParts, CacheNumbers, Sizes
<1>2. /\ w.load_start \in Nat /\ w.commit_end \in Nat /\ w.deal_start \in Nat
      /\ w.load_start <= w.deal_start /\ w.deal_start < w.commit_end /\ w.commit_end <= NumFrames
  BY <1>1, WindowNumbers
<1>3. ch.mask.start \in Nat /\ EndIndex(ch.mask) \in Nat
  BY ChainParts, CacheFacts
<1>4. f \in Int /\ e <= f /\ f < w.commit_end
  BY <1>1, <1>2
<1>5. f \in Frames
  BY <1>1, <1>2, <1>4 DEF Frames
<1> DEFINE oc == OverlapCached(ch, o, w)
           nb == NoBBox(o, w)
<1>6. /\ w.commit_end <= EndIndex(c) /\ e < w.load_start => c.start <= e
      /\ nb => c.start <= w.load_start
      /\ ~nb => c.start <= (IF oc THEN w.deal_start ELSE w.load_start)
      /\ ~nb => ch.mask.start <= w.deal_start /\ w.commit_end <= EndIndex(ch.mask)
  BY DEF Allowed
<1>61. w.commit_end <= EndIndex(c)
  BY DEF Allowed
<1> HIDE DEF e, c, oc, nb
<1>7. ~nb /\ f >= w.deal_start => Holds(ch.mask, f)
  BY <1>2, <1>3, <1>4, <1>6 DEF Holds
<1>8. Holds(c, f) \/ (~nb /\ oc /\ f \in w.load_start..(w.deal_start - 1))
  BY <1>1, <1>2, <1>4, <1>6, <1>61 DEF Holds
<1> QED BY <1>5, <1>7, <1>8 DEF e, c, oc, nb

\* The new frames are frames, each under its own index.
LEMMA NewFrameFacts ==
    ASSUME NEW ch \in ChainSet, AllIndexed(ch), NEW o \in Objects, NEW w \in WindowSet, Allowed(ch, o, w),
           NEW f \in EndIndex(ch.output[o])..(w.commit_end - 1)
    PROVE  LET new == NewFrames(ch, o, w)
           IN new[f] = NewFrame(ch, o, w, f) /\ new[f] \in FrameRecords /\ new[f].index = f
<1> DEFINE x == NewFrame(ch, o, w, f)
           c == ch.input[o]
           k == ch.overlap[o]
<1>1. /\ f \in Frames /\ f \in Int
      /\ Holds(c, f) \/ (~NoBBox(o, w) /\ OverlapCached(ch, o, w) /\ f \in w.load_start..(w.deal_start - 1))
      /\ ~NoBBox(o, w) /\ f >= w.deal_start => Holds(ch.mask, f)
  BY SourceHeld
<1>2. c \in Caches /\ k \in Caches /\ ch.mask \in CacheOf(SUBSET Objects) /\ Indexed(c) /\ Indexed(k)
  BY ChainParts DEF AllIndexed
<1>3. w.load_start \in Nat /\ w.deal_start \in Nat
  BY WindowNumbers
<1>4. Holds(c, f) => FrameAt(c, f) \in FrameRecords /\ FrameAt(c, f).index = f
  BY <1>2, CacheNumbers DEF Indexed
<1>5. Holds(k, f) => FrameAt(k, f) \in FrameRecords /\ FrameAt(k, f).index = f
  BY <1>2, CacheNumbers DEF Indexed
<1>6. Holds(ch.mask, f) => FrameAt(ch.mask, f) \subseteq Objects
  BY <1>2, CacheFacts
<1>7. OverlapCached(ch, o, w) /\ f \in w.load_start..(w.deal_start - 1) => Holds(k, f)
  BY OverlapHeld
<1> HIDE DEF c, k
<1>8. x \in FrameRecords /\ x.index = f
  <2>1. CASE f < w.load_start \/ NoBBox(o, w)
    <3>1. x = FrameAt(c, f)
      BY <2>1 DEF NewFrame, c
    <3>2. Holds(c, f)
      BY <1>1, <1>3, <2>1
    <3> QED BY <1>4, <3>1, <3>2
  <2>2. CASE ~(f < w.load_start \/ NoBBox(o, w)) /\ f < w.deal_start
    <3>1. x = FrameAt(IF OverlapCached(ch, o, w) THEN k ELSE c, f)
      BY <2>2 DEF NewFrame, c, k
    <3>2. f \in w.load_start..(w.deal_start - 1)
      BY <1>1, <1>3, <2>2
    <3> QED BY <1>1, <1>4, <1>5, <1>7, <3>1, <3>2
  <2>3. CASE ~(f < w.load_start \/ NoBBox(o, w)) /\ ~(f < w.deal_start)
    <3> DEFINE y == FrameAt(c, f)
               m == FrameAt(ch.mask, f) \cap Cropped(o)
    <3>1. x = [index |-> y.index, erased |-> y.erased \cup m]
      BY <2>3 DEF NewFrame, c
    <3>2. Holds(c, f) /\ Holds(ch.mask, f)
      BY <1>1, <1>3, <2>3
    <3>3. y \in FrameRecords /\ y.index = f /\ m \subseteq Objects
      BY <1>4, <1>6, <3>2
    <3> HIDE DEF y, m, x
    <3>4. x \in FrameRecords
      BY <3>1, <3>3 DEF FrameRecords
    <3> QED BY <3>1, <3>3, <3>4
  <2> QED BY <2>1, <2>2, <2>3
<1>9. NewFrames(ch, o, w)[f] = x
  BY <1>1 DEF NewFrames
<1> HIDE DEF x
<1> QED BY <1>8, <1>9 DEF x

\* What object o does not erase from the frames of a..b when it handles w.
RawRange(ch, o, w, a, b) ==
    /\ EndIndex(ch.output[o]) <= a /\ a <= b /\ b <= w.commit_end
    /\ b <= w.load_start \/ NoBBox(o, w)
    /\ ch.input[o].start <= a

\* A range of the raw input, as new frames.
LEMMA RawIsNew ==
    ASSUME NEW ch \in ChainSet, NEW o \in Objects, NEW w \in WindowSet, Allowed(ch, o, w),
           NEW a \in Nat, NEW b \in Nat, RawRange(ch, o, w, a, b)
    PROVE  /\ Slice(ch.input[o], a, b) \in Seq(FrameRecords) /\ Len(Slice(ch.input[o], a, b)) = b - a
           /\ \A i \in 1..(b - a) : Slice(ch.input[o], a, b)[i] = NewFrames(ch, o, w)[a + i - 1]
<1> DEFINE e == EndIndex(ch.output[o])
           c == ch.input[o]
           s == Slice(c, a, b)
<1>1. /\ e \in Nat /\ EndIndex(c) \in Nat /\ c.start \in Nat /\ NumFrames \in Nat
      /\ c \in CacheOf(FrameRecords)
  BY ChainParts, CacheNumbers, Sizes
<1>2. w.load_start \in Nat /\ w.commit_end \in Nat /\ w.commit_end <= NumFrames
  BY <1>1, WindowNumbers
<1>3. w.commit_end <= EndIndex(c)
  BY DEF Allowed
<1>4. /\ e <= a /\ a <= b /\ b <= w.commit_end
      /\ b <= w.load_start \/ NoBBox(o, w)
      /\ c.start <= a
  BY DEF RawRange
<1>5. CanSlice(c, a, b)
  BY <1>1, <1>2, <1>3, <1>4 DEF CanSlice
<1>6. s \in Seq(FrameRecords) /\ Len(s) = b - a /\ \A i \in 1..(b - a) : s[i] = FrameAt(c, a + i - 1)
  BY <1>1, <1>5, SliceFacts
<1> HIDE DEF s
<1>7. ASSUME NEW i \in 1..(b - a) PROVE s[i] = NewFrames(ch, o, w)[a + i - 1]
  <2> DEFINE f == a + i - 1
  <2>1. f \in Frames /\ f \in Int /\ (f < w.load_start \/ NoBBox(o, w))
    BY <1>1, <1>2, <1>4 DEF Frames
  <2>2. s[i] = FrameAt(c, f)
    BY <1>6
  <2> HIDE DEF f
  <2>3. NewFrames(ch, o, w)[f] = FrameAt(c, f)
    BY <2>1 DEF NewFrames, NewFrame
  <2> QED BY <2>2, <2>3 DEF f
<1> QED BY <1>6, <1>7 DEF s

\* The frames a window is computed from.
LEMMA SourceFacts ==
    ASSUME NEW ch \in ChainSet, NEW o \in Objects, NEW w \in WindowSet, Allowed(ch, o, w), ~NoBBox(o, w)
    PROVE  /\ SourceOf(ch, o, w) \in Seq(FrameRecords)
           /\ Len(SourceOf(ch, o, w)) = w.load_end - w.load_start
           /\ \A f \in w.load_start..(w.load_end - 1) :
                 SourceOf(ch, o, w)[f - w.load_start + 1] =
                    FrameAt(IF OverlapCached(ch, o, w) /\ f < w.deal_start THEN ch.overlap[o] ELSE ch.input[o], f)
<1> DEFINE c == ch.input[o]
           k == ch.overlap[o]
           s == SourceOf(ch, o, w)
           a == w.load_start
           m == w.deal_start
           b == w.load_end
<1>1. /\ EndIndex(c) \in Nat /\ c.start \in Nat /\ c \in CacheOf(FrameRecords)
      /\ EndIndex(k) \in Nat /\ k.start \in Nat /\ k \in CacheOf(FrameRecords)
  BY ChainParts, CacheNumbers
<1>2. a \in Nat /\ m \in Nat /\ b \in Nat /\ a <= m /\ m <= b
  BY WindowNumbers
<1>3. c.start <= (IF OverlapCached(ch, o, w) THEN m ELSE a) /\ b <= EndIndex(c)
  BY DEF Allowed
<1>4. CASE OverlapCached(ch, o, w)
  <2> DEFINE x == k.frames
             y == Slice(c, m, b)
  <2>1. a + w.overlap_left = m
    BY WindowNumbers
  <2>2. s = x \o y
    BY <1>4, <2>1 DEF SourceOf
  <2>3. CanSlice(c, m, b) /\ m \in Int /\ b \in Int
    BY <1>1, <1>2, <1>3, <1>4 DEF CanSlice
  <2>4. y \in Seq(FrameRecords) /\ Len(y) = b - m /\ \A i \in 1..(b - m) : y[i] = FrameAt(c, m + i - 1)
    BY <1>1, <2>3, SliceFacts, SMTT(60)
  <2>5. k.start = a /\ EndIndex(k) = m
    BY <1>4, OverlapHeld
  <2>6. x \in Seq(FrameRecords) /\ Len(x) = m - a
    BY <1>1, <1>2, <2>5 DEF CacheOf, EndIndex
  <2>7. \A i \in 1..(m - a) : x[i] = FrameAt(k, a + i - 1)
    <3> TAKE i \in 1..(m - a)
    <3>1. (a + i - 1) - k.start + 1 = i
      BY <1>2, <2>5
    <3> QED BY <3>1 DEF FrameAt
  <2> HIDE DEF x, y, s
  <2>75. /\ s \in Seq(FrameRecords) /\ Len(s) = Len(x) + Len(y)
         /\ \A i \in 1..Len(x) : s[i] = x[i]
         /\ \A i \in 1..Len(y) : s[Len(x) + i] = y[i]
    <3>1. x \in Seq(FrameRecords) /\ y \in Seq(FrameRecords)
      BY <2>4, <2>6
    <3> QED BY <2>2, <3>1, JoinFacts
  <2>8. /\ s \in Seq(FrameRecords) /\ Len(s) = (m - a) + (b - m)
        /\ \A i \in 1..(m - a) : s[i] = x[i]
        /\ \A i \in 1..(b - m) : s[(m - a) + i] = y[i]
    BY <2>4, <2>6, <2>75
  <2>9. ASSUME NEW f \in a..(b - 1)
        PROVE  s[f - a + 1] = FrameAt(IF f < m THEN k ELSE c, f)
    <3>0. f \in Int /\ a <= f /\ f < b
      BY <1>2
    <3>1. CASE f < m
      <4>1. f - a + 1 \in 1..(m - a) /\ a + (f - a + 1) - 1 = f
        BY <1>2, <3>0, <3>1
      <4> QED BY <2>7, <2>8, <3>1, <4>1
    <3>2. CASE ~(f < m)
      <4>1. f - m + 1 \in 1..(b - m) /\ m + (f - m + 1) - 1 = f /\ (m - a) + (f - m + 1) = f - a + 1
        BY <1>2, <3>0, <3>2
      <4>2. s[f - a + 1] = y[f - m + 1] /\ y[f - m + 1] = FrameAt(c, f)
        BY <2>4, <2>8, <4>1
      <4> QED BY <3>2, <4>2
    <3> QED BY <3>1, <3>2
  <2>10. (m - a) + (b - m) = b - a
    BY <1>2
  <2> QED BY <1>4, <2>8, <2>9, <2>10 DEF s
<1>5. CASE ~OverlapCached(ch, o, w)
  <2>1. s = Slice(c, a, b)
    BY <1>5 DEF SourceOf
  <2>2. CanSlice(c, a, b) /\ a \in Int /\ b \in Int
    BY <1>1, <1>2, <1>3, <1>5 DEF CanSlice
  <2> HIDE DEF s
  <2>3. s \in Seq(FrameRecords) /\ Len(s) = b - a /\ \A i \in 1..(b - a) : s[i] = FrameAt(c, a + i - 1)
    BY <1>1, <2>1, <2>2, SliceFacts, SMTT(60)
  <2>4. ASSUME NEW f \in a..(b - 1) PROVE s[f - a + 1] = FrameAt(c, f)
    <3>1. f - a + 1 \in 1..(b - a) /\ a + (f - a + 1) - 1 = f
      BY <1>2
    <3> QED BY <2>3, <3>1
  <2> QED BY <1>5, <2>3, <2>4 DEF s
<1> QED BY <1>4, <1>5

\* A frame with more erased from it.
LEMMA ErasedFrame ==
    ASSUME NEW r \in FrameRecords, NEW m \in SUBSET Objects
    PROVE  /\ [r EXCEPT !.erased = @ \cup m] = [index |-> r.index, erased |-> r.erased \cup m]
           /\ [r EXCEPT !.erased = @ \cup m] \in FrameRecords
BY DEF FrameRecords

\* The executed window, as new frames.
LEMMA ModifiedFacts ==
    ASSUME NEW ch \in ChainSet, NEW o \in Objects, NEW w \in WindowSet, Allowed(ch, o, w), ~NoBBox(o, w)
    PROVE  /\ ModifiedOf(ch, o, w) \in Seq(FrameRecords)
           /\ Len(ModifiedOf(ch, o, w)) = w.load_end - w.load_start
           /\ \A i \in 1..(w.commit_end - w.load_start) :
                 ModifiedOf(ch, o, w)[i] = NewFrames(ch, o, w)[w.load_start + i - 1]
<1> DEFINE a == w.load_start
           n == w.load_end - a
           src == SourceOf(ch, o, w)
           Mask(f) == ch.mask.frames[f - ch.mask.start + 1] \cap Cropped(o)
           Part(i) == LET f == a + i - 1
                          s == src[i]
                      IN  IF f \in w.deal_start..(w.commit_end - 1)
                          THEN [s EXCEPT !.erased = @ \cup Mask(f)]
                          ELSE s
           mod == ModifiedOf(ch, o, w)
<1>1. /\ a \in Nat /\ w.deal_start \in Nat /\ w.commit_end \in Nat /\ w.load_end \in Nat
      /\ a <= w.deal_start /\ w.deal_start < w.commit_end /\ w.commit_end <= w.load_end
      /\ w.load_end <= NumFrames
  BY WindowNumbers
<1>2. mod = [i \in 1..n |-> Part(i)]
  BY DEF ModifiedOf
<1>3. /\ src \in Seq(FrameRecords) /\ Len(src) = n
      /\ \A f \in a..(w.load_end - 1) :
            src[f - a + 1] = FrameAt(IF OverlapCached(ch, o, w) /\ f < w.deal_start
                                     THEN ch.overlap[o] ELSE ch.input[o], f)
  BY SourceFacts
<1> HIDE DEF src
<1>4. \A i \in 1..n : src[i] \in FrameRecords
  BY <1>3
<1>5. \A f \in w.deal_start..(w.commit_end - 1) :
         Mask(f) = FrameAt(ch.mask, f) \cap Cropped(o) /\ Mask(f) \in SUBSET Objects
  <2> TAKE f \in w.deal_start..(w.commit_end - 1)
  <2>1. ch.mask \in CacheOf(SUBSET Objects)
    BY ChainParts
  <2>2. ch.mask.start \in Nat /\ EndIndex(ch.mask) \in Nat
    BY <2>1, CacheFacts
  <2>3. ch.mask.start <= w.deal_start /\ w.commit_end <= EndIndex(ch.mask)
    BY DEF Allowed
  <2>4. Holds(ch.mask, f)
    BY <1>1, <2>2, <2>3 DEF Holds
  <2>5. FrameAt(ch.mask, f) \in SUBSET Objects
    BY <2>1, <2>4, CacheFacts
  <2>6. Mask(f) = FrameAt(ch.mask, f) \cap Cropped(o)
    BY DEF FrameAt
  <2> QED BY <2>5, <2>6
<1> HIDE DEF Mask
<1>6. ASSUME NEW i \in 1..n PROVE Part(i) \in FrameRecords
  <2> DEFINE f == a + i - 1
             s == src[i]
  <2>1. s \in FrameRecords
    BY <1>4
  <2>2. CASE f \in w.deal_start..(w.commit_end - 1)
    <3>1. Part(i) = [s EXCEPT !.erased = @ \cup Mask(f)]
      BY <2>2
    <3>2. Mask(f) \in SUBSET Objects
      BY <1>5, <2>2
    <3> HIDE DEF s, Part, f
    <3> QED BY <2>1, <3>1, <3>2, ErasedFrame
  <2>3. CASE ~(f \in w.deal_start..(w.commit_end - 1))
    BY <2>1, <2>3
  <2> QED BY <2>2, <2>3
<1>7. mod \in Seq(FrameRecords) /\ Len(mod) = n
  <2>1. n \in Nat
    BY <1>1
  <2> DEFINE S == FrameRecords
  <2>2. \A i \in 1..n : Part(i) \in S
    BY <1>6
  <2> HIDE DEF Part, mod, S, n
  <2>3. mod = [i \in 1..n |-> mod[i]] /\ \A i \in 1..n : mod[i] \in S
    BY <1>2, <2>2
  <2>4. mod \in Seq(S) /\ Len(mod) = n
    BY <2>1, <2>3, ListFacts
  <2> QED BY <2>4 DEF S
<1>8. ASSUME NEW i \in 1..(w.commit_end - a) PROVE mod[i] = NewFrames(ch, o, w)[a + i - 1]
  <2> DEFINE f == a + i - 1
             s == src[i]
             y == FrameAt(ch.input[o], f)
  <2>1. /\ f \in Int /\ a <= f /\ f < w.commit_end /\ f - a + 1 = i /\ i \in 1..n
        /\ f \in a..(w.load_end - 1) /\ f \in Frames
    BY <1>1, Sizes DEF Frames
  <2>2. mod[i] = Part(i)
    BY <1>2, <2>1
  <2>3. s = FrameAt(IF OverlapCached(ch, o, w) /\ f < w.deal_start THEN ch.overlap[o] ELSE ch.input[o], f)
    BY <1>3, <2>1
  <2>4. NewFrames(ch, o, w)[f] = NewFrame(ch, o, w, f)
    BY <2>1 DEF NewFrames
  <2>5. s \in FrameRecords
    BY <1>4, <2>1
  <2>6. CASE f < w.deal_start
    <3>1. Part(i) = s
      BY <1>1, <2>1, <2>6
    <3>2. NewFrame(ch, o, w, f) = FrameAt(IF OverlapCached(ch, o, w) THEN ch.overlap[o] ELSE ch.input[o], f)
      BY <1>1, <2>1, <2>6 DEF NewFrame
    <3> QED BY <2>2, <2>3, <2>4, <2>6, <3>1, <3>2
  <2>7. CASE ~(f < w.deal_start)
    <3>1. f \in w.deal_start..(w.commit_end - 1)
      BY <1>1, <2>1, <2>7
    <3>2. Part(i) = [s EXCEPT !.erased = @ \cup Mask(f)]
      BY <3>1
    <3>3. NewFrame(ch, o, w, f) = [index |-> y.index, erased |-> y.erased \cup Mask(f)]
      <4>1. ~(f < a \/ NoBBox(o, w))
        BY <1>1, <2>1
      <4>2. Mask(f) = FrameAt(ch.mask, f) \cap Cropped(o)
        BY <1>5, <3>1
      <4> HIDE DEF f
      <4> QED BY <2>7, <4>1, <4>2 DEF NewFrame
    <3>4. s = y
      BY <2>3, <2>7
    <3>5. Mask(f) \in SUBSET Objects
      BY <1>5, <3>1
    <3> HIDE DEF s, y, Part, f
    <3>6. [s EXCEPT !.erased = @ \cup Mask(f)] = [index |-> s.index, erased |-> s.erased \cup Mask(f)]
      BY <2>5, <3>5, ErasedFrame
    <3>7. mod[i] = NewFrames(ch, o, w)[f]
      BY <2>2, <2>4, <3>2, <3>3, <3>4, <3>6
    <3> QED BY <3>7 DEF f
  <2> QED BY <2>6, <2>7
<1> HIDE DEF mod
<1> QED BY <1>7, <1>8 DEF mod

\* The gap before a window is passed on.
LEMMA GapFacts ==
    ASSUME NEW ch \in ChainSet, NEW o \in Objects, NEW w \in WindowSet, Allowed(ch, o, w), Linked(ch, o)
    PROVE  Passed(ch, PassGap(ch, o, w), o, w.load_start, NewFrames(ch, o, w))
<1> DEFINE a == EndIndex(ch.output[o])
           b == w.load_start
           c == ch.input[o]
           s == Slice(c, a, b)
           new == NewFrames(ch, o, w)
<1>1. a \in Nat /\ EndIndex(c) \in Nat /\ c.start \in Nat /\ ch.output[o] \in Caches
      /\ (o < ObjectCount => o + 1 \in Objects /\ ch.input[o + 1] \in Caches)
  BY ChainParts, CacheNumbers, ObjectFacts
<1>2. b \in Nat /\ w.commit_end \in Nat /\ b <= w.commit_end /\ w.commit_end <= NumFrames /\ NumFrames \in Nat
      /\ b <= NumFrames
  BY WindowNumbers, Sizes
<1>3. a <= b /\ w.commit_end <= EndIndex(c) /\ (a < b => c.start <= a)
  BY DEF Allowed
<1>4. Min({b, EndIndex(c)}) = b
  BY <1>1, <1>2, <1>3, MinIsFirst
<1>5. CASE b <= a
  <2>1. PassGap(ch, o, w) = ch
    BY <1>4, <1>5 DEF PassGap
  <2>2. \A d \in Caches : Grown(d, d, EndIndex(d), new)
    <3> TAKE d \in Caches
    <3>1. EndIndex(d) \in Nat
      BY CacheNumbers
    <3> QED BY <3>1 DEF Grown
  <2>3. Grown(ch.output[o], ch.output[o], b, new)
    <3>1. a = b
      BY <1>1, <1>2, <1>3, <1>5
    <3> QED BY <1>1, <2>2, <3>1
  <2>4. o < ObjectCount => Grown(ch.input[o + 1], ch.input[o + 1], b, new)
    <3> SUFFICES ASSUME o < ObjectCount PROVE Grown(ch.input[o + 1], ch.input[o + 1], b, new)
      OBVIOUS
    <3>1. EndIndex(ch.input[o + 1]) = b
      BY <1>1, <1>2, <1>3, <1>5 DEF Linked
    <3> QED BY <1>1, <2>2, <3>1
  <2>5. SameButIO(ch, ch)
    BY DEF SameButIO
  <2> HIDE DEF new
  <2> QED BY <2>1, <2>3, <2>4, <2>5 DEF Passed, new
<1>6. CASE ~(b <= a)
  <2>1. PassGap(ch, o, w) = Delivered(ch, o, a, b, s, "raw")
    BY <1>4, <1>6 DEF PassGap, Delivered
  <2>2. a < b /\ c.start <= a
    BY <1>1, <1>2, <1>3, <1>6
  <2>3. s \in Seq(FrameRecords) /\ Len(s) = b - a /\ \A i \in 1..(b - a) : s[i] = new[a + i - 1]
    <3>1. RawRange(ch, o, w, a, b)
      BY <1>1, <1>2, <1>3, <2>2 DEF RawRange
    <3>2. a \in Nat /\ b \in Nat
      BY <1>1, <1>2
    <3> HIDE DEF a, b
    <3> QED BY <3>1, <3>2, RawIsNew
  <2>4. Appends(ch, o, a, b, s, "raw")
    BY <1>2, <1>3, <2>3 DEF Appends
  <2> HIDE DEF a, b, s, new
  <2>5. Passed(ch, Delivered(ch, o, a, b, s, "raw"), o, b, new)
    BY <1>1, <1>2, <2>3, <2>4, PassesOn
  <2> QED BY <2>1, <2>5 DEF b, new
<1> QED BY <1>5, <1>6

\* c holds exactly the new frames from n to m.
Kept(c, n, m, new) ==
    /\ c \in Caches /\ c.start = n /\ EndIndex(c) = m
    /\ \A f \in n..(m - 1) : FrameAt(c, f) = new[f]

\* A cache made of the new frames keeps them.
LEMMA KeptBy ==
    ASSUME NEW n \in Nat, NEW m \in Nat, n <= m, m <= NumFrames, NEW s \in Seq(FrameRecords),
           NEW new, Len(s) = m - n, \A i \in 1..(m - n) : s[i] = new[n + i - 1]
    PROVE  Kept([start |-> n, frames |-> s], n, m, new)
<1> DEFINE c == [start |-> n, frames |-> s]
<1>1. n <= NumFrames
  BY Sizes
<1>2. /\ c \in CacheOf(FrameRecords) /\ c.start = n /\ EndIndex(c) = n + Len(s)
      /\ \A i \in 1..Len(s) : FrameAt(c, n + i - 1) = s[i]
  BY <1>1, NewFacts
<1> HIDE DEF c
<1>3. ASSUME NEW f \in n..(m - 1) PROVE FrameAt(c, f) = new[f]
  <2>1. f - n + 1 \in 1..(m - n) /\ n + (f - n + 1) - 1 = f
    OBVIOUS
  <2> QED BY <1>2, <2>1
<1> QED BY <1>2, <1>3 DEF Kept, Caches, c

\* What a window does to the mask.
MaskAfter(ch, d, o, w) ==
    /\ d.mask \in CacheOf(SUBSET Objects)
    /\ d.mask.start = ch.mask.start /\ EndIndex(d.mask) = EndIndex(ch.mask)
    /\ \A f : Holds(ch.mask, f) =>
         FrameAt(d.mask, f) = IF ~NoBBox(o, w) /\ f \in w.deal_start..(w.commit_end - 1)
                              THEN FrameAt(ch.mask, f) \ Cropped(o) ELSE FrameAt(ch.mask, f)

\* What a window does, apart from the overlap it keeps and the step count.
Moved(ch, d, o, w, new) ==
    /\ d \in ChainSet /\ Linked(d, o) /\ MaskAfter(ch, d, o, w)
    /\ d.next_write = ch.next_write /\ d.written = ch.written
    /\ Grown(ch.output[o], d.output[o], StableEnd(w), new)
    /\ \A q \in Objects : q # o => /\ d.output[q] = ch.output[q] /\ d.overlap[q] = ch.overlap[q]
                                   /\ d.flush_frontier[q] = ch.flush_frontier[q]
    /\ \A q \in Objects : q # o + 1 => d.input[q] = ch.input[q]
                                       /\ d.input_frontier[q] = ch.input_frontier[q]
    /\ o < ObjectCount => Grown(ch.input[o + 1], d.input[o + 1], StableEnd(w), new)
    /\ d.flush_frontier[o] = StableEnd(w)

\* A window before its step is finalised.
Handled(ch, d, o, w, new) ==
    /\ Moved(ch, d, o, w, new) /\ d.next = ch.next
    /\ Kept(d.overlap[o], StableEnd(w), w.commit_end, new)

\* Emitting the stable part after the gap.
LEMMA EmitFacts ==
    ASSUME NEW ch \in ChainSet, NEW o \in Objects, NEW w \in WindowSet, Allowed(ch, o, w), Linked(ch, o),
           NEW s \in Seq(FrameRecords), Len(s) = StableEnd(w) - w.load_start,
           \A i \in 1..(StableEnd(w) - w.load_start) : s[i] = NewFrames(ch, o, w)[w.load_start + i - 1],
           NEW channel, channel = "raw" => s = Slice(ch.input[o], w.load_start, StableEnd(w))
    PROVE  Passed(ch, Emit(PassGap(ch, o, w), o, w, s, channel), o, StableEnd(w), NewFrames(ch, o, w))
<1> DEFINE e == PassGap(ch, o, w)
           new == NewFrames(ch, o, w)
           a == w.load_start
           b == StableEnd(w)
<1>1. Passed(ch, e, o, a, new)
  BY GapFacts
<1>2. a \in Nat /\ b \in Nat /\ a <= b /\ b <= NumFrames
  BY WindowNumbers, Sizes, SMTT(60)
<1>3. Emit(e, o, w, s, channel) = Delivered(e, o, a, b, s, channel)
  BY DEF Emit, Delivered
<1> HIDE DEF e, new
<1>4. e \in ChainSet /\ EndIndex(e.output[o]) = a /\ Linked(e, o)
  BY <1>1 DEF Passed, Grown
<1>5. e.input[o] = ch.input[o]
  <2>1. o # o + 1
    BY ObjectFacts
  <2> QED BY <1>1, <2>1 DEF Passed
<1>6. Appends(e, o, a, b, s, channel)
  BY <1>2, <1>4, <1>5 DEF Appends
<1>7. \A i \in 1..(b - a) : s[i] = new[a + i - 1]
  BY DEF new
<1> HIDE DEF a, b
<1>8. Passed(e, Delivered(e, o, a, b, s, channel), o, b, new)
  BY <1>2, <1>4, <1>6, <1>7, PassesOn
<1>9. Passed(ch, Delivered(e, o, a, b, s, channel), o, b, new)
  <2>1. a \in Int /\ b \in Int
    BY <1>2
  <2> QED BY <1>1, <1>8, <2>1, PassedTwice
<1> QED BY <1>3, <1>9 DEF e, new, b

Keeping(e, o, k, n) == [e EXCEPT !.overlap[o] = k, !.flush_frontier[o] = n]

\* Keeping the overlap.
LEMMA KeepFacts ==
    ASSUME NEW e \in ChainSet, NEW o \in Objects, NEW n \in Nat, n <= NumFrames,
           NEW k \in Caches
    PROVE  LET d == Keeping(e, o, k, n)
           IN /\ d \in ChainSet /\ d.input = e.input /\ d.output = e.output /\ d.mask = e.mask
              /\ d.input_frontier = e.input_frontier /\ d.next = e.next
              /\ d.next_write = e.next_write /\ d.written = e.written
              /\ d.overlap[o] = k /\ d.flush_frontier[o] = n
              /\ \A q \in Objects : q # o => /\ d.overlap[q] = e.overlap[q]
                                             /\ d.flush_frontier[q] = e.flush_frontier[q]
<1>1. n \in 0..NumFrames
  BY Sizes
<1> HIDE DEF Caches
<1> QED BY <1>1 DEF ChainSet, Keeping

\* What consume_window_mask does.
LEMMA ConsumeFacts ==
    ASSUME NEW e \in ChainSet, NEW o \in Objects, NEW w \in WindowSet, ~NoBBox(o, w)
    PROVE  LET d == ConsumeMask(e, o, w)
           IN /\ d \in ChainSet /\ d.input = e.input /\ d.output = e.output /\ d.overlap = e.overlap
              /\ d.input_frontier = e.input_frontier /\ d.flush_frontier = e.flush_frontier
              /\ d.next = e.next /\ d.next_write = e.next_write /\ d.written = e.written
              /\ MaskAfter(e, d, o, w)
<1> DEFINE m == e.mask
           t == m.frames
           Part(i) == IF m.start + i - 1 \in w.deal_start..(w.commit_end - 1)
                      THEN t[i] \ Cropped(o) ELSE t[i]
           u == [i \in DOMAIN t |-> Part(i)]
           d == ConsumeMask(e, o, w)
<1>1. /\ m \in CacheOf(SUBSET Objects) /\ m.start \in Nat /\ m.start <= NumFrames /\ EndIndex(m) \in Nat
      /\ m.start <= EndIndex(m) /\ Len(t) = EndIndex(m) - m.start
      /\ DOMAIN t = 1..Len(t) /\ m = [start |-> m.start, frames |-> t]
      /\ t \in Seq(SUBSET Objects)
  <2>1. m \in CacheOf(SUBSET Objects)
    BY ChainParts
  <2>2. t \in Seq(SUBSET Objects)
    BY <2>1 DEF CacheOf
  <2>3. DOMAIN t = 1..Len(t)
    BY <2>2
  <2> QED BY <2>1, <2>2, <2>3, CacheFacts
<1> DEFINE n == Len(t)
<1>2. n \in Nat /\ \A i \in 1..n : t[i] \in SUBSET Objects
  BY <1>1
<1>3. \A i \in 1..n : Part(i) \in SUBSET Objects
  BY <1>2
<1>4. d = [e EXCEPT !.mask.frames = u]
  BY DEF ConsumeMask
<1>5. u = [i \in 1..n |-> Part(i)]
  BY <1>1
<1> HIDE DEF Part, u, n
<1>6. u \in Seq(SUBSET Objects) /\ Len(u) = n /\ \A i \in 1..n : u[i] = Part(i)
  <2> DEFINE S == SUBSET Objects
  <2> HIDE DEF S
  <2>1. u = [i \in 1..n |-> u[i]] /\ \A i \in 1..n : u[i] \in S
    BY <1>3, <1>5 DEF S
  <2>2. u \in Seq(S) /\ Len(u) = n
    BY <1>2, <2>1, ListFacts
  <2> QED BY <1>5, <2>2 DEF S
<1> DEFINE v == [start |-> m.start, frames |-> u]
<1>7. d = [e EXCEPT !.mask = v]
  <2> HIDE DEF d
  <2>1. m = [start |-> m.start, frames |-> t]
    BY <1>1
  <2>2. [e EXCEPT !.mask.frames = u] = [e EXCEPT !.mask = [m EXCEPT !.frames = u]]
    BY DEF ChainSet
  <2>3. [m EXCEPT !.frames = u] = v
    <3> HIDE DEF m, t
    <3> QED BY <2>1
  <2> QED BY <1>4, <2>2, <2>3
<1>8. /\ v \in CacheOf(SUBSET Objects) /\ v.start = m.start /\ EndIndex(v) = m.start + Len(u) /\ v.frames = u
  <2> DEFINE S == SUBSET Objects
  <2> HIDE DEF S
  <2>1. u \in Seq(S)
    BY <1>6 DEF S
  <2>2. v \in CacheOf(S) /\ v.start = m.start /\ EndIndex(v) = m.start + Len(u)
    BY <1>1, <2>1, NewFacts
  <2> QED BY <2>2 DEF S
<1> HIDE DEF v, d
<1>9. EndIndex(v) = EndIndex(m)
  BY <1>1, <1>6, <1>8 DEF n
<1>10. ASSUME NEW f, Holds(m, f)
       PROVE FrameAt(v, f) = IF ~NoBBox(o, w) /\ f \in w.deal_start..(w.commit_end - 1)
                             THEN FrameAt(m, f) \ Cropped(o) ELSE FrameAt(m, f)
  <2> DEFINE i == f - m.start + 1
  <2>1. i \in 1..n /\ m.start + i - 1 = f
    BY <1>1, <1>10 DEF Holds, n
  <2>2. FrameAt(v, f) = u[i] /\ FrameAt(m, f) = t[i]
    BY <1>8 DEF FrameAt
  <2> HIDE DEF i
  <2>3. u[i] = Part(i)
    BY <1>6, <2>1
  <2> QED BY <2>1, <2>2, <2>3 DEF Part
<1>11. /\ d \in ChainSet /\ d.input = e.input /\ d.output = e.output /\ d.overlap = e.overlap
       /\ d.input_frontier = e.input_frontier /\ d.flush_frontier = e.flush_frontier
       /\ d.next = e.next /\ d.next_write = e.next_write /\ d.written = e.written
       /\ d.mask = v
  <2> HIDE DEF Caches, m
  <2> QED BY <1>7, <1>8 DEF ChainSet
<1>12. MaskAfter(e, d, o, w)
  BY <1>8, <1>9, <1>10, <1>11 DEF MaskAfter
<1> QED BY <1>11, <1>12 DEF d

\* What is passed on, and the overlap that is kept, make a window's step.
LEMMA PassedAndKept ==
    ASSUME NEW ch \in ChainSet, NEW o \in Objects, NEW w \in WindowSet, NEW e, NEW k, NEW new,
           Passed(ch, e, o, StableEnd(w), new), Kept(k, StableEnd(w), w.commit_end, new),
           NEW d \in ChainSet,
           /\ d.input = e.input /\ d.output = e.output /\ d.input_frontier = e.input_frontier
           /\ d.next = e.next /\ d.next_write = e.next_write /\ d.written = e.written
           /\ d.overlap[o] = k /\ d.flush_frontier[o] = StableEnd(w)
           /\ \A q \in Objects : q # o => /\ d.overlap[q] = e.overlap[q]
                                          /\ d.flush_frontier[q] = e.flush_frontier[q],
           MaskAfter(ch, d, o, w)
    PROVE  Handled(ch, d, o, w, new)
<1>1. Linked(d, o)
  BY DEF Passed, Linked
<1> QED BY <1>1 DEF Handled, Moved, Passed, SameButIO

\* A window that is not executed does nothing to the mask.
LEMMA SameMask ==
    ASSUME NEW ch \in ChainSet, NEW d, NEW o, NEW w, d.mask = ch.mask, NoBBox(o, w)
    PROVE  MaskAfter(ch, d, o, w)
<1>1. ch.mask \in CacheOf(SUBSET Objects)
  BY DEF ChainSet
<1> QED BY <1>1 DEF MaskAfter

\* record_skipped_object_window handles a window whose object is not visible.
LEMMA SkipFacts ==
    ASSUME NEW ch \in ChainSet, NEW o \in Objects, NEW w \in WindowSet, Allowed(ch, o, w), Linked(ch, o),
           NoBBox(o, w)
    PROVE  Handled(ch, Skip(ch, o, w), o, w, NewFrames(ch, o, w))
<1> DEFINE new == NewFrames(ch, o, w)
           a == w.load_start
           b == StableEnd(w)
           m == w.commit_end
           raw == Slice(ch.input[o], a, b)
           left == Slice(ch.input[o], b, m)
           e == Emit(PassGap(ch, o, w), o, w, raw, "raw")
           k == [start |-> b, frames |-> left]
           d == Keeping(e, o, k, b)
<1>1. /\ a \in Nat /\ b \in Nat /\ m \in Nat /\ a <= b /\ b <= m /\ m <= NumFrames /\ b <= NumFrames
  BY WindowNumbers, Sizes
<1>2. EndIndex(ch.output[o]) <= a /\ ch.input[o].start <= a
  BY DEF Allowed
<1>3. EndIndex(ch.output[o]) \in Nat /\ ch.input[o].start \in Nat
  BY ChainParts, CacheNumbers
<1>4. RawRange(ch, o, w, a, b) /\ RawRange(ch, o, w, b, m)
  BY <1>1, <1>2, <1>3 DEF RawRange
<1> DEFINE x == a
<1> HIDE DEF x
<1>5. raw \in Seq(FrameRecords) /\ Len(raw) = b - a /\ \A i \in 1..(b - a) : raw[i] = new[a + i - 1]
  <2> HIDE DEF a, b
  <2> QED BY <1>1, <1>4, RawIsNew
<1>6. left \in Seq(FrameRecords) /\ Len(left) = m - b /\ \A i \in 1..(m - b) : left[i] = new[b + i - 1]
  <2> HIDE DEF m, b
  <2> QED BY <1>1, <1>4, RawIsNew
<1>7. Passed(ch, e, o, b, new)
  <2> HIDE DEF e
  <2>1. e = Emit(PassGap(ch, o, w), o, w, raw, "raw")
    BY DEF e
  <2> HIDE DEF raw
  <2>2. raw = Slice(ch.input[o], w.load_start, StableEnd(w))
    BY DEF raw
  <2> QED BY <1>5, <2>1, <2>2, EmitFacts
<1>8. Kept(k, b, m, new)
  <2> HIDE DEF left, new, b, m
  <2> QED BY <1>1, <1>6, KeptBy
<1>9. Skip(ch, o, w) = d
  BY DEF Skip, KeepOverlap, Keeping
<1>10. k \in Caches /\ e \in ChainSet /\ e.mask = ch.mask
  <2> HIDE DEF k, e
  <2> QED BY <1>7, <1>8 DEF Kept, Passed, SameButIO
<1> HIDE DEF e, k, b
<1>11. /\ d \in ChainSet /\ d.input = e.input /\ d.output = e.output /\ d.mask = e.mask
       /\ d.input_frontier = e.input_frontier /\ d.next = e.next
       /\ d.next_write = e.next_write /\ d.written = e.written
       /\ d.overlap[o] = k /\ d.flush_frontier[o] = b
       /\ \A q \in Objects : q # o => /\ d.overlap[q] = e.overlap[q]
                                      /\ d.flush_frontier[q] = e.flush_frontier[q]
  BY <1>1, <1>10, KeepFacts
<1> HIDE DEF d, new, m
<1>12. MaskAfter(ch, d, o, w)
  BY <1>10, <1>11, SameMask
<1>13. Handled(ch, d, o, w, new)
  <2>1. Passed(ch, e, o, StableEnd(w), new) /\ Kept(k, StableEnd(w), w.commit_end, new)
    BY <1>7, <1>8 DEF b, m
  <2>2. d.flush_frontier[o] = StableEnd(w)
    BY <1>11 DEF b
  <2> QED BY <1>11, <1>12, <2>1, <2>2, PassedAndKept
<1> QED BY <1>9, <1>13 DEF new

\* commit_window_to_object_output handles a window whose object is visible.
LEMMA CommitFacts ==
    ASSUME NEW ch \in ChainSet, NEW o \in Objects, NEW w \in WindowSet, Allowed(ch, o, w), Linked(ch, o),
           ~NoBBox(o, w)
    PROVE  Handled(ch, Commit(ch, o, w), o, w, NewFrames(ch, o, w))
<1> DEFINE new == NewFrames(ch, o, w)
           a == w.load_start
           b == StableEnd(w)
           m == w.commit_end
           mod == ModifiedOf(ch, o, w)
           out == SubSeq(mod, 1, b - a)
           left == SubSeq(mod, b - a + 1, m - a)
           e == Emit(PassGap(ch, o, w), o, w, out, "modified")
           k == [start |-> b, frames |-> left]
           g == Keeping(e, o, k, b)
           d == ConsumeMask(g, o, w)
<1>1. /\ a \in Nat /\ b \in Nat /\ m \in Nat /\ a <= b /\ b <= m /\ m <= NumFrames /\ b <= NumFrames
      /\ w.load_end \in Nat /\ m <= w.load_end
  BY WindowNumbers, Sizes
<1>2. mod \in Seq(FrameRecords) /\ Len(mod) = w.load_end - a /\ \A i \in 1..(m - a) : mod[i] = new[a + i - 1]
  BY ModifiedFacts
<1> HIDE DEF mod
<1>5. out \in Seq(FrameRecords) /\ Len(out) = b - a /\ \A i \in 1..(b - a) : out[i] = new[a + i - 1]
  <2> DEFINE y == b - a
  <2>1. y \in Int /\ y <= Len(mod) /\ 1 <= y + 1 /\ y - 1 + 1 = b - a /\ y = b - a
    BY <1>1, <1>2
  <2>2. out = SubSeq(mod, 1, y)
    OBVIOUS
  <2> HIDE DEF y, out
  <2>3. /\ out \in Seq(FrameRecords) /\ Len(out) = y - 1 + 1
        /\ \A i \in 1..(y - 1 + 1) : out[i] = mod[1 + i - 1]
    <3> DEFINE S == FrameRecords
    <3> HIDE DEF S
    <3>1. mod \in Seq(S)
      BY <1>2 DEF S
    <3> QED BY <2>1, <2>2, <3>1, PartFacts DEF S
  <2>4. ASSUME NEW i \in 1..(b - a) PROVE out[i] = new[a + i - 1]
    <3>1. i \in 1..(m - a) /\ 1 + i - 1 = i /\ i \in 1..(y - 1 + 1)
      BY <1>1, <2>1, SMTT(60)
    <3> QED BY <1>2, <2>3, <3>1
  <2> QED BY <2>1, <2>3, <2>4
<1>6. left \in Seq(FrameRecords) /\ Len(left) = m - b /\ \A i \in 1..(m - b) : left[i] = new[b + i - 1]
  <2> DEFINE x == b - a + 1
             y == m - a
  <2>1. x \in Int /\ y \in Int /\ 0 < x /\ y <= Len(mod) /\ x <= y + 1 /\ y - x + 1 = m - b
    BY <1>1, <1>2, SMTT(60)
  <2>2. left = SubSeq(mod, x, y)
    OBVIOUS
  <2>3. \A i \in 1..(m - b) : x + i - 1 \in 1..(m - a) /\ a + (x + i - 1) - 1 = b + i - 1
    BY <1>1
  <2> HIDE DEF x, y, left
  <2>4. /\ left \in Seq(FrameRecords) /\ Len(left) = y - x + 1
        /\ \A i \in 1..(y - x + 1) : left[i] = mod[x + i - 1]
    <3> DEFINE S == FrameRecords
    <3> HIDE DEF S
    <3>1. mod \in Seq(S)
      BY <1>2 DEF S
    <3> QED BY <2>1, <2>2, <3>1, PartFacts DEF S
  <2>5. ASSUME NEW i \in 1..(m - b) PROVE left[i] = new[b + i - 1]
    <3>1. left[i] = mod[x + i - 1]
      BY <2>1, <2>4
    <3>2. mod[x + i - 1] = new[a + (x + i - 1) - 1]
      BY <1>2, <2>3
    <3> QED BY <2>3, <3>1, <3>2
  <2> QED BY <2>1, <2>4, <2>5
<1>7. Passed(ch, e, o, b, new)
  <2> HIDE DEF e
  <2>1. e = Emit(PassGap(ch, o, w), o, w, out, "modified")
    BY DEF e
  <2> HIDE DEF out
  <2> QED BY <1>5, <2>1, EmitFacts
<1>8. Kept(k, b, m, new)
  <2> HIDE DEF left, new, b, m
  <2> QED BY <1>1, <1>6, KeptBy
<1>9. Commit(ch, o, w) = d
  BY DEF Commit, KeepOverlap, Keeping, mod
<1>10. k \in Caches /\ e \in ChainSet /\ e.mask = ch.mask
  <2> HIDE DEF k, e
  <2> QED BY <1>7, <1>8 DEF Kept, Passed, SameButIO
<1> HIDE DEF e, k, b
<1>11. /\ g \in ChainSet /\ g.input = e.input /\ g.output = e.output /\ g.mask = e.mask
       /\ g.input_frontier = e.input_frontier /\ g.next = e.next
       /\ g.next_write = e.next_write /\ g.written = e.written
       /\ g.overlap[o] = k /\ g.flush_frontier[o] = b
       /\ \A q \in Objects : q # o => /\ g.overlap[q] = e.overlap[q]
                                      /\ g.flush_frontier[q] = e.flush_frontier[q]
  BY <1>1, <1>10, KeepFacts
<1> HIDE DEF g
<1>12. /\ d \in ChainSet /\ d.input = g.input /\ d.output = g.output /\ d.overlap = g.overlap
       /\ d.input_frontier = g.input_frontier /\ d.flush_frontier = g.flush_frontier
       /\ d.next = g.next /\ d.next_write = g.next_write /\ d.written = g.written
       /\ MaskAfter(g, d, o, w)
  BY <1>11, ConsumeFacts
<1> HIDE DEF d, new, m
<1>13. MaskAfter(ch, d, o, w)
  BY <1>10, <1>11, <1>12 DEF MaskAfter
<1>14. Handled(ch, d, o, w, new)
  <2>1. Passed(ch, e, o, StableEnd(w), new) /\ Kept(k, StableEnd(w), w.commit_end, new)
    BY <1>7, <1>8 DEF b, m
  <2>2. d.flush_frontier[o] = StableEnd(w)
    BY <1>11, <1>12 DEF b
  <2>3. /\ d.input = e.input /\ d.output = e.output /\ d.input_frontier = e.input_frontier
        /\ d.next = e.next /\ d.next_write = e.next_write /\ d.written = e.written
        /\ d.overlap[o] = k
        /\ \A q \in Objects : q # o => /\ d.overlap[q] = e.overlap[q]
                                       /\ d.flush_frontier[q] = e.flush_frontier[q]
    BY <1>11, <1>12
  <2> QED BY <1>12, <1>13, <2>1, <2>2, <2>3, PassedAndKept
<1> QED BY <1>9, <1>14 DEF new

\* The windows of an object's plan.
LEMMA SpecNumbers ==
    ASSUME request \in Requests, NEW o \in Objects
    PROVE  /\ Len(Specs(o)) \in Nat /\ Len(Specs(o)) > 0
           /\ \A k \in 1..Len(Specs(o)) : Specs(o)[k] \in WindowSet
           /\ Specs(o)[1].overlap_left = 0 /\ Specs(o)[Len(Specs(o))].overlap_right = 0
           /\ \A k \in 2..Len(Specs(o)) : Follows(Specs(o)[k - 1], Specs(o)[k])
<1> DEFINE p == Specs(o)
           S == WindowSet
<1>1. PlanOK(p)
  BY SpecsFit
<1> HIDE DEF p, S
<1>2. p \in Seq(S)
  BY <1>1 DEF PlanOK, S
<1>3. Len(p) \in Nat /\ \A k \in 1..Len(p) : p[k] \in S
  BY <1>2
<1> QED BY <1>1, <1>3 DEF PlanOK, p, S

\* The window an unfinished object is at is one of its plan.
LEMMA NextIsWindow ==
    ASSUME request \in Requests, NEW ch \in ChainSet, NEW o \in Objects, Unfinished(ch, o)
    PROVE  /\ NextSpec(ch, o) \in WindowSet /\ ch.next[o] \in 1..Len(Specs(o))
           /\ NextSpec(ch, o) = Specs(o)[ch.next[o]]
<1>1. ch.next[o] \in Nat \ {0}
  BY DEF ChainSet
<1>2. ch.next[o] \in 1..Len(Specs(o))
  BY <1>1, SpecNumbers DEF Unfinished
<1> QED BY <1>2, SpecNumbers DEF NextSpec

\* A whole step of the driver, but for the flush.
Did(ch, d, o, w, new) ==
    /\ Moved(ch, d, o, w, new)
    /\ d.next[o] = ch.next[o] + 1 /\ \A q \in Objects : q # o => d.next[q] = ch.next[q]
    /\ \A f : Holds(d.overlap[o], f) =>
          f \in StableEnd(w)..(w.commit_end - 1) /\ FrameAt(d.overlap[o], f) = new[f]
    /\ Unfinished(d, o) /\ NextSpec(d, o).scene = w.scene =>
          d.overlap[o].start = StableEnd(w) /\ EndIndex(d.overlap[o]) = w.commit_end

Stepped(h, o, k) == [h EXCEPT !.next[o] = @ + 1, !.overlap[o] = k]

\* finalize_object_window_step moves one object on and replaces its overlap.
LEMMA SteppedFacts ==
    ASSUME NEW h \in ChainSet, NEW o \in Objects, NEW k \in Caches
    PROVE  LET d == Stepped(h, o, k)
           IN /\ d \in ChainSet /\ d.input = h.input /\ d.output = h.output /\ d.mask = h.mask
              /\ d.input_frontier = h.input_frontier /\ d.flush_frontier = h.flush_frontier
              /\ d.next_write = h.next_write /\ d.written = h.written
              /\ d.overlap[o] = k /\ d.next[o] = h.next[o] + 1
              /\ \A q \in Objects : q # o => d.overlap[q] = h.overlap[q] /\ d.next[q] = h.next[q]
<1>1. h.next[o] + 1 \in Nat \ {0}
  BY DEF ChainSet
<1> HIDE DEF Caches
<1> QED BY <1>1 DEF ChainSet, Stepped

\* Where nothing was in the overlap cache, nothing is read from it.
LEMMA EmptyHolds ==
    ASSUME NEW n \in Nat, n <= NumFrames
    PROVE  EmptyCache(n) \in Caches /\ \A f : ~Holds(EmptyCache(n), f)
<1>1. EmptyCache(n) \in CacheOf(FrameRecords) /\ EmptyCache(n).start = n /\ EndIndex(EmptyCache(n)) = n
  BY EmptyFacts
<1> DEFINE c == EmptyCache(n)
<1> HIDE DEF c
<1>2. c.start = n /\ EndIndex(c) = n
  BY <1>1 DEF c
<1>3. ASSUME NEW f, Holds(c, f) PROVE FALSE
  BY <1>2, <1>3 DEF Holds
<1> QED BY <1>1, <1>3 DEF Caches, c

\* A handled window, finalised, is a whole step of the driver.
LEMMA FinalizeFacts ==
    ASSUME request \in Requests, NEW ch \in ChainSet, NEW o \in Objects, NEW w \in WindowSet, NEW h, NEW new,
           Handled(ch, h, o, w, new)
    PROVE  Did(ch, FinalizeStep(h, o, w), o, w, new)
<1> DEFINE moved == [h EXCEPT !.next[o] = @ + 1]
           d == FinalizeStep(h, o, w)
           k0 == h.overlap[o]
           ends == ~Unfinished(moved, o)
           cut == NextSpec(moved, o).scene # w.scene
           k == IF ends THEN EmptyCache(h.flush_frontier[o])
                ELSE IF cut THEN EmptyCache(NextSpec(moved, o).load_start) ELSE k0
<1>1. h \in ChainSet /\ h.next = ch.next /\ Kept(k0, StableEnd(w), w.commit_end, new)
  BY DEF Handled, Moved
<1>2. h.flush_frontier[o] \in Nat /\ h.flush_frontier[o] <= NumFrames
  BY <1>1, Sizes DEF ChainSet
<1>3. moved \in ChainSet /\ moved.next[o] = h.next[o] + 1 /\ moved.overlap = h.overlap
  <2>1. h.next[o] + 1 \in Nat \ {0}
    BY <1>1 DEF ChainSet
  <2> HIDE DEF Caches
  <2> QED BY <1>1, <2>1 DEF ChainSet
<1>4. d = Stepped(h, o, k)
  <2>1. CASE ends
    <3>1. d = [moved EXCEPT !.overlap[o] = EmptyCache(h.flush_frontier[o])]
      BY <2>1 DEF FinalizeStep
    <3>2. k = EmptyCache(h.flush_frontier[o])
      BY <2>1
    <3> HIDE DEF ends, cut, k, d
    <3> QED BY <1>1, <3>1, <3>2 DEF Stepped, ChainSet
  <2>2. CASE ~ends /\ cut
    <3>1. d = [moved EXCEPT !.overlap[o] = EmptyCache(NextSpec(moved, o).load_start)]
      BY <2>2 DEF FinalizeStep
    <3>2. k = EmptyCache(NextSpec(moved, o).load_start)
      BY <2>2
    <3> HIDE DEF ends, cut, k, d
    <3> QED BY <1>1, <3>1, <3>2 DEF Stepped, ChainSet
  <2>3. CASE ~ends /\ ~cut
    <3>1. d = moved
      BY <2>3 DEF FinalizeStep
    <3>2. k = k0
      BY <2>3
    <3> HIDE DEF ends, cut, k, d
    <3> QED BY <1>1, <3>1, <3>2 DEF Stepped, ChainSet
  <2> HIDE DEF ends, cut
  <2> QED BY <2>1, <2>2, <2>3
<1>5. \A n \in Nat : n <= NumFrames => EmptyCache(n) \in Caches /\ \A f : ~Holds(EmptyCache(n), f)
  BY EmptyHolds
<1>6. ~ends => NextSpec(moved, o).load_start \in Nat /\ NextSpec(moved, o).load_start <= NumFrames
  <2> HIDE DEF moved
  <2>1. ~ends => NextSpec(moved, o) \in WindowSet
    BY <1>3, NextIsWindow
  <2>2. \A v \in WindowSet : v.load_start \in Nat /\ v.load_start <= NumFrames
    <3> TAKE v \in WindowSet
    <3> QED BY WindowNumbers, Sizes
  <2> HIDE DEF ends
  <2> QED BY <2>1, <2>2
<1>7. k0 \in Caches /\ \A f : Holds(k0, f) => f \in StableEnd(w)..(w.commit_end - 1) /\ FrameAt(k0, f) = new[f]
  BY <1>1 DEF Kept, Holds
<1>8. /\ k \in Caches
      /\ \A f : Holds(k, f) => f \in StableEnd(w)..(w.commit_end - 1) /\ FrameAt(k, f) = new[f]
      /\ ~ends /\ ~cut => k.start = StableEnd(w) /\ EndIndex(k) = w.commit_end
  <2>0. ~ends /\ ~cut => k0.start = StableEnd(w) /\ EndIndex(k0) = w.commit_end
    BY <1>1 DEF Kept
  <2>1. CASE ends
    <3>1. k = EmptyCache(h.flush_frontier[o])
      BY <2>1
    <3> HIDE DEF ends, cut, k
    <3> QED BY <1>2, <1>5, <2>1, <3>1
  <2>2. CASE ~ends /\ cut
    <3>1. k = EmptyCache(NextSpec(moved, o).load_start)
      BY <2>2
    <3> HIDE DEF ends, cut, k, moved
    <3> QED BY <1>5, <1>6, <2>2, <3>1
  <2>3. CASE ~ends /\ ~cut
    <3>1. k = k0
      BY <2>3
    <3> HIDE DEF ends, cut, k, k0
    <3> QED BY <1>7, <2>0, <3>1
  <2> HIDE DEF ends, cut
  <2> QED BY <2>1, <2>2, <2>3
<1> HIDE DEF k, d
<1>9. /\ d \in ChainSet /\ d.input = h.input /\ d.output = h.output /\ d.mask = h.mask
      /\ d.input_frontier = h.input_frontier /\ d.flush_frontier = h.flush_frontier
      /\ d.next_write = h.next_write /\ d.written = h.written
      /\ d.overlap[o] = k /\ d.next[o] = h.next[o] + 1
      /\ \A q \in Objects : q # o => d.overlap[q] = h.overlap[q] /\ d.next[q] = h.next[q]
  BY <1>1, <1>4, <1>8, SteppedFacts
<1>10. (Unfinished(d, o) <=> ~ends) /\ NextSpec(d, o) = NextSpec(moved, o)
  <2> HIDE DEF moved
  <2>1. d.next[o] = moved.next[o]
    BY <1>3, <1>9
  <2> QED BY <2>1 DEF Unfinished, NextSpec
<1>11. Moved(ch, d, o, w, new)
  <2>1. Moved(ch, h, o, w, new)
    BY DEF Handled
  <2>2. Linked(d, o)
    BY <1>9, <2>1 DEF Linked, Moved
  <2>3. MaskAfter(ch, d, o, w)
    BY <1>9, <2>1 DEF MaskAfter, Moved
  <2> QED BY <1>9, <2>1, <2>2, <2>3 DEF Moved
<1>12. Unfinished(d, o) /\ NextSpec(d, o).scene = w.scene =>
          k.start = StableEnd(w) /\ EndIndex(k) = w.commit_end
  <2> HIDE DEF moved
  <2> QED BY <1>8, <1>10
<1> QED BY <1>1, <1>8, <1>9, <1>11, <1>12 DEF Did, d

-----------------------------------------------------------------------------
(***************************************************************************)
(* Flushing and eviction.                                                  *)
(***************************************************************************)

\* d is c without frames before n.
Shrunk(c, d, n) ==
    /\ EndIndex(d) = EndIndex(c) /\ c.start <= d.start
    /\ d.start <= c.start \/ d.start <= n
    /\ \A f : Holds(d, f) => Holds(c, f) /\ FrameAt(d, f) = FrameAt(c, f)

\* The smallest of three numbers.
LEMMA MinThree ==
    ASSUME NEW a \in Int, NEW b \in Int, NEW c \in Int
    PROVE  LET m == Min({a, b, c})
           IN m \in Int /\ m <= a /\ m <= b /\ m <= c /\ (m = a \/ m = b \/ m = c)
<1>1. \E x \in {a, b, c} : \A y \in {a, b, c} : x <= y
  OBVIOUS
<1> QED BY <1>1 DEF Min

\* Evicting up to some t.
LEMMA PopShrinks ==
    ASSUME NEW S, NEW c \in CacheOf(S), NEW t \in Int, NEW n \in Int, t <= n, t <= EndIndex(c), t <= NumFrames
    PROVE  /\ PopBefore(c, t) \in CacheOf(S) /\ Shrunk(c, PopBefore(c, t), n)
           /\ t <= PopBefore(c, t).start
<1> DEFINE d == PopBefore(c, t)
<1>1. c.start \in Nat
  BY CacheFacts
<1>2. /\ d \in CacheOf(S) /\ d.start = (IF t <= c.start THEN c.start ELSE t) /\ EndIndex(d) = EndIndex(c)
      /\ \A f : Holds(d, f) => Holds(c, f) /\ FrameAt(d, f) = FrameAt(c, f)
  BY PopFacts
<1> HIDE DEF d
<1>3. c.start <= d.start /\ (d.start <= c.start \/ d.start <= n) /\ t <= d.start
  BY <1>1, <1>2
<1> QED BY <1>2, <1>3 DEF Shrunk, d

\* Whether the cache c of object o may be evicted up to n.
Evictable(ch, o, c, n) ==
    n <= EndIndex(c) /\ (Unfinished(ch, o) => n <= NextSpec(ch, o).load_start)

\* Eviction stops at the flush, at the end of the cache, and else only where
\* a window still needs the frames.
LEMMA EvictTargetFacts ==
    ASSUME request \in Requests, NEW ch \in ChainSet, NEW o \in Objects, NEW c \in Caches, NEW n \in Nat
    PROVE  LET t == EvictTarget(ch, o, c, n)
           IN t \in Int /\ t <= n /\ t <= EndIndex(c) /\ (Evictable(ch, o, c, n) => t = n)
<1> DEFINE t == EvictTarget(ch, o, c, n)
           e == EndIndex(c)
<1>1. e \in Nat
  BY CacheNumbers
<1>2. CASE Unfinished(ch, o)
  <2> DEFINE l == NextSpec(ch, o).load_start
             m == Min({n, l, e})
  <2>1. l \in Nat
    BY <1>2, NextIsWindow, WindowNumbers
  <2>2. t = m
    BY <1>2 DEF EvictTarget
  <2>3. n \in Int /\ l \in Int /\ e \in Int
    BY <1>1, <2>1
  <2> HIDE DEF l, e, t
  <2>4. m \in Int /\ m <= n /\ m <= l /\ m <= e /\ (m = n \/ m = l \/ m = e)
    BY <2>3, MinThree
  <2> HIDE DEF m
  <2>5. n <= e /\ n <= l => m = n
    BY <1>1, <2>1, <2>4
  <2>6. Evictable(ch, o, c, n) => n <= e /\ n <= l
    BY <1>2 DEF Evictable, e, l
  <2> QED BY <2>2, <2>4, <2>5, <2>6 DEF t, e
<1>3. CASE ~Unfinished(ch, o)
  <2> DEFINE m == Min({n, e})
  <2>1. t = m
    BY <1>3 DEF EvictTarget
  <2>2. n \in Int /\ e \in Int
    BY <1>1
  <2> HIDE DEF e, t
  <2>3. m = IF n <= e THEN n ELSE e
    BY <2>2, MinOf
  <2> HIDE DEF m
  <2>4. Evictable(ch, o, c, n) => n <= e
    BY DEF Evictable, e
  <2> QED BY <1>1, <2>1, <2>3, <2>4 DEF t, e
<1> QED BY <1>2, <1>3

\* The cache c of object o has been evicted up to n as far as possible.
Evicted(ch, o, c, d, n) == Shrunk(c, d, n) /\ (Evictable(ch, o, c, n) => n <= d.start)

\* A cache cut at its eviction target.
LEMMA CacheIsEvicted ==
    ASSUME request \in Requests, NEW ch \in ChainSet, NEW o \in Objects, NEW c \in Caches,
           NEW n \in Nat, n <= NumFrames
    PROVE  LET d == PopBefore(c, EvictTarget(ch, o, c, n))
           IN d \in Caches /\ Evicted(ch, o, c, d, n)
<1> DEFINE t == EvictTarget(ch, o, c, n)
           d == PopBefore(c, t)
<1>1. t \in Int /\ t <= n /\ t <= EndIndex(c) /\ (Evictable(ch, o, c, n) => t = n)
  BY EvictTargetFacts
<1>2. t <= NumFrames /\ n \in Int
  BY <1>1, Sizes
<1>3. c \in CacheOf(FrameRecords)
  BY DEF Caches
<1> HIDE DEF t
<1>4. d \in CacheOf(FrameRecords) /\ Shrunk(c, d, n) /\ t <= d.start
  BY <1>1, <1>2, <1>3, PopShrinks
<1> HIDE DEF d
<1> QED BY <1>1, <1>4 DEF Evicted, Caches, d, t

\* evict_cache_before cuts every cache but the last output.
LEMMA EvictFacts ==
    ASSUME request \in Requests, NEW ch \in ChainSet, NEW n \in Nat, n <= NumFrames
    PROVE  LET d == Evict(ch, n)
           IN /\ d \in ChainSet /\ d.overlap = ch.overlap /\ d.mask = ch.mask
              /\ d.input_frontier = ch.input_frontier /\ d.flush_frontier = ch.flush_frontier
              /\ d.next = ch.next /\ d.next_write = ch.next_write /\ d.written = ch.written
              /\ d.output[ObjectCount] = ch.output[ObjectCount]
              /\ \A o \in Objects : Evicted(ch, o, ch.input[o], d.input[o], n)
              /\ \A o \in Objects : o # ObjectCount => Evicted(ch, o, ch.output[o], d.output[o], n)
<1> DEFINE d == Evict(ch, n)
           In(o) == PopBefore(ch.input[o], EvictTarget(ch, o, ch.input[o], n))
           Out(o) == IF o = ObjectCount THEN ch.output[o]
                     ELSE PopBefore(ch.output[o], EvictTarget(ch, o, ch.output[o], n))
           x == [o \in Objects |-> In(o)]
           y == [o \in Objects |-> Out(o)]
<1>1. d = [ch EXCEPT !.input = x, !.output = y]
  BY DEF Evict
<1>2. \A o \in Objects : In(o) \in Caches /\ Evicted(ch, o, ch.input[o], In(o), n)
  <2> TAKE o \in Objects
  <2>1. ch.input[o] \in Caches
    BY ChainParts
  <2> QED BY <2>1, CacheIsEvicted
<1>3. \A o \in Objects : Out(o) \in Caches /\ (o # ObjectCount => Evicted(ch, o, ch.output[o], Out(o), n))
  <2> TAKE o \in Objects
  <2>1. ch.output[o] \in Caches
    BY ChainParts
  <2> QED BY <2>1, CacheIsEvicted
<1>4. Out(ObjectCount) = ch.output[ObjectCount] /\ ObjectCount \in Objects
  BY Sizes DEF Objects
<1> HIDE DEF In, Out, d
<1>5. x \in [Objects -> Caches] /\ y \in [Objects -> Caches]
  BY <1>2, <1>3
<1>6. \A o \in Objects : x[o] = In(o) /\ y[o] = Out(o)
  OBVIOUS
<1> HIDE DEF x, y, Caches
<1>7. /\ d \in ChainSet /\ d.overlap = ch.overlap /\ d.mask = ch.mask
      /\ d.input_frontier = ch.input_frontier /\ d.flush_frontier = ch.flush_frontier
      /\ d.next = ch.next /\ d.next_write = ch.next_write /\ d.written = ch.written
      /\ d.input = x /\ d.output = y
  BY <1>1, <1>5 DEF ChainSet
<1> QED BY <1>2, <1>3, <1>4, <1>6, <1>7 DEF d

\* The mask is released up to the frames that were written.
LEMMA ReleaseFacts ==
    ASSUME NEW ch \in ChainSet, NEW n \in Nat, n <= NumFrames
    PROVE  LET d == ReleaseMask(ch, n)
           IN /\ d \in ChainSet /\ d.input = ch.input /\ d.output = ch.output /\ d.overlap = ch.overlap
              /\ d.input_frontier = ch.input_frontier /\ d.flush_frontier = ch.flush_frontier
              /\ d.next = ch.next /\ d.next_write = ch.next_write /\ d.written = ch.written
              /\ Shrunk(ch.mask, d.mask, n) /\ (n <= EndIndex(ch.mask) => n <= d.mask.start)
<1> DEFINE d == ReleaseMask(ch, n)
           t == Min({n, EndIndex(ch.mask)})
           m == PopBefore(ch.mask, t)
<1>1. ch.mask \in CacheOf(SUBSET Objects) /\ EndIndex(ch.mask) \in Nat
  BY CacheFacts DEF ChainSet
<1>2. n \in Int /\ EndIndex(ch.mask) \in Int
  BY <1>1
<1>3. t = IF n <= EndIndex(ch.mask) THEN n ELSE EndIndex(ch.mask)
  BY <1>2, MinOf
<1>4. d = [ch EXCEPT !.mask = m]
  BY DEF ReleaseMask
<1> HIDE DEF t, d
<1>5. t \in Int /\ t <= n /\ t <= EndIndex(ch.mask) /\ t <= NumFrames
  BY <1>1, <1>3, Sizes
<1>6. m \in CacheOf(SUBSET Objects) /\ Shrunk(ch.mask, m, n) /\ t <= m.start
  BY <1>1, <1>2, <1>5, PopShrinks
<1> HIDE DEF m
<1>7. /\ d \in ChainSet /\ d.input = ch.input /\ d.output = ch.output /\ d.overlap = ch.overlap
      /\ d.input_frontier = ch.input_frontier /\ d.flush_frontier = ch.flush_frontier
      /\ d.next = ch.next /\ d.next_write = ch.next_write /\ d.written = ch.written
      /\ d.mask = m
  <2> HIDE DEF Caches
  <2> QED BY <1>4, <1>6 DEF ChainSet
<1> QED BY <1>3, <1>6, <1>7 DEF d

\* What each way of using the runtime keeps of the video.
ModeOK(ch) ==
    /\ \A o \in Objects : ch.input[o].start <= ch.next_write /\ ch.output[o].start <= ch.next_write
    /\ ch.mask.start <= ch.next_write /\ EndIndex(ch.mask) = EndIndex(ch.input[1])
    /\ ch.next_write <= EndIndex(ch.output[ObjectCount])
    /\ request.mode = "preload" => ch.next_write = 0 /\ EndIndex(ch.input[1]) = NumFrames
    /\ request.mode # "streaming" => Len(ch.written) = 0 /\ ch.output[ObjectCount].start = 0
    /\ request.mode = "streaming" =>
          Len(ch.written) = ch.next_write /\ ch.output[ObjectCount].start = ch.next_write

\* What the writer has got more of in d than in ch.
WroteMore(ch, d) ==
    /\ Len(ch.written) <= Len(d.written)
    /\ \A i \in 1..Len(ch.written) : d.written[i] = ch.written[i]
    /\ \A i \in (Len(ch.written) + 1)..Len(d.written) :
         /\ Holds(ch.output[ObjectCount], i - 1)
         /\ d.written[i] = FrameAt(ch.output[ObjectCount], i - 1)

\* The caches of d are those of ch without frames before n.
Trimmed(ch, d, n) ==
    /\ d \in ChainSet /\ d.overlap = ch.overlap /\ d.next = ch.next
    /\ d.input_frontier = ch.input_frontier /\ d.flush_frontier = ch.flush_frontier
    /\ \A o \in Objects : Shrunk(ch.input[o], d.input[o], n) /\ Shrunk(ch.output[o], d.output[o], n)
    /\ Shrunk(ch.mask, d.mask, n)

\* Everything that could be evicted up to n has been.
FullyTrimmed(ch, d, n) ==
    /\ \A o \in Objects : Evictable(ch, o, ch.input[o], n) => n <= d.input[o].start
    /\ \A o \in Objects : Evictable(ch, o, ch.output[o], n) => n <= d.output[o].start
    /\ n <= EndIndex(ch.mask) => n <= d.mask.start

\* Cutting nothing.
LEMMA ShrunkSelf ==
    ASSUME NEW S, NEW c \in CacheOf(S), NEW n
    PROVE  Shrunk(c, c, n)
<1>1. c.start \in Nat
  BY CacheFacts
<1> QED BY <1>1 DEF Shrunk

\* flush_windowed_frames writes what the last output holds up to n.
LEMMA FlushFacts ==
    ASSUME request \in Requests, NEW ch \in ChainSet, ModeOK(ch), request.mode = "streaming",
           NEW n \in Nat, ch.next_write <= n, n <= EndIndex(ch.output[ObjectCount]), n <= NumFrames
    PROVE  LET d == FlushFrames(ch, n)
           IN /\ Trimmed(ch, d, n) /\ FullyTrimmed(ch, d, n) /\ WroteMore(ch, d) /\ d.next_write = n
              /\ ModeOK(d)
<1> DEFINE N == ObjectCount
           out == ch.output[N]
           s == Slice(out, out.start, n)
           old == ch.written
           w == old \o s
           p == PopBefore(out, n)
           f == [ch EXCEPT !.written = @ \o Slice(out, out.start, n), !.output[N] = PopBefore(out, n),
                           !.next_write = n]
           y == [ch.output EXCEPT ![N] = p]
           e == Evict(f, n)
           d == ReleaseMask(e, n)
<1>1. /\ N \in Objects /\ 1 \in Objects /\ out \in Caches /\ out \in CacheOf(FrameRecords)
      /\ out.start \in Nat /\ EndIndex(out) \in Nat /\ ch.next_write \in Nat
      /\ ch.next_write <= NumFrames /\ NumFrames \in Nat
  <2>1. N \in Objects /\ 1 \in Objects
    BY Sizes DEF Objects
  <2>2. out \in Caches
    BY <2>1, ChainParts
  <2>3. ch.next_write \in 0..NumFrames /\ NumFrames \in Nat
    BY Sizes DEF ChainSet
  <2> QED BY <2>1, <2>2, <2>3, CacheNumbers
<1>2. out.start = ch.next_write /\ Len(old) = ch.next_write /\ old \in Seq(FrameRecords)
  BY DEF ModeOK, ChainSet
<1>3. s \in Seq(FrameRecords) /\ Len(s) = n - out.start
      /\ \A i \in 1..(n - out.start) : s[i] = FrameAt(out, out.start + i - 1)
  <2>1. CanSlice(out, out.start, n) /\ out.start \in Int /\ n \in Int
    BY <1>1, <1>2 DEF CanSlice
  <2> HIDE DEF out
  <2> QED BY <1>1, <2>1, SliceFacts
<1> HIDE DEF s
<1>4. /\ w \in Seq(FrameRecords) /\ Len(w) = Len(old) + Len(s)
      /\ \A i \in 1..Len(old) : w[i] = old[i]
      /\ \A i \in 1..Len(s) : w[Len(old) + i] = s[i]
  <2> DEFINE S == FrameRecords
  <2> HIDE DEF S, old
  <2>1. old \in Seq(S) /\ s \in Seq(S)
    BY <1>2, <1>3 DEF S
  <2>2. /\ w \in Seq(S) /\ Len(w) = Len(old) + Len(s)
        /\ \A i \in 1..Len(old) : w[i] = old[i]
        /\ \A i \in 1..Len(s) : w[Len(old) + i] = s[i]
    BY <2>1, JoinFacts
  <2> QED BY <2>2 DEF S
<1>5. p \in Caches /\ p.start = n /\ Shrunk(out, p, n)
  <2>1. /\ PopBefore(out, n) \in CacheOf(FrameRecords)
        /\ PopBefore(out, n).start = (IF n <= out.start THEN out.start ELSE n)
        /\ Shrunk(out, PopBefore(out, n), n)
    <3>1. n \in Int /\ n <= n
      OBVIOUS
    <3>2. n <= EndIndex(out)
      OBVIOUS
    <3> HIDE DEF out
    <3>3. PopBefore(out, n) \in CacheOf(FrameRecords) /\ Shrunk(out, PopBefore(out, n), n)
      BY <1>1, <3>1, <3>2, PopShrinks
    <3>4. PopBefore(out, n).start = (IF n <= out.start THEN out.start ELSE n)
      BY <1>1, <3>1, <3>2, PopFacts
    <3> QED BY <3>3, <3>4
  <2> QED BY <1>1, <1>2, <2>1 DEF Caches
<1>6. f = [ch EXCEPT !.written = w, !.output = y, !.next_write = n]
  BY DEF s, ChainSet
<1>7. y \in [Objects -> Caches] /\ y[N] = p /\ \A o \in Objects : o # N => y[o] = ch.output[o]
  <2> HIDE DEF p, Caches
  <2> QED BY <1>1, <1>5 DEF ChainSet
<1> HIDE DEF f, y, w, p
<1>8. /\ f \in ChainSet /\ f.input = ch.input /\ f.overlap = ch.overlap /\ f.mask = ch.mask
      /\ f.input_frontier = ch.input_frontier /\ f.flush_frontier = ch.flush_frontier /\ f.next = ch.next
      /\ f.output = y /\ f.written = w /\ f.next_write = n
  <2>1. n \in 0..NumFrames
    BY Sizes
  <2> HIDE DEF Caches
  <2> QED BY <1>4, <1>6, <1>7, <2>1 DEF ChainSet
<1>9. /\ e \in ChainSet /\ e.overlap = f.overlap /\ e.mask = f.mask
      /\ e.input_frontier = f.input_frontier /\ e.flush_frontier = f.flush_frontier
      /\ e.next = f.next /\ e.next_write = f.next_write /\ e.written = f.written
      /\ e.output[N] = f.output[N]
      /\ \A o \in Objects : Evicted(f, o, f.input[o], e.input[o], n)
      /\ \A o \in Objects : o # N => Evicted(f, o, f.output[o], e.output[o], n)
  BY <1>8, EvictFacts
<1> HIDE DEF e
<1>10. /\ d \in ChainSet /\ d.input = e.input /\ d.output = e.output /\ d.overlap = e.overlap
       /\ d.input_frontier = e.input_frontier /\ d.flush_frontier = e.flush_frontier
       /\ d.next = e.next /\ d.next_write = e.next_write /\ d.written = e.written
       /\ Shrunk(e.mask, d.mask, n) /\ (n <= EndIndex(e.mask) => n <= d.mask.start)
  BY <1>9, ReleaseFacts
<1> HIDE DEF d
<1>11. \A o \in Objects : Shrunk(ch.input[o], d.input[o], n)
                          /\ (Evictable(ch, o, ch.input[o], n) => n <= d.input[o].start)
  <2> TAKE o \in Objects
  <2>1. Evictable(f, o, f.input[o], n) <=> Evictable(ch, o, ch.input[o], n)
    BY <1>8 DEF Evictable, Unfinished, NextSpec
  <2> QED BY <1>8, <1>9, <1>10, <2>1 DEF Evicted
<1>12. \A o \in Objects : Shrunk(ch.output[o], d.output[o], n)
                          /\ (Evictable(ch, o, ch.output[o], n) => n <= d.output[o].start)
  <2> TAKE o \in Objects
  <2>1. CASE o = N
    <3>1. d.output[N] = p
      BY <1>7, <1>8, <1>9, <1>10
    <3>2. n <= p.start
      BY <1>5
    <3> QED BY <1>5, <2>1, <3>1, <3>2
  <2>2. CASE o # N
    <3>1. Evictable(f, o, f.output[o], n) <=> Evictable(ch, o, ch.output[o], n)
      BY <1>7, <1>8, <2>2 DEF Evictable, Unfinished, NextSpec
    <3> QED BY <1>7, <1>8, <1>9, <1>10, <2>2, <3>1 DEF Evicted
  <2> QED BY <2>1, <2>2
<1>13. Shrunk(ch.mask, d.mask, n) /\ (n <= EndIndex(ch.mask) => n <= d.mask.start)
  BY <1>8, <1>9, <1>10
<1>14. Trimmed(ch, d, n)
  BY <1>8, <1>9, <1>10, <1>11, <1>12, <1>13 DEF Trimmed
<1>15. FullyTrimmed(ch, d, n)
  BY <1>11, <1>12, <1>13 DEF FullyTrimmed
<1>16. d.written = w /\ d.next_write = n /\ d.output[N] = p
  BY <1>7, <1>8, <1>9, <1>10
<1>17. Len(w) = n
  BY <1>1, <1>2, <1>3, <1>4
<1>18. WroteMore(ch, d)
  <2>1. ASSUME NEW i \in (Len(old) + 1)..Len(w)
        PROVE  Holds(out, i - 1) /\ w[i] = FrameAt(out, i - 1)
    <3> DEFINE j == i - Len(old)
    <3>1. /\ j \in 1..Len(s) /\ Len(old) + j = i /\ out.start + j - 1 = i - 1 /\ i \in Int
          /\ out.start <= i - 1 /\ i - 1 < n /\ j \in 1..(n - out.start)
      <4>1. Len(old) = out.start /\ Len(w) = n /\ Len(s) = n - out.start /\ out.start \in Nat
        BY <1>1, <1>2, <1>3, <1>17
      <4>2. i \in (out.start + 1)..n /\ j = i - out.start
        BY <4>1
      <4> HIDE DEF out, old, j
      <4> QED BY <4>1, <4>2, SMTT(60)
    <3> HIDE DEF j
    <3>2. w[i] = s[j] /\ s[j] = FrameAt(out, i - 1)
      BY <1>3, <1>4, <3>1
    <3>3. Holds(out, i - 1)
      BY <1>1, <3>1 DEF Holds
    <3> QED BY <3>2, <3>3
  <2>2. Len(old) <= Len(w)
    BY <1>1, <1>2, <1>17
  <2> QED BY <1>4, <1>16, <2>1, <2>2 DEF WroteMore
<1>19. ModeOK(d)
  <2>1. \A o \in Objects : d.input[o].start <= n /\ d.output[o].start <= n
    <3> TAKE o \in Objects
    <3>1. ch.input[o].start <= ch.next_write /\ ch.output[o].start <= ch.next_write
      BY DEF ModeOK
    <3>2. /\ ch.input[o].start \in Nat /\ ch.output[o].start \in Nat
          /\ d.input[o].start \in Nat /\ d.output[o].start \in Nat
      BY <1>10, ChainParts, CacheNumbers
    <3>3. /\ d.input[o].start <= ch.input[o].start \/ d.input[o].start <= n
          /\ d.output[o].start <= ch.output[o].start \/ d.output[o].start <= n
      BY <1>11, <1>12 DEF Shrunk
    <3> QED BY <1>1, <3>1, <3>2, <3>3
  <2>2. d.mask.start <= n
    <3>1. ch.mask.start \in Nat /\ d.mask.start \in Nat
      BY <1>10, CacheFacts DEF ChainSet
    <3>2. d.mask.start <= ch.mask.start \/ d.mask.start <= n
      BY <1>13 DEF Shrunk
    <3>3. ch.mask.start <= ch.next_write
      BY DEF ModeOK
    <3> QED BY <1>1, <3>1, <3>2, <3>3
  <2>3. EndIndex(d.mask) = EndIndex(d.input[1])
    BY <1>1, <1>11, <1>13 DEF Shrunk, ModeOK
  <2>4. EndIndex(d.output[N]) = EndIndex(out)
    BY <1>1, <1>12 DEF Shrunk
  <2> QED BY <1>5, <1>16, <1>17, <2>1, <2>2, <2>3, <2>4 DEF ModeOK
<1>20. FlushFrames(ch, n) = d
  BY DEF FlushFrames, d, e, f
<1> QED BY <1>14, <1>15, <1>16, <1>18, <1>19, <1>20

\* What may be flushed continues the file and ends with the last output.
LEMMA FlushEndFacts ==
    ASSUME NEW ch \in ChainSet, ModeOK(ch)
    PROVE  LET n == FlushEnd(ch)
           IN /\ n \in Nat /\ n <= NumFrames /\ ch.next_write <= n /\ n <= EndIndex(ch.output[ObjectCount])
              /\ ch.flush_frontier[ObjectCount] = EndIndex(ch.output[ObjectCount])
                   => n = EndIndex(ch.output[ObjectCount])
<1> DEFINE N == ObjectCount
           x == ch.next_write
           y == ch.flush_frontier[N]
           z == EndIndex(ch.output[N])
           m == Min({y, z})
           n == FlushEnd(ch)
<1>1. x \in 0..NumFrames /\ y \in 0..NumFrames /\ NumFrames \in Nat /\ ch.output[N] \in Caches
  <2>1. N \in Objects
    BY Sizes DEF Objects
  <2> QED BY <2>1, Sizes DEF ChainSet
<1>2. z \in Nat /\ x <= z
  BY <1>1, CacheNumbers DEF ModeOK
<1>3. n = Max({x, m})
  BY DEF FlushEnd
<1>4. x \in Int /\ y \in Int /\ z \in Int
  BY <1>1, <1>2
<1> HIDE DEF x, y, z, n
<1>5. m = IF y <= z THEN y ELSE z
  BY <1>4, MinOf
<1> HIDE DEF m
<1>6. m \in Int
  BY <1>4, <1>5
<1>7. n = IF x >= m THEN x ELSE m
  BY <1>3, <1>4, <1>6, MaxOf
<1>8. n \in Nat /\ n <= NumFrames /\ x <= n /\ n <= z /\ (y = z => n = z)
  BY <1>1, <1>2, <1>5, <1>7
<1> QED BY <1>8 DEF x, y, z, n

\* What maybe_flush_streaming_runtime does.
Settled(ch, d) ==
    /\ Trimmed(ch, d, d.next_write) /\ ModeOK(d) /\ WroteMore(ch, d)
    /\ ch.next_write <= d.next_write
    /\ request.mode = "streaming" =>
          /\ d = ch \/ FullyTrimmed(ch, d, d.next_write)
          /\ ch.flush_frontier[ObjectCount] = EndIndex(ch.output[ObjectCount])
                => d.next_write = EndIndex(ch.output[ObjectCount])

\* Doing nothing.
LEMMA SettledSelf ==
    ASSUME NEW ch \in ChainSet, ModeOK(ch),
           request.mode = "streaming" /\ ch.flush_frontier[ObjectCount] = EndIndex(ch.output[ObjectCount])
                => ch.next_write = EndIndex(ch.output[ObjectCount])
    PROVE  Settled(ch, ch)
<1> DEFINE n == ch.next_write
<1>1. n \in Nat /\ ch.written \in Seq(FrameRecords) /\ ch.mask \in CacheOf(SUBSET Objects)
  BY Sizes DEF ChainSet
<1>2. \A o \in Objects : Shrunk(ch.input[o], ch.input[o], n) /\ Shrunk(ch.output[o], ch.output[o], n)
  <2> TAKE o \in Objects
  <2>1. ch.input[o] \in CacheOf(FrameRecords) /\ ch.output[o] \in CacheOf(FrameRecords)
    BY ChainParts DEF Caches
  <2> QED BY <2>1, ShrunkSelf
<1>3. Shrunk(ch.mask, ch.mask, n)
  BY <1>1, ShrunkSelf
<1>4. Trimmed(ch, ch, n)
  BY <1>2, <1>3 DEF Trimmed
<1>5. WroteMore(ch, ch)
  <2>1. Len(ch.written) \in Nat
    BY <1>1
  <2> QED BY <2>1 DEF WroteMore
<1>6. n <= n
  BY <1>1
<1> QED BY <1>4, <1>5, <1>6 DEF Settled

\* A logical flush moves the end of the file and cuts the caches there.
LEMMA LogicalFacts ==
    ASSUME request \in Requests, NEW ch \in ChainSet, ModeOK(ch), request.mode = "logical",
           NEW n \in Nat, ch.next_write <= n, n <= EndIndex(ch.output[ObjectCount]), n <= NumFrames
    PROVE  Settled(ch, ReleaseMask(Evict([ch EXCEPT !.next_write = n], n), n))
<1> DEFINE N == ObjectCount
           f == [ch EXCEPT !.next_write = n]
           e == Evict(f, n)
           d == ReleaseMask(e, n)
<1>1. N \in Objects /\ 1 \in Objects /\ ch.next_write \in Nat
  BY Sizes DEF Objects, ChainSet
<1>2. /\ f \in ChainSet /\ f.input = ch.input /\ f.output = ch.output /\ f.overlap = ch.overlap
      /\ f.mask = ch.mask /\ f.input_frontier = ch.input_frontier /\ f.flush_frontier = ch.flush_frontier
      /\ f.next = ch.next /\ f.next_write = n /\ f.written = ch.written
  <2>1. n \in 0..NumFrames
    BY Sizes
  <2> HIDE DEF Caches
  <2> QED BY <2>1 DEF ChainSet
<1> HIDE DEF f
<1>3. /\ e \in ChainSet /\ e.overlap = f.overlap /\ e.mask = f.mask
      /\ e.input_frontier = f.input_frontier /\ e.flush_frontier = f.flush_frontier
      /\ e.next = f.next /\ e.next_write = f.next_write /\ e.written = f.written
      /\ e.output[N] = f.output[N]
      /\ \A o \in Objects : Evicted(f, o, f.input[o], e.input[o], n)
      /\ \A o \in Objects : o # N => Evicted(f, o, f.output[o], e.output[o], n)
  BY <1>2, EvictFacts
<1> HIDE DEF e
<1>4. /\ d \in ChainSet /\ d.input = e.input /\ d.output = e.output /\ d.overlap = e.overlap
      /\ d.input_frontier = e.input_frontier /\ d.flush_frontier = e.flush_frontier
      /\ d.next = e.next /\ d.next_write = e.next_write /\ d.written = e.written
      /\ Shrunk(e.mask, d.mask, n)
  BY <1>3, ReleaseFacts
<1> HIDE DEF d
<1>5. d.output[N] = ch.output[N] /\ d.next_write = n /\ d.written = ch.written
  BY <1>2, <1>3, <1>4
<1>6. \A o \in Objects : Shrunk(ch.input[o], d.input[o], n) /\ Shrunk(ch.output[o], d.output[o], n)
  <2> TAKE o \in Objects
  <2>1. ch.output[o] \in CacheOf(FrameRecords)
    BY ChainParts DEF Caches
  <2>2. Shrunk(ch.input[o], d.input[o], n)
    BY <1>2, <1>3, <1>4 DEF Evicted
  <2>3. Shrunk(ch.output[o], d.output[o], n)
    BY <1>2, <1>3, <1>4, <1>5, <2>1, ShrunkSelf DEF Evicted
  <2> QED BY <2>2, <2>3
<1>7. Shrunk(ch.mask, d.mask, n)
  BY <1>2, <1>3, <1>4
<1>8. Trimmed(ch, d, n)
  BY <1>2, <1>3, <1>4, <1>6, <1>7 DEF Trimmed
<1>9. WroteMore(ch, d)
  <2>1. Len(ch.written) \in Nat
    BY DEF ChainSet
  <2> QED BY <1>5, <2>1 DEF WroteMore
<1>10. ModeOK(d)
  <2>1. \A o \in Objects : d.input[o].start <= n /\ d.output[o].start <= n
    <3> TAKE o \in Objects
    <3>1. ch.input[o].start <= ch.next_write /\ ch.output[o].start <= ch.next_write
      BY DEF ModeOK
    <3>2. /\ ch.input[o].start \in Nat /\ ch.output[o].start \in Nat
          /\ d.input[o].start \in Nat /\ d.output[o].start \in Nat
      BY <1>4, ChainParts, CacheNumbers
    <3>3. /\ d.input[o].start <= ch.input[o].start \/ d.input[o].start <= n
          /\ d.output[o].start <= ch.output[o].start \/ d.output[o].start <= n
      BY <1>6 DEF Shrunk
    <3> QED BY <1>1, <3>1, <3>2, <3>3
  <2>2. d.mask.start <= n
    <3>1. ch.mask.start \in Nat /\ d.mask.start \in Nat
      BY <1>4, CacheFacts DEF ChainSet
    <3>2. d.mask.start <= ch.mask.start \/ d.mask.start <= n
      BY <1>7 DEF Shrunk
    <3>3. ch.mask.start <= ch.next_write
      BY DEF ModeOK
    <3> QED BY <1>1, <3>1, <3>2, <3>3
  <2>3. EndIndex(d.mask) = EndIndex(d.input[1])
    BY <1>1, <1>6, <1>7 DEF Shrunk, ModeOK
  <2> QED BY <1>5, <2>1, <2>2, <2>3 DEF ModeOK
<1>11. Settled(ch, d)
  BY <1>5, <1>8, <1>9, <1>10 DEF Settled
<1> QED BY <1>11 DEF d, e, f

\* maybe_flush_streaming_runtime settles, in each of the modes.
LEMMA MaybeFlushFacts ==
    ASSUME request \in Requests, NEW ch \in ChainSet, ModeOK(ch)
    PROVE  Settled(ch, MaybeFlush(ch))
<1> DEFINE n == FlushEnd(ch)
           z == EndIndex(ch.output[ObjectCount])
<1>1. /\ n \in Nat /\ n <= NumFrames /\ ch.next_write <= n /\ n <= z
      /\ ch.flush_frontier[ObjectCount] = z => n = z
  BY FlushEndFacts
<1>2. request.mode \in {"preload", "streaming", "logical"}
  BY ChainAssumption DEF Requests
<1>3. ch.next_write \in Nat
  BY Sizes DEF ChainSet
<1> HIDE DEF n
<1>4. CASE request.mode = "preload"
  <2>1. MaybeFlush(ch) = ch
    BY <1>4 DEF MaybeFlush
  <2> QED BY <1>4, <2>1, SettledSelf
<1>5. CASE request.mode = "logical"
  <2>1. MaybeFlush(ch) = ReleaseMask(Evict([ch EXCEPT !.next_write = n], n), n)
    BY <1>5 DEF MaybeFlush, n
  <2> QED BY <1>1, <1>5, <2>1, LogicalFacts
<1>6. CASE request.mode = "streaming" /\ n <= ch.next_write
  <2>1. MaybeFlush(ch) = ch
    BY <1>6 DEF MaybeFlush, n
  <2>2. ch.next_write = n
    BY <1>1, <1>3, <1>6
  <2> QED BY <1>1, <2>1, <2>2, SettledSelf
<1>7. CASE request.mode = "streaming" /\ ~(n <= ch.next_write)
  <2>1. MaybeFlush(ch) = FlushFrames(ch, n)
    BY <1>7 DEF MaybeFlush, n
  <2> DEFINE d == FlushFrames(ch, n)
  <2>2. Trimmed(ch, d, n) /\ FullyTrimmed(ch, d, n) /\ WroteMore(ch, d) /\ d.next_write = n /\ ModeOK(d)
    BY <1>1, <1>7, FlushFacts
  <2> HIDE DEF d
  <2>3. Settled(ch, d)
    BY <1>1, <2>2 DEF Settled
  <2> QED BY <2>1, <2>3 DEF d
<1> QED BY <1>2, <1>4, <1>5, <1>6, <1>7

-----------------------------------------------------------------------------
(***************************************************************************)
(* Every frame is where it belongs.                                        *)
(***************************************************************************)

\* Each input is what the output before it has emitted.
AgreeOK(ch) ==
    /\ ch.input_frontier[1] = EndIndex(ch.input[1])
    /\ \A o \in Objects : Linked(ch, o)
    /\ \A o \in Objects : o < ObjectCount =>
         \A f : Holds(ch.output[o], f) /\ Holds(ch.input[o + 1], f) =>
                  FrameAt(ch.output[o], f) = FrameAt(ch.input[o + 1], f)

\* The writer gets the frames in order.
WrittenOK(ch) == \A i \in 1..Len(ch.written) : ch.written[i].index = i - 1

FramesOK(ch) == ch \in ChainSet /\ AllIndexed(ch) /\ AgreeOK(ch) /\ WrittenOK(ch)

CoreOK(ch) == FramesOK(ch) /\ ModeOK(ch)

\* A frame of a cache that has grown was there before or is new.
LEMMA GrownFrame ==
    ASSUME NEW c \in Caches, NEW d, NEW n, NEW new, Grown(c, d, n, new), NEW f, Holds(d, f)
    PROVE  \/ Holds(c, f) /\ FrameAt(d, f) = FrameAt(c, f)
           \/ f \in EndIndex(c)..(n - 1) /\ FrameAt(d, f) = new[f]
<1>1. c.start \in Nat /\ EndIndex(c) \in Nat
  BY CacheNumbers
<1>2. d.start = c.start /\ EndIndex(d) = n
  BY DEF Grown
<1>3. Holds(c, f) \/ f \in EndIndex(c)..(n - 1)
  BY <1>1, <1>2 DEF Holds
<1> QED BY <1>3 DEF Grown

\* A step of the driver keeps every frame under its index.
LEMMA DidKeepsIndexed ==
    ASSUME NEW ch \in ChainSet, AllIndexed(ch), AgreeOK(ch), NEW o \in Objects, NEW w \in WindowSet,
           Allowed(ch, o, w), NEW d, Did(ch, d, o, w, NewFrames(ch, o, w))
    PROVE  AllIndexed(d)
<1> DEFINE new == NewFrames(ch, o, w)
           e == EndIndex(ch.output[o])
           t == StableEnd(w)
<1>1. \A f \in e..(w.commit_end - 1) : new[f].index = f
  BY NewFrameFacts
<1>2. /\ e \in Nat /\ t \in Nat /\ t <= w.commit_end /\ e <= t /\ w.commit_end \in Nat
  <2>1. e <= w.load_start
    BY DEF Allowed
  <2>2. ch.output[o] \in Caches
    BY ChainParts
  <2> QED BY <2>1, <2>2, CacheNumbers, WindowNumbers
<1> HIDE DEF new, e, t
<1>3. Moved(ch, d, o, w, new)
  BY DEF Did, new
<1>4. \A f \in e..(t - 1) : new[f].index = f
  BY <1>1, <1>2
<1>5. ASSUME NEW c \in Caches, Indexed(c), EndIndex(c) = e, NEW g, Grown(c, g, t, new)
      PROVE  Indexed(g)
  <2>1. ASSUME NEW f, Holds(g, f) PROVE FrameAt(g, f).index = f
    <3>1. \/ Holds(c, f) /\ FrameAt(g, f) = FrameAt(c, f)
          \/ f \in e..(t - 1) /\ FrameAt(g, f) = new[f]
      BY <1>5, <2>1, GrownFrame
    <3> QED BY <1>4, <1>5, <3>1 DEF Indexed
  <2> QED BY <2>1 DEF Indexed
<1>6. ASSUME NEW q \in Objects PROVE Indexed(d.output[q])
  <2>1. CASE q = o
    <3>1. Grown(ch.output[o], d.output[o], t, new)
      BY <1>3 DEF Moved, t
    <3> QED BY <1>5, <2>1, <3>1, ChainParts DEF AllIndexed, e
  <2>2. CASE q # o
    BY <1>3, <2>2 DEF AllIndexed, Moved
  <2> QED BY <2>1, <2>2
<1>7. ASSUME NEW q \in Objects PROVE Indexed(d.input[q])
  <2>1. CASE q = o + 1
    <3>1. o < ObjectCount
      BY <2>1, ObjectFacts
    <3>2. Grown(ch.input[q], d.input[q], t, new)
      BY <1>3, <2>1, <3>1 DEF Moved, t
    <3>3. EndIndex(ch.input[q]) = e
      BY <2>1, <3>1 DEF AgreeOK, Linked, e
    <3> QED BY <1>5, <3>2, <3>3, ChainParts DEF AllIndexed
  <2>2. CASE q # o + 1
    BY <1>3, <2>2 DEF AllIndexed, Moved
  <2> QED BY <2>1, <2>2
<1>8. ASSUME NEW q \in Objects PROVE Indexed(d.overlap[q])
  <2>1. CASE q = o
    <3>1. ASSUME NEW f, Holds(d.overlap[o], f) PROVE FrameAt(d.overlap[o], f).index = f
      <4>1. f \in t..(w.commit_end - 1) /\ FrameAt(d.overlap[o], f) = new[f]
        BY <3>1 DEF Did, new, t
      <4>2. f \in e..(w.commit_end - 1)
        BY <1>2, <4>1
      <4> QED BY <1>1, <4>1, <4>2
    <3> QED BY <2>1, <3>1 DEF Indexed
  <2>2. CASE q # o
    BY <1>3, <2>2 DEF AllIndexed, Moved
  <2> QED BY <2>1, <2>2
<1> QED BY <1>6, <1>7, <1>8 DEF AllIndexed

\* It keeps inputs and outputs in agreement.
LEMMA DidKeepsAgree ==
    ASSUME NEW ch \in ChainSet, AgreeOK(ch), NEW o \in Objects, NEW w,
           NEW d, NEW new, Moved(ch, d, o, w, new)
    PROVE  AgreeOK(d)
<1>1. d.input_frontier[1] = EndIndex(d.input[1])
  <2>1. 1 \in Objects /\ 1 # o + 1
    BY ObjectFacts
  <2>2. d.input[1] = ch.input[1] /\ d.input_frontier[1] = ch.input_frontier[1]
    BY <2>1 DEF Moved
  <2> QED BY <2>2 DEF AgreeOK
<1>2. ASSUME NEW q \in Objects
      PROVE  /\ Linked(d, q)
             /\ q < ObjectCount =>
                  \A f : Holds(d.output[q], f) /\ Holds(d.input[q + 1], f) =>
                           FrameAt(d.output[q], f) = FrameAt(d.input[q + 1], f)
  <2>1. CASE q = o
    <3>1. Linked(d, q)
      BY <2>1 DEF Moved
    <3>2. ASSUME q < ObjectCount, NEW f, Holds(d.output[q], f), Holds(d.input[q + 1], f)
          PROVE  FrameAt(d.output[q], f) = FrameAt(d.input[q + 1], f)
      <4> DEFINE c == ch.output[q]
                 k == ch.input[q + 1]
                 t == StableEnd(w)
      <4>1. c \in Caches /\ k \in Caches /\ EndIndex(c) = EndIndex(k)
        BY <3>2, ChainParts, ObjectFacts DEF AgreeOK, Linked
      <4>2. Grown(c, d.output[q], t, new) /\ Grown(k, d.input[q + 1], t, new)
        BY <2>1, <3>2 DEF Moved
      <4>3. Holds(c, f) /\ Holds(k, f) => FrameAt(c, f) = FrameAt(k, f)
        BY <3>2 DEF AgreeOK
      <4>4. EndIndex(c) \in Nat /\ c.start \in Nat /\ EndIndex(k) \in Nat /\ k.start \in Nat
        BY <4>1, CacheNumbers
      <4> HIDE DEF c, k, t
      <4>5. \/ Holds(c, f) /\ FrameAt(d.output[q], f) = FrameAt(c, f)
            \/ f \in EndIndex(c)..(t - 1) /\ FrameAt(d.output[q], f) = new[f]
        BY <3>2, <4>1, <4>2, GrownFrame
      <4>6. \/ Holds(k, f) /\ FrameAt(d.input[q + 1], f) = FrameAt(k, f)
            \/ f \in EndIndex(k)..(t - 1) /\ FrameAt(d.input[q + 1], f) = new[f]
        BY <3>2, <4>1, <4>2, GrownFrame
      <4>7. /\ Holds(c, f) => f < EndIndex(c)
            /\ Holds(k, f) => f < EndIndex(c)
            /\ f \in EndIndex(c)..(t - 1) => ~(f < EndIndex(c))
            /\ f \in EndIndex(k)..(t - 1) => ~(f < EndIndex(c))
        BY <4>1, <4>4 DEF Holds
      <4> QED BY <4>3, <4>5, <4>6, <4>7
    <3> QED BY <3>1, <3>2
  <2>2. CASE q # o
    <3>1. d.output[q] = ch.output[q]
      BY <2>2 DEF Moved
    <3>2. q < ObjectCount => d.input[q + 1] = ch.input[q + 1] /\ d.input_frontier[q + 1] = ch.input_frontier[q + 1]
      <4>1. q < ObjectCount => q + 1 \in Objects /\ q + 1 # o + 1
        BY <2>2, ObjectFacts
      <4> QED BY <4>1 DEF Moved
    <3>3. Linked(d, q)
      BY <3>1, <3>2 DEF Linked, AgreeOK
    <3>4. ASSUME q < ObjectCount
          PROVE  \A f : Holds(d.output[q], f) /\ Holds(d.input[q + 1], f) =>
                           FrameAt(d.output[q], f) = FrameAt(d.input[q + 1], f)
      BY <3>1, <3>2, <3>4 DEF AgreeOK
    <3> QED BY <3>3, <3>4
  <2> QED BY <2>1, <2>2
<1> QED BY <1>1, <1>2 DEF AgreeOK

\* It evicts and writes nothing.
LEMMA DidKeepsMode ==
    ASSUME NEW ch \in ChainSet, ModeOK(ch), NEW o \in Objects, NEW w, NEW d, NEW new, Moved(ch, d, o, w, new)
    PROVE  ModeOK(d)
<1>1. d.input[1] = ch.input[1] /\ ObjectCount \in Objects
  <2>1. 1 \in Objects /\ 1 # o + 1
    BY ObjectFacts
  <2> QED BY <2>1, ObjectFacts DEF Moved
<1>2. \A q \in Objects : /\ d.input[q].start = ch.input[q].start /\ d.output[q].start = ch.output[q].start
                         /\ EndIndex(ch.output[q]) <= EndIndex(d.output[q])
  <2> TAKE q \in Objects
  <2>1. d.output[q].start = ch.output[q].start /\ EndIndex(ch.output[q]) <= EndIndex(d.output[q])
    <3>1. EndIndex(ch.output[q]) \in Nat
      BY ChainParts, CacheNumbers
    <3>2. CASE q = o
      BY <3>2 DEF Moved, Grown
    <3>3. CASE q # o
      BY <3>1, <3>3 DEF Moved
    <3> QED BY <3>2, <3>3
  <2>2. d.input[q].start = ch.input[q].start
    <3>1. CASE q = o + 1
      <4>1. o < ObjectCount
        BY <3>1, ObjectFacts
      <4> QED BY <3>1, <4>1 DEF Moved, Grown
    <3>2. CASE q # o + 1
      BY <3>2 DEF Moved
    <3> QED BY <3>1, <3>2
  <2> QED BY <2>1, <2>2
<1>3. d.next_write = ch.next_write /\ d.written = ch.written
      /\ d.mask.start = ch.mask.start /\ EndIndex(d.mask) = EndIndex(ch.mask)
  BY DEF Moved, MaskAfter
<1>4. ch.next_write <= EndIndex(d.output[ObjectCount])
  <2>1. ch.next_write \in Nat
    BY Sizes DEF ChainSet
  <2>2. EndIndex(ch.output[ObjectCount]) \in Nat /\ EndIndex(d.output[ObjectCount]) \in Nat
    <3>1. d \in ChainSet
      BY DEF Moved
    <3> QED BY <1>1, <3>1, ChainParts, CacheNumbers
  <2> QED BY <1>1, <1>2, <2>1, <2>2 DEF ModeOK
<1> QED BY <1>1, <1>2, <1>3, <1>4 DEF ModeOK

\* A step of the driver leaves every frame in its place.
LEMMA DidKeepsCore ==
    ASSUME NEW ch, CoreOK(ch), NEW o \in Objects, NEW w \in WindowSet,
           Allowed(ch, o, w), NEW d, Did(ch, d, o, w, NewFrames(ch, o, w))
    PROVE  CoreOK(d)
<1>1. ch \in ChainSet /\ AllIndexed(ch) /\ AgreeOK(ch) /\ WrittenOK(ch) /\ ModeOK(ch)
  BY DEF CoreOK, FramesOK
<1>2. Moved(ch, d, o, w, NewFrames(ch, o, w))
  BY DEF Did
<1>3. AllIndexed(d)
  BY <1>1, DidKeepsIndexed
<1>4. AgreeOK(d) /\ ModeOK(d)
  BY <1>1, <1>2, DidKeepsAgree, DidKeepsMode
<1>5. d \in ChainSet /\ WrittenOK(d)
  BY <1>1, <1>2 DEF Moved, WrittenOK
<1> QED BY <1>3, <1>4, <1>5 DEF CoreOK, FramesOK

\* Nor does the flush misplace a frame.
LEMMA TrimKeepsFrames ==
    ASSUME NEW ch, FramesOK(ch), NEW d, NEW n, Trimmed(ch, d, n), WroteMore(ch, d)
    PROVE  FramesOK(d)
<1>1. ch \in ChainSet /\ AllIndexed(ch) /\ AgreeOK(ch) /\ WrittenOK(ch)
  BY DEF FramesOK
<1>2. /\ d \in ChainSet /\ d.overlap = ch.overlap /\ d.input_frontier = ch.input_frontier
      /\ \A o \in Objects : Shrunk(ch.input[o], d.input[o], n) /\ Shrunk(ch.output[o], d.output[o], n)
  BY DEF Trimmed
<1>3. AllIndexed(d)
  BY <1>1, <1>2 DEF AllIndexed, Indexed, Shrunk
<1>4. AgreeOK(d)
  <2>1. d.input_frontier[1] = EndIndex(d.input[1])
    <3>1. 1 \in Objects
      BY Sizes DEF Objects
    <3> QED BY <1>1, <1>2, <3>1 DEF AgreeOK, Shrunk
  <2>2. ASSUME NEW o \in Objects PROVE Linked(d, o)
    <3> SUFFICES ASSUME o < ObjectCount
                 PROVE  EndIndex(d.input[o + 1]) = EndIndex(d.output[o])
                        /\ d.input_frontier[o + 1] = EndIndex(d.output[o])
      BY DEF Linked
    <3>1. o + 1 \in Objects
      BY ObjectFacts
    <3>2. EndIndex(ch.input[o + 1]) = EndIndex(ch.output[o])
          /\ ch.input_frontier[o + 1] = EndIndex(ch.output[o])
      BY <1>1 DEF AgreeOK, Linked
    <3> QED BY <1>2, <3>1, <3>2 DEF Shrunk
  <2>3. ASSUME NEW o \in Objects, o < ObjectCount, NEW f, Holds(d.output[o], f), Holds(d.input[o + 1], f)
        PROVE  FrameAt(d.output[o], f) = FrameAt(d.input[o + 1], f)
    <3>1. o + 1 \in Objects
      BY <2>3, ObjectFacts
    <3>2. /\ Holds(ch.output[o], f) /\ FrameAt(d.output[o], f) = FrameAt(ch.output[o], f)
          /\ Holds(ch.input[o + 1], f) /\ FrameAt(d.input[o + 1], f) = FrameAt(ch.input[o + 1], f)
      BY <1>2, <2>3, <3>1 DEF Shrunk
    <3> QED BY <1>1, <2>3, <3>2 DEF AgreeOK
  <2> QED BY <2>1, <2>2, <2>3 DEF AgreeOK
<1>5. WrittenOK(d)
  <2>1. ASSUME NEW i \in 1..Len(d.written) PROVE d.written[i].index = i - 1
    <3>1. Len(ch.written) \in Nat /\ Len(d.written) \in Nat
      BY <1>1, <1>2 DEF ChainSet
    <3>3. CASE i \in 1..Len(ch.written)
      BY <1>1, <3>3 DEF WroteMore, WrittenOK
    <3>4. CASE i \in (Len(ch.written) + 1)..Len(d.written)
      <4>1. /\ Holds(ch.output[ObjectCount], i - 1)
            /\ d.written[i] = FrameAt(ch.output[ObjectCount], i - 1)
        BY <3>4 DEF WroteMore
      <4>2. Indexed(ch.output[ObjectCount])
        BY <1>1, Sizes DEF AllIndexed, Objects
      <4> QED BY <4>1, <4>2 DEF Indexed
    <3> QED BY <3>1, <3>3, <3>4
  <2> QED BY <2>1 DEF WrittenOK
<1> QED BY <1>2, <1>3, <1>4, <1>5 DEF FramesOK

\* A flush leaves every frame in its place.
LEMMA SettledKeepsCore ==
    ASSUME NEW ch, CoreOK(ch), NEW d, Settled(ch, d)
    PROVE  CoreOK(d)
BY TrimKeepsFrames DEF CoreOK, Settled

\* The frames of the source and of the mask video.
LEMMA SourceFrameFacts ==
    ASSUME NEW a \in Nat, NEW b \in Nat, a <= b, b <= NumFrames
    PROVE  /\ SourceFrames(a, b) \in Seq(FrameRecords) /\ Len(SourceFrames(a, b)) = b - a
           /\ \A i \in 1..(b - a) : SourceFrames(a, b)[i] = SourceFrame(a + i - 1)
           /\ MaskFrames(a, b) \in Seq(SUBSET Objects) /\ Len(MaskFrames(a, b)) = b - a
           /\ \A i \in 1..(b - a) : MaskFrames(a, b)[i] = MaskFrame(a + i - 1)
<1> DEFINE n == b - a
           s == SourceFrames(a, b)
           m == MaskFrames(a, b)
           S == FrameRecords
           M == SUBSET Objects
<1>1. n \in Nat /\ NumFrames \in Nat
  BY Sizes
<1>2. \A i \in 1..n : SourceFrame(a + i - 1) \in S
  <2> TAKE i \in 1..n
  <2>1. a + i - 1 \in Frames
    BY <1>1 DEF Frames
  <2> QED BY <2>1 DEF SourceFrame, FrameRecords
<1>3. \A i \in 1..n : MaskFrame(a + i - 1) \in M
  BY DEF MaskFrame
<1>4. s = [i \in 1..n |-> SourceFrame(a + i - 1)] /\ m = [i \in 1..n |-> MaskFrame(a + i - 1)]
  BY DEF SourceFrames, MaskFrames
<1> HIDE DEF n, s, m, S, M
<1>5. \A i \in 1..n : s[i] = SourceFrame(a + i - 1) /\ m[i] = MaskFrame(a + i - 1)
  BY <1>4
<1>6. s = [i \in 1..n |-> s[i]] /\ \A i \in 1..n : s[i] \in S
  BY <1>2, <1>4
<1>7. m = [i \in 1..n |-> m[i]] /\ \A i \in 1..n : m[i] \in M
  BY <1>3, <1>4
<1>8. s \in Seq(S) /\ Len(s) = n
  BY <1>1, <1>6, ListFacts
<1>9. m \in Seq(M) /\ Len(m) = n
  BY <1>1, <1>7, ListFacts
<1> QED BY <1>5, <1>8, <1>9 DEF n, s, m, S, M

SourceVideo == [f \in Frames |-> SourceFrame(f)]

\* d has loaded the source and the mask up to n.
Primed(ch, d, n) ==
    /\ d \in ChainSet /\ Grown(ch.input[1], d.input[1], n, SourceVideo) /\ d.input_frontier[1] = n
    /\ \A q \in Objects : q # 1 => d.input[q] = ch.input[q] /\ d.input_frontier[q] = ch.input_frontier[q]
    /\ d.output = ch.output /\ d.overlap = ch.overlap /\ d.flush_frontier = ch.flush_frontier
    /\ d.next = ch.next /\ d.next_write = ch.next_write /\ d.written = ch.written
    /\ d.mask.start = ch.mask.start /\ EndIndex(d.mask) = n
    /\ \A f : Holds(d.mask, f) => \/ Holds(ch.mask, f) /\ FrameAt(d.mask, f) = FrameAt(ch.mask, f)
                                  \/ f \in EndIndex(ch.input[1])..(n - 1) /\ FrameAt(d.mask, f) = MaskFrame(f)

\* Priming loads the frames of the next window of the first object.
LEMMA PrimeFacts ==
    ASSUME request \in Requests, NEW ch, CoreOK(ch), CanPrime(ch)
    PROVE  /\ Primed(ch, Prime(ch), NextSpec(ch, 1).load_end)
           /\ EndIndex(ch.input[1]) < NextSpec(ch, 1).load_end
           /\ NextSpec(ch, 1).load_end \in Nat /\ NextSpec(ch, 1).load_end <= NumFrames
<1> DEFINE c == ch.input[1]
           m == ch.mask
           a == EndIndex(c)
           b == NextSpec(ch, 1).load_end
           s == SourceFrames(a, b)
           t == MaskFrames(a, b)
           x == Extend(c, s)
           y == Extend(m, t)
           d == Prime(ch)
<1>1. 1 \in Objects /\ ch \in ChainSet /\ c \in Caches /\ m \in CacheOf(SUBSET Objects) /\ EndIndex(m) = a
  <2>1. 1 \in Objects
    BY Sizes DEF Objects
  <2> QED BY <2>1, ChainParts DEF CoreOK, FramesOK, ModeOK
<1>2. a \in Nat /\ c.start \in Nat /\ m.start \in Nat
  BY <1>1, CacheNumbers, CacheFacts
<1>3. a < b /\ Unfinished(ch, 1)
  BY DEF CanPrime
<1>4. b \in Nat /\ b <= NumFrames
  <2>1. NextSpec(ch, 1) \in WindowSet
    BY <1>1, <1>3, NextIsWindow
  <2> QED BY <2>1, WindowNumbers
<1>5. /\ s \in Seq(FrameRecords) /\ Len(s) = b - a /\ \A i \in 1..(b - a) : s[i] = SourceFrame(a + i - 1)
      /\ t \in Seq(SUBSET Objects) /\ Len(t) = b - a /\ \A i \in 1..(b - a) : t[i] = MaskFrame(a + i - 1)
  <2>1. a <= b
    BY <1>2, <1>3, <1>4
  <2> HIDE DEF a, b
  <2> QED BY <1>2, <1>4, <2>1, SourceFrameFacts
<1>6. d = [ch EXCEPT !.input[1] = x, !.mask = y, !.input_frontier[1] = b]
  BY DEF Prime
<1> HIDE DEF s, t, d, b
<1>7. \A i \in 1..(b - a) : s[i] = SourceVideo[a + i - 1]
  <2> TAKE i \in 1..(b - a)
  <2> DEFINE f == a + i - 1
  <2>1. f \in Frames
    BY <1>2, <1>4, Sizes DEF Frames
  <2>2. s[i] = SourceFrame(f)
    BY <1>5
  <2> HIDE DEF f
  <2> QED BY <2>1, <2>2 DEF SourceVideo, f
<1>8. Grown(c, x, b, SourceVideo)
  <2>1. b \in Int /\ b = EndIndex(c) + Len(s) /\ \A i \in 1..Len(s) : s[i] = SourceVideo[EndIndex(c) + i - 1]
    BY <1>2, <1>4, <1>5, <1>7
  <2> HIDE DEF c
  <2> QED BY <1>1, <1>5, <2>1, GrownBy
<1>9. /\ y \in CacheOf(SUBSET Objects) /\ y.start = m.start /\ EndIndex(y) = b
      /\ \A f : Holds(m, f) => FrameAt(y, f) = FrameAt(m, f)
      /\ \A i \in 1..(b - a) : FrameAt(y, a + i - 1) = MaskFrame(a + i - 1)
  <2> DEFINE S == SUBSET Objects
  <2> HIDE DEF S, m, a
  <2>1. m \in CacheOf(S) /\ t \in Seq(S)
    BY <1>1, <1>5 DEF S
  <2>2. /\ y \in CacheOf(S) /\ y.start = m.start /\ EndIndex(y) = EndIndex(m) + Len(t)
        /\ \A f : Holds(m, f) => FrameAt(y, f) = FrameAt(m, f)
        /\ \A i \in 1..Len(t) : FrameAt(y, EndIndex(m) + i - 1) = t[i]
    BY <2>1, ExtendFacts
  <2> HIDE DEF y
  <2>3. EndIndex(m) = a /\ Len(t) = b - a
    BY <1>1, <1>5
  <2>4. EndIndex(y) = b
    BY <1>2, <1>4, <2>2, <2>3
  <2>5. \A i \in 1..(b - a) : FrameAt(y, a + i - 1) = MaskFrame(a + i - 1)
    BY <1>5, <2>2, <2>3
  <2> QED BY <2>2, <2>4, <2>5 DEF S
<1>10. ASSUME NEW f, Holds(y, f)
       PROVE  \/ Holds(m, f) /\ FrameAt(y, f) = FrameAt(m, f)
              \/ f \in a..(b - 1) /\ FrameAt(y, f) = MaskFrame(f)
  <2> HIDE DEF a, y
  <2>1. f \in Int /\ m.start <= f /\ f < b
    BY <1>2, <1>4, <1>9, <1>10 DEF Holds
  <2>2. CASE f < a
    <3>1. Holds(m, f)
      BY <1>1, <1>2, <2>1, <2>2 DEF Holds
    <3> QED BY <1>9, <3>1
  <2>3. CASE ~(f < a)
    <3>1. f - a + 1 \in 1..(b - a) /\ a + (f - a + 1) - 1 = f /\ f \in a..(b - 1)
      BY <1>2, <1>4, <2>1, <2>3
    <3> QED BY <1>9, <3>1
  <2> QED BY <2>2, <2>3
<1>11. x \in Caches
  BY <1>8 DEF Grown
<1> HIDE DEF x, y, c, a
<1>12. /\ d \in ChainSet /\ d.input[1] = x /\ d.input_frontier[1] = b
       /\ \A q \in Objects : q # 1 => d.input[q] = ch.input[q] /\ d.input_frontier[q] = ch.input_frontier[q]
       /\ d.output = ch.output /\ d.overlap = ch.overlap /\ d.flush_frontier = ch.flush_frontier
       /\ d.next = ch.next /\ d.next_write = ch.next_write /\ d.written = ch.written
       /\ d.mask = y
  <2>1. b \in 0..NumFrames
    BY <1>4, Sizes
  <2> HIDE DEF Caches
  <2> QED BY <1>1, <1>6, <1>9, <1>11, <2>1 DEF ChainSet
<1>13. Primed(ch, d, b)
  BY <1>8, <1>9, <1>10, <1>12 DEF Primed, c, a
<1> QED BY <1>3, <1>4, <1>13 DEF d, b, a, c

\* Loading frames leaves every frame in its place.
LEMMA PrimedKeepsCore ==
    ASSUME NEW ch, CoreOK(ch), NEW n \in Nat, n <= NumFrames, NEW d, Primed(ch, d, n), request.mode # "preload"
    PROVE  CoreOK(d)
<1>1. ch \in ChainSet /\ AllIndexed(ch) /\ AgreeOK(ch) /\ WrittenOK(ch) /\ ModeOK(ch)
  BY DEF CoreOK, FramesOK
<1>2. 1 \in Objects /\ ch.input[1] \in Caches /\ EndIndex(ch.input[1]) \in Nat
  <2>1. 1 \in Objects
    BY Sizes DEF Objects
  <2>2. ch.input[1] \in Caches
    BY <1>1, <2>1, ChainParts
  <2> QED BY <2>1, <2>2, CacheNumbers
<1>3. Indexed(d.input[1])
  <2>1. ASSUME NEW f, Holds(d.input[1], f) PROVE FrameAt(d.input[1], f).index = f
    <3>1. Grown(ch.input[1], d.input[1], n, SourceVideo)
      BY DEF Primed
    <3>2. \/ Holds(ch.input[1], f) /\ FrameAt(d.input[1], f) = FrameAt(ch.input[1], f)
          \/ f \in EndIndex(ch.input[1])..(n - 1) /\ FrameAt(d.input[1], f) = SourceVideo[f]
      BY <1>2, <2>1, <3>1, GrownFrame
    <3>3. f \in EndIndex(ch.input[1])..(n - 1) => f \in Frames
      BY <1>2, Sizes DEF Frames
    <3>4. f \in Frames => SourceVideo[f].index = f
      BY DEF SourceVideo, SourceFrame
    <3> QED BY <1>1, <1>2, <3>2, <3>3, <3>4 DEF AllIndexed, Indexed
  <2> QED BY <2>1 DEF Indexed
<1>4. AllIndexed(d)
  <2>1. ASSUME NEW o \in Objects
        PROVE  Indexed(d.input[o]) /\ Indexed(d.output[o]) /\ Indexed(d.overlap[o])
    BY <1>1, <1>3 DEF AllIndexed, Primed
  <2> QED BY <2>1 DEF AllIndexed
<1>5. AgreeOK(d)
  <2>1. d.input_frontier[1] = EndIndex(d.input[1])
    BY DEF Primed, Grown
  <2>2. ASSUME NEW o \in Objects, o < ObjectCount
        PROVE  /\ d.output[o] = ch.output[o] /\ d.input[o + 1] = ch.input[o + 1]
               /\ d.input_frontier[o + 1] = ch.input_frontier[o + 1]
    <3>1. o + 1 \in Objects /\ o + 1 # 1
      BY <2>2, ObjectFacts
    <3> QED BY <3>1 DEF Primed
  <2>3. \A o \in Objects : Linked(d, o)
    BY <1>1, <2>2 DEF AgreeOK, Linked
  <2>4. ASSUME NEW o \in Objects, o < ObjectCount, NEW f, Holds(d.output[o], f), Holds(d.input[o + 1], f)
        PROVE  FrameAt(d.output[o], f) = FrameAt(d.input[o + 1], f)
    BY <1>1, <2>2, <2>4 DEF AgreeOK
  <2> QED BY <2>1, <2>3, <2>4 DEF AgreeOK
<1>6. ModeOK(d)
  <2>1. \A o \in Objects : d.input[o].start = ch.input[o].start
    BY DEF Primed, Grown
  <2>2. EndIndex(d.input[1]) = n
    BY DEF Primed, Grown
  <2> QED BY <1>1, <2>1, <2>2 DEF ModeOK, Primed
<1>7. WrittenOK(d) /\ d \in ChainSet
  BY <1>1 DEF WrittenOK, Primed
<1> QED BY <1>4, <1>5, <1>6, <1>7 DEF CoreOK, FramesOK

\* A cache that begins with the video.
LEMMA FreshFacts ==
    ASSUME NEW S, NEW s \in Seq(S), NEW c, c = [start |-> 0, frames |-> s]
    PROVE  /\ c \in CacheOf(S) /\ c.start = 0 /\ EndIndex(c) = Len(s)
           /\ \A i \in 1..Len(s) : FrameAt(c, i - 1) = s[i]
<1>1. 0 \in 0..NumFrames /\ Len(s) \in Nat
  BY Sizes
<1>2. c \in CacheOf(S)
  BY <1>1 DEF CacheOf
<1>3. c.start = 0 /\ c.frames = s
  OBVIOUS
<1>4. EndIndex(c) = Len(s)
  BY <1>1, <1>3 DEF EndIndex
<1>5. ASSUME NEW i \in 1..Len(s) PROVE FrameAt(c, i - 1) = s[i]
  <2>1. i - 1 - 0 + 1 = i
    BY <1>1
  <2> QED BY <1>3, <2>1 DEF FrameAt
<1> QED BY <1>2, <1>3, <1>4, <1>5

\* The chain of a request that has just begun.
LEMMA InitFacts ==
    ASSUME request \in Requests
    PROVE  LET ch == InitialChain(request)
               n == IF request.mode = "preload" THEN NumFrames ELSE 0
           IN /\ ch \in ChainSet
              /\ \A o \in Objects : /\ ch.input[o].start = 0
                                    /\ EndIndex(ch.input[o]) = IF o = 1 THEN n ELSE 0
                                    /\ ch.output[o] = EmptyCache(0) /\ ch.overlap[o] = EmptyCache(0)
                                    /\ ch.input_frontier[o] = IF o = 1 THEN n ELSE 0
                                    /\ ch.flush_frontier[o] = 0 /\ ch.next[o] = 1
              /\ \A f : Holds(ch.input[1], f) => FrameAt(ch.input[1], f) = SourceFrame(f)
              /\ ch.mask.start = 0 /\ EndIndex(ch.mask) = n
              /\ \A f : Holds(ch.mask, f) => FrameAt(ch.mask, f) = MaskFrame(f)
              /\ ch.next_write = 0 /\ ch.written = <<>>
<1> DEFINE ch == InitialChain(request)
           n == IF request.mode = "preload" THEN NumFrames ELSE 0
           s == SourceFrames(0, n)
           masks == [i \in 1..n |-> {o \in Objects : (i - 1) \in request.visible[o]}]
           t == MaskFrames(0, n)
           src == [start |-> 0, frames |-> s]
           none == [start |-> 0, frames |-> <<>>]
           mask == [start |-> 0, frames |-> t]
           x == [o \in Objects |-> IF o = 1 THEN src ELSE none]
           e == [o \in Objects |-> none]
           z == [o \in Objects |-> IF o = 1 THEN n ELSE 0]
           zero == [o \in Objects |-> 0]
           one == [o \in Objects |-> 1]
<1>1. n \in Nat /\ n <= NumFrames /\ 0 \in Nat /\ 0 <= n /\ NumFrames \in Nat /\ 0 <= NumFrames
  BY Sizes
<1>2. masks = t
  <2> HIDE DEF n
  <2>1. n - 0 = n
    BY <1>1
  <2>2. \A i \in 1..n : 0 + i - 1 = i - 1
    OBVIOUS
  <2> QED BY <2>1, <2>2 DEF MaskFrames, MaskFrame
<1>3. ch = [input |-> x, output |-> e, overlap |-> e, mask |-> mask, input_frontier |-> z,
            flush_frontier |-> zero, next |-> one, next_write |-> 0, written |-> <<>>]
  <2> DEFINE x1 == [o \in Objects |-> [start |-> 0, frames |-> IF o = 1 THEN SourceFrames(0, n) ELSE <<>>]]
  <2>1. ch = [input |-> x1, output |-> e, overlap |-> e, mask |-> [start |-> 0, frames |-> masks],
              input_frontier |-> z, flush_frontier |-> zero, next |-> one, next_write |-> 0, written |-> <<>>]
    BY DEF InitialChain, EmptyCache
  <2>2. x1 = x
    OBVIOUS
  <2> HIDE DEF x1, x, n, z, e, ch, masks, t
  <2> QED BY <1>2, <2>1, <2>2
<1> HIDE DEF n, ch
<1>4. /\ s \in Seq(FrameRecords) /\ Len(s) = n - 0 /\ \A i \in 1..(n - 0) : s[i] = SourceFrame(0 + i - 1)
      /\ t \in Seq(SUBSET Objects) /\ Len(t) = n - 0 /\ \A i \in 1..(n - 0) : t[i] = MaskFrame(0 + i - 1)
  BY <1>1, SourceFrameFacts
<1>5. src = [start |-> 0, frames |-> s] /\ mask = [start |-> 0, frames |-> t]
  OBVIOUS
<1> HIDE DEF s, t, src, mask
<1>6. /\ src \in CacheOf(FrameRecords) /\ src.start = 0 /\ EndIndex(src) = Len(s)
      /\ \A i \in 1..Len(s) : FrameAt(src, i - 1) = s[i]
      /\ mask \in CacheOf(SUBSET Objects) /\ mask.start = 0 /\ EndIndex(mask) = Len(t)
      /\ \A i \in 1..Len(t) : FrameAt(mask, i - 1) = t[i]
  <2> DEFINE S == SUBSET Objects
             R == FrameRecords
  <2>1. t \in Seq(S) /\ s \in Seq(R)
    BY <1>4
  <2> HIDE DEF S, R
  <2>2. /\ src \in CacheOf(R) /\ src.start = 0 /\ EndIndex(src) = Len(s)
        /\ \A i \in 1..Len(s) : FrameAt(src, i - 1) = s[i]
    BY <1>5, <2>1, FreshFacts
  <2>3. /\ mask \in CacheOf(S) /\ mask.start = 0 /\ EndIndex(mask) = Len(t)
        /\ \A i \in 1..Len(t) : FrameAt(mask, i - 1) = t[i]
    BY <1>5, <2>1, FreshFacts
  <2> QED BY <2>2, <2>3 DEF S, R
<1>7. none = EmptyCache(0) /\ none \in CacheOf(FrameRecords) /\ none.start = 0 /\ EndIndex(none) = 0
  BY <1>1, EmptyFacts DEF EmptyCache
<1> HIDE DEF none
<1>8. /\ \A f : Holds(src, f) => FrameAt(src, f) = SourceFrame(f)
      /\ \A f : Holds(mask, f) => FrameAt(mask, f) = MaskFrame(f)
      /\ EndIndex(src) = n /\ EndIndex(mask) = n
  <2>1. EndIndex(src) = n /\ EndIndex(mask) = n /\ Len(s) = n /\ Len(t) = n
    BY <1>1, <1>4, <1>6
  <2>2. ASSUME NEW f, f \in 0..(n - 1) PROVE f + 1 \in 1..n /\ (f + 1) - 1 = f
    BY <1>1, <2>2
  <2>3. ASSUME NEW f, Holds(src, f) PROVE FrameAt(src, f) = SourceFrame(f)
    <3>1. f \in 0..(n - 1)
      BY <1>6, <2>1, <2>3 DEF Holds
    <3>2. f + 1 \in 1..n /\ (f + 1) - 1 = f
      BY <2>2, <3>1
    <3>3. FrameAt(src, f) = s[f + 1] /\ s[f + 1] = SourceFrame(f)
      BY <1>1, <1>4, <1>6, <2>1, <3>2
    <3> QED BY <3>3
  <2>4. ASSUME NEW f, Holds(mask, f) PROVE FrameAt(mask, f) = MaskFrame(f)
    <3>1. f \in 0..(n - 1)
      BY <1>6, <2>1, <2>4 DEF Holds
    <3>2. f + 1 \in 1..n /\ (f + 1) - 1 = f
      BY <2>2, <3>1
    <3>3. FrameAt(mask, f) = t[f + 1] /\ t[f + 1] = MaskFrame(f)
      BY <1>1, <1>4, <1>6, <2>1, <3>2
    <3> QED BY <3>3
  <2> QED BY <2>1, <2>3, <2>4
<1>9. x \in [Objects -> Caches] /\ e \in [Objects -> Caches]
  BY <1>6, <1>7 DEF Caches
<1>10. z \in [Objects -> 0..NumFrames] /\ zero \in [Objects -> 0..NumFrames] /\ one \in [Objects -> Nat \ {0}]
       /\ 0 \in 0..NumFrames /\ <<>> \in Seq(FrameRecords)
  BY <1>1
<1>11. ch \in ChainSet
  <2> HIDE DEF x, e, z, zero, one, Caches
  <2> QED BY <1>3, <1>6, <1>9, <1>10 DEF ChainSet
<1>12. /\ ch.input = x /\ ch.output = e /\ ch.overlap = e /\ ch.mask = mask /\ ch.input_frontier = z
       /\ ch.flush_frontier = zero /\ ch.next = one /\ ch.next_write = 0 /\ ch.written = <<>>
  <2> HIDE DEF x, e, z, zero, one
  <2> QED BY <1>3
<1>13. \A o \in Objects : /\ x[o] = (IF o = 1 THEN src ELSE none) /\ e[o] = none
                          /\ z[o] = (IF o = 1 THEN n ELSE 0) /\ zero[o] = 0 /\ one[o] = 1
  OBVIOUS
<1>14. 1 \in Objects
  BY Sizes DEF Objects
<1> HIDE DEF x, e, z, zero, one
<1>15. \A o \in Objects : /\ ch.input[o].start = 0
                          /\ EndIndex(ch.input[o]) = (IF o = 1 THEN n ELSE 0)
                          /\ ch.output[o] = EmptyCache(0) /\ ch.overlap[o] = EmptyCache(0)
                          /\ ch.input_frontier[o] = (IF o = 1 THEN n ELSE 0)
                          /\ ch.flush_frontier[o] = 0 /\ ch.next[o] = 1
  BY <1>6, <1>7, <1>8, <1>12, <1>13
<1>16. \A f : Holds(ch.input[1], f) => FrameAt(ch.input[1], f) = SourceFrame(f)
  BY <1>8, <1>12, <1>13, <1>14
<1> QED BY <1>6, <1>8, <1>11, <1>12, <1>15, <1>16 DEF ch, n

\* In the first state every frame is in its place.
LEMMA InitIsCore ==
    ASSUME request \in Requests
    PROVE  CoreOK(InitialChain(request))
<1> DEFINE ch == InitialChain(request)
           n == IF request.mode = "preload" THEN NumFrames ELSE 0
<1>1. /\ ch \in ChainSet
      /\ \A o \in Objects : /\ ch.input[o].start = 0
                            /\ EndIndex(ch.input[o]) = IF o = 1 THEN n ELSE 0
                            /\ ch.output[o] = EmptyCache(0) /\ ch.overlap[o] = EmptyCache(0)
                            /\ ch.input_frontier[o] = IF o = 1 THEN n ELSE 0
                            /\ ch.flush_frontier[o] = 0 /\ ch.next[o] = 1
      /\ \A f : Holds(ch.input[1], f) => FrameAt(ch.input[1], f) = SourceFrame(f)
      /\ ch.mask.start = 0 /\ EndIndex(ch.mask) = n
      /\ ch.next_write = 0 /\ ch.written = <<>>
  BY InitFacts
<1> HIDE DEF ch
<1>2. /\ n \in Nat /\ 1 \in Objects /\ ObjectCount \in Objects /\ 0 \in Nat /\ 0 <= NumFrames
      /\ request.mode = "preload" => n = NumFrames
  BY Sizes DEF Objects
<1>3. /\ \A f : ~Holds(EmptyCache(0), f)
      /\ EmptyCache(0).start = 0 /\ EndIndex(EmptyCache(0)) = 0
  BY <1>2, EmptyHolds, EmptyFacts
<1> HIDE DEF n
<1>4. ASSUME NEW o \in Objects
      PROVE  Indexed(ch.input[o]) /\ Indexed(ch.output[o]) /\ Indexed(ch.overlap[o])
  <2>1. Indexed(ch.output[o]) /\ Indexed(ch.overlap[o])
    BY <1>1, <1>3 DEF Indexed
  <2>2. CASE o = 1
    <3>1. \A f : SourceFrame(f).index = f
      BY DEF SourceFrame
    <3>2. \A f : Holds(ch.input[o], f) => FrameAt(ch.input[o], f).index = f
      BY <1>1, <2>2, <3>1
    <3> QED BY <2>1, <3>2 DEF Indexed
  <2>3. CASE o # 1
    <3>1. \A f : ~Holds(ch.input[o], f)
      <4>1. ch.input[o].start = 0 /\ EndIndex(ch.input[o]) = 0
        BY <1>1, <2>3
      <4> QED BY <4>1 DEF Holds
    <3> QED BY <2>1, <3>1 DEF Indexed
  <2> QED BY <2>2, <2>3
<1>5. ASSUME NEW o \in Objects
      PROVE  /\ Linked(ch, o)
             /\ o < ObjectCount => \A f : ~Holds(ch.output[o], f)
  <2>1. o < ObjectCount => o + 1 \in Objects /\ o + 1 # 1
    BY ObjectFacts
  <2>2. EndIndex(ch.output[o]) = 0
    BY <1>1, <1>3
  <2> QED BY <1>1, <1>3, <2>1, <2>2 DEF Linked
<1>6. AgreeOK(ch)
  BY <1>1, <1>2, <1>5 DEF AgreeOK
<1>7. Len(ch.written) = 0 /\ WrittenOK(ch)
  BY <1>1 DEF WrittenOK
<1>8. ModeOK(ch)
  BY <1>1, <1>2, <1>3, <1>7 DEF ModeOK
<1>9. AllIndexed(ch)
  BY <1>4 DEF AllIndexed
<1> QED BY <1>1, <1>6, <1>7, <1>8, <1>9 DEF CoreOK, FramesOK, ch

-----------------------------------------------------------------------------
(***************************************************************************)
(* Every frame in its place.                                               *)
(***************************************************************************)

\* A cache of the video's frames does not reach beyond the video.
LEMMA EndsInVideo ==
    ASSUME NEW c \in Caches, Indexed(c)
    PROVE  EndIndex(c) <= NumFrames
<1>1. c.start \in Nat /\ EndIndex(c) \in Nat /\ c.start <= NumFrames /\ NumFrames \in Nat
  BY CacheNumbers, Sizes
<1>2. SUFFICES ASSUME EndIndex(c) > NumFrames PROVE FALSE
  BY <1>1
<1> DEFINE f == EndIndex(c) - 1
<1>3. f >= NumFrames /\ f \in c.start..(EndIndex(c) - 1)
  BY <1>1, <1>2
<1> HIDE DEF f
<1>4. Holds(c, f)
  BY <1>3 DEF Holds
<1>5. FrameAt(c, f).index = f /\ FrameAt(c, f) \in FrameRecords
  BY <1>4, CacheNumbers DEF Indexed
<1>6. f \in Frames
  BY <1>5 DEF FrameRecords
<1> QED BY <1>1, <1>3, <1>6 DEF Frames

\* Object o has handled window w, which made e of ch, and e was flushed.
Worked(ch, o, w, e, d) ==
    /\ Unfinished(ch, o) /\ w = NextSpec(ch, o) /\ w \in WindowSet /\ Allowed(ch, o, w)
    /\ Did(ch, e, o, w, NewFrames(ch, o, w)) /\ CoreOK(e)
    /\ Settled(e, d) /\ CoreOK(d)

\* Both kinds of window are a step of the driver and a flush.
LEMMA WindowWorks ==
    ASSUME request \in Requests, NEW ch, CoreOK(ch), NEW o \in Objects, Unfinished(ch, o), NEW w,
           w = NextSpec(ch, o), NEW d,
           \/ NoBBox(o, w) /\ ~SkipRefused(ch, o, w) /\ d = MaybeFlush(FinalizeStep(Skip(ch, o, w), o, w))
           \/ ~NoBBox(o, w) /\ ~CommitRefused(ch, o, w) /\ d = MaybeFlush(FinalizeStep(Commit(ch, o, w), o, w))
    PROVE  \E e : Worked(ch, o, w, e, d)
<1>1. ch \in ChainSet /\ w \in WindowSet /\ Linked(ch, o)
  BY NextIsWindow DEF CoreOK, FramesOK, AgreeOK
<1>2. Allowed(ch, o, w)
  BY <1>1, SkipAllows, CommitAllows
<1> DEFINE h == IF NoBBox(o, w) THEN Skip(ch, o, w) ELSE Commit(ch, o, w)
           new == NewFrames(ch, o, w)
           e == FinalizeStep(h, o, w)
<1> HIDE DEF new
<1>3. Handled(ch, h, o, w, new)
  <2>1. CASE NoBBox(o, w)
    BY <1>1, <1>2, <2>1, SkipFacts DEF new
  <2>2. CASE ~NoBBox(o, w)
    BY <1>1, <1>2, <2>2, CommitFacts DEF new
  <2> QED BY <2>1, <2>2
<1>4. d = MaybeFlush(e)
  OBVIOUS
<1> HIDE DEF h
<1>5. Did(ch, e, o, w, new)
  BY <1>1, <1>3, FinalizeFacts
<1> HIDE DEF e
<1>6. CoreOK(e)
  BY <1>1, <1>2, <1>5, DidKeepsCore DEF new
<1>7. Settled(e, d)
  BY <1>4, <1>6, MaybeFlushFacts DEF CoreOK, FramesOK
<1>8. CoreOK(d)
  BY <1>6, <1>7, SettledKeepsCore
<1>9. Worked(ch, o, w, e, d)
  BY <1>1, <1>2, <1>5, <1>6, <1>7, <1>8 DEF Worked, new
<1> QED BY <1>9

\* What finalize_output makes of a chain m that has been flushed.
Outcome(m) ==
    LET out == m.output[ObjectCount]
    IN  IF request.mode # "streaming"
        THEN [m EXCEPT !.written = Slice(out, out.start, EndIndex(out))]
        ELSE IF EndIndex(out) <= m.next_write THEN m
        ELSE FlushFrames(m, EndIndex(out))

\* All frames of the last output have been written.
Concluded(m, d) ==
    /\ FramesOK(d) /\ WroteMore(m, d) /\ d.next = m.next
    /\ Len(d.written) = EndIndex(m.output[ObjectCount])
    /\ request.mode = "streaming" => d = m \/ \E n : Trimmed(m, d, n)

\* Writing nothing.
LEMMA WroteSame ==
    ASSUME NEW m \in ChainSet
    PROVE  WroteMore(m, m)
<1>1. Len(m.written) \in Nat
  BY DEF ChainSet
<1> QED BY <1>1 DEF WroteMore

\* The end of the request writes what is left, and nothing else.
LEMMA OutcomeFacts ==
    ASSUME request \in Requests, NEW m, CoreOK(m)
    PROVE  Concluded(m, Outcome(m))
<1> DEFINE out == m.output[ObjectCount]
           n == EndIndex(out)
           d == Outcome(m)
<1>1. m \in ChainSet /\ ModeOK(m) /\ FramesOK(m)
  BY DEF CoreOK, FramesOK
<1>2. out \in Caches /\ Indexed(out)
  BY <1>1, ObjectFacts, ChainParts, Sizes DEF Objects, FramesOK, AllIndexed
<1>3. /\ n \in Nat /\ n <= NumFrames /\ out.start \in Nat /\ out.start <= n
      /\ m.next_write \in Nat /\ m.next_write <= n
  BY <1>1, <1>2, EndsInVideo, CacheNumbers DEF ModeOK, ChainSet
<1>4. CASE request.mode = "streaming" /\ n <= m.next_write
  <2>1. d = m
    BY <1>4 DEF Outcome
  <2>2. WroteMore(m, m)
    BY <1>1, WroteSame
  <2>3. Len(m.written) = n
    BY <1>1, <1>3, <1>4 DEF ModeOK
  <2> QED BY <1>1, <2>1, <2>2, <2>3 DEF Concluded
<1>5. CASE request.mode = "streaming" /\ ~(n <= m.next_write)
  <2>1. d = FlushFrames(m, n)
    BY <1>5 DEF Outcome
  <2> HIDE DEF n, d
  <2>2. Trimmed(m, d, n) /\ WroteMore(m, d) /\ d.next_write = n /\ ModeOK(d)
    BY <1>1, <1>3, <1>5, <2>1, FlushFacts DEF n
  <2>3. FramesOK(d)
    BY <1>1, <2>2, TrimKeepsFrames
  <2>4. Len(d.written) = n /\ d.next = m.next
    BY <1>5, <2>2 DEF ModeOK, Trimmed
  <2> QED BY <2>2, <2>3, <2>4 DEF Concluded, n, d
<1>6. CASE request.mode # "streaming"
  <2> DEFINE s == Slice(out, out.start, n)
  <2>1. d = [m EXCEPT !.written = s]
    BY <1>6 DEF Outcome
  <2>2. Len(m.written) = 0 /\ out.start = 0
    BY <1>1, <1>6 DEF ModeOK
  <2>3. CanSlice(out, out.start, n)
    BY <1>3 DEF CanSlice
  <2>4. /\ s \in Seq(FrameRecords) /\ Len(s) = n
        /\ \A i \in 1..n : s[i] = FrameAt(out, 0 + i - 1)
    <3> HIDE DEF out, n
    <3>1. /\ Slice(out, out.start, n) \in Seq(FrameRecords) /\ Len(Slice(out, out.start, n)) = n - out.start
          /\ \A i \in 1..(n - out.start) : Slice(out, out.start, n)[i] = FrameAt(out, out.start + i - 1)
      BY <1>2, <1>3, <2>3, SliceFacts, SMTT(60) DEF Caches
    <3>2. n - out.start = n
      BY <1>3, <2>2
    <3> QED BY <2>2, <3>1, <3>2
  <2> HIDE DEF s, d
  <2>5. /\ d \in ChainSet /\ d.input = m.input /\ d.output = m.output /\ d.overlap = m.overlap
        /\ d.mask = m.mask /\ d.input_frontier = m.input_frontier /\ d.flush_frontier = m.flush_frontier
        /\ d.next = m.next /\ d.written = s
    BY <1>1, <2>1, <2>4 DEF ChainSet
  <2>6. WroteMore(m, d)
    <3>1. ASSUME NEW i \in 1..n PROVE Holds(out, i - 1) /\ s[i] = FrameAt(out, i - 1)
      <4>1. i - 1 \in 0..(n - 1) /\ 0 + i - 1 = i - 1
        BY <1>3
      <4> QED BY <2>2, <2>4, <4>1 DEF Holds
    <3> HIDE DEF out, n
    <3> QED BY <1>3, <2>2, <2>4, <2>5, <3>1 DEF WroteMore, out, n
  <2>7. Trimmed(m, d, 0)
    <3>1. \A o \in Objects : Shrunk(m.input[o], m.input[o], 0) /\ Shrunk(m.output[o], m.output[o], 0)
      BY <1>1, ChainParts, ShrunkSelf DEF Caches
    <3>2. Shrunk(m.mask, m.mask, 0)
      <4> DEFINE S == SUBSET Objects
      <4> HIDE DEF S
      <4>1. m.mask \in CacheOf(S)
        BY <1>1 DEF ChainSet, S
      <4> QED BY <4>1, ShrunkSelf
    <3> QED BY <2>5, <3>1, <3>2 DEF Trimmed
  <2>8. FramesOK(d)
    BY <1>1, <2>6, <2>7, TrimKeepsFrames
  <2> QED BY <1>6, <2>4, <2>5, <2>6, <2>8 DEF Concluded, d
<1> QED BY <1>4, <1>5, <1>6

Failed == {"raised", "reader_failed", "no_ready_object", "stopped"}

\* While the request runs, every frame is in its place; when it has finished,
\* in the file as well.
FInv ==
    /\ request \in Requests
    /\ status \in {"running", "finished"} \cup Failed
    /\ FramesOK(chain)
    /\ status # "finished" => ModeOK(chain)

\* The steps of a running request.
Fails == chain' = chain /\ status' \in Failed

Loads ==
    /\ status' = "running" /\ NoneReady(chain) /\ CanPrime(chain)
    /\ NextSpec(chain, 1).load_start >= chain.input[1].start
    /\ Primed(chain, chain', NextSpec(chain, 1).load_end)
    /\ EndIndex(chain.input[1]) < NextSpec(chain, 1).load_end
    /\ CoreOK(chain')

Works(o) ==
    /\ status' = "running" /\ Selected(chain, o)
    /\ \E e : Worked(chain, o, NextSpec(chain, o), e, chain')

Ends ==
    /\ status' = "finished" /\ \A o \in Objects : ~Unfinished(chain, o)
    /\ \E m : Settled(chain, m) /\ CoreOK(m) /\ Concluded(m, chain')

\* The driver selects an object that has a window and its input.
LEMMA SelectedUnfinished ==
    ASSUME NEW ch, NEW o, Selected(ch, o)
    PROVE  Unfinished(ch, o) /\ InputReady(ch, o)
BY DEF Selected, InputReady

\* Every step fails, loads frames, works on a window, or ends the request.
LEMMA StepKinds ==
    ASSUME FInv, status = "running", Next
    PROVE  /\ request' = request
           /\ Fails \/ Loads \/ (\E o \in Objects : Works(o)) \/ Ends
<1>1. CoreOK(chain) /\ request \in Requests /\ chain \in ChainSet
  BY DEF FInv, CoreOK, FramesOK
<1>2. CASE PrimesSource
  <2>1. NoneReady(chain) /\ CanPrime(chain) /\ request' = request /\ request.mode # "preload"
    BY <1>2 DEF PrimesSource, CanPrime, Streaming
  <2>2. CASE NextSpec(chain, 1).load_start < chain.input[1].start
    BY <1>2, <2>1, <2>2 DEF PrimesSource, Fails, Failed
  <2>3. CASE ~(NextSpec(chain, 1).load_start < chain.input[1].start)
    <3>1. chain' = Prime(chain) /\ status' = "running"
      BY <1>2, <2>3 DEF PrimesSource
    <3> DEFINE n == NextSpec(chain, 1).load_end
    <3>2. Primed(chain, chain', n) /\ EndIndex(chain.input[1]) < n /\ n \in Nat /\ n <= NumFrames
      BY <1>1, <2>1, <3>1, PrimeFacts
    <3>3. NextSpec(chain, 1).load_start >= chain.input[1].start
      <4>1. 1 \in Objects
        BY Sizes DEF Objects
      <4>2. NextSpec(chain, 1).load_start \in Nat
        BY <1>1, <2>1, <4>1, NextIsWindow, WindowNumbers DEF CanPrime
      <4>3. chain.input[1].start \in Nat
        BY <1>1, <4>1, ChainParts, CacheNumbers
      <4> QED BY <2>3, <4>2, <4>3
    <3> HIDE DEF n
    <3>4. CoreOK(chain')
      BY <1>1, <2>1, <3>2, PrimedKeepsCore
    <3> QED BY <2>1, <3>1, <3>2, <3>3, <3>4 DEF Loads, n
  <2> QED BY <2>1, <2>2, <2>3
<1>3. CASE FindsNoneReady \/ ReadersFallShort \/ StopsEarly
  BY <1>3 DEF FindsNoneReady, ReadersFallShort, StopsEarly, Fails, Failed
<1>4. CASE \E o \in Objects : SkipsWindow(o) \/ RunsWindow(o)
  <2>1. PICK o \in Objects : SkipsWindow(o) \/ RunsWindow(o)
    BY <1>4
  <2> DEFINE w == NextSpec(chain, o)
  <2>2. Selected(chain, o) /\ request' = request /\ Unfinished(chain, o)
    BY <2>1, SelectedUnfinished DEF SkipsWindow, RunsWindow
  <2>3. \/ Fails
        \/ /\ status' = "running"
           /\ \/ /\ NoBBox(o, w) /\ ~SkipRefused(chain, o, w)
                 /\ chain' = MaybeFlush(FinalizeStep(Skip(chain, o, w), o, w))
              \/ /\ ~NoBBox(o, w) /\ ~CommitRefused(chain, o, w)
                 /\ chain' = MaybeFlush(FinalizeStep(Commit(chain, o, w), o, w))
    BY <2>1 DEF SkipsWindow, RunsWindow, Fails, Failed
  <2>4. CASE Fails
    BY <2>2, <2>4
  <2>5. CASE ~Fails
    <3>1. \E e : Worked(chain, o, w, e, chain')
      BY <1>1, <2>2, <2>3, <2>5, WindowWorks
    <3> QED BY <2>2, <2>3, <2>5, <3>1 DEF Works
  <2> QED BY <2>4, <2>5
<1>5. CASE Finishes
  <2> DEFINE m == MaybeFlush(chain)
  <2>1. /\ status' = "finished" /\ \A o \in Objects : ~Unfinished(chain, o)
        /\ chain' = Outcome(m) /\ request' = request
    BY <1>5 DEF Finishes, Outcome
  <2>2. Settled(chain, m)
    BY <1>1, MaybeFlushFacts DEF CoreOK
  <2>3. CoreOK(m)
    BY <1>1, <2>2, SettledKeepsCore
  <2> HIDE DEF m
  <2>4. Concluded(m, chain')
    BY <1>1, <2>1, <2>3, OutcomeFacts
  <2> QED BY <2>1, <2>2, <2>3, <2>4 DEF Ends
<1>6. ~Over
  BY DEF Over
<1> QED BY <1>2, <1>3, <1>4, <1>5, <1>6 DEF Next, Driver

\* Once the request is over, nothing happens.
LEMMA OverStays ==
    ASSUME status # "running", [Next]_vars
    PROVE  UNCHANGED vars
<1>1. CASE Next
  <2>1. Over
    BY <1>1 DEF Next, Driver, PrimesSource, FindsNoneReady, SkipsWindow, RunsWindow, Finishes,
                ReadersFallShort, StopsEarly
  <2> QED BY <2>1 DEF Over
<1> QED BY <1>1

\* In every state of every execution, frames are where they belong.
LEMMA FInvHolds ==
    Spec => []FInv
<1>1. Init => FInv
  BY InitIsCore DEF Init, FInv, CoreOK
<1>2. FInv /\ [Next]_vars => FInv'
  <2> SUFFICES ASSUME FInv, [Next]_vars PROVE FInv'
    OBVIOUS
  <2>1. CASE status # "running"
    <3>1. UNCHANGED vars
      BY <2>1, OverStays
    <3> QED BY <3>1 DEF FInv, vars, ModeOK
  <2>2. CASE UNCHANGED vars
    BY <2>2 DEF FInv, vars, ModeOK
  <2>3. CASE status = "running" /\ Next
    <3>1. request' = request /\ (Fails \/ Loads \/ (\E o \in Objects : Works(o)) \/ Ends)
      BY <2>3, StepKinds
    <3>2. \/ status' \in {"running"} \cup Failed /\ CoreOK(chain')
          \/ status' = "finished" /\ FramesOK(chain')
      <4>1. CASE Fails
        BY <2>3, <4>1 DEF Fails, FInv, CoreOK, Failed
      <4>2. CASE Loads
        BY <4>2 DEF Loads
      <4>3. CASE \E o \in Objects : Works(o)
        BY <4>3 DEF Works, Worked
      <4>4. CASE Ends
        BY <4>4 DEF Ends, Concluded
      <4> QED BY <3>1, <4>1, <4>2, <4>3, <4>4
    <3>3. status' # "finished" => ModeOK(chain)'
      BY <3>1, <3>2 DEF CoreOK, ModeOK
    <3>4. FramesOK(chain)' /\ status' \in {"running", "finished"} \cup Failed /\ request' \in Requests
      BY <3>1, <3>2 DEF CoreOK, FInv
    <3> QED BY <3>3, <3>4 DEF FInv
  <2> QED BY <2>1, <2>2, <2>3
<1> QED BY <1>1, <1>2, PTL DEF Spec

\* Frames under their own index.
LEMMA IndexedAligned ==
    ASSUME NEW c \in Caches, Indexed(c)
    PROVE  Aligned(c)
<1>1. /\ c.start \in Nat /\ EndIndex(c) \in Nat /\ DOMAIN c.frames = 1..(EndIndex(c) - c.start)
  BY CacheFacts DEF Caches
<1>2. ASSUME NEW i \in DOMAIN c.frames PROVE c.frames[i].index = c.start + i - 1
  <2> DEFINE f == c.start + i - 1
  <2>1. f \in c.start..(EndIndex(c) - 1) /\ f - c.start + 1 = i
    BY <1>1, <1>2
  <2> HIDE DEF f
  <2>2. Holds(c, f) /\ FrameAt(c, f) = c.frames[i]
    BY <2>1 DEF Holds, FrameAt
  <2>3. c.frames[i].index = f
    BY <2>2 DEF Indexed
  <2> QED BY <2>3 DEF f
<1> QED BY <1>2 DEF Aligned

\* One frame of a cache.
LEMMA OneFrame ==
    ASSUME NEW c \in Caches, NEW f \in Nat, Holds(c, f)
    PROVE  /\ Slice(c, f, f + 1) \in Seq(FrameRecords) /\ Len(Slice(c, f, f + 1)) = 1
           /\ Slice(c, f, f + 1)[1] = FrameAt(c, f)
<1>1. c.start \in Nat /\ EndIndex(c) \in Nat
  BY CacheNumbers
<1>2. CanSlice(c, f, f + 1) /\ f + 1 - f = 1 /\ f + 1 - 1 = f /\ f + 1 \in Int /\ f \in Int
  BY <1>1 DEF Holds, CanSlice
<1> DEFINE b == f + 1
<1> HIDE DEF b
<1>3. CanSlice(c, f, b) /\ b - f = 1 /\ b \in Int
  BY <1>2 DEF b
<1>4. /\ Slice(c, f, b) \in Seq(FrameRecords) /\ Len(Slice(c, f, b)) = b - f
      /\ \A i \in 1..(b - f) : Slice(c, f, b)[i] = FrameAt(c, f + i - 1)
  BY <1>2, <1>3, SliceFacts DEF Caches
<1>5. Slice(c, f, b)[1] = FrameAt(c, f + 1 - 1)
  BY <1>3, <1>4
<1> QED BY <1>2, <1>3, <1>4, <1>5 DEF b

\* Two caches that agree on the frames both hold.
LEMMA AgreeOnFrames ==
    ASSUME NEW c \in Caches, NEW d \in Caches, EndIndex(c) = EndIndex(d),
           \A f : Holds(c, f) /\ Holds(d, f) => FrameAt(c, f) = FrameAt(d, f),
           NEW f \in Max({c.start, d.start})..(EndIndex(d) - 1)
    PROVE  Slice(c, f, f + 1) = Slice(d, f, f + 1)
<1>1. c.start \in Nat /\ d.start \in Nat /\ EndIndex(c) \in Nat
  BY CacheNumbers
<1>2. f >= c.start /\ f >= d.start /\ f \in Nat /\ f <= EndIndex(c) - 1
  <2>1. Max({c.start, d.start}) = IF c.start >= d.start THEN c.start ELSE d.start
    BY <1>1, MaxOf
  <2> QED BY <1>1, <2>1
<1>3. Holds(c, f) /\ Holds(d, f)
  BY <1>1, <1>2 DEF Holds
<1> DEFINE s == Slice(c, f, f + 1)
           t == Slice(d, f, f + 1)
<1>4. s \in Seq(FrameRecords) /\ t \in Seq(FrameRecords) /\ Len(s) = 1 /\ Len(t) = 1 /\ s[1] = t[1]
  BY <1>2, <1>3, OneFrame
<1> HIDE DEF s, t
<1>5. s = t
  BY <1>4, SameList
<1> QED BY <1>5 DEF s, t

\* Chains whose frames are in place.
LEMMA FramesPlaced ==
    ASSUME request \in Requests, FramesOK(chain), status \in {"running", "finished"} \cup Failed
    PROVE  ChainInOrder
<1>1. chain \in ChainSet /\ AllIndexed(chain) /\ AgreeOK(chain) /\ WrittenOK(chain)
  BY DEF FramesOK
<1>2. ChainTypeOK
  BY <1>1 DEF ChainTypeOK, ChainSet, Caches, Failed
<1>3. FramesInOrder
  <2>1. ASSUME NEW o \in Objects
        PROVE  Aligned(chain.input[o]) /\ Aligned(chain.output[o]) /\ Aligned(chain.overlap[o])
    BY <1>1, ChainParts, IndexedAligned DEF AllIndexed
  <2>2. Aligned([start |-> 0, frames |-> chain.written])
    <3>1. DOMAIN chain.written = 1..Len(chain.written) /\ Len(chain.written) \in Nat
      BY <1>1 DEF ChainSet
    <3>2. \A i \in DOMAIN chain.written : chain.written[i].index = 0 + i - 1
      BY <1>1, <3>1 DEF WrittenOK
    <3> QED BY <3>2 DEF Aligned
  <2> QED BY <2>1, <2>2 DEF FramesInOrder
<1>4. ChainAgrees
  <2>1. ASSUME NEW o \in 1..(ObjectCount - 1)
        PROVE  /\ EndIndex(chain.output[o]) = EndIndex(chain.input[o + 1])
               /\ \A f \in Max({chain.output[o].start, chain.input[o + 1].start})..(EndIndex(chain.input[o + 1]) - 1) :
                    Slice(chain.output[o], f, f + 1) = Slice(chain.input[o + 1], f, f + 1)
    <3>1. o \in Objects /\ o < ObjectCount /\ o + 1 \in Objects
      BY Sizes DEF Objects
    <3>2. chain.output[o] \in Caches /\ chain.input[o + 1] \in Caches
      BY <1>1, <3>1, ChainParts
    <3>3. EndIndex(chain.output[o]) = EndIndex(chain.input[o + 1])
      BY <1>1, <3>1 DEF AgreeOK, Linked
    <3>4. \A f : Holds(chain.output[o], f) /\ Holds(chain.input[o + 1], f)
                   => FrameAt(chain.output[o], f) = FrameAt(chain.input[o + 1], f)
      BY <1>1, <3>1 DEF AgreeOK
    <3> QED BY <3>2, <3>3, <3>4, AgreeOnFrames
  <2> QED BY <2>1 DEF ChainAgrees
<1> QED BY <1>2, <1>3, <1>4 DEF ChainInOrder

\* Whatever the scenes, the objects and the windows: each cache holds each
\* frame under its own index, what one object emits is what the next one
\* receives, and the file has the frames in the order of the video, each once.
THEOREM ChainAlwaysInOrder ==
    Spec => []ChainInOrder
<1>1. FInv => ChainInOrder
  BY FramesPlaced DEF FInv
<1> QED BY <1>1, FInvHolds, PTL

-----------------------------------------------------------------------------
(***************************************************************************)
(* Progress.                                                               *)
(***************************************************************************)

\* A sequence that continues another.
LEMMA Continues ==
    ASSUME NEW S, NEW s \in Seq(S), NEW t \in Seq(S), Len(s) <= Len(t), \A i \in 1..Len(s) : t[i] = s[i]
    PROVE  SubSeq(t, 1, Len(s)) = s
<1> DEFINE n == Len(s)
           u == SubSeq(t, 1, n)
<1>1. n \in Int /\ 1 \in Int /\ 0 < 1 /\ n <= Len(t) /\ 1 <= n + 1 /\ n - 1 + 1 = n
  OBVIOUS
<1>2. /\ u \in Seq(S) /\ Len(u) = n - 1 + 1
      /\ \A i \in 1..(n - 1 + 1) : u[i] = t[1 + i - 1]
  <2> HIDE DEF n
  <2> QED BY <1>1, PartFacts
<1>3. \A i \in 1..n : u[i] = s[i]
  BY <1>1, <1>2
<1> HIDE DEF u
<1>4. u = s
  BY <1>1, <1>2, <1>3, SameList
<1> QED BY <1>4 DEF u

\* What is written is never rewritten.
LEMMA WroteContinues ==
    ASSUME NEW ch \in ChainSet, NEW d \in ChainSet, WroteMore(ch, d)
    PROVE  SubSeq(d.written, 1, Len(ch.written)) = ch.written
<1>1. ch.written \in Seq(FrameRecords) /\ d.written \in Seq(FrameRecords)
  BY DEF ChainSet
<1> QED BY <1>1, Continues DEF WroteMore

\* d comes after ch.
Progress(ch, d) ==
    /\ \A o \in Objects : Len(Specs(o)) + 1 - d.next[o] <= Len(Specs(o)) + 1 - ch.next[o]
    /\ EndIndex(ch.input[1]) <= EndIndex(d.input[1])
    /\ SubSeq(d.written, 1, Len(ch.written)) = ch.written
    /\ \/ \E o \in Objects : Len(Specs(o)) + 1 - d.next[o] < Len(Specs(o)) + 1 - ch.next[o]
       \/ EndIndex(ch.input[1]) < EndIndex(d.input[1])

\* The number of the next window.
LEMMA NextNumbers ==
    ASSUME request \in Requests, NEW ch \in ChainSet, NEW o \in Objects
    PROVE  ch.next[o] \in Nat /\ ch.next[o] > 0 /\ Len(Specs(o)) \in Nat
BY SpecNumbers DEF ChainSet

\* Loading frames.
LEMMA LoadProgress ==
    ASSUME request \in Requests, NEW ch \in ChainSet, NEW d, NEW n, Primed(ch, d, n), EndIndex(ch.input[1]) < n
    PROVE  Progress(ch, d)
<1>1. \A o \in Objects : Len(Specs(o)) + 1 - d.next[o] <= Len(Specs(o)) + 1 - ch.next[o]
  BY NextNumbers DEF Primed
<1>2. SubSeq(d.written, 1, Len(ch.written)) = ch.written
  <2>1. d \in ChainSet /\ d.written = ch.written
    BY DEF Primed
  <2>2. WroteMore(ch, d)
    BY <2>1, WroteSame DEF WroteMore
  <2> QED BY <2>1, <2>2, WroteContinues
<1>3. EndIndex(d.input[1]) = n
  BY DEF Primed, Grown
<1>4. EndIndex(ch.input[1]) \in Nat
  BY ChainParts, CacheNumbers, ObjectFacts, Sizes DEF Objects
<1>5. EndIndex(ch.input[1]) <= n
  BY <1>4 DEF Primed, Grown
<1> QED BY <1>1, <1>2, <1>3, <1>5 DEF Progress

\* Handling a window.
LEMMA WorkProgress ==
    ASSUME request \in Requests, NEW ch \in ChainSet, NEW d, NEW o \in Objects, NEW w, NEW e, Worked(ch, o, w, e, d)
    PROVE  Progress(ch, d)
<1>1. /\ Did(ch, e, o, w, NewFrames(ch, o, w)) /\ Moved(ch, e, o, w, NewFrames(ch, o, w))
      /\ Settled(e, d) /\ Trimmed(e, d, d.next_write) /\ d \in ChainSet /\ e \in ChainSet
  BY DEF Worked, Did, Settled, Trimmed, CoreOK, FramesOK
<1>2. d.next[o] = ch.next[o] + 1 /\ \A q \in Objects : q # o => d.next[q] = ch.next[q]
  BY <1>1 DEF Did, Trimmed
<1>3. \A q \in Objects : Len(Specs(q)) + 1 - d.next[q] <= Len(Specs(q)) + 1 - ch.next[q]
  <2> SUFFICES ASSUME NEW q \in Objects
               PROVE  Len(Specs(q)) + 1 - d.next[q] <= Len(Specs(q)) + 1 - ch.next[q]
    OBVIOUS
  <2>1. ch.next[q] \in Nat /\ Len(Specs(q)) \in Nat
    BY NextNumbers
  <2>2. d.next[q] = ch.next[q] \/ d.next[q] = ch.next[q] + 1
    BY <1>2
  <2> QED BY <2>1, <2>2
<1>4. Len(Specs(o)) + 1 - d.next[o] < Len(Specs(o)) + 1 - ch.next[o]
  BY <1>2, NextNumbers
<1>5. e.input[1] = ch.input[1] /\ EndIndex(d.input[1]) = EndIndex(e.input[1])
  <2> DEFINE p == o + 1
  <2>1. 1 \in Objects /\ o \in Nat /\ 1 <= o
    BY ObjectFacts
  <2>3. 1 # p
    BY <2>1
  <2> HIDE DEF p
  <2>2. e.input[1] = ch.input[1]
    BY <1>1, <2>1, <2>3 DEF Moved, p
  <2>4. EndIndex(d.input[1]) = EndIndex(e.input[1])
    BY <1>1, <2>1 DEF Trimmed, Shrunk
  <2> QED BY <2>2, <2>4
<1>6. EndIndex(ch.input[1]) \in Nat
  BY ChainParts, CacheNumbers, ObjectFacts
<1>7. SubSeq(d.written, 1, Len(ch.written)) = ch.written
  <2>1. e.written = ch.written /\ WroteMore(e, d)
    BY <1>1 DEF Moved, Settled
  <2> QED BY <1>1, <2>1, WroteContinues
<1> QED BY <1>3, <1>4, <1>5, <1>6, <1>7 DEF Progress

\* Every step that does not end the request finishes a window or loads frames,
\* and takes back no window, no frame and nothing that is written.
THEOREM StepsAlwaysProgress ==
    Spec => StepsMakeProgress
<1> DEFINE A == status' # "running" \/
                  /\ \A o \in Objects : WindowsLeft(o)' <= WindowsLeft(o)
                  /\ EndIndex(chain.input[1]) <= EndIndex(chain'.input[1])
                  /\ SubSeq(chain'.written, 1, Len(chain.written)) = chain.written
                  /\ \/ \E o \in Objects : WindowsLeft(o)' < WindowsLeft(o)
                     \/ EndIndex(chain.input[1]) < EndIndex(chain'.input[1])
<1>1. FInv /\ [Next]_vars => [A]_vars
  <2> SUFFICES ASSUME FInv, Next, status' = "running", ~UNCHANGED vars PROVE A
    OBVIOUS
  <2>1. status = "running"
    BY OverStays
  <2>2. request' = request /\ (Loads \/ \E o \in Objects : Works(o))
    BY <2>1, StepKinds DEF Fails, Failed, Ends
  <2>3. chain \in ChainSet /\ request \in Requests
    BY DEF FInv, FramesOK
  <2>4. Progress(chain, chain')
    <3>1. CASE Loads
      BY <2>3, <3>1, LoadProgress DEF Loads
    <3>2. CASE \E o \in Objects : Works(o)
      BY <2>3, <3>2, WorkProgress DEF Works
    <3> QED BY <2>2, <3>1, <3>2
  <2>5. \A o \in Objects : Specs(o)' = Specs(o)
    BY <2>2 DEF Specs
  <2> QED BY <2>4, <2>5 DEF Progress, WindowsLeft
<1> QED BY <1>1, FInvHolds, PTL DEF Spec, StepsMakeProgress

-----------------------------------------------------------------------------
(***************************************************************************)
(* Where every object has got to.                                          *)
(***************************************************************************)

\* The window object o has handled last.
Prev(ch, o) == Specs(o)[ch.next[o] - 1]

\* Object o has emitted what is final after that window, and its overlap is
\* what the next window of the same scene begins with.
ObjectPlace(ch, o) ==
    /\ ch.next[o] <= Len(Specs(o)) + 1
    /\ ch.flush_frontier[o] = EndIndex(ch.output[o])
    /\ ch.next[o] = 1 => EndIndex(ch.output[o]) = 0 /\ \A f : ~Holds(ch.overlap[o], f)
    /\ ch.next[o] > 1 =>
         /\ EndIndex(ch.output[o]) = StableEnd(Prev(ch, o))
         /\ Prev(ch, o).commit_end <= EndIndex(ch.input[o])
         /\ \A f : Holds(ch.overlap[o], f) => f \in StableEnd(Prev(ch, o))..(Prev(ch, o).commit_end - 1)
         /\ Unfinished(ch, o) /\ NextSpec(ch, o).scene = Prev(ch, o).scene =>
              /\ ch.overlap[o].start = StableEnd(Prev(ch, o))
              /\ EndIndex(ch.overlap[o]) = Prev(ch, o).commit_end

PlaceOK(ch) == \A o \in Objects : ObjectPlace(ch, o)

\* What is known of the last window.
LEMMA PrevFacts ==
    ASSUME request \in Requests, NEW ch \in ChainSet, NEW o \in Objects, ObjectPlace(ch, o), ch.next[o] # 1
    PROVE  /\ ch.next[o] - 1 \in 1..Len(Specs(o)) /\ Prev(ch, o) \in WindowSet
           /\ Unfinished(ch, o) => Follows(Prev(ch, o), NextSpec(ch, o))
           /\ ~Unfinished(ch, o) => Prev(ch, o) = Specs(o)[Len(Specs(o))] /\ Prev(ch, o).overlap_right = 0
<1>1. ch.next[o] \in Nat /\ ch.next[o] > 1 /\ Len(Specs(o)) \in Nat /\ ch.next[o] <= Len(Specs(o)) + 1
  BY NextNumbers DEF ObjectPlace
<1>2. ch.next[o] - 1 \in 1..Len(Specs(o))
  BY <1>1
<1>3. Prev(ch, o) \in WindowSet
  BY <1>2, SpecNumbers DEF Prev
<1>4. ASSUME Unfinished(ch, o) PROVE Follows(Prev(ch, o), NextSpec(ch, o))
  <2>1. ch.next[o] \in 2..Len(Specs(o))
    BY <1>1, <1>4 DEF Unfinished
  <2> QED BY <2>1, SpecNumbers DEF Prev, NextSpec
<1>5. ASSUME ~Unfinished(ch, o)
      PROVE  Prev(ch, o) = Specs(o)[Len(Specs(o))] /\ Prev(ch, o).overlap_right = 0
  <2>1. ch.next[o] - 1 = Len(Specs(o))
    BY <1>1, <1>5 DEF Unfinished
  <2> QED BY <2>1, SpecNumbers DEF Prev
<1> QED BY <1>2, <1>3, <1>4, <1>5

\* Object q is where it was.
SamePlace(ch, d, q) ==
    /\ d.next[q] = ch.next[q] /\ EndIndex(d.output[q]) = EndIndex(ch.output[q])
    /\ d.overlap[q] = ch.overlap[q] /\ d.flush_frontier[q] = ch.flush_frontier[q]
    /\ EndIndex(ch.input[q]) <= EndIndex(d.input[q])

\* An object whose caches and window stay is in the same place.
LEMMA PlaceCarries ==
    ASSUME request \in Requests, NEW ch \in ChainSet, NEW d \in ChainSet, NEW q \in Objects,
           ObjectPlace(ch, q), SamePlace(ch, d, q)
    PROVE  ObjectPlace(d, q)
<1>1. /\ Prev(d, q) = Prev(ch, q) /\ NextSpec(d, q) = NextSpec(ch, q)
      /\ Unfinished(d, q) = Unfinished(ch, q) /\ d.next[q] = ch.next[q]
  BY DEF SamePlace, Prev, NextSpec, Unfinished
<1>2. ASSUME ch.next[q] > 1 PROVE Prev(ch, q).commit_end <= EndIndex(d.input[q])
  <2>1. Prev(ch, q).commit_end \in Nat
    BY <1>2, PrevFacts, WindowNumbers
  <2>2. EndIndex(ch.input[q]) \in Nat /\ EndIndex(d.input[q]) \in Nat
    BY ChainParts, CacheNumbers
  <2> QED BY <1>2, <2>1, <2>2 DEF ObjectPlace, SamePlace
<1> QED BY <1>1, <1>2 DEF ObjectPlace, SamePlace

\* In the first state every object is at its first window.
LEMMA InitIsPlaced ==
    ASSUME request \in Requests
    PROVE  PlaceOK(InitialChain(request))
<1> DEFINE ch == InitialChain(request)
<1>1. \A o \in Objects : /\ ch.output[o] = EmptyCache(0) /\ ch.overlap[o] = EmptyCache(0)
                         /\ ch.flush_frontier[o] = 0 /\ ch.next[o] = 1
  BY InitFacts
<1>2. EndIndex(EmptyCache(0)) = 0 /\ \A f : ~Holds(EmptyCache(0), f)
  <2>1. 0 \in Nat /\ 0 <= NumFrames
    BY Sizes
  <2> QED BY <2>1, EmptyFacts, EmptyHolds
<1> HIDE DEF ch
<1>3. \A o \in Objects : 1 <= Len(Specs(o)) + 1 /\ ~(1 > 1)
  BY SpecNumbers
<1>4. ASSUME NEW o \in Objects PROVE ObjectPlace(ch, o)
  BY <1>1, <1>2, <1>3 DEF ObjectPlace
<1> QED BY <1>4 DEF PlaceOK, ch

\* Loading frames moves no object.
LEMMA PrimedKeepsPlace ==
    ASSUME request \in Requests, NEW ch \in ChainSet, PlaceOK(ch), NEW d, NEW n, Primed(ch, d, n)
    PROVE  PlaceOK(d)
<1>1. d \in ChainSet
  BY DEF Primed
<1>2. ASSUME NEW q \in Objects PROVE SamePlace(ch, d, q)
  <2>1. EndIndex(ch.input[q]) <= EndIndex(d.input[q])
    <3>1. EndIndex(ch.input[q]) \in Nat
      BY ChainParts, CacheNumbers
    <3> QED BY <3>1 DEF Primed, Grown
  <2> QED BY <2>1 DEF SamePlace, Primed
<1> QED BY <1>1, <1>2, PlaceCarries DEF PlaceOK

\* Cutting caches moves no object.
LEMMA TrimKeepsPlace ==
    ASSUME request \in Requests, NEW ch \in ChainSet, PlaceOK(ch), NEW d, NEW n, Trimmed(ch, d, n)
    PROVE  PlaceOK(d)
<1>1. d \in ChainSet
  BY DEF Trimmed
<1>2. ASSUME NEW q \in Objects PROVE SamePlace(ch, d, q)
  <2>1. EndIndex(ch.input[q]) \in Nat
    BY ChainParts, CacheNumbers
  <2> QED BY <2>1 DEF SamePlace, Trimmed, Shrunk
<1> QED BY <1>1, <1>2, PlaceCarries DEF PlaceOK

\* A step of the driver moves one object by one window.
LEMMA DidKeepsPlace ==
    ASSUME request \in Requests, NEW ch \in ChainSet, PlaceOK(ch), NEW o \in Objects, Unfinished(ch, o),
           NEW w, w = NextSpec(ch, o), Allowed(ch, o, w), NEW d, NEW new, Did(ch, d, o, w, new)
    PROVE  PlaceOK(d)
<1>1. Moved(ch, d, o, w, new) /\ d \in ChainSet
  BY DEF Did, Moved
<1>2. ASSUME NEW q \in Objects PROVE EndIndex(ch.input[q]) <= EndIndex(d.input[q])
  <2>1. EndIndex(ch.input[q]) \in Nat /\ o \in Nat /\ q <= ObjectCount /\ ObjectCount \in Nat
    BY ChainParts, CacheNumbers, ObjectFacts, Sizes
  <2>2. CASE q # o + 1
    BY <1>1, <2>1, <2>2 DEF Moved
  <2>3. CASE q = o + 1
    <3>1. o < ObjectCount
      BY <2>1, <2>3
    <3>2. EndIndex(ch.input[o + 1]) <= EndIndex(d.input[o + 1])
      BY <1>1, <3>1 DEF Moved, Grown
    <3> QED BY <2>3, <3>2
  <2> QED BY <2>2, <2>3
<1>3. ASSUME NEW q \in Objects, q # o PROVE SamePlace(ch, d, q)
  BY <1>1, <1>2, <1>3 DEF SamePlace, Did, Moved
<1>4. ObjectPlace(d, o)
  <2>1. ch.next[o] \in Nat /\ ch.next[o] > 0 /\ Len(Specs(o)) \in Nat /\ ch.next[o] <= Len(Specs(o))
    BY NextNumbers DEF Unfinished
  <2>2. d.next[o] = ch.next[o] + 1 /\ d.next[o] > 1 /\ d.next[o] # 1 /\ d.next[o] <= Len(Specs(o)) + 1
        /\ d.next[o] - 1 = ch.next[o]
    BY <2>1 DEF Did
  <2>3. Prev(d, o) = w
    BY <2>2 DEF Prev, NextSpec
  <2>4. EndIndex(d.output[o]) = StableEnd(w) /\ d.flush_frontier[o] = StableEnd(w)
    BY <1>1 DEF Moved, Grown
  <2>5. w.commit_end <= EndIndex(d.input[o])
    <3>1. w.commit_end \in Nat
      BY NextIsWindow, WindowNumbers
    <3>2. EndIndex(ch.input[o]) \in Nat /\ EndIndex(d.input[o]) \in Nat
      BY <1>1, ChainParts, CacheNumbers
    <3> QED BY <1>2, <3>1, <3>2 DEF Allowed
  <2>6. \A f : Holds(d.overlap[o], f) => f \in StableEnd(w)..(w.commit_end - 1)
    BY DEF Did
  <2>7. Unfinished(d, o) /\ NextSpec(d, o).scene = w.scene =>
          d.overlap[o].start = StableEnd(w) /\ EndIndex(d.overlap[o]) = w.commit_end
    BY DEF Did
  <2> QED BY <2>2, <2>3, <2>4, <2>5, <2>6, <2>7 DEF ObjectPlace
<1>5. ASSUME NEW q \in Objects PROVE ObjectPlace(d, q)
  BY <1>1, <1>3, <1>4, PlaceCarries DEF PlaceOK
<1> QED BY <1>5 DEF PlaceOK

\* So does a step with its flush.
LEMMA WorkKeepsPlace ==
    ASSUME request \in Requests, NEW ch \in ChainSet, PlaceOK(ch), NEW o \in Objects, NEW w, NEW e, NEW d,
           Worked(ch, o, w, e, d)
    PROVE  PlaceOK(e) /\ PlaceOK(d)
<1>1. PlaceOK(e)
  BY DidKeepsPlace DEF Worked
<1>2. e \in ChainSet /\ Trimmed(e, d, d.next_write)
  BY DEF Worked, CoreOK, FramesOK, Settled
<1> QED BY <1>1, <1>2, TrimKeepsPlace

\* What an object has emitted it has received before.
LEMMA EmitsWhatItHas ==
    ASSUME request \in Requests, NEW ch \in ChainSet, PlaceOK(ch), NEW o \in Objects
    PROVE  EndIndex(ch.output[o]) \in Nat /\ EndIndex(ch.input[o]) \in Nat
           /\ EndIndex(ch.output[o]) <= EndIndex(ch.input[o])
<1>1. EndIndex(ch.output[o]) \in Nat /\ EndIndex(ch.input[o]) \in Nat
  BY ChainParts, CacheNumbers
<1>2. ch.next[o] \in Nat /\ ch.next[o] > 0 /\ ObjectPlace(ch, o)
  BY NextNumbers DEF PlaceOK
<1>3. CASE ch.next[o] = 1
  BY <1>1, <1>2, <1>3 DEF ObjectPlace
<1>4. CASE ch.next[o] # 1
  <2>1. ch.next[o] > 1
    BY <1>2, <1>4
  <2>2. Prev(ch, o) \in WindowSet
    BY <1>2, <1>4, PrevFacts
  <2>3. /\ StableEnd(Prev(ch, o)) <= Prev(ch, o).commit_end
        /\ StableEnd(Prev(ch, o)) \in Nat /\ Prev(ch, o).commit_end \in Nat
    BY <2>2, WindowNumbers
  <2> QED BY <1>1, <1>2, <2>1, <2>3 DEF ObjectPlace
<1> QED BY <1>3, <1>4

\* p stands before q in the chain: it has received and emitted no less.
Behind(ch, p, q) ==
    /\ EndIndex(ch.output[q]) <= EndIndex(ch.output[p])
    /\ EndIndex(ch.input[q]) <= EndIndex(ch.input[p])

\* An object has emitted no more than the one before it.
LEMMA NextIsBehind ==
    ASSUME request \in Requests, NEW ch \in ChainSet, PlaceOK(ch), AgreeOK(ch), NEW p \in Objects, p < ObjectCount
    PROVE  Behind(ch, p, p + 1)
<1>1. p + 1 \in Objects /\ EndIndex(ch.input[p + 1]) = EndIndex(ch.output[p])
  BY ObjectFacts DEF AgreeOK, Linked
<1>2. EndIndex(ch.output[p + 1]) <= EndIndex(ch.input[p + 1])
  BY <1>1, EmitsWhatItHas
<1>3. EndIndex(ch.output[p]) <= EndIndex(ch.input[p])
  BY EmitsWhatItHas
<1> QED BY <1>1, <1>2, <1>3 DEF Behind

\* An object has emitted no more than any one before it.
LEMMA LaterIsBehind ==
    ASSUME request \in Requests, NEW ch \in ChainSet, PlaceOK(ch), AgreeOK(ch),
           NEW p \in Objects, NEW q \in Objects, p <= q
    PROVE  Behind(ch, p, q)
<1> DEFINE S == {k \in Nat : p + k <= ObjectCount => Behind(ch, p, p + k)}
<1>1. p \in Nat /\ q \in Nat /\ 1 <= p /\ q <= ObjectCount /\ ObjectCount \in Nat
  BY ObjectFacts, Sizes
<1>2. 0 \in S
  <2>1. EndIndex(ch.output[p]) \in Nat /\ EndIndex(ch.input[p]) \in Nat
    BY EmitsWhatItHas
  <2>2. p + 0 = p /\ 0 \in Nat
    BY <1>1
  <2> QED BY <2>1, <2>2 DEF Behind
<1>3. ASSUME NEW n \in Nat, n \in S PROVE n + 1 \in S
  <2>1. SUFFICES ASSUME p + (n + 1) <= ObjectCount PROVE Behind(ch, p, p + (n + 1))
    OBVIOUS
  <2> DEFINE r == p + n
  <2>2. r \in Objects /\ r < ObjectCount /\ r + 1 = p + (n + 1) /\ r + 1 \in Objects
    BY <1>1, <2>1 DEF Objects
  <2>3. Behind(ch, p, r)
    BY <1>1, <1>3, <2>1
  <2> HIDE DEF r
  <2>4. Behind(ch, r, r + 1)
    BY <2>2, NextIsBehind
  <2> DEFINE t == r + 1
  <2>5. t \in Objects /\ Behind(ch, r, t)
    BY <2>2, <2>4
  <2> HIDE DEF t
  <2>6. /\ EndIndex(ch.output[p]) \in Nat /\ EndIndex(ch.output[r]) \in Nat /\ EndIndex(ch.output[t]) \in Nat
        /\ EndIndex(ch.input[p]) \in Nat /\ EndIndex(ch.input[r]) \in Nat /\ EndIndex(ch.input[t]) \in Nat
    BY <2>2, <2>5, EmitsWhatItHas
  <2>7. Behind(ch, p, t)
    BY <2>3, <2>5, <2>6 DEF Behind
  <2> QED BY <2>2, <2>7 DEF t
<1> HIDE DEF S
<1>4. q - p \in S
  BY <1>1, <1>2, <1>3, SetInduction
<1>5. p + (q - p) = q
  BY <1>1
<1> QED BY <1>1, <1>4, <1>5 DEF S

\* An input ends where its frontier is.
LEMMA FrontierIsEnd ==
    ASSUME NEW ch \in ChainSet, AgreeOK(ch), NEW o \in Objects
    PROVE  ch.input_frontier[o] = EndIndex(ch.input[o])
<1>1. CASE o = 1
  BY <1>1 DEF AgreeOK
<1>2. CASE o # 1
  <2> DEFINE p == o - 1
  <2>1. p \in Objects /\ p < ObjectCount /\ p + 1 = o
    BY <1>2, ObjectFacts DEF Objects
  <2> HIDE DEF p
  <2>2. EndIndex(ch.input[p + 1]) = EndIndex(ch.output[p]) /\ ch.input_frontier[p + 1] = EndIndex(ch.output[p])
    BY <2>1 DEF AgreeOK, Linked
  <2> QED BY <2>1, <2>2
<1> QED BY <1>1, <1>2

\* The next window begins after what has been emitted.
LEMMA NextStartsAfter ==
    ASSUME request \in Requests, NEW ch \in ChainSet, PlaceOK(ch), NEW o \in Objects, Unfinished(ch, o),
           ~ScenesOverlap(o)
    PROVE  EndIndex(ch.output[o]) <= NextSpec(ch, o).load_start
<1> DEFINE w == NextSpec(ch, o)
<1>1. w \in WindowSet /\ w.load_start \in Nat /\ ch.next[o] \in 1..Len(Specs(o)) /\ w = Specs(o)[ch.next[o]]
  BY NextIsWindow, WindowNumbers
<1>2. ObjectPlace(ch, o) /\ Len(Specs(o)) \in Nat
  BY SpecNumbers DEF PlaceOK
<1> HIDE DEF w
<1>3. CASE ch.next[o] = 1
  BY <1>1, <1>2, <1>3 DEF ObjectPlace, w
<1>4. CASE ch.next[o] # 1
  <2> DEFINE v == Prev(ch, o)
             k == ch.next[o]
  <2>1. k > 1 /\ k \in 2..Len(Specs(o))
    BY <1>1, <1>2, <1>4
  <2>2. v \in WindowSet /\ Follows(v, w) /\ v = Specs(o)[k - 1]
    BY <1>2, <1>4, PrevFacts DEF Prev, w
  <2>3. StableEnd(v) \in Nat /\ v.commit_end \in Nat /\ StableEnd(v) <= v.commit_end
    BY <2>2, WindowNumbers
  <2>4. EndIndex(ch.output[o]) = StableEnd(v)
    BY <1>2, <2>1 DEF ObjectPlace
  <2> HIDE DEF v, k
  <2>5. CASE GoesOnFrom(v, w)
    BY <1>1, <2>3, <2>4, <2>5 DEF GoesOnFrom, w
  <2>6. CASE w.scene # v.scene
    <3>1. ~(w.load_start < v.commit_end)
      <4>1. Specs(o)[k] = w /\ Specs(o)[k - 1] = v
        BY <1>1, <2>2 DEF k
      <4> QED BY <2>1, <2>6, <4>1 DEF ScenesOverlap
    <3> QED BY <1>1, <2>3, <2>4, <3>1 DEF w
  <2>7. v.scene \in Nat /\ w.scene \in Nat
    BY <1>1, <2>2, WindowNumbers
  <2> QED BY <2>2, <2>5, <2>6, <2>7 DEF Follows, GoesOnFrom
<1> QED BY <1>3, <1>4

\* Nothing an object still needs has been evicted.
LEMMA StillThere ==
    ASSUME request \in Requests, NEW ch, CoreOK(ch), PlaceOK(ch), NEW o \in Objects
    PROVE  /\ ch.input[o].start \in Nat /\ ch.input[o].start <= EndIndex(ch.output[o])
           /\ ch.mask.start \in Nat /\ ch.mask.start <= EndIndex(ch.output[o])
           /\ EndIndex(ch.output[o]) \in Nat
           /\ EndIndex(ch.mask) \in Nat /\ EndIndex(ch.input[o]) <= EndIndex(ch.mask)
<1>1. ch \in ChainSet /\ AgreeOK(ch) /\ ModeOK(ch) /\ o <= ObjectCount /\ ObjectCount \in Objects /\ 1 \in Objects /\ 1 <= o
  BY ObjectFacts DEF CoreOK, FramesOK
<1>2. Behind(ch, o, ObjectCount) /\ Behind(ch, 1, o)
  BY <1>1, LaterIsBehind
<1>3. /\ EndIndex(ch.output[o]) \in Nat /\ EndIndex(ch.output[ObjectCount]) \in Nat
      /\ EndIndex(ch.input[o]) \in Nat /\ EndIndex(ch.input[1]) \in Nat
  BY <1>1, EmitsWhatItHas
<1>4. ch.input[o].start \in Nat /\ ch.next_write \in Nat
  BY <1>1, ChainParts, CacheNumbers, SMTT(60) DEF ChainSet
<1>5. ch.mask.start \in Nat
  BY <1>1 DEF ChainSet, CacheOf
<1> QED BY <1>1, <1>2, <1>3, <1>4, <1>5 DEF ModeOK, Behind

\* The checks of a window do not fail.
LEMMA ReadyIsAllowed ==
    ASSUME request \in Requests, NEW ch, CoreOK(ch), PlaceOK(ch), NEW o \in Objects, InputReady(ch, o),
           ~ScenesOverlap(o), NEW w, w = NextSpec(ch, o)
    PROVE  Allowed(ch, o, w) /\ ~SkipRefused(ch, o, w) /\ ~CommitRefused(ch, o, w)
<1>1. ch \in ChainSet /\ AgreeOK(ch) /\ Unfinished(ch, o) /\ w \in WindowSet
  BY NextIsWindow DEF CoreOK, FramesOK, InputReady
<1> DEFINE a == EndIndex(ch.output[o])
           z == EndIndex(ch.input[o])
           m == EndIndex(ch.mask)
           s == ch.input[o].start
           t == ch.mask.start
<1>2. a <= w.load_start
  BY <1>1, NextStartsAfter
<1>3. s \in Nat /\ t \in Nat /\ a \in Nat /\ z \in Nat /\ m \in Nat /\ s <= a /\ t <= a /\ z <= m
  BY <1>1, StillThere, EmitsWhatItHas
<1>4. w.load_end <= z
  <2>1. ch.input_frontier[o] = z /\ ch.input_frontier[o] >= w.load_end
    BY <1>1, FrontierIsEnd DEF InputReady
  <2>2. w.load_end \in Nat
    BY <1>1, WindowNumbers
  <2> QED BY <1>3, <2>1, <2>2
<1>5. /\ w.load_start \in Nat /\ w.load_end \in Nat /\ w.deal_start \in Nat /\ w.commit_end \in Nat
      /\ w.load_start <= w.deal_start /\ w.deal_start < w.commit_end /\ w.commit_end <= w.load_end
  BY <1>1, WindowNumbers
<1> HIDE DEF a, z, m, s, t
<1>6. /\ a <= w.load_start /\ w.commit_end <= z /\ s <= w.load_start /\ s <= w.deal_start /\ w.load_end <= z
      /\ t <= w.deal_start /\ w.commit_end <= m /\ s <= w.commit_end /\ a <= w.commit_end
      /\ w.load_start <= w.load_end /\ w.deal_start <= w.load_end /\ w.deal_start <= w.commit_end
      /\ w.load_start <= z /\ ~(a > w.load_start)
  BY <1>2, <1>3, <1>4, <1>5
<1>7. Allowed(ch, o, w)
  BY <1>3, <1>6 DEF Allowed, a, z, m, s, t
<1>8. Linked(ch, o)
  BY <1>1 DEF AgreeOK
<1>9. EndIndex(PassGap(ch, o, w).output[o]) = w.load_start
  BY <1>1, <1>7, <1>8, GapFacts DEF Passed, Grown
<1>10. o < ObjectCount => EndIndex(ch.input[o + 1]) = EndIndex(ch.output[o])
  BY <1>8 DEF Linked
<1>11. ~SkipRefused(ch, o, w)
  <2>1. Min({a, w.load_start}) = a
    BY <1>3, <1>5, <1>6, MinIsFirst
  <2>2. CanSlice(ch.input[o], Min({EndIndex(ch.output[o]), w.load_start}), w.commit_end)
    BY <1>3, <1>6, <2>1 DEF CanSlice, a, z, s
  <2>3. ~(EndIndex(ch.output[o]) > w.load_start)
    BY <1>6 DEF a
  <2> QED BY <1>9, <1>10, <2>2, <2>3 DEF SkipRefused
<1>12. ~CommitRefused(ch, o, w)
  <2>1. CanSlice(ch.input[o], IF OverlapCached(ch, o, w) THEN w.deal_start ELSE w.load_start, w.load_end)
    <3>1. CanSlice(ch.input[o], w.deal_start, w.load_end) /\ CanSlice(ch.input[o], w.load_start, w.load_end)
      BY <1>6 DEF CanSlice, a, z, s
    <3> QED BY <3>1
  <2>2. CanSlice(ch.mask, w.deal_start, w.commit_end)
    BY <1>6 DEF CanSlice, m, t
  <2>3. ~(EndIndex(ch.output[o]) > w.load_start)
    BY <1>6 DEF a
  <2>4. CanSlice(ch.input[o], EndIndex(ch.output[o]), w.load_start)
    BY <1>3, <1>6 DEF CanSlice, a, z, s
  <2> QED BY <1>9, <1>10, <2>1, <2>2, <2>3, <2>4 DEF CommitRefused
<1> QED BY <1>7, <1>11, <1>12

\* An object that has handled its last window has emitted all it will.
LEMMA DoneEmitted ==
    ASSUME request \in Requests, NEW ch \in ChainSet, PlaceOK(ch), NEW o \in Objects, ~Unfinished(ch, o)
    PROVE  EndIndex(ch.output[o]) = Covered(o)
<1>1. ObjectPlace(ch, o) /\ ch.next[o] \in Nat /\ ch.next[o] > 0 /\ Len(Specs(o)) \in Nat /\ Len(Specs(o)) > 0
  BY NextNumbers, SpecNumbers DEF PlaceOK
<1>2. ch.next[o] > 1 /\ ch.next[o] # 1
  BY <1>1 DEF Unfinished
<1>3. Prev(ch, o) = Specs(o)[Len(Specs(o))] /\ Prev(ch, o).overlap_right = 0 /\ Prev(ch, o) \in WindowSet
  BY <1>1, <1>2, PrevFacts
<1>4. StableEnd(Prev(ch, o)) = Prev(ch, o).commit_end
  BY <1>3, WindowNumbers
<1> QED BY <1>1, <1>2, <1>3, <1>4 DEF ObjectPlace, Covered

\* When no object can go on, the scenes of one before it end too early.
LEMMA WhyStarved ==
    ASSUME request \in Requests, NEW ch, CoreOK(ch), PlaceOK(ch), NoneReady(ch), ~CanPrime(ch),
           \E o \in Objects : Unfinished(ch, o)
    PROVE  \E o \in 1..(ObjectCount - 1) : Covered(o) < NumFrames
<1>1. ch \in ChainSet /\ AgreeOK(ch) /\ ModeOK(ch)
  BY DEF CoreOK, FramesOK
<1> DEFINE T == {o \in Objects : Unfinished(ch, o)}
<1>2. PICK o \in T : \A q \in T : o <= q
  <2>1. T \subseteq Nat /\ T # {}
    BY ObjectFacts
  <2> QED BY <2>1, LeastNumber
<1>3. o \in Objects /\ Unfinished(ch, o) /\ ~InputReady(ch, o)
  BY <1>2 DEF NoneReady
<1> DEFINE n == NextSpec(ch, o).load_end
           z == EndIndex(ch.input[o])
<1>4. n \in Nat /\ n <= NumFrames /\ z \in Nat /\ NumFrames \in Nat
  BY <1>1, <1>3, NextIsWindow, WindowNumbers, EmitsWhatItHas, Sizes
<1>5. z < n
  <2>1. ch.input_frontier[o] = z
    BY <1>1, <1>3, FrontierIsEnd
  <2>2. ~(ch.input_frontier[o] >= n)
    BY <1>3 DEF InputReady
  <2> QED BY <1>4, <2>1, <2>2
<1>6. CASE o = 1
  <2>1. ~Streaming
    BY <1>3, <1>5, <1>6 DEF CanPrime
  <2>2. request.mode \in Modes
    BY DEF Requests
  <2>3. request.mode = "preload"
    BY <2>1, <2>2, ChainAssumption DEF Streaming
  <2>4. z = NumFrames
    BY <1>1, <1>6, <2>3 DEF ModeOK
  <2> QED BY <1>4, <1>5, <2>4
<1>7. CASE o # 1
  <2> DEFINE p == o - 1
  <2>1. p \in Objects /\ p \in 1..(ObjectCount - 1) /\ p < ObjectCount /\ p + 1 = o /\ ~(o <= p)
    BY <1>3, <1>7, ObjectFacts DEF Objects
  <2>2. ~Unfinished(ch, p)
    BY <1>2, <2>1
  <2> HIDE DEF p, T
  <2>3. EndIndex(ch.output[p]) = Covered(p)
    BY <1>1, <2>1, <2>2, DoneEmitted
  <2>4. EndIndex(ch.input[p + 1]) = EndIndex(ch.output[p])
    BY <1>1, <2>1 DEF AgreeOK, Linked
  <2>5. Covered(p) = z
    BY <2>1, <2>3, <2>4
  <2>6. Covered(p) < NumFrames
    BY <1>4, <1>5, <2>5
  <2> QED BY <2>1, <2>6
<1> QED BY <1>6, <1>7

\* A window that is refused, or a source that has been evicted too early.
LEMMA WhyRaised ==
    ASSUME request \in Requests, NEW ch, CoreOK(ch), PlaceOK(ch), NEW o \in Objects,
           \/ /\ InputReady(ch, o)
              /\ \/ NoBBox(o, NextSpec(ch, o)) /\ SkipRefused(ch, o, NextSpec(ch, o))
                 \/ ~NoBBox(o, NextSpec(ch, o)) /\ CommitRefused(ch, o, NextSpec(ch, o))
           \/ o = 1 /\ Unfinished(ch, 1) /\ NextSpec(ch, 1).load_start < ch.input[1].start
    PROVE  ScenesOverlap(o)
<1> SUFFICES ASSUME ~ScenesOverlap(o) PROVE FALSE
  OBVIOUS
<1>1. CASE InputReady(ch, o)
  <2>1. ~SkipRefused(ch, o, NextSpec(ch, o)) /\ ~CommitRefused(ch, o, NextSpec(ch, o))
    BY <1>1, ReadyIsAllowed
  <2>2. o = 1 => ~(NextSpec(ch, 1).load_start < ch.input[1].start)
    <3>1. Allowed(ch, o, NextSpec(ch, o)) /\ Unfinished(ch, o) /\ ch \in ChainSet
      BY <1>1, ReadyIsAllowed DEF InputReady, CoreOK, FramesOK
    <3>2. NextSpec(ch, o).load_start \in Nat /\ EndIndex(ch.output[o]) <= NextSpec(ch, o).load_start
      BY <3>1, NextIsWindow, WindowNumbers, NextStartsAfter
    <3>3. ch.input[o].start \in Nat /\ ch.input[o].start <= EndIndex(ch.output[o]) /\ EndIndex(ch.output[o]) \in Nat
      BY StillThere
    <3>4. ~(NextSpec(ch, o).load_start < ch.input[o].start)
      BY <3>2, <3>3
    <3> QED BY <3>4
  <2> QED BY <2>1, <2>2
<1>2. CASE ~InputReady(ch, o)
  <2>1. o = 1 /\ Unfinished(ch, o) /\ NextSpec(ch, o).load_start < ch.input[o].start /\ ch \in ChainSet
    BY <1>2 DEF CoreOK, FramesOK
  <2>2. NextSpec(ch, o).load_start \in Nat /\ EndIndex(ch.output[o]) <= NextSpec(ch, o).load_start
    BY <2>1, NextIsWindow, WindowNumbers, NextStartsAfter
  <2>3. ch.input[o].start \in Nat /\ ch.input[o].start <= EndIndex(ch.output[o]) /\ EndIndex(ch.output[o]) \in Nat
    BY StillThere
  <2>4. ~(NextSpec(ch, o).load_start < ch.input[o].start)
    BY <2>2, <2>3
  <2> QED BY <2>1, <2>4
<1> QED BY <1>1, <1>2

\* Every object is where its last window has left it, until the request has
\* finished.
GInv == FInv /\ (status # "finished" => PlaceOK(chain))

\* A step that leaves the chain alone moves no object.
LEMMA PlaceStays ==
    ASSUME NEW ch, PlaceOK(ch), request' = request, chain' = ch
    PROVE  PlaceOK(chain)'
BY DEF PlaceOK, ObjectPlace, Prev, NextSpec, Unfinished, Specs

\* Every step keeps the place of every object.
LEMMA GInvStep ==
    ASSUME GInv, FInv', [Next]_vars
    PROVE  GInv'
<1>1. CASE status # "running" \/ UNCHANGED vars
  <2>1. UNCHANGED vars
    BY <1>1, OverStays
  <2> QED BY <2>1, PlaceStays DEF GInv, vars
<1>2. CASE status = "running" /\ Next
  <2>1. request' = request /\ (Fails \/ Loads \/ (\E o \in Objects : Works(o)) \/ Ends)
    BY <1>2, StepKinds DEF GInv
  <2>2. chain \in ChainSet /\ request \in Requests /\ PlaceOK(chain)
    BY <1>2 DEF GInv, FInv, FramesOK
  <2>3. status' # "finished" => PlaceOK(chain')
    <3>1. CASE Fails
      BY <2>2, <3>1 DEF Fails
    <3>2. CASE Loads
      BY <2>2, <3>2, PrimedKeepsPlace DEF Loads
    <3>3. CASE \E o \in Objects : Works(o)
      BY <2>2, <3>3, WorkKeepsPlace DEF Works
    <3>4. CASE Ends
      BY <3>4 DEF Ends
    <3> QED BY <2>1, <3>1, <3>2, <3>3, <3>4
  <2>4. status' # "finished" => PlaceOK(chain)'
    BY <2>1, <2>3, PlaceStays
  <2> QED BY <2>4 DEF GInv
<1> QED BY <1>1, <1>2

\* In every state of every execution, every object is in its place.
LEMMA GInvHolds ==
    Spec => []GInv
<1>1. Init => PlaceOK(chain)
  BY InitIsPlaced DEF Init
<1>2. Init /\ FInv => GInv
  BY <1>1 DEF GInv
<1>3. GInv /\ FInv' /\ [Next]_vars => GInv'
  BY GInvStep
<1> QED BY <1>2, <1>3, FInvHolds, PTL DEF Spec

\* Every step that fails does so for a reason that is known.
LEMMA FailureStep ==
    ASSUME GInv, FailuresExplained, [Next]_vars
    PROVE  FailuresExplained'
<1>1. CASE status # "running" \/ UNCHANGED vars
  <2>1. UNCHANGED vars
    BY <1>1, OverStays
  <2> QED BY <2>1 DEF FailuresExplained, vars, Covered, ScenesOverlap, Specs
<1>2. CASE status = "running" /\ Next
  <2>1. request' = request /\ CoreOK(chain) /\ PlaceOK(chain) /\ request \in Requests
    BY <1>2, StepKinds DEF GInv, FInv, CoreOK
  <2>2. status' = "no_ready_object" => \E o \in 1..(ObjectCount - 1) : Covered(o) < NumFrames
    <3> SUFFICES ASSUME status' = "no_ready_object"
                 PROVE  \E o \in 1..(ObjectCount - 1) : Covered(o) < NumFrames
      OBVIOUS
    <3>1. FindsNoneReady
      BY <1>2 DEF Next, Driver, PrimesSource, SkipsWindow, RunsWindow, Finishes, ReadersFallShort, StopsEarly, Over
    <3>2. NoneReady(chain) /\ ~CanPrime(chain) /\ \E o \in Objects : Unfinished(chain, o)
      BY <3>1 DEF FindsNoneReady
    <3> QED BY <2>1, <3>2, WhyStarved
  <2>3. status' = "raised" => \E o \in Objects : ScenesOverlap(o)
    <3> SUFFICES ASSUME status' = "raised" PROVE \E o \in Objects : ScenesOverlap(o)
      OBVIOUS
    <3>1. PrimesSource \/ \E o \in Objects : SkipsWindow(o) \/ RunsWindow(o)
      BY <1>2 DEF Next, Driver, FindsNoneReady, Finishes, ReadersFallShort, StopsEarly, Over
    <3>2. CASE PrimesSource
      <4>1. Unfinished(chain, 1) /\ NextSpec(chain, 1).load_start < chain.input[1].start
        BY <1>2, <3>2 DEF PrimesSource, CanPrime
      <4>2. 1 \in Objects
        BY Sizes DEF Objects
      <4> QED BY <2>1, <4>1, <4>2, WhyRaised
    <3>3. CASE \E o \in Objects : SkipsWindow(o) \/ RunsWindow(o)
      <4>1. PICK o \in Objects : SkipsWindow(o) \/ RunsWindow(o)
        BY <3>3
      <4>2. /\ InputReady(chain, o)
            /\ \/ NoBBox(o, NextSpec(chain, o)) /\ SkipRefused(chain, o, NextSpec(chain, o))
               \/ ~NoBBox(o, NextSpec(chain, o)) /\ CommitRefused(chain, o, NextSpec(chain, o))
        BY <1>2, <4>1, SelectedUnfinished DEF SkipsWindow, RunsWindow
      <4> QED BY <2>1, <4>2, WhyRaised
    <3> QED BY <3>1, <3>2, <3>3
  <2>4. \A o : Covered(o)' = Covered(o) /\ ScenesOverlap(o)' = ScenesOverlap(o)
    BY <2>1 DEF Covered, ScenesOverlap, Specs
  <2> QED BY <2>2, <2>3, <2>4 DEF FailuresExplained
<1> QED BY <1>1, <1>2

\* Whatever the scenes: the driver starves only behind an object whose scenes
\* end before the video does, and no check of the caches fails unless scenes
\* overlap or go backwards.
THEOREM FailuresAlwaysExplained ==
    Spec => []FailuresExplained
<1>1. Init => FailuresExplained
  BY DEF Init, FailuresExplained
<1>2. GInv /\ FailuresExplained /\ [Next]_vars => FailuresExplained'
  BY FailureStep
<1> QED BY <1>1, <1>2, GInvHolds, PTL DEF Spec

-----------------------------------------------------------------------------
(***************************************************************************)
(* Every object is erased where it is visible.                             *)
(***************************************************************************)

\* Window w deals with frame f and is executed.
Executes(r, w, f) == f \in w.deal_start..(w.commit_end - 1) /\ ~NoBBox(r, w)

\* Object r has erased, or found erased, object q in frame f.
Handles(ch, r, q, f) ==
    q \in Cropped(r) /\ \E k \in 1..(ch.next[r] - 1) : Executes(r, Specs(r)[k], f)

\* A window that was skipped may have brought object q back into frame f.
Excused(q, f) == \E p \in Objects : q \in Cropped(p) /\ Reverted(p, f)

\* Object q has to be missing from frame f once object p has emitted it.
Due(ch, p, q, f) ==
    /\ f \in request.visible[q] /\ ~Excused(q, f)
    /\ \E r \in Objects : r <= p /\ Handles(ch, r, q, f)

Clean(ch, p, c) ==
    \A f : \A q \in Objects : Holds(c, f) /\ Due(ch, p, q, f) => q \in FrameAt(c, f).erased

\* What the mask no longer shows has been erased.
MaskOK(ch) ==
    \A f : \A q \in Objects :
        Holds(ch.mask, f) /\ f \in request.visible[q] =>
            q \in FrameAt(ch.mask, f) \/ \E r \in Objects : Handles(ch, r, q, f)

WrittenClean(ch) ==
    \A i \in 1..Len(ch.written) : \A q \in Objects :
        Due(ch, ObjectCount, q, i - 1) => q \in ch.written[i].erased

\* The windows an object has handled came one after the other.
OrderedOK(ch) ==
    \A o \in Objects : \A k \in 1..(ch.next[o] - 1) : \A j \in 1..(k - 1) :
        Specs(o)[j].commit_end <= Specs(o)[k].deal_start

EraseOK(ch) ==
    /\ \A p \in Objects : /\ Clean(ch, p, ch.output[p]) /\ Clean(ch, p, ch.overlap[p])
                          /\ Clean(ch, p - 1, ch.input[p])
    /\ MaskOK(ch) /\ WrittenClean(ch) /\ OrderedOK(ch)

\* As long as no window is handled, what is due is the same.
LEMMA SameDue ==
    ASSUME NEW ch, NEW d, d.next = ch.next
    PROVE  /\ \A p, q, f : Due(d, p, q, f) = Due(ch, p, q, f)
           /\ \A r, q, f : Handles(d, r, q, f) = Handles(ch, r, q, f)
           /\ OrderedOK(d) = OrderedOK(ch)
<1>1. \A r, q, f : Handles(d, r, q, f) = Handles(ch, r, q, f)
  BY DEF Handles
<1>2. \A p, q, f : Due(d, p, q, f) = Due(ch, p, q, f)
  BY <1>1 DEF Due
<1> QED BY <1>1, <1>2 DEF OrderedOK

\* Cutting caches leaves them clean.
LEMMA TrimKeepsErase ==
    ASSUME request \in Requests, NEW ch \in ChainSet, EraseOK(ch), NEW d, NEW n, Trimmed(ch, d, n), WroteMore(ch, d)
    PROVE  EraseOK(d)
<1>1. /\ d.next = ch.next /\ d.overlap = ch.overlap /\ d \in ChainSet
      /\ \A o \in Objects : Shrunk(ch.input[o], d.input[o], n) /\ Shrunk(ch.output[o], d.output[o], n)
      /\ Shrunk(ch.mask, d.mask, n)
  BY DEF Trimmed
<1>2. /\ \A p, q, f : Due(d, p, q, f) = Due(ch, p, q, f)
      /\ \A r, q, f : Handles(d, r, q, f) = Handles(ch, r, q, f)
      /\ OrderedOK(d) = OrderedOK(ch)
  BY <1>1, SameDue
<1>3. ASSUME NEW p, NEW c, NEW e, Clean(ch, p, c), Shrunk(c, e, n) PROVE Clean(d, p, e)
  BY <1>2, <1>3 DEF Clean, Shrunk
<1>4. ASSUME NEW p \in Objects
      PROVE  /\ Clean(d, p, d.output[p]) /\ Clean(d, p, d.overlap[p]) /\ Clean(d, p - 1, d.input[p])
  <2>1. Clean(d, p, d.output[p]) /\ Clean(d, p - 1, d.input[p])
    BY <1>1, <1>3 DEF EraseOK
  <2>2. Clean(d, p, ch.overlap[p])
    <3>1. Clean(ch, p, ch.overlap[p])
      BY DEF EraseOK
    <3> QED BY <1>2, <3>1 DEF Clean
  <2> QED BY <1>1, <2>1, <2>2
<1>5. MaskOK(d)
  BY <1>1, <1>2 DEF EraseOK, MaskOK, Shrunk
<1>6. WrittenClean(d)
  <2>1. ASSUME NEW i \in 1..Len(d.written), NEW q \in Objects, Due(ch, ObjectCount, q, i - 1)
        PROVE  q \in d.written[i].erased
    <3>1. Len(ch.written) \in Nat /\ Len(d.written) \in Nat
      BY <1>1 DEF ChainSet
    <3>2. CASE i <= Len(ch.written)
      <4>1. i \in 1..Len(ch.written)
        BY <3>1, <3>2
      <4>2. d.written[i] = ch.written[i]
        BY <4>1 DEF WroteMore
      <4> QED BY <2>1, <4>1, <4>2 DEF EraseOK, WrittenClean
    <3>3. CASE i > Len(ch.written)
      <4>1. i \in (Len(ch.written) + 1)..Len(d.written)
        BY <3>1, <3>3
      <4>2. Holds(ch.output[ObjectCount], i - 1) /\ d.written[i] = FrameAt(ch.output[ObjectCount], i - 1)
        BY <4>1 DEF WroteMore
      <4>3. ObjectCount \in Objects
        BY Sizes DEF Objects
      <4>4. Clean(ch, ObjectCount, ch.output[ObjectCount])
        BY <4>3 DEF EraseOK
      <4> QED BY <2>1, <4>2, <4>4 DEF Clean
    <3> QED BY <3>1, <3>2, <3>3
  <2> QED BY <1>2, <2>1 DEF WrittenClean
<1> QED BY <1>2, <1>4, <1>5, <1>6 DEF EraseOK

\* Loading frames leaves the caches clean.
LEMMA PrimedKeepsErase ==
    ASSUME request \in Requests, NEW ch \in ChainSet, EraseOK(ch), NEW d, NEW n, Primed(ch, d, n)
    PROVE  EraseOK(d)
<1>1. d \in ChainSet /\ d.next = ch.next /\ d.output = ch.output /\ d.overlap = ch.overlap /\ d.written = ch.written
      /\ \A p \in Objects : p # 1 => d.input[p] = ch.input[p]
  BY DEF Primed
<1>2. /\ \A p, q, f : Due(d, p, q, f) = Due(ch, p, q, f)
      /\ \A r, q, f : Handles(d, r, q, f) = Handles(ch, r, q, f)
      /\ OrderedOK(d) = OrderedOK(ch)
  BY <1>1, SameDue
<1>3. ASSUME NEW p, NEW c, Clean(ch, p, c) PROVE Clean(d, p, c)
  BY <1>2, <1>3 DEF Clean
<1>4. \A q, f : ~Due(d, 1 - 1, q, f)
  BY ObjectFacts DEF Due
<1>5. ASSUME NEW p \in Objects
      PROVE  /\ Clean(d, p, d.output[p]) /\ Clean(d, p, d.overlap[p]) /\ Clean(d, p - 1, d.input[p])
  <2>1. Clean(d, p, d.output[p]) /\ Clean(d, p, d.overlap[p])
    BY <1>1, <1>3 DEF EraseOK
  <2>2. Clean(d, p - 1, d.input[p])
    <3>1. CASE p = 1
      BY <1>4, <3>1 DEF Clean
    <3>2. CASE p # 1
      BY <1>1, <1>3, <3>2 DEF EraseOK
    <3> QED BY <3>1, <3>2
  <2> QED BY <2>1, <2>2
<1>6. MaskOK(d)
  <2>1. ASSUME NEW f, NEW q \in Objects, Holds(d.mask, f), f \in request.visible[q]
        PROVE  q \in FrameAt(d.mask, f) \/ \E r \in Objects : Handles(ch, r, q, f)
    <3>1. \/ Holds(ch.mask, f) /\ FrameAt(d.mask, f) = FrameAt(ch.mask, f)
          \/ FrameAt(d.mask, f) = MaskFrame(f)
      BY <2>1 DEF Primed
    <3>2. q \in MaskFrame(f)
      BY <2>1 DEF MaskFrame
    <3> QED BY <2>1, <3>1, <3>2 DEF EraseOK, MaskOK
  <2> QED BY <1>2, <2>1 DEF MaskOK
<1>7. WrittenClean(d)
  BY <1>1, <1>2 DEF EraseOK, WrittenClean
<1> QED BY <1>2, <1>5, <1>6, <1>7 DEF EraseOK

\* In the first state nothing is due.
LEMMA InitIsErased ==
    ASSUME request \in Requests
    PROVE  EraseOK(InitialChain(request))
<1> DEFINE ch == InitialChain(request)
<1>1. /\ ch.written = <<>> /\ \A o \in Objects : ch.next[o] = 1
      /\ \A f : Holds(ch.mask, f) => FrameAt(ch.mask, f) = MaskFrame(f)
  BY InitFacts
<1> HIDE DEF ch
<1>2. \A r \in Objects : \A q, f : ~Handles(ch, r, q, f)
  BY <1>1 DEF Handles
<1>3. \A p, q, f : ~Due(ch, p, q, f)
  BY <1>2 DEF Due
<1>4. \A p, c : Clean(ch, p, c)
  BY <1>3 DEF Clean
<1>5. MaskOK(ch)
  BY <1>1 DEF MaskOK, MaskFrame
<1>6. WrittenClean(ch)
  BY <1>3 DEF WrittenClean
<1>7. OrderedOK(ch)
  BY <1>1 DEF OrderedOK
<1> QED BY <1>4, <1>5, <1>6, <1>7 DEF EraseOK, ch

\* An object has received all it has dealt with.
LEMMA DealtIsHeld ==
    ASSUME request \in Requests, NEW ch \in ChainSet, PlaceOK(ch), OrderedOK(ch), NEW o \in Objects,
           NEW j \in 1..(ch.next[o] - 1)
    PROVE  /\ Specs(o)[j].commit_end \in Nat /\ Prev(ch, o).commit_end \in Nat /\ ch.next[o] # 1
           /\ Specs(o)[j].commit_end <= Prev(ch, o).commit_end
           /\ Specs(o)[j].commit_end <= EndIndex(ch.input[o])
<1>1. ObjectPlace(ch, o) /\ ch.next[o] \in Nat /\ Len(Specs(o)) \in Nat /\ j \in Nat /\ j >= 1
      /\ j <= ch.next[o] - 1 /\ ch.next[o] > 1 /\ ch.next[o] # 1 /\ ch.next[o] <= Len(Specs(o)) + 1
  BY NextNumbers DEF PlaceOK, ObjectPlace
<1>2. j \in 1..Len(Specs(o))
  BY <1>1
<1>3. Specs(o)[j].commit_end \in Nat
  BY <1>2, SpecNumbers, WindowNumbers
<1>4. /\ Prev(ch, o).commit_end \in Nat /\ Prev(ch, o).deal_start \in Nat
      /\ Prev(ch, o).deal_start < Prev(ch, o).commit_end
  BY <1>1, PrevFacts, WindowNumbers
<1>5. Specs(o)[j].commit_end <= Prev(ch, o).commit_end
  <2>1. CASE j = ch.next[o] - 1
    BY <1>4, <2>1 DEF Prev
  <2>2. CASE j # ch.next[o] - 1
    <3> DEFINE k == ch.next[o] - 1
    <3>1. k \in 1..(ch.next[o] - 1) /\ j \in 1..(k - 1)
      BY <1>1, <2>2
    <3>2. Specs(o)[j].commit_end <= Specs(o)[k].deal_start
      BY <3>1 DEF OrderedOK
    <3>3. Specs(o)[k] = Prev(ch, o)
      BY DEF Prev
    <3> HIDE DEF k
    <3> QED BY <1>3, <1>4, <3>2, <3>3
  <2> QED BY <2>1, <2>2
<1>6. Prev(ch, o).commit_end <= EndIndex(ch.input[o])
  BY <1>1 DEF ObjectPlace
<1>7. EndIndex(ch.input[o]) \in Nat
  BY EmitsWhatItHas
<1> QED BY <1>1, <1>3, <1>4, <1>5, <1>6, <1>7

\* The next window deals with frames no window before it has dealt with.
LEMMA DealsAfter ==
    ASSUME request \in Requests, NEW ch \in ChainSet, PlaceOK(ch), OrderedOK(ch), NEW o \in Objects,
           Unfinished(ch, o), NEW w, w = NextSpec(ch, o), EndIndex(ch.output[o]) <= w.load_start,
           NEW j \in 1..(ch.next[o] - 1)
    PROVE  Specs(o)[j].commit_end <= w.deal_start
<1>1. /\ Specs(o)[j].commit_end \in Nat /\ Prev(ch, o).commit_end \in Nat /\ ch.next[o] # 1
      /\ Specs(o)[j].commit_end <= Prev(ch, o).commit_end
  BY DealtIsHeld
<1> DEFINE v == Prev(ch, o)
<1>2. v \in WindowSet /\ Follows(v, w) /\ w \in WindowSet
  BY <1>1, PrevFacts, NextIsWindow DEF PlaceOK
<1>3. StableEnd(v) = EndIndex(ch.output[o])
  <2>1. ch.next[o] > 1
    BY <1>1, NextNumbers
  <2> QED BY <2>1 DEF PlaceOK, ObjectPlace
<1>4. /\ w.load_start \in Nat /\ w.deal_start \in Nat /\ w.load_start <= w.deal_start
      /\ StableEnd(v) = v.commit_end - v.overlap_right /\ v.overlap_right \in Nat
  BY <1>2, WindowNumbers
<1>5. v.commit_end <= w.deal_start
  <2>1. CASE GoesOnFrom(v, w)
    BY <1>1, <2>1 DEF GoesOnFrom
  <2>2. CASE v.overlap_right = 0
    BY <1>1, <1>3, <1>4, <2>2
  <2> QED BY <1>2, <2>1, <2>2 DEF Follows
<1> HIDE DEF v
<1> QED BY <1>1, <1>4, <1>5 DEF v

\* What the objects after o have dealt with, o has emitted.
LEMMA DealtLater ==
    ASSUME request \in Requests, NEW ch \in ChainSet, PlaceOK(ch), OrderedOK(ch), AgreeOK(ch),
           NEW o \in Objects, NEW r \in Objects, o < r, NEW j \in 1..(ch.next[r] - 1)
    PROVE  Specs(r)[j].commit_end \in Nat /\ Specs(r)[j].commit_end <= EndIndex(ch.output[o])
<1> DEFINE p == o + 1
<1>1. o < ObjectCount /\ p \in Objects /\ p <= r
  BY ObjectFacts, Sizes DEF Objects
<1>2. EndIndex(ch.input[p]) = EndIndex(ch.output[o])
  BY <1>1 DEF AgreeOK, Linked
<1> HIDE DEF p
<1>3. EndIndex(ch.input[r]) <= EndIndex(ch.input[p])
  BY <1>1, LaterIsBehind DEF Behind
<1>4. /\ Specs(r)[j].commit_end \in Nat /\ Specs(r)[j].commit_end <= EndIndex(ch.input[r])
      /\ EndIndex(ch.input[r]) \in Nat /\ EndIndex(ch.input[p]) \in Nat
  BY <1>1, DealtIsHeld, EmitsWhatItHas
<1> QED BY <1>2, <1>3, <1>4

\* The window object o is about to handle.
Due1(ch, o, w) ==
    /\ ch \in ChainSet /\ CoreOK(ch) /\ PlaceOK(ch) /\ EraseOK(ch)
    /\ Unfinished(ch, o) /\ w = NextSpec(ch, o) /\ w \in WindowSet /\ Allowed(ch, o, w)

\* What the window makes due.
Newly(o, w, q, f) == q \in Cropped(o) /\ Executes(o, w, f)

\* A window executed adds the frames it deals with to what its object has
\* handled, and nothing else does.
LEMMA HandlesMore ==
    ASSUME request \in Requests, NEW ch \in ChainSet, NEW o \in Objects, Unfinished(ch, o), NEW w, w = NextSpec(ch, o),
           NEW d, NEW new, Did(ch, d, o, w, new)
    PROVE  \A r \in Objects : \A q, f : Handles(d, r, q, f) <=> Handles(ch, r, q, f) \/ (r = o /\ Newly(o, w, q, f))
<1>1. ch.next[o] \in Nat /\ ch.next[o] > 0 /\ d.next[o] = ch.next[o] + 1 /\ \A r \in Objects : r # o => d.next[r] = ch.next[r]
  BY NextNumbers DEF Did
<1>2. ASSUME NEW r \in Objects, r # o, NEW q, NEW f PROVE Handles(d, r, q, f) <=> Handles(ch, r, q, f)
  BY <1>1, <1>2 DEF Handles
<1>3. ASSUME NEW q, NEW f PROVE Handles(d, o, q, f) <=> Handles(ch, o, q, f) \/ Newly(o, w, q, f)
  <2> DEFINE n == ch.next[o]
  <2>1. n \in Nat /\ n > 0 /\ d.next[o] - 1 = n /\ Specs(o)[n] = w
    BY <1>1 DEF NextSpec
  <2> HIDE DEF n
  <2>2. \A k : k \in 1..n <=> k \in 1..(n - 1) \/ k = n
    BY <2>1
  <2>3. Handles(ch, o, q, f) <=> (q \in Cropped(o) /\ \E k \in 1..(n - 1) : Executes(o, Specs(o)[k], f))
    BY DEF Handles, n
  <2>4. Handles(d, o, q, f) <=> (q \in Cropped(o) /\ \E k \in 1..n : Executes(o, Specs(o)[k], f))
    BY <2>1 DEF Handles
  <2>5. (\E k \in 1..n : Executes(o, Specs(o)[k], f))
           <=> (\E k \in 1..(n - 1) : Executes(o, Specs(o)[k], f)) \/ Executes(o, w, f)
    BY <2>1, <2>2
  <2> QED BY <2>3, <2>4, <2>5 DEF Newly
<1> QED BY <1>2, <1>3

\* What is due after a step was due before or was handled by it.
LEMMA DueMore ==
    ASSUME request \in Requests, NEW ch \in ChainSet, NEW o \in Objects, Unfinished(ch, o), NEW w, w = NextSpec(ch, o),
           NEW d, NEW new, Did(ch, d, o, w, new), NEW p, NEW q, NEW f, Due(d, p, q, f)
    PROVE  Due(ch, p, q, f) \/ (o <= p /\ Newly(o, w, q, f))
<1>1. PICK r \in Objects : r <= p /\ Handles(d, r, q, f)
  BY DEF Due
<1>2. Handles(ch, r, q, f) \/ (r = o /\ Newly(o, w, q, f))
  BY <1>1, HandlesMore
<1> QED BY <1>1, <1>2 DEF Due

\* Before the window, no object has handled the frames it deals with, except
\* the objects before o.
LEMMA HandledBefore ==
    ASSUME request \in Requests, NEW ch, NEW o \in Objects, NEW w, Due1(ch, o, w),
           NEW f \in Nat, w.deal_start <= f, NEW r \in Objects, NEW q, Handles(ch, r, q, f)
    PROVE  r < o
<1>1. PICK j \in 1..(ch.next[r] - 1) : Executes(r, Specs(r)[j], f)
  BY DEF Handles
<1>2. /\ ch \in ChainSet /\ PlaceOK(ch) /\ OrderedOK(ch) /\ AgreeOK(ch) /\ Unfinished(ch, o) /\ w = NextSpec(ch, o)
      /\ w \in WindowSet /\ EndIndex(ch.output[o]) <= w.load_start
  BY DEF Due1, EraseOK, CoreOK, FramesOK, Allowed
<1>3. f < Specs(r)[j].commit_end /\ Specs(r)[j].commit_end \in Nat
  <2>1. Specs(r)[j].commit_end \in Nat
    BY <1>2, DealtIsHeld
  <2> QED BY <1>1, <2>1 DEF Executes
<1>4. w.load_start \in Nat /\ w.deal_start \in Nat /\ w.load_start <= w.deal_start
  BY <1>2, WindowNumbers
<1>5. r # o
  <2> SUFFICES ASSUME r = o PROVE FALSE
    OBVIOUS
  <2>1. Specs(o)[j].commit_end <= w.deal_start
    BY <1>2, DealsAfter
  <2> QED BY <1>3, <1>4, <2>1
<1>6. ~(o < r)
  <2> SUFFICES ASSUME o < r PROVE FALSE
    OBVIOUS
  <2>1. Specs(r)[j].commit_end <= EndIndex(ch.output[o])
    BY <1>2, DealtLater
  <2>2. EndIndex(ch.output[o]) \in Nat
    BY <1>2, EmitsWhatItHas
  <2> QED BY <1>2, <1>3, <1>4, <2>1, <2>2
<1> QED BY <1>5, <1>6, ObjectFacts

\* What is assumed of a step of the driver, one by one.
LEMMA Due1Parts ==
    ASSUME NEW ch, NEW o \in Objects, NEW w, Due1(ch, o, w), request \in Requests
    PROVE  /\ ch \in ChainSet /\ PlaceOK(ch) /\ OrderedOK(ch) /\ AgreeOK(ch) /\ ModeOK(ch) /\ AllIndexed(ch)
           /\ Unfinished(ch, o) /\ w = NextSpec(ch, o) /\ w \in WindowSet /\ Allowed(ch, o, w)
           /\ EndIndex(ch.output[o]) <= w.load_start /\ EndIndex(ch.output[o]) \in Nat
<1>1. /\ ch \in ChainSet /\ PlaceOK(ch) /\ OrderedOK(ch) /\ AgreeOK(ch) /\ ModeOK(ch) /\ AllIndexed(ch)
      /\ Unfinished(ch, o) /\ w = NextSpec(ch, o) /\ w \in WindowSet /\ Allowed(ch, o, w)
      /\ EndIndex(ch.output[o]) <= w.load_start
  BY DEF Due1, EraseOK, CoreOK, FramesOK, Allowed
<1> QED BY <1>1, EmitsWhatItHas

\* An object meets a frame it has dealt with again only in its overlap.
LEMMA AgainInOverlap ==
    ASSUME request \in Requests, NEW ch, NEW o \in Objects, NEW w, Due1(ch, o, w), NEW q,
           NEW f \in Nat, EndIndex(ch.output[o]) <= f, Handles(ch, o, q, f)
    PROVE  f \in w.load_start..(w.deal_start - 1) /\ OverlapCached(ch, o, w)
<1>1. PICK j \in 1..(ch.next[o] - 1) : Executes(o, Specs(o)[j], f)
  BY DEF Handles
<1>2. /\ ch \in ChainSet /\ PlaceOK(ch) /\ OrderedOK(ch) /\ Unfinished(ch, o) /\ w = NextSpec(ch, o)
      /\ w \in WindowSet /\ EndIndex(ch.output[o]) \in Nat
  BY Due1Parts
<1> DEFINE v == Prev(ch, o)
<1>3. /\ Specs(o)[j].commit_end \in Nat /\ v.commit_end \in Nat /\ ch.next[o] # 1
      /\ Specs(o)[j].commit_end <= v.commit_end
  BY <1>2, DealtIsHeld
<1>4. f < v.commit_end
  BY <1>1, <1>3 DEF Executes
<1>5. ch.next[o] > 1
  BY <1>2, <1>3, NextNumbers
<1>6. /\ v \in WindowSet /\ Follows(v, w) /\ StableEnd(v) = EndIndex(ch.output[o])
      /\ w.scene = v.scene => ch.overlap[o].start = StableEnd(v) /\ EndIndex(ch.overlap[o]) = v.commit_end
  BY <1>2, <1>3, <1>5, PrevFacts DEF PlaceOK, ObjectPlace
<1>7. StableEnd(v) = v.commit_end - v.overlap_right /\ v.overlap_right \in Nat /\ StableEnd(v) \in Nat
  BY <1>6, WindowNumbers
<1>8. /\ w.load_start \in Nat /\ w.deal_start \in Nat /\ w.load_start + w.overlap_left = w.deal_start
      /\ w.overlap_left \in Nat
  BY <1>2, WindowNumbers
<1> HIDE DEF v
<1>9. v.overlap_right # 0
  BY <1>3, <1>4, <1>6, <1>7
<1>10. GoesOnFrom(v, w)
  BY <1>6, <1>9 DEF Follows
<1>11. w.deal_start = v.commit_end /\ w.load_start = StableEnd(v) /\ w.scene = v.scene
  BY <1>10 DEF GoesOnFrom
<1>12. f \in w.load_start..(w.deal_start - 1) /\ w.overlap_left > 0
  BY <1>4, <1>6, <1>7, <1>8, <1>11
<1>13. ch.overlap[o].start = w.load_start /\ EndIndex(ch.overlap[o]) = w.load_start + w.overlap_left
  BY <1>6, <1>8, <1>11
<1> QED BY <1>12, <1>13 DEF OverlapCached

\* What the window makes due has not been emitted before.
LEMMA NewlyIsNew ==
    ASSUME request \in Requests, NEW ch, NEW o \in Objects, NEW w, Due1(ch, o, w), NEW q, NEW f, Newly(o, w, q, f)
    PROVE  /\ f \in Nat /\ w.load_start <= f /\ w.deal_start <= f /\ ~NoBBox(o, w) /\ q \in Cropped(o)
           /\ EndIndex(ch.output[o]) <= f
<1>1. /\ w.load_start \in Nat /\ w.deal_start \in Nat /\ w.commit_end \in Nat /\ w.load_start <= w.deal_start
      /\ EndIndex(ch.output[o]) <= w.load_start /\ EndIndex(ch.output[o]) \in Nat
  BY Due1Parts, WindowNumbers
<1>2. f \in w.deal_start..(w.commit_end - 1) /\ ~NoBBox(o, w) /\ q \in Cropped(o)
  BY DEF Newly, Executes
<1> QED BY <1>1, <1>2

\* The frames a window appends have every object erased that is due.
LEMMA NewIsClean ==
    ASSUME request \in Requests, NEW ch, NEW o \in Objects, NEW w, Due1(ch, o, w), NEW q \in Objects,
           NEW f \in EndIndex(ch.output[o])..(w.commit_end - 1),
           f \in request.visible[q], ~Excused(q, f), Due(ch, o, q, f) \/ Newly(o, w, q, f)
    PROVE  q \in NewFrame(ch, o, w, f).erased
<1>1. /\ ch \in ChainSet /\ w \in WindowSet /\ Allowed(ch, o, w) /\ EndIndex(ch.output[o]) \in Nat
      /\ EndIndex(ch.output[o]) <= w.load_start /\ w = NextSpec(ch, o) /\ Unfinished(ch, o)
  BY Due1Parts
<1>2. f \in Nat /\ EndIndex(ch.output[o]) <= f
  <2>1. w.commit_end \in Nat
    BY <1>1, WindowNumbers
  <2> QED BY <1>1, <2>1
<1>3. /\ w.load_start \in Nat /\ w.deal_start \in Nat /\ w.load_start <= w.deal_start
  BY <1>1, WindowNumbers
<1>4. /\ f \in Frames
      /\ \/ Holds(ch.input[o], f)
         \/ ~NoBBox(o, w) /\ OverlapCached(ch, o, w) /\ f \in w.load_start..(w.deal_start - 1)
      /\ ~NoBBox(o, w) /\ f >= w.deal_start => Holds(ch.mask, f)
  BY <1>1, SourceHeld
<1>5. ASSUME NEW r \in Objects, r < o, Handles(ch, r, q, f), Holds(ch.input[o], f)
      PROVE  q \in FrameAt(ch.input[o], f).erased
  <2>1. r <= o - 1
    BY <1>5, ObjectFacts
  <2>2. Due(ch, o - 1, q, f)
    BY <1>5, <2>1 DEF Due
  <2>3. Clean(ch, o - 1, ch.input[o])
    BY DEF Due1, EraseOK
  <2> QED BY <1>5, <2>2, <2>3 DEF Clean
<1>6. ASSUME Due(ch, o, q, f) PROVE (\E r \in Objects : r < o /\ Handles(ch, r, q, f)) \/ Handles(ch, o, q, f)
  <2>1. PICK r \in Objects : r <= o /\ Handles(ch, r, q, f)
    BY <1>6 DEF Due
  <2>2. r \in Nat /\ o \in Nat
    BY ObjectFacts
  <2>3. r < o \/ r = o
    BY <2>1, <2>2
  <2> QED BY <2>1, <2>3
<1>7. Handles(ch, o, q, f) => f \in w.load_start..(w.deal_start - 1) /\ OverlapCached(ch, o, w) /\ q \in Cropped(o)
  BY <1>2, AgainInOverlap DEF Handles
<1>8. Newly(o, w, q, f) => /\ w.load_start <= f /\ w.deal_start <= f /\ ~NoBBox(o, w) /\ q \in Cropped(o)
  BY NewlyIsNew
<1>9. CASE f < w.load_start \/ NoBBox(o, w)
  <2>1. ~Newly(o, w, q, f)
    BY <1>2, <1>3, <1>8, <1>9
  <2>2. Holds(ch.input[o], f)
    BY <1>2, <1>3, <1>4, <1>9
  <2>3. ~Handles(ch, o, q, f)
    <3> SUFFICES ASSUME Handles(ch, o, q, f) PROVE FALSE
      OBVIOUS
    <3>1. f \in w.load_start..(w.deal_start - 1) /\ q \in Cropped(o)
      BY <1>7
    <3>2. NoBBox(o, w)
      BY <1>2, <1>3, <1>9, <3>1
    <3>3. \E k \in DOMAIN Specs(o) : Specs(o)[k] = w
      <4>1. ch.next[o] \in 1..Len(Specs(o)) /\ w = Specs(o)[ch.next[o]]
        BY <1>1, NextIsWindow
      <4>2. DOMAIN Specs(o) = 1..Len(Specs(o))
        BY SpecsFit DEF PlanOK
      <4> QED BY <4>1, <4>2
    <3>4. Reverted(o, f)
      BY <3>1, <3>2, <3>3 DEF Reverted
    <3> QED BY <3>1, <3>4 DEF Excused
  <2>4. q \in FrameAt(ch.input[o], f).erased
    BY <1>5, <1>6, <2>1, <2>2, <2>3
  <2> QED BY <1>9, <2>4 DEF NewFrame
<1>10. CASE ~(f < w.load_start \/ NoBBox(o, w)) /\ f < w.deal_start
  <2>1. ~Newly(o, w, q, f)
    BY <1>2, <1>3, <1>8, <1>10
  <2>2. Due(ch, o, q, f)
    BY <2>1
  <2>3. f \in w.load_start..(w.deal_start - 1)
    BY <1>2, <1>3, <1>10
  <2>4. NewFrame(ch, o, w, f) = FrameAt(IF OverlapCached(ch, o, w) THEN ch.overlap[o] ELSE ch.input[o], f)
    BY <1>10 DEF NewFrame
  <2>5. CASE OverlapCached(ch, o, w)
    <3>1. Holds(ch.overlap[o], f)
      BY <1>1, <2>3, <2>5, OverlapHeld
    <3>2. Clean(ch, o, ch.overlap[o])
      BY DEF Due1, EraseOK
    <3>3. q \in FrameAt(ch.overlap[o], f).erased
      BY <2>2, <3>1, <3>2 DEF Clean
    <3> QED BY <2>4, <2>5, <3>3
  <2>6. CASE ~OverlapCached(ch, o, w)
    <3>1. Holds(ch.input[o], f)
      BY <1>4, <2>6
    <3>2. q \in FrameAt(ch.input[o], f).erased
      BY <1>5, <1>6, <1>7, <2>2, <2>6, <3>1
    <3> QED BY <2>4, <2>6, <3>2
  <2> QED BY <2>5, <2>6
<1>11. CASE ~(f < w.load_start \/ NoBBox(o, w)) /\ ~(f < w.deal_start)
  <2>1. NewFrame(ch, o, w, f).erased
          = FrameAt(ch.input[o], f).erased \cup (FrameAt(ch.mask, f) \cap Cropped(o))
    BY <1>11 DEF NewFrame
  <2>2. w.deal_start <= f /\ f \notin w.load_start..(w.deal_start - 1)
    BY <1>2, <1>3, <1>11
  <2>3. Holds(ch.input[o], f) /\ Holds(ch.mask, f)
    BY <1>2, <1>3, <1>4, <1>11, <2>2
  <2>4. \A r \in Objects : Handles(ch, r, q, f) => r < o
    BY <1>2, <2>2, HandledBefore
  <2>5. CASE \E r \in Objects : Handles(ch, r, q, f)
    BY <1>5, <2>1, <2>3, <2>4, <2>5
  <2>6. CASE ~\E r \in Objects : Handles(ch, r, q, f)
    <3>1. Newly(o, w, q, f)
      BY <2>6 DEF Due
    <3>2. q \in FrameAt(ch.mask, f)
      BY <2>3, <2>6 DEF Due1, EraseOK, MaskOK
    <3> QED BY <1>8, <2>1, <3>1, <3>2
  <2> QED BY <2>5, <2>6
<1> QED BY <1>9, <1>10, <1>11

\* What an object after o holds, o has emitted.
LEMMA HeldLater ==
    ASSUME request \in Requests, NEW ch \in ChainSet, PlaceOK(ch), AgreeOK(ch),
           NEW o \in Objects, NEW p \in Objects, o < p, NEW f,
           Holds(ch.output[p], f) \/ Holds(ch.overlap[p], f) \/ Holds(ch.input[p], f)
    PROVE  ~(EndIndex(ch.output[o]) <= f)
<1> DEFINE r == o + 1
<1>1. o < ObjectCount /\ r \in Objects /\ r <= p
  BY ObjectFacts, Sizes DEF Objects
<1>2. EndIndex(ch.input[r]) = EndIndex(ch.output[o])
  BY <1>1 DEF AgreeOK, Linked
<1> HIDE DEF r
<1>3. EndIndex(ch.input[p]) <= EndIndex(ch.input[r])
  BY <1>1, LaterIsBehind DEF Behind
<1>4. /\ EndIndex(ch.input[p]) \in Nat /\ EndIndex(ch.input[r]) \in Nat /\ EndIndex(ch.output[p]) \in Nat
      /\ EndIndex(ch.output[p]) <= EndIndex(ch.input[p])
  BY <1>1, EmitsWhatItHas
<1>5. /\ ch.output[p].start \in Nat /\ ch.input[p].start \in Nat /\ ch.overlap[p].start \in Nat
  BY ChainParts, CacheNumbers
<1>6. f \in Nat /\ f < EndIndex(ch.input[p])
  <2>1. CASE Holds(ch.output[p], f) \/ Holds(ch.input[p], f)
    BY <1>4, <1>5, <2>1 DEF Holds
  <2>2. CASE Holds(ch.overlap[p], f)
    <3>1. ObjectPlace(ch, p) /\ ch.next[p] \in Nat /\ ch.next[p] > 0
      BY NextNumbers DEF PlaceOK
    <3>2. ch.next[p] # 1 /\ ch.next[p] > 1
      BY <2>2, <3>1 DEF ObjectPlace
    <3>3. f \in StableEnd(Prev(ch, p))..(Prev(ch, p).commit_end - 1) /\ Prev(ch, p).commit_end <= EndIndex(ch.input[p])
      BY <2>2, <3>1, <3>2 DEF ObjectPlace
    <3>4. StableEnd(Prev(ch, p)) \in Nat /\ Prev(ch, p).commit_end \in Nat
      BY <3>1, <3>2, PrevFacts, WindowNumbers
    <3> QED BY <1>4, <3>3, <3>4
  <2> QED BY <2>1, <2>2
<1> QED BY <1>2, <1>3, <1>4, <1>6

\* Nor has any of it been written.
LEMMA WrittenBefore ==
    ASSUME request \in Requests, NEW ch, CoreOK(ch), PlaceOK(ch), NEW o \in Objects, NEW i \in 1..Len(ch.written)
    PROVE  ~(EndIndex(ch.output[o]) <= i - 1)
<1>1. ch \in ChainSet /\ AgreeOK(ch) /\ ModeOK(ch) /\ o <= ObjectCount /\ ObjectCount \in Objects
  BY ObjectFacts DEF CoreOK, FramesOK
<1>2. EndIndex(ch.output[ObjectCount]) <= EndIndex(ch.output[o])
  BY <1>1, LaterIsBehind DEF Behind
<1>3. EndIndex(ch.output[ObjectCount]) \in Nat /\ EndIndex(ch.output[o]) \in Nat
  BY <1>1, EmitsWhatItHas
<1>4. Len(ch.written) <= EndIndex(ch.output[ObjectCount]) /\ Len(ch.written) \in Nat
  <2>1. ch.next_write \in 0..NumFrames /\ Len(ch.written) \in Nat
    BY <1>1 DEF ChainSet
  <2>2. /\ request.mode = "streaming" => Len(ch.written) = ch.next_write
        /\ request.mode # "streaming" => Len(ch.written) = 0
        /\ ch.next_write <= EndIndex(ch.output[ObjectCount])
    BY <1>1 DEF ModeOK
  <2> QED BY <1>3, <2>1, <2>2
<1> QED BY <1>2, <1>3, <1>4

\* A step of the driver leaves the caches clean.
LEMMA DidKeepsErase ==
    ASSUME request \in Requests, NEW ch, NEW o \in Objects, NEW w, Due1(ch, o, w),
           NEW d, Did(ch, d, o, w, NewFrames(ch, o, w))
    PROVE  EraseOK(d)
<1> DEFINE new == NewFrames(ch, o, w)
           a == EndIndex(ch.output[o])
<1> HIDE DEF new
<1>1. /\ ch \in ChainSet /\ PlaceOK(ch) /\ OrderedOK(ch) /\ AgreeOK(ch) /\ CoreOK(ch)
      /\ Unfinished(ch, o) /\ w = NextSpec(ch, o) /\ w \in WindowSet /\ Allowed(ch, o, w)
      /\ a <= w.load_start /\ a \in Nat /\ Did(ch, d, o, w, new) /\ Moved(ch, d, o, w, new)
  BY Due1Parts DEF Due1, Did, new
<1>2. /\ w.load_start \in Nat /\ StableEnd(w) \in Nat /\ w.commit_end \in Nat /\ w.load_start <= StableEnd(w)
      /\ StableEnd(w) <= w.commit_end
  BY <1>1, WindowNumbers
<1>3. ASSUME NEW p, NEW q, NEW f, Due(d, p, q, f), ~(a <= f) PROVE Due(ch, p, q, f)
  BY <1>1, <1>3, DueMore, NewlyIsNew DEF a
<1>4. ASSUME NEW q \in Objects, NEW f \in a..(w.commit_end - 1), Due(d, o, q, f) PROVE q \in new[f].erased
  <2>1. Due(ch, o, q, f) \/ Newly(o, w, q, f)
    BY <1>1, <1>4, DueMore
  <2>2. f \in request.visible[q] /\ ~Excused(q, f)
    BY <1>4 DEF Due
  <2>3. q \in NewFrame(ch, o, w, f).erased
    BY <1>1, <2>1, <2>2, NewIsClean DEF a
  <2>4. f \in Frames
    BY <1>1, SourceHeld DEF a
  <2> QED BY <2>3, <2>4 DEF new, NewFrames
\* What an appended cache holds is clean when it was before.
<1>5. ASSUME NEW c \in Caches, NEW e, Grown(c, e, StableEnd(w), new), EndIndex(c) = a, Clean(ch, o, c)
      PROVE  Clean(d, o, e)
  <2>1. ASSUME NEW f, NEW q \in Objects, Holds(e, f), Due(d, o, q, f) PROVE q \in FrameAt(e, f).erased
    <3>1. CASE Holds(c, f) /\ FrameAt(e, f) = FrameAt(c, f)
      <4>1. ~(a <= f)
        <5>1. c.start \in Nat
          BY CacheNumbers
        <5> QED BY <1>1, <1>5, <3>1, <5>1 DEF Holds
      <4>2. Due(ch, o, q, f)
        BY <1>3, <2>1, <4>1
      <4> QED BY <1>5, <3>1, <4>2 DEF Clean
    <3>2. CASE f \in EndIndex(c)..(StableEnd(w) - 1) /\ FrameAt(e, f) = new[f]
      <4>1. f \in a..(w.commit_end - 1)
        BY <1>1, <1>2, <1>5, <3>2
      <4> QED BY <1>4, <2>1, <3>2, <4>1
    <3> QED BY <1>5, <2>1, <3>1, <3>2, GrownFrame
  <2> QED BY <2>1 DEF Clean
\* What another object holds is clean as before.
<1>6. ASSUME NEW p, NEW c, \A f : Holds(c, f) => ~(a <= f) \/ ~(o <= p), Clean(ch, p, c) PROVE Clean(d, p, c)
  <2>1. ASSUME NEW f, NEW q \in Objects, Holds(c, f), Due(d, p, q, f) PROVE Due(ch, p, q, f)
    BY <1>1, <1>3, <1>6, <2>1, DueMore
  <2> QED BY <1>6, <2>1 DEF Clean
<1>7. ASSUME NEW p \in Objects
      PROVE  /\ Clean(d, p, d.output[p]) /\ Clean(d, p, d.overlap[p]) /\ Clean(d, p - 1, d.input[p])
  <2>1. Clean(ch, p, ch.output[p]) /\ Clean(ch, p, ch.overlap[p]) /\ Clean(ch, p - 1, ch.input[p])
    BY DEF Due1, EraseOK
  <2>2. /\ ch.output[p] \in Caches /\ ch.input[p] \in Caches
        /\ p \in Nat /\ o \in Nat /\ p <= ObjectCount /\ ObjectCount \in Nat
    BY <1>1, ChainParts, ObjectFacts, Sizes
  <2>3. Clean(d, p, d.output[p])
    <3>1. CASE p = o
      BY <1>1, <1>5, <2>1, <2>2, <3>1 DEF Moved, a
    <3>2. CASE p # o
      <4>1. o <= p => o < p
        BY <2>2, <3>2
      <4>2. d.output[p] = ch.output[p]
        BY <1>1, <3>2 DEF Moved
      <4>3. \A f : Holds(ch.output[p], f) => ~(a <= f) \/ ~(o <= p)
        BY <1>1, <4>1, HeldLater DEF a
      <4> QED BY <1>6, <2>1, <4>2, <4>3
    <3> QED BY <3>1, <3>2
  <2>4. Clean(d, p, d.overlap[p])
    <3>1. CASE p = o
      <4>1. ASSUME NEW f, NEW q \in Objects, Holds(d.overlap[o], f), Due(d, o, q, f)
            PROVE  q \in FrameAt(d.overlap[o], f).erased
        <5>1. f \in StableEnd(w)..(w.commit_end - 1) /\ FrameAt(d.overlap[o], f) = new[f]
          BY <1>1, <4>1 DEF Did
        <5>2. f \in a..(w.commit_end - 1)
          BY <1>1, <1>2, <5>1
        <5> QED BY <1>4, <4>1, <5>1, <5>2
      <4> QED BY <3>1, <4>1 DEF Clean
    <3>2. CASE p # o
      <4>1. o <= p => o < p
        BY <2>2, <3>2
      <4>2. d.overlap[p] = ch.overlap[p]
        BY <1>1, <3>2 DEF Moved
      <4>3. \A f : Holds(ch.overlap[p], f) => ~(a <= f) \/ ~(o <= p)
        BY <1>1, <4>1, HeldLater DEF a
      <4> QED BY <1>6, <2>1, <4>2, <4>3
    <3> QED BY <3>1, <3>2
  <2>5. Clean(d, p - 1, d.input[p])
    <3>1. CASE p = o + 1
      <4>1. o < ObjectCount /\ p - 1 = o
        BY <2>2, <3>1
      <4>2. Grown(ch.input[p], d.input[p], StableEnd(w), new)
        BY <1>1, <3>1, <4>1 DEF Moved
      <4>3. EndIndex(ch.input[p]) = a
        BY <1>1, <3>1, <4>1 DEF AgreeOK, Linked, a
      <4> QED BY <1>5, <2>1, <2>2, <4>1, <4>2, <4>3
    <3>2. CASE p # o + 1
      <4>1. o <= p - 1 => o < p
        BY <2>2
      <4>2. d.input[p] = ch.input[p]
        BY <1>1, <3>2 DEF Moved
      <4>3. \A f : Holds(ch.input[p], f) => ~(a <= f) \/ ~(o <= p - 1)
        BY <1>1, <4>1, HeldLater DEF a
      <4> QED BY <1>6, <2>1, <4>2, <4>3
    <3> QED BY <3>1, <3>2
  <2> QED BY <2>3, <2>4, <2>5
<1>8. MaskOK(d)
  <2>1. ASSUME NEW f, NEW q \in Objects, Holds(d.mask, f), f \in request.visible[q]
        PROVE  q \in FrameAt(d.mask, f) \/ \E r \in Objects : Handles(d, r, q, f)
    <3>1. Holds(ch.mask, f) /\ FrameAt(d.mask, f) = IF ~NoBBox(o, w) /\ f \in w.deal_start..(w.commit_end - 1)
                              THEN FrameAt(ch.mask, f) \ Cropped(o) ELSE FrameAt(ch.mask, f)
      BY <1>1, <2>1 DEF Moved, MaskAfter, Holds
    <3>2. \A r \in Objects : Handles(d, r, q, f) <=> Handles(ch, r, q, f) \/ (r = o /\ Newly(o, w, q, f))
      BY <1>1, HandlesMore
    <3>3. q \in FrameAt(ch.mask, f) \/ \E r \in Objects : Handles(ch, r, q, f)
      BY <2>1, <3>1 DEF Due1, EraseOK, MaskOK
    <3>4. CASE Newly(o, w, q, f)
      BY <3>2, <3>4
    <3>5. CASE ~Newly(o, w, q, f)
      <4>1. q \in FrameAt(ch.mask, f) => q \in FrameAt(d.mask, f)
        BY <3>1, <3>5 DEF Newly, Executes
      <4> QED BY <3>2, <3>3, <4>1
    <3> QED BY <3>4, <3>5
  <2> QED BY <2>1 DEF MaskOK
<1>9. WrittenClean(d)
  <2>1. ASSUME NEW i \in 1..Len(ch.written), NEW q \in Objects, Due(d, ObjectCount, q, i - 1)
        PROVE  q \in ch.written[i].erased
    <3>1. ~(a <= i - 1)
      BY <1>1, WrittenBefore DEF a
    <3>2. Due(ch, ObjectCount, q, i - 1)
      BY <1>3, <2>1, <3>1
    <3> QED BY <3>2 DEF Due1, EraseOK, WrittenClean
  <2> QED BY <1>1, <2>1 DEF WrittenClean, Moved
<1>10. OrderedOK(d)
  <2>1. ch.next[o] \in Nat /\ ch.next[o] > 0 /\ d.next[o] = ch.next[o] + 1
        /\ \A r \in Objects : r # o => d.next[r] = ch.next[r]
    BY <1>1, NextNumbers DEF Did
  <2>2. ASSUME NEW r \in Objects, NEW k \in 1..(d.next[r] - 1), NEW j \in 1..(k - 1)
        PROVE  Specs(r)[j].commit_end <= Specs(r)[k].deal_start
    <3>1. CASE r # o \/ k # ch.next[o]
      <4>1. k \in 1..(ch.next[r] - 1)
        BY <2>1, <2>2, <3>1
      <4> QED BY <1>1, <4>1 DEF OrderedOK
    <3>2. CASE r = o /\ k = ch.next[o]
      <4>1. Specs(o)[k] = w
        BY <1>1, <3>2 DEF NextSpec
      <4>2. Specs(o)[j].commit_end <= w.deal_start
        BY <1>1, <3>2, DealsAfter DEF a
      <4> QED BY <3>2, <4>1, <4>2
    <3> QED BY <3>1, <3>2
  <2> QED BY <2>2 DEF OrderedOK
<1> QED BY <1>7, <1>8, <1>9, <1>10 DEF EraseOK

\* So does a step with its flush.
LEMMA WorkKeepsErase ==
    ASSUME request \in Requests, NEW ch, CoreOK(ch), PlaceOK(ch), EraseOK(ch), NEW o \in Objects, NEW w,
           NEW e, NEW d, Worked(ch, o, w, e, d)
    PROVE  EraseOK(d)
<1>1. Due1(ch, o, w)
  BY DEF Due1, Worked, CoreOK, FramesOK
<1>2. EraseOK(e)
  BY <1>1, DidKeepsErase DEF Worked
<1>3. e \in ChainSet /\ Trimmed(e, d, d.next_write) /\ WroteMore(e, d)
  BY DEF Worked, CoreOK, FramesOK, Settled
<1> QED BY <1>2, <1>3, TrimKeepsErase

\* When every window has been handled, an object that is visible in a scene is due.
LEMMA AllIsDue ==
    ASSUME request \in Requests, NEW m \in ChainSet, \A o \in Objects : ~Unfinished(m, o),
           NEW o \in Objects, NEW f \in request.visible[o], InScene(o, f), ~Excused(o, f)
    PROVE  Due(m, ObjectCount, o, f)
<1>1. PICK k \in DOMAIN Specs(o) : f \in Specs(o)[k].deal_start..(Specs(o)[k].commit_end - 1)
  BY DEF InScene
<1>2. DOMAIN Specs(o) = 1..Len(Specs(o)) /\ Len(Specs(o)) \in Nat /\ m.next[o] \in Nat
  BY SpecsFit, NextNumbers DEF PlanOK
<1>3. k \in 1..(m.next[o] - 1)
  BY <1>1, <1>2 DEF Unfinished
<1>4. ~NoBBox(o, Specs(o)[k])
  BY <1>1 DEF NoBBox
<1>5. o \in Cropped(o)
  BY DEF Cropped
<1>6. Handles(m, o, o, f)
  BY <1>1, <1>3, <1>4, <1>5 DEF Handles, Executes
<1>7. o <= ObjectCount
  BY ObjectFacts
<1> QED BY <1>6, <1>7 DEF Due

\* What d has written is clean when what m holds and has written is.
LEMMA WroteClean ==
    ASSUME request \in Requests, NEW m \in ChainSet, EraseOK(m), NEW d \in ChainSet, WroteMore(m, d),
           NEW i \in 1..Len(d.written), NEW q \in Objects, Due(m, ObjectCount, q, i - 1)
    PROVE  q \in d.written[i].erased
<1>1. Len(m.written) \in Nat /\ Len(d.written) \in Nat
  BY DEF ChainSet
<1>2. CASE i <= Len(m.written)
  <2>1. i \in 1..Len(m.written)
    BY <1>1, <1>2
  <2>2. d.written[i] = m.written[i]
    BY <2>1 DEF WroteMore
  <2> QED BY <2>1, <2>2 DEF EraseOK, WrittenClean
<1>3. CASE i > Len(m.written)
  <2>1. i \in (Len(m.written) + 1)..Len(d.written)
    BY <1>1, <1>3
  <2>2. Holds(m.output[ObjectCount], i - 1) /\ d.written[i] = FrameAt(m.output[ObjectCount], i - 1)
    BY <2>1 DEF WroteMore
  <2>3. ObjectCount \in Objects
    BY Sizes DEF Objects
  <2>4. Clean(m, ObjectCount, m.output[ObjectCount])
    BY <2>3 DEF EraseOK
  <2> QED BY <2>2, <2>4 DEF Clean
<1> QED BY <1>1, <1>2, <1>3

\* The file of a finished request.
Whole(d) ==
    /\ \A i \in DOMAIN d.written : \A o \in Objects :
         LET f == d.written[i].index
         IN  f \in request.visible[o] /\ InScene(o, f) => o \in d.written[i].erased \/ Excused(o, f)
    /\ Len(d.written) = Covered(ObjectCount)

\* When no object has a window left, the video written is whole.
LEMMA ConcludedIsWhole ==
    ASSUME request \in Requests, NEW m, CoreOK(m), PlaceOK(m), EraseOK(m), \A o \in Objects : ~Unfinished(m, o),
           NEW d, Concluded(m, d)
    PROVE  Whole(d)
<1>1. /\ m \in ChainSet /\ d \in ChainSet /\ WroteMore(m, d) /\ WrittenOK(d) /\ ObjectCount \in Objects
      /\ Len(d.written) = EndIndex(m.output[ObjectCount])
  BY Sizes DEF CoreOK, FramesOK, Concluded, Objects
<1>2. Len(d.written) = Covered(ObjectCount)
  BY <1>1, DoneEmitted
<1>3. DOMAIN d.written = 1..Len(d.written)
  BY <1>1 DEF ChainSet
<1>4. ASSUME NEW i \in 1..Len(d.written), NEW o \in Objects, d.written[i].index \in request.visible[o],
             InScene(o, d.written[i].index), ~Excused(o, d.written[i].index)
      PROVE  o \in d.written[i].erased
  <2>1. d.written[i].index = i - 1
    BY <1>1 DEF WrittenOK
  <2>2. Due(m, ObjectCount, o, i - 1)
    BY <1>1, <1>4, <2>1, AllIsDue
  <2> QED BY <1>1, <2>2, WroteClean
<1> QED BY <1>2, <1>3, <1>4 DEF Whole

\* A whole video is what FinishedIsWhole asks for.
LEMMA WholeIsFinished ==
    ASSUME request \in Requests, Whole(chain)
    PROVE  FinishedIsWhole
<1>1. ErasedWhereVisible
  BY DEF Whole, ErasedWhereVisible, Excused
<1>2. NothingTruncated
  <2>1. ObjectCount \in Objects
    BY Sizes DEF Objects
  <2>2. Covered(ObjectCount) = LastScene(request.scenes[ObjectCount])[1] + LastScene(request.scenes[ObjectCount])[2]
    BY <2>1, SpecsFit
  <2> QED BY <2>2 DEF Whole, NothingTruncated, LastScene
<1> QED BY <1>1, <1>2 DEF FinishedIsWhole

\* While the request runs, what is due is erased everywhere; then, in the file.
EInv ==
    /\ status # "finished" => EraseOK(chain)
    /\ status = "finished" => Whole(chain)

\* A step that leaves the chain alone leaves the caches clean.
LEMMA EraseStays ==
    ASSUME NEW ch, EraseOK(ch), request' = request, chain' = ch
    PROVE  EraseOK(chain)'
<1>1. /\ \A o : Specs(o)' = Specs(o) /\ Cropped(o)' = Cropped(o)
      /\ \A o, w : NoBBox(o, w)' = NoBBox(o, w)
  BY DEF Specs, Cropped, NoBBox
<1>2. \A r, q, f : Handles(chain, r, q, f)' = Handles(ch, r, q, f)
  BY <1>1 DEF Handles, Executes
<1>3. \A q, f : Excused(q, f)' = Excused(q, f)
  BY <1>1 DEF Excused, Reverted
<1>4. \A p, q, f : Due(chain, p, q, f)' = Due(ch, p, q, f)
  BY <1>2, <1>3 DEF Due
<1>5. \A p \in Objects : /\ Clean(chain, p, chain.output[p])' /\ Clean(chain, p, chain.overlap[p])'
                         /\ Clean(chain, p - 1, chain.input[p])'
  BY <1>4 DEF EraseOK, Clean
<1>6. MaskOK(chain)'
  BY <1>2 DEF EraseOK, MaskOK
<1>7. WrittenClean(chain)'
  BY <1>4 DEF EraseOK, WrittenClean
<1>8. OrderedOK(chain)'
  BY <1>1 DEF EraseOK, OrderedOK
<1> QED BY <1>5, <1>6, <1>7, <1>8 DEF EraseOK

\* A step that leaves the chain alone leaves the video whole.
LEMMA WholeStays ==
    ASSUME NEW ch, Whole(ch), request' = request, chain' = ch
    PROVE  Whole(chain)'
<1>1. \A o : Specs(o)' = Specs(o) /\ Cropped(o)' = Cropped(o)
  BY DEF Specs, Cropped
<1>2. \A o, w : NoBBox(o, w)' = NoBBox(o, w)
  BY DEF NoBBox
<1>3. \A o, f : Excused(o, f)' = Excused(o, f)
  BY <1>1, <1>2 DEF Excused, Reverted
<1>4. \A o, f : InScene(o, f)' = InScene(o, f)
  BY <1>1 DEF InScene
<1>5. Covered(ObjectCount)' = Covered(ObjectCount)
  BY <1>1 DEF Covered
<1> QED BY <1>3, <1>4, <1>5 DEF Whole

\* Every step keeps the caches clean and ends with a whole video.
LEMMA EInvStep ==
    ASSUME GInv, EInv, GInv', [Next]_vars
    PROVE  EInv'
<1>1. CASE status # "running" \/ UNCHANGED vars
  <2>1. UNCHANGED vars
    BY <1>1, OverStays
  <2>2. request' = request /\ chain' = chain /\ status' = status
    BY <2>1 DEF vars
  <2> QED BY <2>2, EraseStays, WholeStays DEF EInv
<1>2. CASE status = "running" /\ Next
  <2>1. request' = request /\ (Fails \/ Loads \/ (\E o \in Objects : Works(o)) \/ Ends)
    BY <1>2, StepKinds DEF GInv
  <2>2. /\ chain \in ChainSet /\ request \in Requests /\ PlaceOK(chain) /\ CoreOK(chain) /\ EraseOK(chain)
    BY <1>2 DEF GInv, FInv, FramesOK, CoreOK, EInv
  <2>3. /\ status' # "finished" => EraseOK(chain')
        /\ status' = "finished" => Whole(chain')
    <3>1. CASE Fails
      BY <2>2, <3>1 DEF Fails, Failed
    <3>2. CASE Loads
      BY <2>2, <3>2, PrimedKeepsErase DEF Loads
    <3>3. CASE \E o \in Objects : Works(o)
      BY <2>2, <3>3, WorkKeepsErase DEF Works
    <3>4. CASE Ends
      <4>1. PICK m : Settled(chain, m) /\ CoreOK(m) /\ Concluded(m, chain')
        BY <3>4 DEF Ends
      <4>2. Trimmed(chain, m, m.next_write) /\ WroteMore(chain, m)
        BY <4>1 DEF Settled
      <4>3. PlaceOK(m) /\ EraseOK(m)
        BY <2>2, <4>2, TrimKeepsPlace, TrimKeepsErase
      <4>4. \A o \in Objects : ~Unfinished(m, o)
        BY <3>4, <4>2 DEF Ends, Trimmed, Unfinished
      <4>5. Whole(chain')
        BY <2>2, <4>1, <4>3, <4>4, ConcludedIsWhole
      <4> QED BY <3>4, <4>5 DEF Ends
    <3> QED BY <2>1, <3>1, <3>2, <3>3, <3>4
  <2> QED BY <2>1, <2>3, EraseStays, WholeStays DEF EInv
<1> QED BY <1>1, <1>2

\* Whatever the scenes, the objects and the windows, whatever crop boxes
\* contain: a finished request has every object erased from every frame of its
\* scenes in which it is visible, but for the frames a skipped window passes on
\* raw, and its file ends where the last scene of the last object ends.
THEOREM FinishedAlwaysWhole ==
    Spec => []FinishedIsWhole
<1>1. Init => EInv
  BY InitIsErased DEF Init, EInv
<1>2. GInv /\ EInv /\ GInv' /\ [Next]_vars => EInv'
  BY EInvStep
<1>3. GInv /\ EInv => FinishedIsWhole
  <2> SUFFICES ASSUME GInv, EInv PROVE FinishedIsWhole
    OBVIOUS
  <2>1. CASE status = "finished"
    BY <2>1, WholeIsFinished DEF GInv, FInv, EInv
  <2>2. CASE status # "finished"
    BY <2>2 DEF FinishedIsWhole, ErasedWhereVisible, NothingTruncated
  <2> QED BY <2>1, <2>2
<1> QED BY <1>1, <1>2, <1>3, GInvHolds, PTL DEF Spec

-----------------------------------------------------------------------------
(***************************************************************************)
(* The memory of a streamed request.                                       *)
(***************************************************************************)

\* The frames of k windows.
Room(k) == k * InferLen

\* Room in numbers.
LEMMA RoomFacts ==
    /\ Room(0) = 0
    /\ \A k \in Nat : Room(k) \in Nat /\ Room(k + 1) = Room(k) + InferLen
<1>1. InferLen \in Nat
  BY Sizes
<1>2. \A k \in Nat : k * InferLen \in Nat /\ (k + 1) * InferLen = k * InferLen + InferLen
  BY <1>1
<1>3. 0 * InferLen = 0
  BY <1>1
<1> QED BY <1>2, <1>3 DEF Room

\* More windows have more frames.
LEMMA MoreRoom ==
    ASSUME NEW k \in Nat, NEW m \in Nat, k <= m
    PROVE  Room(k) <= Room(m)
<1> DEFINE S == {n \in Nat : Room(k) <= Room(k + n)}
<1>1. 0 \in S
  <2>1. k + 0 = k /\ Room(k) \in Nat
    BY RoomFacts
  <2> QED BY <2>1
<1>2. ASSUME NEW n \in Nat, n \in S PROVE n + 1 \in S
  <2> DEFINE j == k + n
  <2>1. j \in Nat /\ k + (n + 1) = j + 1 /\ Room(k) <= Room(j)
    BY <1>2
  <2> HIDE DEF j
  <2>2. Room(j + 1) = Room(j) + InferLen /\ Room(j) \in Nat /\ Room(k) \in Nat /\ InferLen \in Nat
    BY <2>1, RoomFacts, Sizes
  <2>3. Room(k) <= Room(j + 1)
    BY <2>1, <2>2
  <2> QED BY <2>1, <2>3
<1> HIDE DEF S
<1>3. m - k \in S /\ k + (m - k) = m
  <2>1. m - k \in Nat
    OBVIOUS
  <2> QED BY <1>1, <1>2, <2>1, SetInduction
<1> QED BY <1>3 DEF S

\* Windows that leave nothing out do not overlap, and follow each other closely.
LEMMA WholeInOrder ==
    ASSUME request \in Requests, NEW o \in Objects, WholeVideo(o)
    PROVE  ~ScenesOverlap(o)
<1> SUFFICES ASSUME NEW k \in 2..Len(Specs(o)), Specs(o)[k].scene # Specs(o)[k - 1].scene,
                    Specs(o)[k].load_start < Specs(o)[k - 1].commit_end
             PROVE  FALSE
  BY DEF ScenesOverlap
<1> DEFINE v == Specs(o)[k - 1]
           w == Specs(o)[k]
<1>1. v \in WindowSet /\ w \in WindowSet /\ Follows(v, w)
  <2>1. k \in 1..Len(Specs(o)) /\ k - 1 \in 1..Len(Specs(o))
    BY SpecNumbers
  <2> QED BY <2>1, SpecNumbers
<1>2. w.deal_start = v.commit_end
  BY DEF WholeVideo
<1>3. w.scene # v.scene /\ w.load_start < v.commit_end
  OBVIOUS
<1> HIDE DEF v, w
<1>4. w.overlap_left = 0
  BY <1>1, <1>3 DEF Follows, GoesOnFrom
<1> QED BY <1>1, <1>2, <1>3, <1>4, WindowNumbers

\* If the scenes leave out no frame, the next window begins no later than where
\* its object has got to.
LEMMA NextStartsHere ==
    ASSUME request \in Requests, NEW ch \in ChainSet, PlaceOK(ch), NEW o \in Objects, Unfinished(ch, o), WholeVideo(o)
    PROVE  NextSpec(ch, o).load_start <= EndIndex(ch.output[o])
<1> DEFINE w == NextSpec(ch, o)
<1>1. /\ w \in WindowSet /\ ch.next[o] \in 1..Len(Specs(o)) /\ w = Specs(o)[ch.next[o]]
      /\ w.load_start \in Nat /\ w.deal_start \in Nat /\ w.load_start + w.overlap_left = w.deal_start
      /\ w.overlap_left \in Nat
  BY NextIsWindow, WindowNumbers
<1>2. ObjectPlace(ch, o) /\ Len(Specs(o)) \in Nat /\ EndIndex(ch.output[o]) \in Nat
  BY SpecNumbers, EmitsWhatItHas DEF PlaceOK
<1> HIDE DEF w
<1>3. CASE ch.next[o] = 1
  <2>1. w.deal_start = 0
    BY <1>1, <1>3 DEF WholeVideo
  <2> QED BY <1>1, <1>2, <2>1 DEF w
<1>4. CASE ch.next[o] # 1
  <2> DEFINE v == Prev(ch, o)
  <2>1. ch.next[o] \in 2..Len(Specs(o)) /\ ch.next[o] > 1
    BY <1>1, <1>2, <1>4
  <2>2. v \in WindowSet /\ Follows(v, w) /\ v = Specs(o)[ch.next[o] - 1]
    BY <1>2, <1>4, PrevFacts DEF Prev, w
  <2>3. EndIndex(ch.output[o]) = StableEnd(v) /\ w.deal_start = v.commit_end
    BY <1>1, <1>2, <2>1, <2>2 DEF ObjectPlace, WholeVideo
  <2>4. StableEnd(v) = v.commit_end - v.overlap_right /\ v.commit_end \in Nat /\ v.overlap_right \in Nat
    BY <2>2, WindowNumbers
  <2> HIDE DEF v
  <2>5. CASE GoesOnFrom(v, w)
    BY <1>1, <1>2, <2>3, <2>5 DEF GoesOnFrom, w
  <2>6. CASE w.overlap_left = 0 /\ v.overlap_right = 0
    BY <1>1, <1>2, <2>3, <2>4, <2>6 DEF w
  <2> QED BY <2>2, <2>5, <2>6 DEF Follows
<1> QED BY <1>3, <1>4

\* An object that cannot go on has less than a window before it.
LEMMA LessThanWindow ==
    ASSUME request \in Requests, NEW ch, CoreOK(ch), PlaceOK(ch), NEW o \in Objects, WholeVideo(o), ~InputReady(ch, o)
    PROVE  EndIndex(ch.input[o]) <= EndIndex(ch.output[o]) + InferLen
<1>1. ch \in ChainSet /\ AgreeOK(ch) /\ AllIndexed(ch)
  BY DEF CoreOK, FramesOK
<1>2. EndIndex(ch.input[o]) \in Nat /\ EndIndex(ch.output[o]) \in Nat /\ InferLen \in Nat
  BY <1>1, EmitsWhatItHas, Sizes
<1>3. CASE Unfinished(ch, o)
  <2> DEFINE w == NextSpec(ch, o)
  <2>1. w.load_start \in Nat /\ w.load_end \in Nat /\ w.load_end - w.load_start <= InferLen
    BY <1>1, <1>3, NextIsWindow, WindowNumbers
  <2>2. w.load_start <= EndIndex(ch.output[o])
    BY <1>1, <1>3, NextStartsHere
  <2>3. ~(EndIndex(ch.input[o]) >= w.load_end)
    BY <1>1, <1>3, FrontierIsEnd DEF InputReady
  <2> HIDE DEF w
  <2> QED BY <1>2, <2>1, <2>2, <2>3
<1>4. CASE ~Unfinished(ch, o)
  <2>1. EndIndex(ch.output[o]) = NumFrames
    BY <1>1, <1>4, DoneEmitted DEF WholeVideo
  <2>2. EndIndex(ch.input[o]) <= NumFrames
    BY <1>1, ChainParts, EndsInVideo DEF AllIndexed
  <2> QED BY <1>2, <2>1, <2>2
<1> QED BY <1>3, <1>4

\* Nor have all objects after p together more than a window each.
LEMMA LessThanWindows ==
    ASSUME request \in Requests, NEW ch, CoreOK(ch), PlaceOK(ch), \A o \in Objects : WholeVideo(o),
           NEW p \in Objects, \A q \in Objects : q > p => ~InputReady(ch, q)
    PROVE  EndIndex(ch.output[p]) <= EndIndex(ch.output[ObjectCount]) + Room(ObjectCount - p)
<1> DEFINE S == {k \in Nat : \A r \in Objects : p <= r /\ r + k = ObjectCount =>
                    EndIndex(ch.output[r]) <= EndIndex(ch.output[ObjectCount]) + Room(k)}
<1>1. ch \in ChainSet /\ AgreeOK(ch)
  BY DEF CoreOK, FramesOK
<1>2. \A r \in Objects : r \in Nat /\ EndIndex(ch.output[r]) \in Nat
  BY <1>1, EmitsWhatItHas, ObjectFacts
<1>3. ObjectCount \in Objects /\ ObjectCount \in Nat /\ p \in Nat /\ p <= ObjectCount /\ InferLen \in Nat
  BY ObjectFacts, Sizes
<1>4. 0 \in S
  BY <1>2, <1>3, RoomFacts
<1>5. ASSUME NEW k \in Nat, k \in S PROVE k + 1 \in S
  <2>1. SUFFICES ASSUME NEW r \in Objects, p <= r, r + (k + 1) = ObjectCount
                 PROVE  EndIndex(ch.output[r]) <= EndIndex(ch.output[ObjectCount]) + Room(k + 1)
    OBVIOUS
  <2> DEFINE q == r + 1
  <2>2. q \in Objects /\ r < ObjectCount /\ q > p /\ p <= q /\ q + k = ObjectCount
    BY <1>2, <1>3, <2>1 DEF Objects
  <2>3. EndIndex(ch.input[q]) = EndIndex(ch.output[r])
    BY <1>1, <2>2 DEF AgreeOK, Linked
  <2> HIDE DEF q
  <2>4. EndIndex(ch.input[q]) <= EndIndex(ch.output[q]) + InferLen
    BY <2>2, LessThanWindow
  <2>5. EndIndex(ch.output[q]) <= EndIndex(ch.output[ObjectCount]) + Room(k)
    BY <1>5, <2>2
  <2>6. Room(k + 1) = Room(k) + InferLen /\ Room(k) \in Nat
    BY RoomFacts
  <2>7. EndIndex(ch.output[q]) \in Nat /\ EndIndex(ch.output[r]) \in Nat /\ EndIndex(ch.output[ObjectCount]) \in Nat
    BY <1>2, <1>3, <2>2
  <2> HIDE DEF S
  <2> QED BY <1>3, <2>3, <2>4, <2>5, <2>6, <2>7
<1> HIDE DEF S
<1>6. ObjectCount - p \in S /\ p + (ObjectCount - p) = ObjectCount /\ p <= p
  <2>1. ObjectCount - p \in Nat
    BY <1>3
  <2> QED BY <1>3, <1>4, <1>5, <2>1, SetInduction
<1> QED BY <1>6 DEF S

\* All caches begin where the file ends, and the farther an object is from the
\* last one, the more frames may be before it.
BoundOK(ch) ==
    /\ ch.next_write = EndIndex(ch.output[ObjectCount])
    /\ \A o \in Objects : ch.next_write <= ch.input[o].start /\ ch.next_write <= ch.output[o].start
    /\ ch.next_write <= ch.mask.start
    /\ \A p \in Objects : EndIndex(ch.input[p]) <= EndIndex(ch.output[ObjectCount]) + Room((ObjectCount - p) + 2)

\* The caches hold a number of frames that does not depend on the video.
Small(ch) ==
    /\ \A o \in Objects : /\ Len(ch.input[o].frames) <= (ObjectCount + 1) * InferLen
                          /\ Len(ch.output[o].frames) <= (ObjectCount + 1) * InferLen
    /\ Len(ch.mask.frames) <= (ObjectCount + 1) * InferLen

\* The bounds of the mask.
LEMMA MaskNumbers ==
    ASSUME NEW ch \in ChainSet
    PROVE  /\ ch.mask.start \in Nat /\ EndIndex(ch.mask) \in Nat
           /\ Len(ch.mask.frames) = EndIndex(ch.mask) - ch.mask.start
<1> DEFINE S == SUBSET Objects
<1> HIDE DEF S
<1>1. ch.mask \in CacheOf(S)
  BY DEF ChainSet, S
<1> QED BY <1>1, CacheFacts

\* Caches within their bounds are small.
LEMMA BoundIsSmall ==
    ASSUME request \in Requests, NEW ch, CoreOK(ch), PlaceOK(ch), BoundOK(ch)
    PROVE  Small(ch)
<1>1. ch \in ChainSet /\ ModeOK(ch) /\ 1 \in Objects /\ ObjectCount \in Nat /\ 1 <= ObjectCount
      /\ ch.next_write \in Nat /\ ch.next_write = EndIndex(ch.output[ObjectCount])
  BY Sizes, SMTT(60) DEF CoreOK, FramesOK, Objects, BoundOK, ChainSet
<1> DEFINE most == Room(ObjectCount + 1)
<1>2. most \in Nat /\ most = (ObjectCount + 1) * InferLen
  BY <1>1, RoomFacts DEF Room
<1> HIDE DEF most
<1>3. ASSUME NEW o \in Objects PROVE EndIndex(ch.input[o]) - ch.next_write <= most
  <2> DEFINE k == (ObjectCount - o) + 2
             n == ObjectCount + 1
  <2>1. k \in Nat /\ n \in Nat /\ k <= n
    BY <1>1, ObjectFacts
  <2>2. EndIndex(ch.input[o]) <= ch.next_write + Room(k)
    BY <1>1 DEF BoundOK
  <2> HIDE DEF k, n
  <2>3. Room(k) <= Room(n) /\ Room(k) \in Nat /\ Room(n) \in Nat
    BY <2>1, MoreRoom, RoomFacts
  <2>4. Room(n) = most
    BY DEF n, most
  <2>5. EndIndex(ch.input[o]) \in Nat
    BY <1>1, EmitsWhatItHas
  <2> QED BY <1>1, <2>2, <2>3, <2>4, <2>5
<1>4. ASSUME NEW o \in Objects
      PROVE  Len(ch.input[o].frames) <= most /\ Len(ch.output[o].frames) <= most
  <2>1. /\ Len(ch.input[o].frames) = EndIndex(ch.input[o]) - ch.input[o].start
        /\ Len(ch.output[o].frames) = EndIndex(ch.output[o]) - ch.output[o].start
        /\ ch.input[o].start \in Nat /\ ch.output[o].start \in Nat
    BY <1>1, ChainParts, CacheFacts DEF Caches
  <2>2. /\ EndIndex(ch.input[o]) \in Nat /\ EndIndex(ch.output[o]) \in Nat
        /\ EndIndex(ch.output[o]) <= EndIndex(ch.input[o])
    BY <1>1, EmitsWhatItHas
  <2>3. ch.next_write <= ch.input[o].start /\ ch.next_write <= ch.output[o].start
    BY DEF BoundOK
  <2> QED BY <1>1, <1>2, <1>3, <2>1, <2>2, <2>3, SMTT(60)
<1>5. Len(ch.mask.frames) <= most
  <2>1. Len(ch.mask.frames) = EndIndex(ch.mask) - ch.mask.start /\ ch.mask.start \in Nat /\ EndIndex(ch.mask) \in Nat
    BY <1>1, MaskNumbers
  <2>2. EndIndex(ch.mask) = EndIndex(ch.input[1])
    BY <1>1 DEF ModeOK
  <2>3. ch.next_write <= ch.mask.start
    BY DEF BoundOK
  <2> QED BY <1>1, <1>2, <1>3, <2>1, <2>2, <2>3
<1> QED BY <1>2, <1>4, <1>5 DEF Small

\* In the first state the caches are empty.
LEMMA InitIsBound ==
    ASSUME request \in Requests, request.mode = "streaming"
    PROVE  BoundOK(InitialChain(request))
<1> DEFINE ch == InitialChain(request)
<1>1. /\ ch \in ChainSet
      /\ \A o \in Objects : ch.input[o].start = 0 /\ EndIndex(ch.input[o]) = 0 /\ ch.output[o] = EmptyCache(0)
      /\ ch.mask.start = 0 /\ ch.next_write = 0
  <2> DEFINE n == IF request.mode = "preload" THEN NumFrames ELSE 0
  <2>1. n = 0
    OBVIOUS
  <2>2. /\ ch \in ChainSet
        /\ \A o \in Objects : /\ ch.input[o].start = 0
                              /\ EndIndex(ch.input[o]) = IF o = 1 THEN n ELSE 0
                              /\ ch.output[o] = EmptyCache(0)
        /\ ch.mask.start = 0 /\ ch.next_write = 0
    BY InitFacts
  <2> HIDE DEF ch, n
  <2> QED BY <2>1, <2>2
<1> HIDE DEF ch
<1>2. EndIndex(EmptyCache(0)) = 0 /\ EmptyCache(0).start = 0
  <2>1. 0 \in Nat /\ 0 <= NumFrames
    BY Sizes
  <2> QED BY <2>1, EmptyFacts
<1>3. ASSUME NEW p \in Objects PROVE 0 <= 0 + Room((ObjectCount - p) + 2)
  <2>1. (ObjectCount - p) + 2 \in Nat
    BY ObjectFacts, Sizes
  <2> QED BY <2>1, RoomFacts
<1>4. ObjectCount \in Objects
  BY Sizes DEF Objects
<1> QED BY <1>1, <1>2, <1>3, <1>4 DEF BoundOK, ch

\* A window reaches at most its length beyond what its object has emitted.
LEMMA WindowReach ==
    ASSUME request \in Requests, NEW ch \in ChainSet, PlaceOK(ch), NEW o \in Objects, Unfinished(ch, o), WholeVideo(o)
    PROVE  /\ NextSpec(ch, o).load_end \in Nat
           /\ NextSpec(ch, o).load_end <= EndIndex(ch.output[o]) + InferLen
<1>1. /\ NextSpec(ch, o).load_start \in Nat /\ NextSpec(ch, o).load_end \in Nat
      /\ NextSpec(ch, o).load_end - NextSpec(ch, o).load_start <= InferLen
  BY NextIsWindow, WindowNumbers
<1>2. NextSpec(ch, o).load_start <= EndIndex(ch.output[o])
  BY NextStartsHere
<1>3. EndIndex(ch.output[o]) \in Nat /\ InferLen \in Nat
  BY EmitsWhatItHas, Sizes
<1> QED BY <1>1, <1>2, <1>3

\* What object p may emit when no object after it can go on.
LEMMA MayEmit ==
    ASSUME request \in Requests, NEW ch, CoreOK(ch), PlaceOK(ch), \A o \in Objects : WholeVideo(o),
           NEW p \in Objects, \A q \in Objects : q > p => ~InputReady(ch, q), Unfinished(ch, p),
           NEW n \in Nat, n <= NextSpec(ch, p).load_end
    PROVE  n <= EndIndex(ch.output[ObjectCount]) + Room((ObjectCount - p) + 1)
<1>1. ch \in ChainSet /\ ObjectCount \in Objects
  BY Sizes DEF CoreOK, FramesOK, Objects
<1>2. /\ NextSpec(ch, p).load_end \in Nat
      /\ NextSpec(ch, p).load_end <= EndIndex(ch.output[p]) + InferLen
  BY <1>1, WindowReach
<1> DEFINE k == ObjectCount - p
<1>3. k \in Nat
  BY ObjectFacts, Sizes
<1>4. EndIndex(ch.output[p]) <= EndIndex(ch.output[ObjectCount]) + Room(k)
  BY LessThanWindows
<1> HIDE DEF k
<1>5. Room(k + 1) = Room(k) + InferLen /\ Room(k) \in Nat /\ InferLen \in Nat
  BY <1>3, RoomFacts, Sizes
<1>6. EndIndex(ch.output[p]) \in Nat /\ EndIndex(ch.output[ObjectCount]) \in Nat
  BY <1>1, EmitsWhatItHas
<1>7. n <= EndIndex(ch.output[ObjectCount]) + Room(k + 1)
  BY <1>2, <1>4, <1>5, <1>6
<1> QED BY <1>7 DEF k

\* Frames are loaded for one window, when no object has its input.
LEMMA PrimedKeepsBound ==
    ASSUME request \in Requests, NEW ch, CoreOK(ch), PlaceOK(ch), BoundOK(ch), \A o \in Objects : WholeVideo(o),
           NoneReady(ch), CanPrime(ch), NEW d, Primed(ch, d, NextSpec(ch, 1).load_end)
    PROVE  BoundOK(d)
<1> DEFINE n == NextSpec(ch, 1).load_end
<1>1. ch \in ChainSet /\ 1 \in Objects /\ Unfinished(ch, 1) /\ ObjectCount \in Nat /\ ObjectCount \in Objects
  BY Sizes DEF CoreOK, FramesOK, Objects, CanPrime
<1>2. n \in Nat /\ n <= EndIndex(ch.output[ObjectCount]) + Room((ObjectCount - 1) + 1)
  <2>1. n \in Nat
    BY <1>1, WindowReach
  <2>2. n <= NextSpec(ch, 1).load_end
    BY <2>1
  <2>3. \A q \in Objects : q > 1 => ~InputReady(ch, q)
    BY DEF NoneReady
  <2> HIDE DEF n
  <2> QED BY <1>1, <2>1, <2>2, <2>3, MayEmit
<1> HIDE DEF n
<1>3. /\ d.output = ch.output /\ d.next_write = ch.next_write /\ d.mask.start = ch.mask.start
      /\ EndIndex(d.input[1]) = n /\ d.input[1].start = ch.input[1].start
      /\ \A q \in Objects : q # 1 => d.input[q] = ch.input[q]
  BY DEF Primed, Grown, n
<1>4. ASSUME NEW p \in Objects
      PROVE  EndIndex(d.input[p]) <= EndIndex(d.output[ObjectCount]) + Room((ObjectCount - p) + 2)
  <2>1. CASE p # 1
    BY <1>3, <2>1 DEF BoundOK
  <2>2. CASE p = 1
    <3> DEFINE k == (ObjectCount - 1) + 1
               z == EndIndex(ch.output[ObjectCount])
    <3>1. k \in Nat /\ k + 1 = (ObjectCount - 1) + 2 /\ z \in Nat
      BY <1>1, EmitsWhatItHas
    <3> HIDE DEF k, z
    <3>2. Room(k + 1) = Room(k) + InferLen /\ Room(k) \in Nat /\ InferLen \in Nat
      BY <3>1, RoomFacts, Sizes
    <3>3. n <= z + Room(k + 1)
      BY <1>2, <3>1, <3>2 DEF k, z
    <3> QED BY <1>3, <2>2, <3>1, <3>3 DEF z
  <2> QED BY <2>1, <2>2
<1>5. \A o \in Objects : d.next_write <= d.input[o].start /\ d.next_write <= d.output[o].start
  BY <1>3 DEF BoundOK
<1> QED BY <1>3, <1>4, <1>5 DEF BoundOK

\* What a step of the driver leaves before the flush.
StepBound(ch, e) ==
    /\ e.next_write = ch.next_write
    /\ \A o \in Objects : ch.next_write <= e.input[o].start /\ ch.next_write <= e.output[o].start
    /\ ch.next_write <= e.mask.start
    /\ \A p \in Objects : EndIndex(e.input[p]) <= EndIndex(e.output[ObjectCount]) + Room((ObjectCount - p) + 2)

\* The last object that has its input is the one that works, so that its
\* successor is short of a window.
LEMMA DidKeepsBound ==
    ASSUME request \in Requests, NEW ch, CoreOK(ch), PlaceOK(ch), BoundOK(ch), \A o \in Objects : WholeVideo(o),
           NEW o \in Objects, Selected(ch, o), NEW w, w = NextSpec(ch, o), NEW e, NEW new, Did(ch, e, o, w, new)
    PROVE  StepBound(ch, e)
<1>1. /\ ch \in ChainSet /\ Unfinished(ch, o) /\ w \in WindowSet /\ ObjectCount \in Objects
      /\ Moved(ch, e, o, w, new) /\ e \in ChainSet /\ AgreeOK(ch) /\ o \in Nat /\ ObjectCount \in Nat
  BY SelectedUnfinished, NextIsWindow, Sizes, ObjectFacts DEF CoreOK, FramesOK, Did, Moved
<1> DEFINE x == EndIndex(ch.output[ObjectCount])
           y == EndIndex(e.output[ObjectCount])
<1>2. x \in Nat /\ y \in Nat
  BY <1>1, ChainParts, CacheNumbers
<1>3. x <= y
  <2>1. CASE o = ObjectCount
    BY <1>1, <2>1 DEF Moved, Grown
  <2>2. CASE o # ObjectCount
    <3>1. e.output[ObjectCount] = ch.output[ObjectCount]
      BY <1>1, <2>2 DEF Moved
    <3> QED BY <1>2, <3>1
  <2> QED BY <2>1, <2>2
<1> HIDE DEF x, y
<1>4. ASSUME NEW q \in Objects PROVE e.input[q].start = ch.input[q].start /\ e.output[q].start = ch.output[q].start
  <2>1. e.output[q].start = ch.output[q].start
    <3>1. CASE q = o
      BY <1>1, <3>1 DEF Moved, Grown
    <3>2. CASE q # o
      BY <1>1, <3>2 DEF Moved
    <3> QED BY <3>1, <3>2
  <2>2. e.input[q].start = ch.input[q].start
    <3>1. CASE q = o + 1
      <4>1. o < ObjectCount
        BY <1>1, <3>1, ObjectFacts
      <4>2. e.input[o + 1].start = ch.input[o + 1].start
        BY <1>1, <4>1 DEF Moved, Grown
      <4> QED BY <3>1, <4>2
    <3>2. CASE q # o + 1
      BY <1>1, <3>2 DEF Moved
    <3> QED BY <3>1, <3>2
  <2> QED BY <2>1, <2>2
<1>5. ASSUME NEW q \in Objects PROVE EndIndex(e.input[q]) <= y + Room((ObjectCount - q) + 2)
  <2>1. CASE q # o + 1
    <3>1. e.input[q] = ch.input[q]
      BY <1>1, <2>1 DEF Moved
    <3>2. EndIndex(ch.input[q]) <= x + Room((ObjectCount - q) + 2)
      BY DEF BoundOK, x
    <3>3. Room((ObjectCount - q) + 2) \in Nat /\ EndIndex(ch.input[q]) \in Nat
      <4>1. (ObjectCount - q) + 2 \in Nat
        BY ObjectFacts, Sizes
      <4> QED BY <1>1, <4>1, RoomFacts, EmitsWhatItHas
    <3> QED BY <1>2, <1>3, <3>1, <3>2, <3>3
  <2>2. CASE q = o + 1
    <3>1. o < ObjectCount
      BY <1>1, <2>2, ObjectFacts
    <3>2. EndIndex(e.input[o + 1]) = StableEnd(w)
      BY <1>1, <3>1 DEF Moved, Grown
    <3>3. StableEnd(w) \in Nat /\ StableEnd(w) <= w.load_end
      <4>1. /\ StableEnd(w) \in Nat /\ StableEnd(w) <= w.commit_end /\ w.commit_end <= w.load_end
            /\ w.commit_end \in Nat /\ w.load_end \in Nat
        BY <1>1, WindowNumbers
      <4> QED BY <4>1
    <3>4. \A r \in Objects : r > o => ~InputReady(ch, r)
      BY DEF Selected
    <3> DEFINE n == StableEnd(w)
               k == (ObjectCount - o) + 1
    <3>5. n \in Nat /\ n <= NextSpec(ch, o).load_end
      BY <3>3
    <3> HIDE DEF n
    <3>6. n <= x + Room(k)
      BY <1>1, <3>4, <3>5, MayEmit DEF x
    <3>7. k = (ObjectCount - q) + 2 /\ k \in Nat
      BY <1>1, <2>2, <3>1
    <3> HIDE DEF k
    <3>8. Room(k) \in Nat
      BY <3>7, RoomFacts
    <3>9. EndIndex(e.input[q]) = n
      BY <2>2, <3>2 DEF n
    <3>10. n <= y + Room(k)
      BY <1>2, <1>3, <3>5, <3>6, <3>8
    <3> QED BY <3>7, <3>9, <3>10
  <2> QED BY <2>1, <2>2
<1>6. e.next_write = ch.next_write /\ e.mask.start = ch.mask.start
  BY <1>1 DEF Moved, MaskAfter
<1>7. \A q \in Objects : ch.next_write <= e.input[q].start /\ ch.next_write <= e.output[q].start
  BY <1>4 DEF BoundOK
<1>8. ch.next_write <= e.mask.start
  BY <1>6 DEF BoundOK
<1> QED BY <1>5, <1>6, <1>7, <1>8 DEF StepBound, y

\* The flush evicts what has been written everywhere.
LEMMA SettledIsBound ==
    ASSUME request \in Requests, request.mode = "streaming", NEW ch, NEW e, CoreOK(e), PlaceOK(e),
           \A o \in Objects : WholeVideo(o), StepBound(ch, e), NEW d, Settled(e, d)
    PROVE  BoundOK(d)
<1>1. e \in ChainSet /\ ModeOK(e) /\ AgreeOK(e) /\ ObjectCount \in Objects /\ 1 \in Objects
  BY Sizes DEF CoreOK, FramesOK, Objects
<1> DEFINE n == d.next_write
<1>2. Trimmed(e, d, n) /\ (d = e \/ FullyTrimmed(e, d, n))
  BY DEF Settled
<1>3. n = EndIndex(e.output[ObjectCount])
  <2>1. e.flush_frontier[ObjectCount] = EndIndex(e.output[ObjectCount])
    BY <1>1 DEF PlaceOK, ObjectPlace
  <2> QED BY <2>1 DEF Settled
<1>4. \A o \in Objects : EndIndex(d.input[o]) = EndIndex(e.input[o]) /\ EndIndex(d.output[o]) = EndIndex(e.output[o])
  BY <1>2 DEF Trimmed, Shrunk
<1>5. /\ \A o \in Objects : n <= d.input[o].start /\ n <= d.output[o].start
      /\ n <= d.mask.start
  <2>1. CASE d = e
    BY <2>1 DEF StepBound
  <2>2. CASE FullyTrimmed(e, d, n)
    <3>1. ASSUME NEW o \in Objects PROVE Evictable(e, o, e.input[o], n) /\ Evictable(e, o, e.output[o], n)
      <4>1. n <= EndIndex(e.output[o])
        <5>1. o <= ObjectCount
          BY ObjectFacts
        <5> QED BY <1>1, <1>3, <5>1, LaterIsBehind DEF Behind
      <4>2. /\ n \in Nat /\ EndIndex(e.output[o]) \in Nat /\ EndIndex(e.input[o]) \in Nat
            /\ EndIndex(e.output[o]) <= EndIndex(e.input[o])
        BY <1>1, <1>3, EmitsWhatItHas
      <4>3. ASSUME Unfinished(e, o) PROVE n <= NextSpec(e, o).load_start
        <5>1. EndIndex(e.output[o]) <= NextSpec(e, o).load_start
          BY <1>1, <4>3, WholeInOrder, NextStartsAfter
        <5>2. NextSpec(e, o).load_start \in Nat
          BY <1>1, <4>3, NextIsWindow, WindowNumbers
        <5> HIDE DEF n
        <5> QED BY <4>1, <4>2, <5>1, <5>2
      <4>4. n <= EndIndex(e.input[o])
        BY <4>1, <4>2
      <4> HIDE DEF n
      <4> QED BY <4>1, <4>3, <4>4 DEF Evictable
    <3>2. n <= EndIndex(e.mask)
      <4>1. n <= EndIndex(e.output[1]) /\ EndIndex(e.output[1]) \in Nat /\ n \in Nat /\ EndIndex(e.input[1]) \in Nat
            /\ EndIndex(e.output[1]) <= EndIndex(e.input[1])
        <5>1. 1 <= ObjectCount
          BY Sizes
        <5>2. EndIndex(e.output[ObjectCount]) <= EndIndex(e.output[1])
          BY <1>1, <5>1, LaterIsBehind DEF Behind
        <5> QED BY <1>1, <1>3, <5>2, EmitsWhatItHas
      <4>2. EndIndex(e.mask) = EndIndex(e.input[1])
        BY <1>1 DEF ModeOK
      <4> QED BY <4>1, <4>2
    <3> HIDE DEF n
    <3> QED BY <2>2, <3>1, <3>2 DEF FullyTrimmed
  <2> QED BY <1>2, <2>1, <2>2
<1>6. \A p \in Objects : EndIndex(d.input[p]) <= EndIndex(d.output[ObjectCount]) + Room((ObjectCount - p) + 2)
  BY <1>1, <1>4 DEF StepBound
<1> QED BY <1>1, <1>3, <1>4, <1>5, <1>6 DEF BoundOK

\* A step with its flush keeps the caches within their bounds.
LEMMA WorkKeepsBound ==
    ASSUME request \in Requests, request.mode = "streaming", NEW ch, CoreOK(ch), PlaceOK(ch), BoundOK(ch),
           \A o \in Objects : WholeVideo(o), NEW o \in Objects, Selected(ch, o), NEW w, NEW e, NEW d,
           Worked(ch, o, w, e, d)
    PROVE  BoundOK(d)
<1>1. ch \in ChainSet /\ w = NextSpec(ch, o) /\ Did(ch, e, o, w, NewFrames(ch, o, w)) /\ CoreOK(e) /\ Settled(e, d)
  BY DEF CoreOK, FramesOK, Worked
<1>2. PlaceOK(e)
  BY <1>1, WorkKeepsPlace
<1>3. StepBound(ch, e)
  BY <1>1, DidKeepsBound
<1> QED BY <1>1, <1>2, <1>3, SettledIsBound

\* Evicting makes nothing longer.
LEMMA ShrunkIsShorter ==
    ASSUME NEW S, NEW T, NEW c \in CacheOf(S), NEW d \in CacheOf(T), NEW n, Shrunk(c, d, n)
    PROVE  Len(d.frames) <= Len(c.frames)
<1>1. /\ Len(c.frames) = EndIndex(c) - c.start /\ c.start \in Nat /\ EndIndex(c) \in Nat
      /\ Len(d.frames) = EndIndex(d) - d.start /\ d.start \in Nat /\ EndIndex(d) \in Nat
  BY CacheFacts
<1>2. EndIndex(d) = EndIndex(c) /\ c.start <= d.start
  BY DEF Shrunk
<1> QED BY <1>1, <1>2

\* The length of a cache is a number.
LEMMA CacheLength ==
    ASSUME NEW S, NEW c \in CacheOf(S)
    PROVE  Len(c.frames) \in Nat
BY DEF CacheOf

\* Cutting caches leaves them small.
LEMMA TrimKeepsSmall ==
    ASSUME NEW ch \in ChainSet, Small(ch), NEW d, NEW n, Trimmed(ch, d, n)
    PROVE  Small(d)
<1>1. d \in ChainSet
  BY DEF Trimmed
<1> DEFINE most == (ObjectCount + 1) * InferLen
<1>2. most \in Nat
  BY Sizes
<1>5. \A o \in Objects : Len(ch.input[o].frames) <= most /\ Len(ch.output[o].frames) <= most
  BY Zenon DEF Small
<1> HIDE DEF most
<1>3. ASSUME NEW o \in Objects
      PROVE  Len(d.input[o].frames) <= most /\ Len(d.output[o].frames) <= most
  <2>1. /\ ch.input[o] \in Caches /\ ch.output[o] \in Caches /\ d.input[o] \in Caches /\ d.output[o] \in Caches
    BY <1>1, ChainParts
  <2>2. Shrunk(ch.input[o], d.input[o], n) /\ Shrunk(ch.output[o], d.output[o], n)
    BY DEF Trimmed
  <2>3. /\ Len(d.input[o].frames) <= Len(ch.input[o].frames)
        /\ Len(d.output[o].frames) <= Len(ch.output[o].frames)
    BY <2>1, <2>2, ShrunkIsShorter DEF Caches
  <2>4. /\ Len(d.input[o].frames) \in Nat /\ Len(ch.input[o].frames) \in Nat
        /\ Len(d.output[o].frames) \in Nat /\ Len(ch.output[o].frames) \in Nat
    BY <2>1, CacheLength DEF Caches
  <2>5. Len(ch.input[o].frames) <= most /\ Len(ch.output[o].frames) <= most
    BY <1>5
  <2> DEFINE a == Len(ch.input[o].frames)
             b == Len(ch.output[o].frames)
             x == Len(d.input[o].frames)
             y == Len(d.output[o].frames)
  <2>6. x \in Nat /\ a \in Nat /\ y \in Nat /\ b \in Nat /\ x <= a /\ y <= b /\ a <= most /\ b <= most
    BY <2>3, <2>4, <2>5
  <2> HIDE DEF a, b, x, y
  <2>7. x <= most /\ y <= most
    BY <1>2, <2>6
  <2> QED BY <2>7 DEF x, y
<1>4. Len(d.mask.frames) <= most
  <2> DEFINE S == SUBSET Objects
  <2> HIDE DEF S
  <2>1. ch.mask \in CacheOf(S) /\ d.mask \in CacheOf(S)
    BY <1>1 DEF ChainSet, S
  <2>2. Len(d.mask.frames) <= Len(ch.mask.frames)
    BY <2>1, ShrunkIsShorter DEF Trimmed
  <2>3. Len(d.mask.frames) \in Nat /\ Len(ch.mask.frames) \in Nat
    BY <2>1, CacheLength
  <2>4. Len(ch.mask.frames) <= most
    BY DEF Small, most
  <2> QED BY <1>2, <2>2, <2>3, <2>4
<1> QED BY <1>3, <1>4 DEF Small, most

\* A streamed request whose windows leave nothing out keeps to the bound while
\* it runs, and stays small.
AllWhole == request.mode = "streaming" /\ \A o \in Objects : WholeVideo(o)

BInv ==
    AllWhole => /\ status # "finished" => BoundOK(chain)
                /\ status = "finished" => Small(chain)

\* Every step keeps the caches small.
LEMMA BoundStep ==
    ASSUME GInv, BInv, GInv', [Next]_vars
    PROVE  BInv'
<1>1. CASE status # "running" \/ UNCHANGED vars
  <2>1. UNCHANGED vars
    BY <1>1, OverStays
  <2>2. request' = request /\ chain' = chain /\ status' = status
    BY <2>1 DEF vars
  <2>3. AllWhole' => AllWhole
    BY <2>2 DEF AllWhole, WholeVideo, Covered, Specs
  <2> QED BY <2>2, <2>3 DEF BInv, BoundOK, Small
<1>2. CASE status = "running" /\ Next
  <2>1. request' = request /\ (Fails \/ Loads \/ (\E o \in Objects : Works(o)) \/ Ends)
    BY <1>2, StepKinds DEF GInv
  <2>2. AllWhole' => AllWhole
    BY <2>1 DEF AllWhole, WholeVideo, Covered, Specs
  <2>3. ASSUME AllWhole
        PROVE  /\ status' # "finished" => BoundOK(chain')
               /\ status' = "finished" => Small(chain')
    <3>1. /\ chain \in ChainSet /\ request \in Requests /\ PlaceOK(chain) /\ CoreOK(chain) /\ BoundOK(chain)
          /\ request.mode = "streaming" /\ \A o \in Objects : WholeVideo(o)
      BY <1>2, <2>3 DEF GInv, FInv, FramesOK, CoreOK, BInv, AllWhole
    <3>2. CASE Fails
      BY <3>1, <3>2 DEF Fails, Failed
    <3>3. CASE Loads
      BY <3>1, <3>3, PrimedKeepsBound DEF Loads
    <3>4. CASE \E o \in Objects : Works(o)
      BY <3>1, <3>4, WorkKeepsBound DEF Works
    <3>5. CASE Ends
      <4>1. PICK m : Settled(chain, m) /\ CoreOK(m) /\ Concluded(m, chain')
        BY <3>5 DEF Ends
      <4>2. Small(chain)
        BY <3>1, BoundIsSmall
      <4>3. Small(m) /\ m \in ChainSet
        BY <3>1, <4>1, <4>2, TrimKeepsSmall DEF Settled, Trimmed
      <4>4. Small(chain')
        BY <3>1, <4>1, <4>3, TrimKeepsSmall DEF Concluded
      <4> QED BY <3>5, <4>4 DEF Ends
    <3> QED BY <2>1, <3>2, <3>3, <3>4, <3>5
  <2> QED BY <2>2, <2>3 DEF BInv, BoundOK, Small
<1> QED BY <1>1, <1>2

\* A streamed request whose scenes leave no frame out never has more frames in
\* any cache than one window for each object and one more, however long the
\* video is.
THEOREM CachesStayBounded ==
    Spec => []BoundedCaches
<1>1. Init => BInv
  BY InitIsBound DEF Init, BInv, AllWhole
<1>2. GInv /\ BInv /\ GInv' /\ [Next]_vars => BInv'
  BY BoundStep
<1>3. GInv /\ BInv => BoundedCaches
  <2> SUFFICES ASSUME GInv, BInv, AllWhole PROVE Small(chain)
    BY DEF BoundedCaches, AllWhole, Small
  <2>1. CASE status = "finished"
    BY <2>1 DEF BInv
  <2>2. CASE status # "finished"
    BY <2>2, BoundIsSmall DEF GInv, FInv, CoreOK, BInv
  <2> QED BY <2>1, <2>2
<1> QED BY <1>1, <1>2, <1>3, GInvHolds, PTL DEF Spec

=============================================================================
