--------------------------- MODULE SessionProofs ---------------------------
(***************************************************************************)
(* The life of a job on its ranks, for any degrees of parallelism, any     *)
(* plans and any number of failures: what the groups leave behind, how the *)
(* ranks end one execution of the VAE engine together, that they agree on  *)
(* the plan, and that the tiles they exchange are the ones it asks for.    *)
(***************************************************************************)
EXTENDS ParallelSession, TLAPS, FiniteSetTheorems
LOCAL INSTANCE SequencesExt
LOCAL INSTANCE FiniteSetsExt
WF == INSTANCE WellFoundedInduction

-----------------------------------------------------------------------------
(***************************************************************************)
(* Sequences without a type, and the order in which groups are created.    *)
(***************************************************************************)

\* s is a sequence of whatever it holds.
Listed(s) == s \in Seq({s[i] : i \in DOMAIN s})

\* A list has a length and a position for every number up to it.
LEMMA ListedFacts ==
    ASSUME NEW s, Listed(s)
    PROVE  Len(s) \in Nat /\ DOMAIN s = 1..Len(s)
BY DEF Listed

\* A sequence over any set is a list.
LEMMA TypedIsListed ==
    ASSUME NEW S, NEW s \in Seq(S)
    PROVE  Listed(s)
<1>1. Len(s) \in Nat /\ DOMAIN s = 1..Len(s) /\ s = [i \in 1..Len(s) |-> s[i]]
  OBVIOUS
<1>2. s \in Seq({s[i] : i \in DOMAIN s})
  BY <1>1
<1> QED BY <1>2 DEF Listed

\* Append adds one entry at the end and moves none.
LEMMA Longer ==
    ASSUME NEW s, Listed(s), NEW e
    PROVE  /\ Listed(Append(s, e))
           /\ Len(Append(s, e)) = Len(s) + 1 /\ DOMAIN Append(s, e) = 1..(Len(s) + 1)
           /\ Append(s, e)[Len(s) + 1] = e
           /\ \A i \in 1..Len(s) : Append(s, e)[i] = s[i]
<1> DEFINE S == {s[i] : i \in DOMAIN s} \cup {e}
<1>1. s \in Seq(S)
  <2>1. s \in Seq({s[i] : i \in DOMAIN s})
    BY DEF Listed
  <2>2. Len(s) \in Nat /\ DOMAIN s = 1..Len(s) /\ s = [i \in 1..Len(s) |-> s[i]]
    BY <2>1
  <2>3. \A i \in 1..Len(s) : s[i] \in S
    BY <2>2
  <2> QED BY <2>2, <2>3
<1>2. e \in S
  OBVIOUS
<1> HIDE DEF S
<1>3. Append(s, e) \in Seq(S)
  BY <1>1, <1>2
<1>4. Listed(Append(s, e))
  BY <1>3, TypedIsListed
<1> QED BY <1>1, <1>2, <1>4

\* The empty sequence is a list.
LEMMA Nothing == Listed(<<>>) /\ Len(<<>>) = 0
BY DEF Listed

\* A set of natural numbers has a least one.
LEMMA LeastNumber ==
    ASSUME NEW T, T \subseteq Nat, T # {}
    PROVE  \E n \in T : \A m \in T : n <= m
<1> DEFINE R == WF!OpToRel(<, Nat)
<1>1. WF!IsWellFoundedOn(R, Nat)
  BY WF!NatLessThanWellFounded
<1>2. \A a, b \in Nat : a < b => <<a, b>> \in R
  BY DEF WF!OpToRel
<1> HIDE DEF R
<1>3. PICK x \in T : \A y \in T : ~(<<y, x>> \in R)
  BY <1>1, WF!WFMin
<1>4. ASSUME NEW m \in T PROVE x <= m
  <2>1. x \in Nat /\ m \in Nat /\ ~(m < x)
    BY <1>2, <1>3
  <2> QED BY <2>1
<1> QED BY <1>4

\* Induction, over the numbers for which something holds.
LEMMA SetInduction ==
    ASSUME NEW S, 0 \in S, \A n \in Nat : n \in S => n + 1 \in S
    PROVE  \A n \in Nat : n \in S
<1> SUFFICES ASSUME NEW k \in Nat, k \notin S PROVE FALSE
  OBVIOUS
<1> DEFINE T == {n \in Nat : n \notin S}
<1>1. PICK n \in T : \A m \in T : n <= m
  <2>1. T \subseteq Nat /\ T # {}
    OBVIOUS
  <2> HIDE DEF T
  <2> QED BY <2>1, LeastNumber
<1>2. n # 0 /\ n - 1 \in Nat /\ n - 1 \in S
  BY <1>1
<1> QED BY <1>1, <1>2

\* A group with ranks of its own, as opposed to those of all ranks.
Sub(name) == name[1] \notin {"default", "gloo"}

\* The topology names only subgroups.
LEMMA OrderedNames ==
    ASSUME NEW j \in Jobs
    PROVE  /\ OrderedSubgroups(j.degrees) \in Seq({n \in {OrderedSubgroups(j.degrees)[i] :
                                                i \in DOMAIN OrderedSubgroups(j.degrees)} : Sub(n)})
<1> DEFINE d == j.degrees
           A == [i \in 1..d.cfg |-> <<"sp", i - 1, SpGroup(d, i - 1)>>]
           B == [i \in 1..d.sp |-> <<"cfg", i - 1, CfgGroup(d, i - 1)>>]
           C == << <<"vae", 0, VaeGroup(d)>> >>
           S == {A[i] : i \in 1..d.cfg} \cup {B[i] : i \in 1..d.sp} \cup {<<"vae", 0, VaeGroup(d)>>}
           all == (A \o B) \o C
<1>1. d.cfg \in Nat /\ d.sp \in Nat
  BY JobsAssumption
<1>2. OrderedSubgroups(d) = all
  BY DEF OrderedSubgroups
<1>3. \A n \in S : Sub(n)
  <2>1. \A i \in 1..d.cfg : A[i][1] = "sp"
    OBVIOUS
  <2>2. \A i \in 1..d.sp : B[i][1] = "cfg"
    OBVIOUS
  <2>3. <<"vae", 0, VaeGroup(d)>>[1] = "vae"
    OBVIOUS
  <2> QED BY <2>1, <2>2, <2>3 DEF Sub
<1>4. A \in Seq(S) /\ B \in Seq(S) /\ C \in Seq(S)
  <2>1. A \in Seq(S)
    <3>1. A = [i \in 1..d.cfg |-> A[i]] /\ \A i \in 1..d.cfg : A[i] \in S
      OBVIOUS
    <3> HIDE DEF A, B, S, d
    <3> QED BY <1>1, <3>1
  <2>2. B \in Seq(S)
    <3>1. B = [i \in 1..d.sp |-> B[i]] /\ \A i \in 1..d.sp : B[i] \in S
      OBVIOUS
    <3> HIDE DEF A, B, S, d
    <3> QED BY <1>1, <3>1
  <2> QED BY <2>1, <2>2
<1> HIDE DEF A, B, C, S
<1>5. /\ all \in Seq(S) /\ Len(all) \in Nat /\ DOMAIN all = 1..Len(all)
      /\ all = [i \in 1..Len(all) |-> all[i]]
  <2>1. all \in Seq(S)
    BY <1>4
  <2> HIDE DEF all
  <2> QED BY <2>1
<1>6. \A i \in 1..Len(all) : all[i] \in S
  BY <1>5
<1> HIDE DEF all
<1>7. \A i \in 1..Len(all) : all[i] \in {n \in {all[k] : k \in DOMAIN all} : Sub(n)}
  BY <1>3, <1>5, <1>6
<1> QED BY <1>2, <1>5, <1>7

\* What is created of them is some of them, in their order.
LEMMA CreatedNames ==
    ASSUME NEW j \in Jobs
    PROVE  Listed(Subgroups(j)) /\ \A k \in DOMAIN Subgroups(j) : Sub(Subgroups(j)[k])
<1> DEFINE all == OrderedSubgroups(j.degrees)
           S == {n \in {all[i] : i \in DOMAIN all} : Sub(n)}
<1>1. all \in Seq(S)
  BY OrderedNames
<1> HIDE DEF all
<1>2. Len(all) \in Nat /\ DOMAIN all = 1..Len(all) /\ \A i \in 1..Len(all) : all[i] \in S
  BY <1>1
<1> HIDE DEF S
<1> DEFINE Rule(f, n) == f = [i \in 0..n |->
              IF i = 0 THEN <<>>
              ELSE IF Owned(all[i], N) THEN Append(f[i - 1], all[i]) ELSE f[i - 1]]
           Exists == {n \in Nat : \E f : Rule(f, n)}
<1>3. \A n \in Nat : n \in Exists
  <2>1. 0 \in Exists
    <3> DEFINE f == [i \in 0..0 |-> <<>>]
    <3>1. Rule(f, 0)
      OBVIOUS
    <3> QED BY <3>1
  <2>2. ASSUME NEW n \in Nat, n \in Exists PROVE n + 1 \in Exists
    <3>1. PICK f : Rule(f, n)
      BY <2>2
    <3> DEFINE g == [i \in 0..(n + 1) |->
                       IF i <= n THEN f[i]
                       ELSE IF Owned(all[n + 1], N) THEN Append(f[n], all[n + 1]) ELSE f[n]]
               h == [i \in 0..(n + 1) |->
                       IF i = 0 THEN <<>>
                       ELSE IF Owned(all[i], N) THEN Append(g[i - 1], all[i]) ELSE g[i - 1]]
    <3>2. ASSUME NEW i \in 0..(n + 1) PROVE g[i] = h[i]
      <4>1. CASE i = 0
        <5>1. f[0] = <<>>
          BY <3>1
        <5> QED BY <4>1, <5>1
      <4>2. CASE i # 0 /\ i <= n
        <5>1. f[i] = IF Owned(all[i], N) THEN Append(f[i - 1], all[i]) ELSE f[i - 1]
          <6>1. i \in 0..n
            BY <4>2
          <6> QED BY <3>1, <4>2, <6>1
        <5>2. i - 1 \in 0..(n + 1) /\ i - 1 <= n
          BY <4>2
        <5> QED BY <4>2, <5>1, <5>2
      <4>3. CASE i = n + 1
        <5>1. i - 1 = n /\ n \in 0..(n + 1) /\ ~(i <= n) /\ i # 0
          BY <4>3
        <5> QED BY <4>3, <5>1
      <4> QED BY <4>1, <4>2, <4>3
    <3>3. g = h
      BY <3>2
    <3>4. Rule(g, n + 1)
      BY <3>3
    <3> HIDE DEF g
    <3> QED BY <3>4
  <2> HIDE DEF Exists
  <2> QED BY <2>1, <2>2, SetInduction
<1> DEFINE created == CHOOSE f : Rule(f, Len(all))
<1>4. Rule(created, Len(all))
  BY <1>2, <1>3
<1>5. Subgroups(j) = created[Len(all)]
  BY DEF Subgroups, all
<1> HIDE DEF created
<1> DEFINE Good == {n \in Nat : n <= Len(all) => created[n] \in Seq(S)}
<1>6. \A n \in Nat : n \in Good
  <2>1. 0 \in Good
    BY <1>2, <1>4
  <2>2. ASSUME NEW n \in Nat, n \in Good PROVE n + 1 \in Good
    <3> SUFFICES ASSUME n + 1 <= Len(all) PROVE created[n + 1] \in Seq(S)
      OBVIOUS
    <3>1. created[n] \in Seq(S) /\ n + 1 \in 0..Len(all) /\ all[n + 1] \in S /\ (n + 1) - 1 = n /\ n + 1 # 0
      BY <1>2, <2>2
    <3>2. created[n + 1] = IF Owned(all[n + 1], N) THEN Append(created[n], all[n + 1]) ELSE created[n]
      BY <1>4, <3>1
    <3> QED BY <3>1, <3>2
  <2> HIDE DEF Good
  <2> QED BY <2>1, <2>2, SetInduction
<1>7. Subgroups(j) \in Seq(S)
  BY <1>2, <1>5, <1>6
<1>8. \A x \in S : Sub(x)
  BY DEF S
<1> DEFINE w == Subgroups(j)
<1> HIDE DEF w
<1>9. w \in Seq(S)
  BY <1>7 DEF w
<1>10. Len(w) \in Nat /\ DOMAIN w = 1..Len(w) /\ w = [i \in 1..Len(w) |-> w[i]]
  BY <1>9
<1>11. w \in Seq({w[i] : i \in DOMAIN w})
  BY <1>10
<1>12. \A k \in DOMAIN w : Sub(w[k])
  BY <1>8, <1>9, <1>10
<1> QED BY <1>11, <1>12 DEF w, Listed

\* The creation of the gloo group is the last one of a job, and happens once.
LEMMA OrderFacts ==
    ASSUME NEW j \in Jobs
    PROVE  LET o == BootOrders[j]
           IN /\ Len(o) \in Nat \ {0} /\ DOMAIN o = 1..Len(o)
              /\ o[Len(o)] = <<"gloo">>
              /\ \A k \in 1..(Len(o) - 1) : o[k] = <<"default">> \/ Sub(o[k])
<1> DEFINE A == IF j.preexisting THEN <<>> ELSE << <<"default">> >>
           B == Subgroups(j)
           C == << <<"gloo">> >>
           S == {A[i] : i \in DOMAIN A} \cup {B[i] : i \in DOMAIN B} \cup {<<"gloo">>}
           o == (A \o B) \o C
<1>1. BootOrders[j] = o
  BY DEF BootOrders, BootOrder
<1>2. A \in Seq(S) /\ (\A i \in 1..Len(A) : A[i] = <<"default">>)
  <2>1. CASE j.preexisting
    BY <2>1
  <2>2. CASE ~j.preexisting
    BY <2>2
  <2> QED BY <2>1, <2>2
<1>3. B \in Seq(S) /\ (\A i \in 1..Len(B) : Sub(B[i]))
  <2>1. Listed(B) /\ \A k \in DOMAIN B : Sub(B[k])
    BY CreatedNames
  <2>2. Len(B) \in Nat /\ DOMAIN B = 1..Len(B) /\ B = [i \in 1..Len(B) |-> B[i]]
    BY <2>1 DEF Listed
  <2>3. \A i \in 1..Len(B) : B[i] \in S
    BY <2>2
  <2> HIDE DEF B
  <2> QED BY <2>1, <2>2, <2>3
<1>4. C \in Seq(S) /\ Len(C) = 1 /\ C[1] = <<"gloo">>
  OBVIOUS
<1> HIDE DEF A, B, C, S
<1>5. /\ A \o B \in Seq(S) /\ Len(A \o B) = Len(A) + Len(B)
      /\ \A i \in 1..Len(A) : (A \o B)[i] = A[i]
      /\ \A i \in 1..Len(B) : (A \o B)[Len(A) + i] = B[i]
  BY <1>2, <1>3
<1> DEFINE D == A \o B
<1> HIDE DEF D
<1>6. D \in Seq(S) /\ Len(D) \in Nat /\ o = D \o C
  BY <1>5 DEF D
<1>7. /\ o \in Seq(S) /\ Len(o) = Len(D) + 1 /\ o[Len(D) + 1] = <<"gloo">>
      /\ \A i \in 1..Len(D) : o[i] = D[i]
  <2>1. D \in Seq(S) /\ Len(D) \in Nat /\ C \in Seq(S)
    BY <1>4, <1>6
  <2>2. /\ D \o C \in Seq(S) /\ Len(D \o C) = Len(D) + Len(C)
        /\ \A i \in 1..Len(D) : (D \o C)[i] = D[i]
        /\ \A i \in 1..Len(C) : (D \o C)[Len(D) + i] = C[i]
    BY <2>1
  <2> HIDE DEF o
  <2> QED BY <1>4, <1>6, <2>2
<1>8. ASSUME NEW k \in 1..Len(D) PROVE D[k] = <<"default">> \/ Sub(D[k])
  <2>1. CASE k <= Len(A)
    BY <1>2, <1>5, <2>1 DEF D
  <2>2. CASE k > Len(A)
    <3>1. k - Len(A) \in 1..Len(B) /\ Len(A) + (k - Len(A)) = k
      BY <1>2, <1>3, <1>5, <2>2 DEF D
    <3>2. D[k] = B[k - Len(A)]
      BY <1>5, <3>1 DEF D
    <3> QED BY <1>3, <3>1, <3>2
  <2> QED BY <1>2, <2>1, <2>2
<1> HIDE DEF o
<1>9. Len(o) = Len(D) + 1 /\ DOMAIN o = 1..Len(o) /\ Len(o) - 1 = Len(D)
  BY <1>6, <1>7
<1> QED BY <1>1, <1>6, <1>7, <1>8, <1>9

-----------------------------------------------------------------------------
(***************************************************************************)
(* The groups of a rank.                                                   *)
(***************************************************************************)

\* The order in which the ranks of this job create their groups.
Order == BootOrders[job]

RuntimeShape ==
  /\ job \in Jobs /\ faults \in 0..MaxFaults
  /\ stage \in [Ranks -> Stages] /\ context \in [Ranks -> BOOLEAN]
  /\ parallel \in [Ranks -> BOOLEAN] /\ cpuGroup \in [Ranks -> BOOLEAN]
  /\ failure \in [Ranks -> BOOLEAN]
  /\ DOMAIN entered = Ranks /\ DOMAIN alive = Ranks /\ DOMAIN held = Ranks
  /\ \A r \in Ranks : Listed(entered[r])

\* A rank enters the creations of the groups in their order, and is up after the last one.
EnteredOK(r) ==
  /\ \A i \in 1..Len(entered[r]) : i <= Len(Order) => entered[r][i] = Order[i]
  /\ stage[r] = "booting" => Len(entered[r]) < Len(Order)
  /\ stage[r] = "creating" => Len(entered[r]) \in 1..Len(Order)
  /\ stage[r] \in {"booted", "up", "syncing", "closing", "leaving"} => Len(entered[r]) >= Len(Order)

\* Every communicator of a rank is recorded where its destruction will find it.
RecordedOK(r) ==
  /\ <<"default">> \notin held[r] /\ <<"gloo">> \notin held[r]
  /\ alive[r] \ {<<"default">>} = held[r] \cup DestroyedCpu(r)
  /\ job.preexisting => <<"default">> \in alive[r]
  /\ stage[r] = "leaving" => held[r] = {} /\ ~parallel[r]
  /\ stage[r] \in Gone =>
        /\ alive[r] = IF job.preexisting THEN {<<"default">>} ELSE {}
        /\ held[r] = {} /\ ~parallel[r] /\ ~cpuGroup[r] /\ ~context[r]

GInv == RuntimeShape /\ \A r \in Ranks : EnteredOK(r) /\ RecordedOK(r)

\* What a step of r leaves alone: the other ranks.
Apart(r) ==
  /\ job' = job
  /\ \A q \in Ranks \ {r} :
       /\ stage'[q] = stage[q] /\ entered'[q] = entered[q] /\ alive'[q] = alive[q]
       /\ held'[q] = held[q] /\ parallel'[q] = parallel[q] /\ cpuGroup'[q] = cpuGroup[q]
       /\ context'[q] = context[q]

\* A step that touches only rank r leaves what is known of the others.
LEMMA ApartKeeps ==
    ASSUME NEW r \in Ranks, NEW q \in Ranks \ {r}, Apart(r), EnteredOK(q), RecordedOK(q)
    PROVE  EnteredOK(q)' /\ RecordedOK(q)'
BY DEF Apart, EnteredOK, RecordedOK, Order, DestroyedCpu, Gone

\* The names of the default group, the gloo group and the subgroups differ.
LEMMA NameFacts ==
    /\ <<"default">> # <<"gloo">> /\ ~Sub(<<"default">>) /\ ~Sub(<<"gloo">>)
    /\ <<"default">>[1] = "default" /\ <<"gloo">>[1] = "gloo"
    /\ \A name : Sub(name) => name[1] \notin {"default", "gloo"} /\ name # <<"default">> /\ name # <<"gloo">>
BY DEF Sub

\* A rank enters the creation of its next group.
LEMMA JoinsKeeps == ASSUME GInv, NEW r \in Ranks, Joins(r) PROVE GInv'
<1>1. RuntimeShape /\ EnteredOK(r) /\ RecordedOK(r)
  BY DEF GInv
<1> DEFINE n == Len(entered[r])
           name == NextGroup(r)
<1>2. /\ stage[r] = "booting" /\ entered' = [entered EXCEPT ![r] = Append(@, name)]
      /\ stage' = [stage EXCEPT ![r] = "creating"]
      /\ context' = [context EXCEPT ![r] = name /= <<"default">>]
      /\ UNCHANGED <<job, alive, held, parallel, cpuGroup, failure, faults>>
  BY DEF Joins, Enter
<1>3. name = Order[n + 1]
  BY DEF NextGroup, Order
<1> HIDE DEF name
<1>4. Listed(entered[r]) /\ n \in Nat /\ DOMAIN entered = Ranks
  BY <1>1, ListedFacts DEF RuntimeShape
<1>5. /\ entered'[r] = Append(entered[r], name)
      /\ Listed(entered'[r]) /\ Len(entered'[r]) = n + 1 /\ entered'[r][n + 1] = name
      /\ \A i \in 1..n : entered'[r][i] = entered[r][i]
  BY <1>2, <1>4, Longer
<1>6. Apart(r) /\ stage'[r] = "creating"
  BY <1>1, <1>2 DEF Apart, RuntimeShape
<1>7. RuntimeShape'
  <2>1. \A q \in Ranks : Listed(entered'[q])
    BY <1>1, <1>5, <1>6 DEF RuntimeShape, Apart
  <2> QED BY <1>1, <1>2, <2>1 DEF RuntimeShape, Stages
<1>8. Len(Order) \in Nat
  BY <1>1, OrderFacts DEF Order, RuntimeShape
<1>9. EnteredOK(r)'
  <2>1. n < Len(Order) /\ Order' = Order
    BY <1>1, <1>2 DEF EnteredOK, Order
  <2>2. ASSUME NEW i \in 1..Len(entered'[r]) PROVE entered'[r][i] = Order[i]
    <3>1. i \in 1..n \/ i = n + 1
      BY <1>4, <1>5
    <3> QED BY <1>1, <1>3, <1>4, <1>5, <1>8, <2>1, <3>1 DEF EnteredOK
  <2> QED BY <1>4, <1>5, <1>6, <1>8, <2>1, <2>2 DEF EnteredOK
<1>10. RecordedOK(r)'
  BY <1>1, <1>2, <1>6 DEF RecordedOK, DestroyedCpu, Gone
<1> QED BY <1>6, <1>7, <1>9, <1>10, ApartKeeps DEF GInv

\* A creation returns, on the members and on the other ranks.
LEMMA JoinedKeeps == ASSUME GInv, NEW r \in Ranks, Joined(r) PROVE GInv'
<1>1. RuntimeShape /\ EnteredOK(r) /\ RecordedOK(r)
  BY DEF GInv
<1> DEFINE n == Len(entered[r])
           name == entered[r][n]
           member == IsMember(r, name)
<1>2. /\ stage[r] = "creating" /\ UNCHANGED <<job, entered, failure, faults>>
      /\ alive' = [alive EXCEPT ![r] = IF member THEN @ \cup {name} ELSE @]
      /\ held' = [held EXCEPT ![r] = IF name[1] \notin {"default", "gloo"} /\ member
                                     THEN @ \cup {name} ELSE @]
      /\ context' = [context EXCEPT ![r] = TRUE]
      /\ parallel' = [parallel EXCEPT ![r] = @ \/ n + 1 = Len(BootOrders[job])]
      /\ cpuGroup' = [cpuGroup EXCEPT ![r] = @ \/ name[1] = "gloo"]
      /\ stage' = [stage EXCEPT ![r] = IF name[1] = "gloo" THEN "booted" ELSE "booting"]
  BY DEF Joined
<1>3. n \in 1..Len(Order) /\ name = Order[n]
  <2>1. n \in 1..Len(Order)
    BY <1>1, <1>2 DEF EnteredOK
  <2>2. Listed(entered[r])
    BY <1>1 DEF RuntimeShape
  <2>3. n \in Nat
    BY <2>2, ListedFacts
  <2>4. Len(Order) \in Nat
    BY <1>1, OrderFacts DEF Order, RuntimeShape
  <2> QED BY <1>1, <2>1, <2>3, <2>4 DEF EnteredOK
<1>4. /\ Len(Order) \in Nat \ {0} /\ Order[Len(Order)] = <<"gloo">>
      /\ \A k \in 1..(Len(Order) - 1) : Order[k] = <<"default">> \/ Sub(Order[k])
  BY <1>1, OrderFacts DEF Order, RuntimeShape
<1>5. \/ n = Len(Order) /\ name = <<"gloo">>
      \/ n < Len(Order) /\ (name = <<"default">> \/ Sub(name))
  BY <1>3, <1>4
<1>6. member <=> (name[1] \in {"default", "gloo"} \/ r \in RanksOf(name))
  BY DEF IsMember
<1> HIDE DEF n, name, member
<1>7. Apart(r)
  BY <1>1, <1>2 DEF Apart, RuntimeShape
<1>8. RuntimeShape'
  BY <1>1, <1>2 DEF RuntimeShape, Stages
<1>9. DestroyedCpu(r) \subseteq {<<"gloo">>}
  BY DEF DestroyedCpu
<1>10. /\ alive'[r] = (IF member THEN alive[r] \cup {name} ELSE alive[r])
       /\ held'[r] = IF name[1] \notin {"default", "gloo"} /\ member THEN held[r] \cup {name} ELSE held[r]
       /\ cpuGroup'[r] = (cpuGroup[r] \/ name[1] = "gloo")
       /\ stage'[r] = IF name[1] = "gloo" THEN "booted" ELSE "booting"
       /\ entered' = entered /\ Order' = Order /\ job' = job
  BY <1>1, <1>2 DEF RuntimeShape, Order
<1>11. DestroyedCpu(r)' = IF cpuGroup'[r] THEN {<<"gloo">>} ELSE {}
  BY DEF DestroyedCpu
<1>12. EnteredOK(r)' /\ RecordedOK(r)'
  <2>1. CASE name = <<"gloo">> /\ n = Len(Order)
    <3>1. /\ member /\ name[1] = "gloo" /\ stage'[r] = "booted" /\ cpuGroup'[r]
          /\ held'[r] = held[r] /\ alive'[r] = alive[r] \cup {<<"gloo">>}
      BY <1>6, <1>10, <2>1, NameFacts
    <3>2. EnteredOK(r)'
      BY <1>1, <1>2, <1>4, <1>10, <2>1, <3>1 DEF EnteredOK, n
    <3>3. alive'[r] \ {<<"default">>} = held'[r] \cup DestroyedCpu(r)'
      BY <1>1, <1>9, <1>11, <3>1, NameFacts DEF RecordedOK
    <3> QED BY <1>1, <1>10, <3>1, <3>2, <3>3 DEF RecordedOK, Gone
  <2>2. CASE name = <<"default">> /\ n < Len(Order)
    <3>1. /\ member /\ stage'[r] = "booting" /\ cpuGroup'[r] = cpuGroup[r]
          /\ held'[r] = held[r] /\ alive'[r] = alive[r] \cup {<<"default">>}
      BY <1>1, <1>6, <1>10, <2>2, NameFacts DEF RuntimeShape
    <3>2. EnteredOK(r)'
      BY <1>1, <1>2, <1>4, <1>10, <2>2, <3>1 DEF EnteredOK, n
    <3>3. alive'[r] \ {<<"default">>} = held'[r] \cup DestroyedCpu(r)'
      BY <1>1, <1>11, <3>1 DEF RecordedOK, DestroyedCpu
    <3> QED BY <1>1, <1>10, <3>1, <3>2, <3>3 DEF RecordedOK, Gone
  <2>3. CASE Sub(name) /\ n < Len(Order)
    <3>1. /\ name[1] \notin {"default", "gloo"} /\ name # <<"default">> /\ name # <<"gloo">>
      BY <2>3, NameFacts
    <3>2. /\ stage'[r] = "booting" /\ cpuGroup'[r] = cpuGroup[r]
          /\ held'[r] = (IF member THEN held[r] \cup {name} ELSE held[r])
          /\ alive'[r] = IF member THEN alive[r] \cup {name} ELSE alive[r]
      BY <1>1, <1>10, <3>1 DEF RuntimeShape
    <3>3. EnteredOK(r)'
      BY <1>1, <1>2, <1>4, <1>10, <2>3, <3>2 DEF EnteredOK, n
    <3>4. alive'[r] \ {<<"default">>} = held'[r] \cup DestroyedCpu(r)'
      BY <1>1, <1>11, <3>1, <3>2 DEF RecordedOK, DestroyedCpu
    <3> QED BY <1>1, <1>10, <3>1, <3>2, <3>3, <3>4 DEF RecordedOK, Gone
  <2> QED BY <1>5, <2>1, <2>2, <2>3
<1> QED BY <1>7, <1>8, <1>12, ApartKeeps DEF GInv

\* Undoing a set-up leaves what somebody else has made, and nothing more.
LEMMA UndoKeeps ==
    ASSUME GInv, NEW r \in Ranks, Undo(r), faults' \in 0..MaxFaults
    PROVE  GInv'
<1>1. RuntimeShape /\ EnteredOK(r) /\ RecordedOK(r)
  BY DEF GInv
<1>2. /\ stage' = [stage EXCEPT ![r] = "failed"] /\ UNCHANGED <<job, entered>>
      /\ alive' = [alive EXCEPT ![r] = @ \ (held[r] \cup DestroyedCpu(r) \cup DestroyedDefault)]
      /\ held' = [held EXCEPT ![r] = {}] /\ parallel' = [parallel EXCEPT ![r] = FALSE]
      /\ cpuGroup' = [cpuGroup EXCEPT ![r] = FALSE] /\ context' = [context EXCEPT ![r] = FALSE]
      /\ failure' = [failure EXCEPT ![r] = TRUE]
  BY DEF Undo, DestroyedByContext
<1>3. Apart(r)
  BY <1>1, <1>2 DEF Apart, RuntimeShape
<1>4. RuntimeShape'
  BY <1>1, <1>2 DEF RuntimeShape, Stages
<1>5. /\ stage'[r] = "failed" /\ held'[r] = {} /\ ~parallel'[r] /\ ~cpuGroup'[r] /\ ~context'[r]
      /\ alive'[r] = alive[r] \ (held[r] \cup DestroyedCpu(r) \cup DestroyedDefault)
  BY <1>1, <1>2 DEF RuntimeShape
<1>6. DestroyedDefault = IF job.preexisting THEN {} ELSE {<<"default">>}
  BY DEF DestroyedDefault
<1>7. DestroyedCpu(r) \subseteq {<<"gloo">>} /\ DestroyedCpu(r)' = {}
  BY <1>5 DEF DestroyedCpu
<1>8. alive'[r] = IF job.preexisting THEN {<<"default">>} ELSE {}
  BY <1>1, <1>5, <1>6, <1>7, NameFacts DEF RecordedOK
<1>9. RecordedOK(r)'
  BY <1>2, <1>5, <1>7, <1>8 DEF RecordedOK, Gone
<1>10. EnteredOK(r)'
  BY <1>1, <1>2, <1>5 DEF EnteredOK, Order
<1> QED BY <1>3, <1>4, <1>9, <1>10, ApartKeeps DEF GInv

\* Entering a barrier, or going on without one, touches no group.
LEMMA MovesKeeps ==
    ASSUME GInv, NEW r \in Ranks, NEW to \in {"up", "syncing", "closing"},
           stage[r] \in {"booted", "up", "syncing"}, stage' = [stage EXCEPT ![r] = to],
           entered' = entered \/ \E name : Enter(r, name),
           UNCHANGED <<job, alive, held, parallel, cpuGroup, context>>,
           failure' \in [Ranks -> BOOLEAN], faults' \in 0..MaxFaults
    PROVE  GInv'
<1>1. RuntimeShape /\ EnteredOK(r) /\ RecordedOK(r)
  BY DEF GInv
<1>2. Listed(entered[r]) /\ Len(entered[r]) \in Nat /\ DOMAIN entered = Ranks
  BY <1>1, ListedFacts DEF RuntimeShape
<1>3. /\ DOMAIN entered' = Ranks /\ \A q \in Ranks \ {r} : entered'[q] = entered[q]
      /\ Listed(entered'[r]) /\ Len(entered'[r]) \in {Len(entered[r]), Len(entered[r]) + 1}
      /\ \A i \in 1..Len(entered[r]) : entered'[r][i] = entered[r][i]
  <2>1. CASE entered' = entered
    BY <1>2, <2>1
  <2>2. CASE \E name : Enter(r, name)
    <3>1. PICK name : entered' = [entered EXCEPT ![r] = Append(@, name)]
      BY <2>2 DEF Enter
    <3>2. entered'[r] = Append(entered[r], name)
      BY <1>2, <3>1
    <3> QED BY <1>2, <3>1, <3>2, Longer
  <2> QED BY <2>1, <2>2
<1>4. Apart(r) /\ stage'[r] = to
  BY <1>1, <1>3 DEF Apart, RuntimeShape
<1>5. RuntimeShape'
  <2>1. \A q \in Ranks : Listed(entered'[q])
    BY <1>1, <1>3 DEF RuntimeShape
  <2>2. stage' \in [Ranks -> Stages]
    BY <1>1 DEF RuntimeShape, Stages
  <2> QED BY <1>1, <1>3, <2>1, <2>2 DEF RuntimeShape
<1>6. EnteredOK(r)'
  <2>1. Len(Order) \in Nat /\ Order' = Order /\ Len(entered[r]) >= Len(Order)
    BY <1>1, OrderFacts DEF Order, RuntimeShape, EnteredOK
  <2>2. ASSUME NEW i \in 1..Len(entered'[r]), i <= Len(Order) PROVE entered'[r][i] = Order[i]
    <3>1. i \in 1..Len(entered[r])
      BY <1>2, <1>3, <2>1, <2>2
    <3> QED BY <1>1, <1>3, <2>2, <3>1 DEF EnteredOK
  <2> QED BY <1>2, <1>3, <1>4, <2>1, <2>2 DEF EnteredOK
<1>7. RecordedOK(r)'
  BY <1>1, <1>4 DEF RecordedOK, DestroyedCpu, Gone
<1> QED BY <1>4, <1>5, <1>6, <1>7, ApartKeeps DEF GInv

\* A rank destroys the groups of its ParallelContext.
LEMMA ClosesGroupsKeeps == ASSUME GInv, NEW r \in Ranks, ClosesGroups(r) PROVE GInv'
<1>1. RuntimeShape /\ EnteredOK(r) /\ RecordedOK(r)
  BY DEF GInv
<1>2. /\ stage[r] = "closing" /\ alive' = [alive EXCEPT ![r] = @ \ held[r]]
      /\ held' = [held EXCEPT ![r] = {}] /\ parallel' = [parallel EXCEPT ![r] = FALSE]
      /\ entered' = [entered EXCEPT ![r] = Append(@, <<"farewell">>)]
      /\ stage' = [stage EXCEPT ![r] = "leaving"] /\ UNCHANGED <<job, cpuGroup, context>>
  BY DEF ClosesGroups, Enter
<1>3. failure' \in [Ranks -> BOOLEAN] /\ faults' \in 0..MaxFaults
  <2>1. CASE UNCHANGED <<failure, faults>>
    BY <1>1, <2>1 DEF RuntimeShape
  <2>2. CASE Budget /\ Spend /\ failure' = [failure EXCEPT ![r] = TRUE]
    BY <1>1, <2>2, JobsAssumption DEF RuntimeShape, Budget, Spend
  <2> QED BY <2>1, <2>2 DEF ClosesGroups
<1>4. Listed(entered[r]) /\ Len(entered[r]) \in Nat /\ DOMAIN entered = Ranks
  BY <1>1, ListedFacts DEF RuntimeShape
<1>5. /\ entered'[r] = Append(entered[r], <<"farewell">>)
      /\ Listed(entered'[r]) /\ Len(entered'[r]) = Len(entered[r]) + 1
      /\ \A i \in 1..Len(entered[r]) : entered'[r][i] = entered[r][i]
  BY <1>2, <1>4, Longer
<1>6. Apart(r) /\ stage'[r] = "leaving"
  BY <1>1, <1>2 DEF Apart, RuntimeShape
<1>7. RuntimeShape'
  <2>1. \A q \in Ranks : Listed(entered'[q])
    BY <1>1, <1>5, <1>6 DEF RuntimeShape, Apart
  <2> QED BY <1>1, <1>2, <1>3, <2>1 DEF RuntimeShape, Stages
<1>8. EnteredOK(r)'
  <2>1. Len(Order) \in Nat /\ Order' = Order /\ Len(entered[r]) >= Len(Order)
    BY <1>1, <1>2, OrderFacts DEF Order, RuntimeShape, EnteredOK
  <2>2. ASSUME NEW i \in 1..Len(entered'[r]), i <= Len(Order) PROVE entered'[r][i] = Order[i]
    <3>1. i \in 1..Len(entered[r])
      BY <1>4, <1>5, <2>1, <2>2
    <3> QED BY <1>1, <1>5, <2>2, <3>1 DEF EnteredOK
  <2> QED BY <1>4, <1>5, <1>6, <2>1, <2>2 DEF EnteredOK
<1>9. /\ held'[r] = {} /\ ~parallel'[r] /\ alive'[r] = alive[r] \ held[r]
      /\ DestroyedCpu(r)' = DestroyedCpu(r) /\ DestroyedCpu(r) \subseteq {<<"gloo">>}
  BY <1>1, <1>2 DEF RuntimeShape, DestroyedCpu
<1>10. RecordedOK(r)'
  BY <1>1, <1>2, <1>6, <1>9 DEF RecordedOK, Gone
<1> QED BY <1>6, <1>7, <1>8, <1>10, ApartKeeps DEF GInv

\* A rank destroys what is left, the default group last.
LEMMA LeavesKeeps == ASSUME GInv, NEW r \in Ranks, Leaves(r) PROVE GInv'
<1>1. RuntimeShape /\ EnteredOK(r) /\ RecordedOK(r)
  BY DEF GInv
<1>2. /\ stage[r] = "leaving" /\ stage' = [stage EXCEPT ![r] = "closed"]
      /\ failure' = failure \/ failure' = [failure EXCEPT ![r] = TRUE]
      /\ alive' = [alive EXCEPT ![r] = @ \ (DestroyedCpu(r) \cup DestroyedDefault)]
      /\ cpuGroup' = [cpuGroup EXCEPT ![r] = FALSE] /\ context' = [context EXCEPT ![r] = FALSE]
      /\ UNCHANGED <<job, entered, held, parallel, faults>>
  BY DEF Leaves, Synced
<1>3. Apart(r)
  BY <1>1, <1>2 DEF Apart, RuntimeShape
<1>4. RuntimeShape'
  BY <1>1, <1>2 DEF RuntimeShape, Stages
<1>5. /\ stage'[r] = "closed" /\ held'[r] = {} /\ ~parallel'[r] /\ ~cpuGroup'[r] /\ ~context'[r]
      /\ alive'[r] = alive[r] \ (DestroyedCpu(r) \cup DestroyedDefault) /\ held[r] = {}
  BY <1>1, <1>2 DEF RuntimeShape, RecordedOK
<1>6. DestroyedDefault = IF job.preexisting THEN {} ELSE {<<"default">>}
  BY DEF DestroyedDefault
<1>7. DestroyedCpu(r) \subseteq {<<"gloo">>} /\ DestroyedCpu(r)' = {}
  BY <1>5 DEF DestroyedCpu
<1>8. alive'[r] = IF job.preexisting THEN {<<"default">>} ELSE {}
  BY <1>1, <1>5, <1>6, <1>7, NameFacts DEF RecordedOK
<1>9. RecordedOK(r)'
  BY <1>2, <1>5, <1>7, <1>8 DEF RecordedOK, Gone
<1>10. EnteredOK(r)'
  BY <1>1, <1>2, <1>5 DEF EnteredOK, Order
<1> QED BY <1>3, <1>4, <1>9, <1>10, ApartKeeps DEF GInv

-----------------------------------------------------------------------------
(***************************************************************************)
(* One execution of the engine.                                            *)
(***************************************************************************)

\* The plan that the owner's metadata decode to.
ThePlan == DecodePlan(Encodings[given[Owner].plan])

\* The phase of the k-th collective, the same on every rank that reaches it.
PhaseAt(k) == IF k <= Len(Opening) THEN Opening[k].phase ELSE Scripts[ThePlan][k].phase

\* What r signs.
Signed(r) == <<given[r].plan /= NotAPlan, given[r].size,
               IF given[r].plan = NotAPlan THEN <<>> ELSE Encodings[given[r].plan]>>

\* What all ranks conclude from the k-th collective.
AgreeAt(k) ==
  LET mine == log[Owner][k].sign
  IN /\ mine[1]
     /\ \A q \in Ranks : log[q][k].sign[2] = mine[2]
     /\ \A q \in Ranks : log[q][k].sign[1] => log[q][k].sign[3] = mine[3]
FlaggedAt(k) == {q \in Ranks : log[q][k].bad}
VerdictAt(k) ==
  IF PhaseAt(k) = "signature"
  THEN IF AgreeAt(k) THEN Running ELSE [kind |-> "raised", phase |-> "plan", ranks |-> Ranks]
  ELSE IF FlaggedAt(k) /= {}
  THEN [kind |-> "raised", phase |-> Reported(PhaseAt(k)), ranks |-> FlaggedAt(k)]
  ELSE IF PhaseAt(k) = "drain" THEN [Running EXCEPT !.kind = "returned"] ELSE Running

\* Everybody has contributed to the k-th collective.
Held(k) == \A q \in Ranks : Len(log[q]) >= k
Passed(k) == Held(k) /\ VerdictAt(k) = Running

EngineShape ==
  /\ DOMAIN given = Ranks /\ DOMAIN agreed = Ranks /\ DOMAIN outcome = Ranks /\ DOMAIN log = Ranks
  /\ pc \in [Ranks -> Nat \ {0}]
  /\ waiting \in [Ranks -> BOOLEAN] /\ sending \in [Ranks -> BOOLEAN]
  /\ given[Owner].plan \in Plans
  /\ announced \in {<<>>, Encodings[given[Owner].plan]}
  /\ \A r \in Ranks :
       /\ Listed(log[r]) /\ DOMAIN outcome[r] = {"kind", "phase", "ranks"}
       /\ outcome[r].kind \in {"unused", "running", "returned", "raised", "lost", "escaped"}

\* How far a rank is, and how many collectives it has entered.
PlaceOK(r) ==
  /\ outcome[r].kind = "unused" <=> VaeGroup(job.degrees) # WorldRanks(N)
  /\ Len(log[r]) \in {pc[r] - 1, pc[r]}
  /\ waiting[r] \/ sending[r] => outcome[r].kind = "running"
  /\ sending[r] => ~waiting[r] /\ PhaseAt(pc[r]) \notin {"plan", "signature", "metadata"}
  /\ outcome[r].kind = "running" => outcome[r] = Running /\ (waiting[r] <=> Len(log[r]) = pc[r])
  /\ outcome[r].kind \in {"returned", "raised", "lost"} => Len(log[r]) = pc[r]
  /\ outcome[r].kind = "escaped" => Len(log[r]) = pc[r] - 1
  /\ stage[r] \in {"syncing", "closing", "leaving", "closed"} => outcome[r].kind # "running"

\* What a rank has contributed.
EntriesOK(r) ==
  /\ \A i \in 1..Len(log[r]) :
       /\ log[r][i].phase = PhaseAt(i) /\ log[r][i].bad \in BOOLEAN
       /\ PhaseAt(i) = "signature" => log[r][i].sign = Signed(r) /\ ~log[r][i].bad
  /\ Len(log[r]) >= 3 /\ ~log[r][3].bad => agreed[r] = ThePlan

\* Nobody goes on without the others, or ends otherwise than they will.
MeetOK(r) ==
  /\ \A k \in 1..(pc[r] - 1) : Passed(k)
  /\ outcome[r].kind \in {"returned", "raised"} =>
       \A k \in Nat \ {0} : k = pc[r] => Held(k) /\ outcome[r] = VerdictAt(k)

EInv == EngineShape /\ \A r \in Ranks : PlaceOK(r) /\ EntriesOK(r) /\ MeetOK(r)

\* The first three steps of every script.
LEMMA OpeningFacts ==
    /\ Len(Opening) = 3 /\ Opening[1].phase = "plan" /\ Opening[2].phase = "signature"
    /\ Opening[3].phase = "metadata"
BY DEF Opening, Step

\* The owner of the tensor is a rank.
LEMMA OwnerIsRank == Owner \in Ranks
BY EngineAssumption

\* Plans the callers supply are plans.
LEMMA RealPlans == NotAPlan \notin Plans /\ NotAPlan \notin VAETaskPlan
<1>1. \A p \in VAETaskPlan : p.operation # "none"
  BY DEF VAETaskPlan
<1> QED BY <1>1, EngineAssumption DEF NotAPlan

\* The metadata of a plan that may be supplied are decoded as the table says.
LEMMA DecodedIs == \A p \in Plans : Decoded[Encodings[p]] = DecodePlan(Encodings[p])
BY DEF Decoded

\* A rank that has come past the metadata works by the plan of the owner.
LEMMA WhereItIs ==
    ASSUME EInv, NEW r \in Ranks
    PROVE  At(r).phase = PhaseAt(pc[r])
<1>1. EngineShape /\ MeetOK(r) /\ EntriesOK(r) /\ pc[r] \in Nat \ {0}
  BY DEF EInv, EngineShape
<1>2. CASE pc[r] <= Len(Opening)
  BY <1>2 DEF At, PhaseAt
<1>3. CASE ~(pc[r] <= Len(Opening))
  <2>1. 3 \in 1..(pc[r] - 1)
    BY <1>1, <1>3, OpeningFacts
  <2>2. Held(3) /\ VerdictAt(3) = Running
    BY <1>1, <2>1 DEF MeetOK, Passed
  <2>3. PhaseAt(3) = "metadata"
    BY OpeningFacts DEF PhaseAt
  <2>4. FlaggedAt(3) = {}
    BY <2>2, <2>3 DEF VerdictAt, Running
  <2>5. Len(log[r]) >= 3 /\ ~log[r][3].bad
    BY <2>2, <2>4 DEF Held, FlaggedAt
  <2>6. agreed[r] = ThePlan
    BY <1>1, <2>5 DEF EntriesOK
  <2> QED BY <1>3, <2>6 DEF At, PhaseAt
<1> QED BY <1>2, <1>3

\* The verdict of a rank is the verdict on the collective it is in.
LEMMA VerdictIs ==
    ASSUME EInv, NEW r \in Ranks, waiting[r]
    PROVE  /\ Verdict(r) = VerdictAt(pc[r]) /\ Round(r) = pc[r]
           /\ (Complete(r) <=> Held(pc[r]))
<1>1. Len(log[r]) = pc[r]
  BY DEF EInv, PlaceOK
<1>2. At(r).phase = PhaseAt(pc[r])
  BY WhereItIs
<1>3. Round(r) = pc[r] /\ (Complete(r) <=> Held(pc[r]))
  BY <1>1 DEF Round, Complete, Held
<1>4. Flagged(r) = FlaggedAt(pc[r])
  BY <1>3 DEF Flagged, FlaggedAt
<1>5. SignaturesAgree(r) <=> AgreeAt(pc[r])
  BY <1>3 DEF SignaturesAgree, AgreeAt, Signature
<1> QED BY <1>2, <1>3, <1>4, <1>5 DEF Verdict, VerdictAt

\* Contributions are only ever added.
Grows ==
  \A q \in Ranks : /\ Len(log'[q]) >= Len(log[q])
                   /\ \A i \in 1..Len(log[q]) : log'[q][i] = log[q][i]

\* A collective that all ranks have entered keeps its verdict.
LEMMA PassedStays ==
    ASSUME EInv, Grows, given' = given, NEW k \in Nat \ {0}, Held(k)
    PROVE  Held(k)' /\ VerdictAt(k)' = VerdictAt(k)
<1>1. \A q \in Ranks : Len(log[q]) \in Nat
  BY ListedFacts DEF EInv, EngineShape
<1>2. \A q \in Ranks : k \in 1..Len(log[q])
  BY <1>1 DEF Held
<1>3. \A q \in Ranks : log'[q][k] = log[q][k]
  BY <1>2 DEF Grows
<1>4. PhaseAt(k)' = PhaseAt(k)
  BY DEF PhaseAt, ThePlan
<1>5. FlaggedAt(k)' = FlaggedAt(k)
  BY <1>3 DEF FlaggedAt
<1>6. AgreeAt(k)' <=> AgreeAt(k)
  BY <1>3, OwnerIsRank, SMTT(60) DEF AgreeAt
<1>7. VerdictAt(k)' = VerdictAt(k)
  BY <1>4, <1>5, <1>6 DEF VerdictAt
<1>8. Held(k)'
  <2>1. ASSUME NEW q \in Ranks PROVE Len(log'[q]) >= k
    <3>1. k \in DOMAIN log[q] /\ Len(log'[q]) >= Len(log[q]) /\ Len(log[q]) >= k
      BY <1>1, <1>2, ListedFacts DEF Grows, Held, EInv, EngineShape
    <3>2. Len(log[q]) \in Nat
      BY <1>1
    <3> QED BY <3>1, <3>2
  <2> QED BY <2>1 DEF Held
<1> QED BY <1>7, <1>8

\* The kinds of steps of the engine: a rank contributes, ...
Contributes(r, phase, bad, sign) ==
  /\ ~waiting[r] /\ outcome[r].kind = "running" /\ (stage[r] = "up" \/ sending[r])
  /\ log' = [log EXCEPT ![r] = Append(@, [phase |-> phase, bad |-> bad, sign |-> sign])]
  /\ waiting' = [waiting EXCEPT ![r] = TRUE]
  /\ sending' \in {sending, [sending EXCEPT ![r] = FALSE]} /\ ~sending'[r]
  /\ bad \in BOOLEAN
  /\ phase = "signature" => sign = Signed(r) /\ ~bad
  /\ DOMAIN agreed' = Ranks /\ \A q \in Ranks \ {r} : agreed'[q] = agreed[q]
  /\ agreed'[r] \in {agreed[r], ThePlan}
  /\ phase = "metadata" /\ ~bad =>
        agreed'[r] = ThePlan /\ announced' = Encodings[given[Owner].plan]
  /\ announced' \in {announced, Encodings[given[Owner].plan]}
  /\ UNCHANGED <<given, pc, outcome>>

\* ... waits for its tile to be taken, ...
StartsToSend(r) ==
  /\ ~waiting[r] /\ outcome[r].kind = "running" /\ At(r).phase \notin {"plan", "signature", "metadata"}
  /\ sending' = [sending EXCEPT ![r] = TRUE]
  /\ UNCHANGED <<given, agreed, pc, log, waiting, announced, outcome>>

\* ... leaves a collective, ...
GoesOn(r) ==
  /\ waiting[r] /\ Complete(r)
  /\ outcome' = [outcome EXCEPT ![r] = Verdict(r)]
  /\ waiting' = [waiting EXCEPT ![r] = FALSE]
  /\ pc' = [pc EXCEPT ![r] = IF Verdict(r) = Running THEN @ + 1 ELSE @]
  /\ UNCHANGED <<given, agreed, log, sending, announced>>

\* ... gives up, ...
GivesUp(r) ==
  /\ waiting[r]
  /\ outcome' = [outcome EXCEPT ![r].kind = "lost"]
  /\ waiting' = [waiting EXCEPT ![r] = FALSE]
  /\ UNCHANGED <<given, agreed, pc, log, sending, announced>>

\* ... or leaves without a word.
Abandons(r) ==
  /\ ~waiting[r] /\ ~sending[r] /\ outcome[r].kind = "running"
  /\ outcome' = [outcome EXCEPT ![r].kind = "escaped"]
  /\ UNCHANGED <<given, agreed, pc, log, waiting, sending, announced>>

\* Every step of the engine enters a collective, starts an unbuffered
\* send, leaves a collective, gives up or leaves without a word.
LEMMA EngineKinds ==
    ASSUME EInv, NEW r \in Ranks, EngineStep(r)
    PROVE  \/ \E bad, sign : Contributes(r, At(r).phase, bad, sign)
           \/ StartsToSend(r) \/ GoesOn(r) \/ (GivesUp(r) /\ LosesPeer(r)) \/ Abandons(r)
<1>0. DOMAIN agreed = Ranks
  BY DEF EInv, EngineShape
<1>1. ASSUME NEW bad \in BOOLEAN, Posts(r, bad), Working(r), At(r).phase \notin {"signature", "metadata"},
             UNCHANGED <<given, agreed, pc, sending, announced, outcome>>
      PROVE  \E b, s : Contributes(r, At(r).phase, b, s)
  <2>1. Contributes(r, At(r).phase, bad, <<>>)
    BY <1>0, <1>1 DEF Posts, Post, Working, Contributes
  <2> QED BY <2>1
<1>2. ASSUME ChecksPlan(r) PROVE \E b, s : Contributes(r, At(r).phase, b, s)
  <2>1. PICK bad \in BOOLEAN : Posts(r, bad)
    BY <1>2 DEF ChecksPlan, Succeeds, Raises
  <2> QED BY <1>1, <1>2, <2>1 DEF ChecksPlan, Runs
<1>3. ASSUME Signs(r) PROVE \E b, s : Contributes(r, At(r).phase, b, s)
  <2>1. Contributes(r, At(r).phase, FALSE, Signed(r))
    BY <1>0, <1>3 DEF Signs, Runs, Post, Working, Contributes, Signed
  <2> QED BY <2>1
<1>4. ASSUME Announces(r) PROVE \E b, s : Contributes(r, At(r).phase, b, s)
  <2> DEFINE p == Decoded[announced']
             fits == /\ p /= NotAPlan
                     /\ MembersOK(p, Owner, Ranks)
                     /\ given[r].plan \in {NotAPlan, p}
  <2>1. /\ Working(r) /\ At(r).phase = "metadata"
        /\ r = Owner \/ announced /= <<>>
        /\ announced' = IF r = Owner THEN Encodings[given[r].plan] ELSE announced
        /\ agreed' = [agreed EXCEPT ![r] = IF fits THEN p ELSE @]
        /\ \/ Posts(r, ~fits)
           \/ fits /\ Posts(r, TRUE)
        /\ UNCHANGED <<given, pc, sending, outcome>>
    BY <1>4 DEF Announces, Runs, Raises
  <2>2. announced' = Encodings[given[Owner].plan]
    BY <2>1 DEF EInv, EngineShape
  <2>3. p = ThePlan
    BY <2>2, DecodedIs DEF ThePlan, EInv, EngineShape
  <2> HIDE DEF fits, p
  <2>4. DOMAIN agreed = Ranks
    BY DEF EInv, EngineShape
  <2>5. CASE fits
    <3>1. /\ DOMAIN agreed' = Ranks /\ \A q \in Ranks \ {r} : agreed'[q] = agreed[q]
          /\ agreed'[r] = ThePlan
      BY <2>1, <2>3, <2>4, <2>5
    <3>2. PICK bad \in BOOLEAN : Posts(r, bad)
      BY <2>1, <2>5
    <3>3. Contributes(r, At(r).phase, bad, <<>>)
      BY <2>1, <2>2, <3>1, <3>2 DEF Posts, Post, Working, Contributes
    <3> QED BY <3>3
  <2>6. CASE ~fits
    <3>1. /\ DOMAIN agreed' = Ranks /\ \A q \in Ranks \ {r} : agreed'[q] = agreed[q]
          /\ agreed'[r] = agreed[r]
      BY <2>1, <2>4, <2>6
    <3>2. Posts(r, TRUE)
      BY <2>1, <2>6
    <3>3. Contributes(r, At(r).phase, TRUE, <<>>)
      BY <2>1, <2>2, <3>1, <3>2 DEF Posts, Post, Working, Contributes
    <3> QED BY <3>3
  <2> QED BY <2>5, <2>6
<1>5. ASSUME Materializes(r) PROVE \E b, s : Contributes(r, At(r).phase, b, s)
  <2>1. PICK bad \in BOOLEAN : Posts(r, bad)
    BY <1>5 DEF Materializes, Succeeds, Raises
  <2> QED BY <1>1, <1>5, <2>1 DEF Materializes, Runs
<1>6. ASSUME Executes(r) PROVE \E b, s : Contributes(r, At(r).phase, b, s)
  <2>1. PICK bad \in BOOLEAN : Posts(r, bad)
    BY <1>6 DEF Executes, Succeeds, Raises
  <2> QED BY <1>1, <1>6, <2>1 DEF Executes, Runs
<1>7. ASSUME Merges(r) PROVE \E b, s : Contributes(r, At(r).phase, b, s)
  <2>1. PICK bad \in BOOLEAN : Posts(r, bad)
    BY <1>7 DEF Merges, Succeeds, Raises
  <2> QED BY <1>1, <1>7, <2>1 DEF Merges, Runs
<1>8. ASSUME Drains(r) PROVE \E b, s : Contributes(r, At(r).phase, b, s)
  <2>1. PICK bad \in BOOLEAN : Posts(r, bad)
    BY <1>8 DEF Drains, Succeeds, Raises
  <2> QED BY <1>1, <1>8, <2>1 DEF Drains, Runs
<1>9. ASSUME NEW to, NEW data, NEW out, Sends(r, to, data, out), Working(r),
             At(r).phase \notin {"plan", "signature", "metadata"}, UNCHANGED <<given, agreed, pc, announced, outcome>>
      PROVE  (\E b, s : Contributes(r, At(r).phase, b, s)) \/ StartsToSend(r)
  <2>1. CASE eager
    BY <1>1, <1>9, <2>1 DEF Sends
  <2>2. CASE ~eager
    BY <1>9, <2>2 DEF Sends, StartsToSend, Working
  <2> QED BY <2>1, <2>2
<1>10. ASSUME Scatters(r) PROVE (\E b, s : Contributes(r, At(r).phase, b, s)) \/ StartsToSend(r)
  <2>1. /\ Working(r) /\ At(r).phase \notin {"plan", "signature", "metadata"}
        /\ UNCHANGED <<given, agreed, pc, announced, outcome>>
    BY <1>10 DEF Scatters, Runs
  <2>2. \/ NoTransfer(r) \/ Receives(r, Owner) \/ Sends(r, TaskAt(r).rank, prepared, FALSE)
    BY <1>10 DEF Scatters
  <2> QED BY <1>1, <1>9, <2>1, <2>2 DEF NoTransfer, Receives
<1>11. ASSUME Gathers(r) PROVE (\E b, s : Contributes(r, At(r).phase, b, s)) \/ StartsToSend(r)
  <2>1. /\ Working(r) /\ At(r).phase \notin {"plan", "signature", "metadata"}
        /\ UNCHANGED <<given, agreed, pc, announced, outcome>>
    BY <1>11 DEF Gathers, Runs
  <2>2. \/ NoTransfer(r) \/ Receives(r, TaskAt(r).rank) \/ Sends(r, Owner, output[r], TRUE)
    BY <1>11 DEF Gathers
  <2> QED BY <1>1, <1>9, <2>1, <2>2 DEF NoTransfer, Receives
<1>12. ASSUME SendTaken(r) PROVE \E b, s : Contributes(r, At(r).phase, b, s)
  <2>1. /\ sending[r] /\ Posts(r, FALSE) /\ sending' = [sending EXCEPT ![r] = FALSE]
        /\ UNCHANGED <<given, agreed, pc, announced, outcome>>
    BY <1>12 DEF SendTaken
  <2>2. /\ ~waiting[r] /\ outcome[r].kind = "running" /\ sending \in [Ranks -> BOOLEAN]
        /\ PhaseAt(pc[r]) \notin {"plan", "signature", "metadata"}
    BY <2>1 DEF EInv, PlaceOK, EngineShape
  <2>3. At(r).phase \notin {"plan", "signature", "metadata"} /\ ~sending'[r]
    BY <2>1, <2>2, WhereItIs
  <2>4. Contributes(r, At(r).phase, FALSE, <<>>)
    BY <1>0, <2>1, <2>2, <2>3 DEF Posts, Post, Contributes
  <2> QED BY <2>4
<1>13. ASSUME Syncs(r) PROVE GoesOn(r)
  BY <1>13 DEF Syncs, GoesOn
<1>14. ASSUME LosesPeer(r) PROVE GivesUp(r) /\ LosesPeer(r)
  BY <1>14 DEF LosesPeer, GivesUp
<1>15. ASSUME TransferFails(r) \/ TimesOut(r) PROVE \E b, s : Contributes(r, At(r).phase, b, s)
  <2>1. /\ sending[r] \/ Working(r)
        /\ sending' = [sending EXCEPT ![r] = FALSE] /\ Posts(r, TRUE)
        /\ UNCHANGED <<given, agreed, pc, announced, outcome>>
    BY <1>15 DEF TransferFails, TimesOut, Raises, Deserted, Awaits, Runs
  <2>2. /\ ~waiting[r] /\ outcome[r].kind = "running" /\ sending \in [Ranks -> BOOLEAN]
        /\ sending[r] => PhaseAt(pc[r]) # "signature"
    BY <2>1 DEF EInv, PlaceOK, EngineShape, Working
  <2>3. At(r).phase # "signature" /\ ~sending'[r]
    <3>1. CASE sending[r]
      BY <2>1, <2>2, <3>1, WhereItIs
    <3>2. CASE ~sending[r]
      <4>1. At(r).phase \in {"metadata", "scatter", "gather"}
        BY <1>15, <3>2 DEF TransferFails, TimesOut, Deserted, Awaits, Runs
      <4> QED BY <2>1, <2>2, <4>1
    <3> QED BY <3>1, <3>2
  <2>4. Contributes(r, At(r).phase, TRUE, <<>>)
    BY <1>0, <2>1, <2>2, <2>3 DEF Posts, Post, Working, Contributes
  <2> QED BY <2>4
<1>16. ASSUME Escapes(r) PROVE Abandons(r)
  BY <1>16 DEF Escapes, Working, Abandons
<1> QED BY <1>2, <1>3, <1>4, <1>5, <1>6, <1>7, <1>8, <1>10, <1>11, <1>12, <1>13, <1>14, <1>15, <1>16
    DEF EngineStep

\* The invariant speaks of r's own state, and of what is stable of the others'.
LEMMA OthersKeep ==
    ASSUME EInv, Grows, given' = given, job' = job, NEW q \in Ranks,
           outcome'[q] = outcome[q], pc'[q] = pc[q], log'[q] = log[q], waiting'[q] = waiting[q],
           sending'[q] = sending[q], agreed'[q] = agreed[q],
           stage'[q] \in {"syncing", "closing", "leaving", "closed"} => outcome[q].kind # "running"
    PROVE  PlaceOK(q)' /\ EntriesOK(q)' /\ MeetOK(q)'
<1>1. PlaceOK(q) /\ EntriesOK(q) /\ MeetOK(q) /\ pc[q] \in Nat \ {0}
  BY DEF EInv, EngineShape
<1>2. \A k : PhaseAt(k)' = PhaseAt(k)
  BY DEF PhaseAt, ThePlan
<1>3. PlaceOK(q)'
  BY <1>1, <1>2 DEF PlaceOK
<1>4. EntriesOK(q)'
  <2>1. ThePlan' = ThePlan /\ Signed(q)' = Signed(q)
    BY DEF ThePlan, Signed
  <2> QED BY <1>1, <1>2, <2>1 DEF EntriesOK
<1>5. MeetOK(q)'
  <2>1. ASSUME NEW k \in 1..(pc'[q] - 1) PROVE Passed(k)'
    <3>1. k \in Nat \ {0} /\ Passed(k)
      BY <1>1, <2>1 DEF MeetOK
    <3> QED BY <3>1, PassedStays DEF Passed
  <2>2. ASSUME outcome'[q].kind \in {"returned", "raised"}, NEW k \in Nat \ {0}, k = pc'[q]
        PROVE  Held(k)' /\ outcome'[q] = VerdictAt(k)'
    <3>1. Held(k) /\ outcome[q] = VerdictAt(k)
      BY <1>1, <2>2 DEF MeetOK
    <3> QED BY <3>1, PassedStays
  <2> QED BY <2>1, <2>2 DEF MeetOK
<1> QED BY <1>3, <1>4, <1>5

\* A step that leaves the engine alone, as those of the set-up and the take-down.
LEMMA EngineUntouched ==
    ASSUME EInv, UNCHANGED engineVars, job' = job,
           \A q \in Ranks : stage'[q] \in {"syncing", "closing", "leaving", "closed"} =>
                              outcome[q].kind # "running"
    PROVE  EInv'
<1>1. /\ given' = given /\ agreed' = agreed /\ pc' = pc /\ log' = log /\ waiting' = waiting
      /\ sending' = sending /\ announced' = announced /\ outcome' = outcome
  BY DEF engineVars
<1>2. EngineShape'
  BY <1>1 DEF EInv, EngineShape
<1>3. Grows
  <2>1. \A q \in Ranks : Len(log[q]) \in Nat
    BY ListedFacts DEF EInv, EngineShape
  <2> QED BY <1>1, <2>1 DEF Grows
<1>4. ASSUME NEW q \in Ranks PROVE PlaceOK(q)' /\ EntriesOK(q)' /\ MeetOK(q)'
  BY <1>1, <1>3, OthersKeep
<1> QED BY <1>2, <1>4 DEF EInv

\* A verdict is a whole outcome.
LEMMA VerdictShape ==
    ASSUME NEW k
    PROVE  /\ DOMAIN VerdictAt(k) = {"kind", "phase", "ranks"}
           /\ VerdictAt(k).kind \in {"running", "returned", "raised"}
           /\ VerdictAt(k).kind = "running" <=> VerdictAt(k) = Running
BY DEF VerdictAt, Running

\* A rank ends the body of its step and enters the all_gather.
LEMMA ContributesKeeps ==
    ASSUME EInv, NEW r \in Ranks, NEW bad, NEW sign, Contributes(r, At(r).phase, bad, sign),
           UNCHANGED <<job, stage>>
    PROVE  EInv'
<1> DEFINE n == Len(log[r])
           e == [phase |-> At(r).phase, bad |-> bad, sign |-> sign]
<1>1. EngineShape /\ PlaceOK(r) /\ EntriesOK(r) /\ MeetOK(r)
  BY DEF EInv
<1>2. /\ ~waiting[r] /\ outcome[r].kind = "running" /\ log' = [log EXCEPT ![r] = Append(@, e)]
      /\ waiting' = [waiting EXCEPT ![r] = TRUE] /\ ~sending'[r]
      /\ sending' \in {sending, [sending EXCEPT ![r] = FALSE]}
      /\ bad \in BOOLEAN /\ (At(r).phase = "signature" => sign = Signed(r) /\ ~bad)
      /\ DOMAIN agreed' = Ranks /\ (\A q \in Ranks \ {r} : agreed'[q] = agreed[q])
      /\ agreed'[r] \in {agreed[r], ThePlan}
      /\ (At(r).phase = "metadata" /\ ~bad => agreed'[r] = ThePlan)
      /\ announced' \in {announced, Encodings[given[Owner].plan]}
      /\ given' = given /\ pc' = pc /\ outcome' = outcome /\ job' = job /\ stage' = stage
  BY DEF Contributes
<1>3. At(r).phase = PhaseAt(pc[r]) /\ e.phase = At(r).phase /\ e.bad = bad /\ e.sign = sign
  BY WhereItIs
<1> HIDE DEF e
<1>4. pc[r] \in Nat \ {0} /\ n \in Nat /\ n = pc[r] - 1 /\ Listed(log[r]) /\ DOMAIN log = Ranks
  BY <1>1, <1>2, ListedFacts DEF EngineShape, PlaceOK
<1>5. /\ log'[r] = Append(log[r], e) /\ Listed(log'[r]) /\ Len(log'[r]) = n + 1
      /\ log'[r][n + 1] = e /\ \A i \in 1..n : log'[r][i] = log[r][i]
  BY <1>2, <1>4, Longer
<1>6. /\ DOMAIN log' = Ranks /\ (\A q \in Ranks \ {r} : log'[q] = log[q])
      /\ (\A q \in Ranks : Listed(log[q]) /\ Len(log[q]) \in Nat)
  BY <1>1, <1>2, ListedFacts DEF EngineShape
<1> HIDE DEF n
<1>7. Grows
  <2>1. ASSUME NEW q \in Ranks
        PROVE  Len(log'[q]) >= Len(log[q]) /\ \A i \in 1..Len(log[q]) : log'[q][i] = log[q][i]
    <3>1. CASE q = r
      BY <1>4, <1>5, <3>1 DEF n
    <3>2. CASE q # r
      BY <1>6, <3>2
    <3> QED BY <3>1, <3>2
  <2> QED BY <2>1 DEF Grows
<1>8. EngineShape'
  <2>1. sending' \in [Ranks -> BOOLEAN] /\ waiting' \in [Ranks -> BOOLEAN]
    BY <1>1, <1>2 DEF EngineShape
  <2>2. \A q \in Ranks : Listed(log'[q])
    BY <1>5, <1>6
  <2>3. announced' \in {<<>>, Encodings[given'[Owner].plan]}
    BY <1>1, <1>2 DEF EngineShape
  <2> QED BY <1>1, <1>2, <1>6, <2>1, <2>2, <2>3 DEF EngineShape
<1>9. ASSUME NEW q \in Ranks \ {r} PROVE PlaceOK(q)' /\ EntriesOK(q)' /\ MeetOK(q)'
  <2>1. /\ waiting'[q] = waiting[q] /\ sending'[q] = sending[q] /\ agreed'[q] = agreed[q]
        /\ log'[q] = log[q]
    BY <1>1, <1>2, <1>6 DEF EngineShape
  <2>2. stage'[q] \in {"syncing", "closing", "leaving", "closed"} => outcome[q].kind # "running"
    BY <1>2 DEF EInv, PlaceOK
  <2> QED BY <1>2, <1>7, <2>1, <2>2, OthersKeep
<1>10. (\A k : PhaseAt(k)' = PhaseAt(k)) /\ ThePlan' = ThePlan /\ Signed(r)' = Signed(r)
  BY <1>2 DEF PhaseAt, ThePlan, Signed
<1>11. PlaceOK(r)'
  <2>1. waiting'[r]
    BY <1>1, <1>2 DEF EngineShape
  <2> QED BY <1>1, <1>2, <1>4, <1>5, <2>1 DEF PlaceOK
<1>12. EntriesOK(r)'
  <2>1. ASSUME NEW i \in 1..Len(log'[r])
        PROVE  /\ log'[r][i].phase = PhaseAt(i)' /\ log'[r][i].bad \in BOOLEAN
               /\ PhaseAt(i)' = "signature" => log'[r][i].sign = Signed(r)' /\ ~log'[r][i].bad
    <3>1. CASE i \in 1..n
      <4>1. log'[r][i] = log[r][i] /\ i \in 1..Len(log[r])
        BY <1>5, <3>1 DEF n
      <4> QED BY <1>1, <1>10, <4>1 DEF EntriesOK
    <3>2. CASE i = n + 1
      <4>1. i = pc[r] /\ log'[r][i] = e
        BY <1>4, <1>5, <3>2
      <4> QED BY <1>2, <1>3, <1>10, <4>1
    <3> QED BY <1>4, <1>5, <3>1, <3>2
  <2>2. ASSUME Len(log'[r]) >= 3, ~log'[r][3].bad PROVE agreed'[r] = ThePlan'
    <3>1. CASE n >= 3
      <4>1. log'[r][3] = log[r][3] /\ Len(log[r]) >= 3
        BY <1>4, <1>5, <3>1 DEF n
      <4> QED BY <1>1, <1>2, <1>10, <2>2, <4>1 DEF EntriesOK
    <3>2. CASE n = 2
      <4>1. pc[r] = 3 /\ log'[r][3] = e
        BY <1>4, <1>5, <3>2
      <4>2. PhaseAt(3) = "metadata"
        BY OpeningFacts DEF PhaseAt
      <4> QED BY <1>2, <1>3, <1>10, <2>2, <4>1, <4>2
    <3> QED BY <1>4, <1>5, <2>2, <3>1, <3>2
  <2> QED BY <2>1, <2>2 DEF EntriesOK
<1>13. MeetOK(r)'
  <2>1. ASSUME NEW k \in 1..(pc'[r] - 1) PROVE Passed(k)'
    <3>1. k \in Nat \ {0} /\ Passed(k)
      BY <1>1, <1>2, <1>4, <2>1 DEF MeetOK
    <3> QED BY <1>2, <1>7, <3>1, PassedStays DEF Passed
  <2> QED BY <1>2, <2>1 DEF MeetOK
<1> QED BY <1>8, <1>9, <1>11, <1>12, <1>13 DEF EInv

\* A rank starts to wait for the receiver of its tile.
LEMMA StartsToSendKeeps ==
    ASSUME EInv, NEW r \in Ranks, StartsToSend(r), UNCHANGED <<job, stage>>
    PROVE  EInv'
<1>1. EngineShape /\ PlaceOK(r) /\ EntriesOK(r) /\ MeetOK(r)
  BY DEF EInv
<1>2. /\ ~waiting[r] /\ outcome[r].kind = "running" /\ sending' = [sending EXCEPT ![r] = TRUE]
      /\ given' = given /\ agreed' = agreed /\ pc' = pc /\ log' = log /\ waiting' = waiting
      /\ announced' = announced /\ outcome' = outcome /\ job' = job /\ stage' = stage
  BY DEF StartsToSend
<1>3. PhaseAt(pc[r]) \notin {"plan", "signature", "metadata"}
  BY WhereItIs DEF StartsToSend
<1>4. Grows
  <2>1. \A q \in Ranks : Len(log[q]) \in Nat
    BY <1>1, ListedFacts DEF EngineShape
  <2> QED BY <1>2, <2>1 DEF Grows
<1>5. EngineShape'
  BY <1>1, <1>2 DEF EngineShape
<1>6. ASSUME NEW q \in Ranks \ {r} PROVE PlaceOK(q)' /\ EntriesOK(q)' /\ MeetOK(q)'
  <2>1. sending'[q] = sending[q]
    BY <1>1, <1>2 DEF EngineShape
  <2>2. stage'[q] \in {"syncing", "closing", "leaving", "closed"} => outcome[q].kind # "running"
    BY <1>2 DEF EInv, PlaceOK
  <2> QED BY <1>2, <1>4, <2>1, <2>2, OthersKeep
<1>7. (\A k : PhaseAt(k)' = PhaseAt(k)) /\ ThePlan' = ThePlan /\ Signed(r)' = Signed(r)
  BY <1>2 DEF PhaseAt, ThePlan, Signed
<1>8. PlaceOK(r)'
  BY <1>1, <1>2, <1>3, <1>7 DEF PlaceOK
<1>9. EntriesOK(r)'
  BY <1>1, <1>2, <1>7 DEF EntriesOK
<1>10. MeetOK(r)'
  <2>1. ASSUME NEW k \in 1..(pc'[r] - 1) PROVE Passed(k)'
    <3>1. pc[r] \in Nat \ {0}
      BY <1>1 DEF EngineShape
    <3>2. k \in Nat \ {0} /\ Passed(k)
      BY <1>1, <1>2, <2>1, <3>1 DEF MeetOK
    <3> QED BY <1>2, <1>4, <3>2, PassedStays DEF Passed
  <2> QED BY <1>2, <2>1 DEF MeetOK
<1> QED BY <1>5, <1>6, <1>8, <1>9, <1>10 DEF EInv

\* All ranks have contributed: the rank reads the verdict and goes on or ends.
LEMMA GoesOnKeeps ==
    ASSUME EInv, NEW r \in Ranks, GoesOn(r), UNCHANGED <<job, stage>>
    PROVE  EInv'
<1> DEFINE v == VerdictAt(pc[r])
<1>1. EngineShape /\ PlaceOK(r) /\ EntriesOK(r) /\ MeetOK(r)
  BY DEF EInv
<1>2. waiting[r] /\ Verdict(r) = v /\ Held(pc[r])
  BY VerdictIs DEF GoesOn
<1>3. /\ outcome' = [outcome EXCEPT ![r] = v] /\ waiting' = [waiting EXCEPT ![r] = FALSE]
      /\ pc' = [pc EXCEPT ![r] = IF v = Running THEN @ + 1 ELSE @]
      /\ given' = given /\ agreed' = agreed /\ log' = log /\ sending' = sending
      /\ announced' = announced /\ job' = job /\ stage' = stage
  BY <1>2 DEF GoesOn
<1>4. /\ DOMAIN v = {"kind", "phase", "ranks"} /\ v.kind \in {"running", "returned", "raised"}
      /\ (v.kind = "running" <=> v = Running)
  BY VerdictShape
<1>5. \A q \in Ranks : Len(log[q]) \in Nat
  BY <1>1, ListedFacts DEF EngineShape
<1>6. Grows
  BY <1>3, <1>5 DEF Grows
<1>7. pc[r] \in Nat \ {0} /\ Len(log[r]) = pc[r] /\ outcome[r].kind = "running" /\ ~sending[r]
  BY <1>1, <1>2 DEF EngineShape, PlaceOK
<1>8. PICK p \in Nat \ {0} : p = pc[r]
  BY <1>7
<1>9. v = VerdictAt(p) /\ Held(p)
  BY <1>2, <1>8
<1>10. PICK w : w = v
  OBVIOUS
<1> HIDE DEF v
<1>11. /\ outcome'[r] = w /\ ~waiting'[r] /\ pc'[r] = (IF w = Running THEN p + 1 ELSE p)
       /\ \A q \in Ranks \ {r} : outcome'[q] = outcome[q] /\ waiting'[q] = waiting[q] /\ pc'[q] = pc[q]
  BY <1>1, <1>3, <1>8, <1>10 DEF EngineShape
<1>12. EngineShape'
  <2>1. pc' \in [Ranks -> Nat \ {0}] /\ waiting' \in [Ranks -> BOOLEAN]
    BY <1>1, <1>3, <1>7 DEF EngineShape
  <2>2. ASSUME NEW q \in Ranks
        PROVE  /\ DOMAIN outcome'[q] = {"kind", "phase", "ranks"}
               /\ outcome'[q].kind \in {"unused", "running", "returned", "raised", "lost", "escaped"}
    BY <1>1, <1>4, <1>10, <1>11 DEF EngineShape
  <2> QED BY <1>1, <1>3, <2>1, <2>2 DEF EngineShape
<1>13. ASSUME NEW q \in Ranks \ {r} PROVE PlaceOK(q)' /\ EntriesOK(q)' /\ MeetOK(q)'
  <2>1. stage'[q] \in {"syncing", "closing", "leaving", "closed"} => outcome[q].kind # "running"
    BY <1>3 DEF EInv, PlaceOK
  <2> QED BY <1>3, <1>6, <1>11, <2>1, OthersKeep
<1>14. (\A k : PhaseAt(k)' = PhaseAt(k)) /\ ThePlan' = ThePlan /\ Signed(r)' = Signed(r)
  BY <1>3 DEF PhaseAt, ThePlan, Signed
<1>15. PlaceOK(r)'
  BY <1>1, <1>3, <1>4, <1>7, <1>8, <1>10, <1>11, <1>14 DEF PlaceOK
<1>16. EntriesOK(r)'
  BY <1>1, <1>3, <1>14 DEF EntriesOK
<1>17. \A k \in Nat \ {0} : Held(k) => Held(k)' /\ VerdictAt(k)' = VerdictAt(k)
  BY <1>3, <1>6, PassedStays
<1>18. MeetOK(r)'
  <2>1. ASSUME NEW k \in 1..(pc'[r] - 1) PROVE Passed(k)'
    <3>1. k \in Nat \ {0} /\ (k \in 1..(p - 1) \/ (k = p /\ w = Running))
      BY <1>8, <1>11, <2>1
    <3>2. Passed(k)
      BY <1>1, <1>8, <1>9, <1>10, <3>1 DEF MeetOK, Passed
    <3> QED BY <1>17, <3>1, <3>2 DEF Passed
  <2>2. ASSUME outcome'[r].kind \in {"returned", "raised"}, NEW k \in Nat \ {0}, k = pc'[r]
        PROVE  Held(k)' /\ outcome'[r] = VerdictAt(k)'
    <3>1. k = p
      BY <1>4, <1>10, <1>11, <2>2
    <3> QED BY <1>9, <1>10, <1>11, <1>17, <3>1
  <2> QED BY <2>1, <2>2 DEF MeetOK
<1> QED BY <1>12, <1>13, <1>15, <1>16, <1>18 DEF EInv

\* A rank gives the others up, or leaves without a word: it has seen the same collectives.
LEMMA GivesUpKeeps ==
    ASSUME EInv, NEW r \in Ranks, GivesUp(r) \/ Abandons(r), UNCHANGED <<job, stage>>
    PROVE  EInv'
<1>1. EngineShape /\ PlaceOK(r) /\ EntriesOK(r) /\ MeetOK(r)
  BY DEF EInv
<1>2. PICK to \in {"lost", "escaped"} :
        /\ outcome' = [outcome EXCEPT ![r].kind = to]
        /\ waiting' \in {waiting, [waiting EXCEPT ![r] = FALSE]} /\ ~waiting'[r]
        /\ to = "lost" => waiting[r]
        /\ to = "escaped" => ~waiting[r] /\ ~sending[r] /\ outcome[r].kind = "running"
  <2>1. CASE GivesUp(r)
    <3>1. waiting' = [waiting EXCEPT ![r] = FALSE] /\ ~waiting'[r]
      BY <1>1, <2>1 DEF GivesUp, EngineShape
    <3> QED BY <2>1, <3>1 DEF GivesUp
  <2>2. CASE Abandons(r)
    BY <2>2 DEF Abandons
  <2> QED BY <2>1, <2>2
<1>3. /\ given' = given /\ agreed' = agreed /\ pc' = pc /\ log' = log /\ sending' = sending
      /\ announced' = announced /\ job' = job /\ stage' = stage
  BY DEF GivesUp, Abandons
<1>4. \A x \in Ranks : Len(log[x]) \in Nat /\ pc[x] \in Nat \ {0}
  BY <1>1, ListedFacts DEF EngineShape
<1>5. /\ outcome[r].kind = "running" /\ ~sending[r]
      /\ to = "lost" => Len(log[r]) = pc[r]
      /\ to = "escaped" => Len(log[r]) = pc[r] - 1
  BY <1>1, <1>2, <1>4, VerdictIs DEF PlaceOK
<1>7. Grows
  BY <1>3, <1>4 DEF Grows
<1>8. /\ outcome'[r].kind = to /\ DOMAIN outcome'[r] = {"kind", "phase", "ranks"}
      /\ \A x \in Ranks \ {r} : outcome'[x] = outcome[x] /\ waiting'[x] = waiting[x]
  BY <1>1, <1>2 DEF EngineShape
<1>9. EngineShape'
  <2>1. waiting' \in [Ranks -> BOOLEAN] /\ DOMAIN outcome' = Ranks
    BY <1>1, <1>2 DEF EngineShape
  <2>2. ASSUME NEW x \in Ranks
        PROVE  /\ DOMAIN outcome'[x] = {"kind", "phase", "ranks"}
               /\ outcome'[x].kind \in {"unused", "running", "returned", "raised", "lost", "escaped"}
    BY <1>1, <1>8 DEF EngineShape
  <2> QED BY <1>1, <1>3, <2>1, <2>2 DEF EngineShape
<1>10. ASSUME NEW x \in Ranks \ {r} PROVE PlaceOK(x)' /\ EntriesOK(x)' /\ MeetOK(x)'
  <2>1. stage'[x] \in {"syncing", "closing", "leaving", "closed"} => outcome[x].kind # "running"
    BY <1>3 DEF EInv, PlaceOK
  <2> QED BY <1>3, <1>7, <1>8, <2>1, OthersKeep
<1>11. (\A k : PhaseAt(k)' = PhaseAt(k)) /\ ThePlan' = ThePlan /\ Signed(r)' = Signed(r)
  BY <1>3 DEF PhaseAt, ThePlan, Signed
<1>12. PlaceOK(r)'
  BY <1>1, <1>2, <1>3, <1>5, <1>8 DEF PlaceOK
<1>13. EntriesOK(r)'
  BY <1>1, <1>3, <1>11 DEF EntriesOK
<1>14. MeetOK(r)'
  <2>1. ASSUME NEW k \in 1..(pc'[r] - 1) PROVE Passed(k)'
    <3>1. k \in Nat \ {0} /\ Passed(k)
      BY <1>1, <1>3, <1>4, <2>1 DEF MeetOK
    <3> QED BY <1>3, <1>7, <3>1, PassedStays DEF Passed
  <2> QED BY <1>3, <1>8, <2>1 DEF MeetOK
<1> QED BY <1>9, <1>10, <1>12, <1>13, <1>14 DEF EInv

-----------------------------------------------------------------------------
(***************************************************************************)
(* The theorems.                                                           *)
(***************************************************************************)

SInv == GInv /\ EInv

\* The initial states satisfy the invariant.
LEMMA InitHolds == Init => SInv
<1> SUFFICES ASSUME Init PROVE SInv
  OBVIOUS
<1>1. /\ job \in Jobs /\ faults = 0
      /\ stage = [r \in Ranks |-> "booting"] /\ entered = [r \in Ranks |-> <<>>]
      /\ alive = [r \in Ranks |-> IF job.preexisting THEN {<<"default">>} ELSE {}]
      /\ held = [r \in Ranks |-> {}] /\ parallel = [r \in Ranks |-> FALSE]
      /\ cpuGroup = [r \in Ranks |-> FALSE] /\ context = [r \in Ranks |-> FALSE]
      /\ failure = [r \in Ranks |-> FALSE]
  BY DEF Init, RuntimeInit
<1>2. PICK p \in Plans :
        given \in {g \in [Ranks -> Supplies(p)] :
                     /\ g[Owner] = WithPlan(p)
                     /\ \A r \in Ranks \ (Unusual \cup {Owner}) : g[r] = Usual(p)}
  BY DEF Init, EngineInit
<1>3. given \in [Ranks -> Supplies(p)] /\ given[Owner] = WithPlan(p)
  BY <1>2
<1>4. given[Owner].plan = p /\ DOMAIN given = Ranks
  BY <1>2, <1>3 DEF WithPlan
<1>5. /\ agreed = [r \in Ranks |-> NotAPlan] /\ pc = [r \in Ranks |-> 1]
      /\ log = [r \in Ranks |-> <<>>] /\ waiting = [r \in Ranks |-> FALSE]
      /\ sending = [r \in Ranks |-> FALSE] /\ announced = <<>>
      /\ outcome = [r \in Ranks |-> IF VaeGroup(job.degrees) = WorldRanks(N) THEN Running
                                    ELSE [Running EXCEPT !.kind = "unused"]]
  BY DEF Init, EngineInit
<1>6. Listed(<<>>) /\ Len(<<>>) = 0
  BY Nothing
<1>7. GInv
  <2>1. RuntimeShape
    BY <1>1, <1>6, JobsAssumption DEF RuntimeShape, Stages
  <2>2. ASSUME NEW r \in Ranks PROVE EnteredOK(r) /\ RecordedOK(r)
    <3>1. /\ stage[r] = "booting" /\ entered[r] = <<>> /\ held[r] = {} /\ DestroyedCpu(r) = {}
          /\ alive[r] = IF job.preexisting THEN {<<"default">>} ELSE {}
      BY <1>1 DEF DestroyedCpu
    <3>2. EnteredOK(r)
      BY <1>1, <1>6, <3>1, OrderFacts DEF EnteredOK, Order
    <3> QED BY <3>1, <3>2 DEF RecordedOK, Gone
  <2> QED BY <2>1, <2>2 DEF GInv
<1>8. EInv
  <2>1. ASSUME NEW r \in Ranks
        PROVE  /\ DOMAIN outcome[r] = {"kind", "phase", "ranks"}
               /\ outcome[r].kind \in {"unused", "running"}
               /\ (outcome[r].kind = "unused" <=> VaeGroup(job.degrees) # WorldRanks(N))
               /\ (outcome[r].kind = "running" => outcome[r] = Running)
    BY <1>5 DEF Running
  <2>2. EngineShape
    BY <1>4, <1>5, <1>6, <2>1 DEF EngineShape
  <2>3. ASSUME NEW r \in Ranks PROVE PlaceOK(r) /\ EntriesOK(r) /\ MeetOK(r)
    BY <1>1, <1>5, <1>6, <2>1 DEF PlaceOK, EntriesOK, MeetOK
  <2> QED BY <2>2, <2>3 DEF EInv
<1> QED BY <1>7, <1>8 DEF SInv

\* A step of the set-up or the take-down of the groups of r.
LEMMA GroupStepHolds ==
    ASSUME SInv, NEW r \in Ranks, Sets(r) \/ Stops(r) \/ StopFails(r) \/ BootErrors(r)
    PROVE  SInv'
<1>1. GInv /\ EInv /\ RuntimeShape /\ UNCHANGED engineVars
  BY DEF SInv, GInv, Sets, Stops, StopFails, BootErrors
<1>2. CASE Joins(r) \/ Joined(r)
  <2>1. GInv'
    BY <1>1, <1>2, JoinsKeeps, JoinedKeeps
  <2>2. /\ job' = job /\ stage[r] \in {"booting", "creating"}
        /\ \E s \in {"creating", "booted", "booting"} : stage' = [stage EXCEPT ![r] = s]
    BY <1>2 DEF Joins, Joined
  <2>3. PICK s \in {"creating", "booted", "booting"} : stage' = [stage EXCEPT ![r] = s]
    BY <2>2
  <2>4. stage'[r] = s /\ \A q \in Ranks \ {r} : stage'[q] = stage[q]
    BY <1>1, <2>3 DEF RuntimeShape
  <2>5. /\ \A q \in Ranks : stage'[q] \in {"syncing", "closing", "leaving", "closed"} =>
                              outcome[q].kind # "running"
    BY <1>1, <2>2, <2>4 DEF EInv, PlaceOK
  <2> QED BY <1>1, <2>1, <2>2, <2>5, EngineUntouched DEF SInv
<1>3. CASE BootTimesOut(r) \/ BootFails(r)
  <2>1. Undo(r) /\ faults' \in 0..MaxFaults /\ stage[r] \in {"booting", "booted", "creating"}
    BY <1>1, <1>3, JobsAssumption DEF BootTimesOut, BootFails, Budget, Spend, RuntimeShape
  <2>2. GInv'
    BY <1>1, <2>1, UndoKeeps
  <2>3. job' = job /\ stage' = [stage EXCEPT ![r] = "failed"]
    BY <2>1 DEF Undo
  <2>4. stage'[r] = "failed" /\ \A q \in Ranks \ {r} : stage'[q] = stage[q]
    BY <1>1, <2>3 DEF RuntimeShape
  <2>5. /\ \A q \in Ranks : stage'[q] \in {"syncing", "closing", "leaving", "closed"} =>
                              outcome[q].kind # "running"
    BY <1>1, <2>4 DEF EInv, PlaceOK
  <2> QED BY <1>1, <2>2, <2>3, <2>5, EngineUntouched DEF SInv
<1>4. CASE Boots(r) \/ LeavesBarrier(r) \/ (Idle(r) /\ DestroyBegins(r)) \/ (Idle(r) /\ DeviceFails(r))
  <2>1. /\ stage[r] \in {"booted", "up", "syncing"} /\ (stage[r] = "up" => outcome[r].kind # "running")
        /\ entered' = entered \/ (\E name : Enter(r, name))
        /\ UNCHANGED <<job, alive, held, parallel, cpuGroup, context>>
    BY <1>4 DEF Boots, LeavesBarrier, DestroyBegins, DeviceFails, Idle
  <2>2. failure' \in [Ranks -> BOOLEAN] /\ faults' \in 0..MaxFaults
    <3>1. failure \in [Ranks -> BOOLEAN] /\ faults \in 0..MaxFaults /\ MaxFaults \in Nat
      BY <1>1, JobsAssumption DEF RuntimeShape
    <3>2. CASE failure' = failure /\ faults' = faults
      BY <3>1, <3>2
    <3>3. CASE failure' = [failure EXCEPT ![r] = TRUE] /\ faults' \in {faults, faults + 1}
               /\ faults' <= MaxFaults
      BY <3>1, <3>3
    <3>4. CASE Boots(r) \/ DestroyBegins(r)
      BY <3>2, <3>4 DEF Boots, DestroyBegins
    <3>5. CASE LeavesBarrier(r)
      BY <3>1, <3>2, <3>3, <3>5 DEF LeavesBarrier, Synced
    <3>6. CASE DeviceFails(r)
      <4>1. faults < MaxFaults /\ faults' = faults + 1 /\ failure' = [failure EXCEPT ![r] = TRUE]
        BY <3>6 DEF DeviceFails, Budget, Spend
      <4> QED BY <3>1, <3>3, <4>1
    <3> QED BY <1>4, <3>4, <3>5, <3>6
  <2>3. PICK to \in {"up", "syncing", "closing"} : /\ stage' = [stage EXCEPT ![r] = to]
                                                   /\ to = "up" \/ stage[r] # "booted"
    BY <1>4 DEF Boots, LeavesBarrier, DestroyBegins, DeviceFails, Synced
  <2>4. GInv'
    BY <1>1, <2>1, <2>2, <2>3, MovesKeeps
  <2>5. stage'[r] = to /\ \A q \in Ranks \ {r} : stage'[q] = stage[q]
    BY <1>1, <2>3 DEF RuntimeShape
  <2>6. /\ \A q \in Ranks : stage'[q] \in {"syncing", "closing", "leaving", "closed"} =>
                              outcome[q].kind # "running"
    BY <1>1, <2>1, <2>3, <2>5 DEF EInv, PlaceOK
  <2> QED BY <1>1, <2>1, <2>4, <2>6, EngineUntouched DEF SInv
<1>5. CASE ClosesGroups(r) \/ Leaves(r)
  <2>1. GInv'
    BY <1>1, <1>5, ClosesGroupsKeeps, LeavesKeeps
  <2>2. /\ job' = job /\ stage[r] \in {"closing", "leaving"}
        /\ \E s \in {"leaving", "closed"} : stage' = [stage EXCEPT ![r] = s]
    BY <1>5 DEF ClosesGroups, Leaves, Synced
  <2>3. PICK s \in {"leaving", "closed"} : stage' = [stage EXCEPT ![r] = s]
    BY <2>2
  <2>4. stage'[r] = s /\ \A q \in Ranks \ {r} : stage'[q] = stage[q]
    BY <1>1, <2>3 DEF RuntimeShape
  <2>5. /\ \A q \in Ranks : stage'[q] \in {"syncing", "closing", "leaving", "closed"} =>
                              outcome[q].kind # "running"
    BY <1>1, <2>2, <2>4 DEF EInv, PlaceOK
  <2> QED BY <1>1, <2>1, <2>2, <2>5, EngineUntouched DEF SInv
<1> QED BY <1>2, <1>3, <1>4, <1>5 DEF Sets, Stops, StopFails, BootErrors, RuntimeStep

\* A step of the engine leaves the runtime alone.
LEMMA WorkHolds ==
    ASSUME SInv, NEW r \in Ranks, Works(r)
    PROVE  SInv'
<1>1. GInv /\ EInv /\ RuntimeShape /\ UNCHANGED runtimeVars /\ EngineStep(r)
  BY DEF SInv, GInv, Works
<1>2. /\ job' = job /\ stage' = stage /\ entered' = entered /\ alive' = alive /\ held' = held
      /\ parallel' = parallel /\ cpuGroup' = cpuGroup /\ context' = context /\ failure' = failure
  BY <1>1 DEF runtimeVars
<1>3. faults' \in 0..MaxFaults
  <2>1. faults' = faults \/ (Budget /\ Spend)
    BY <1>1 DEF EngineStep, ChecksPlan, Signs, Announces, Materializes, Scatters, Executes, Gathers,
               Merges, Drains, TransferFails, TimesOut, Escapes, SendTaken, Syncs, LosesPeer,
               Succeeds, Raises
  <2> QED BY <1>1, <2>1, JobsAssumption DEF Budget, Spend, RuntimeShape
<1>4. GInv'
  <2>1. RuntimeShape'
    BY <1>1, <1>2, <1>3 DEF RuntimeShape
  <2>2. ASSUME NEW q \in Ranks PROVE EnteredOK(q)' /\ RecordedOK(q)'
    BY <1>1, <1>2 DEF GInv, EnteredOK, RecordedOK, Order, DestroyedCpu
  <2> QED BY <2>1, <2>2 DEF GInv
<1>5. EInv'
  BY <1>1, <1>2, EngineKinds, ContributesKeeps, StartsToSendKeeps, GoesOnKeeps, GivesUpKeeps
<1> QED BY <1>4, <1>5 DEF SInv

\* So does a step that changes nothing.
LEMMA StutterHolds == ASSUME SInv, UNCHANGED sessionVars PROVE SInv'
<1>1. GInv /\ EInv /\ UNCHANGED runtimeVars /\ UNCHANGED engineVars /\ faults' = faults
  BY DEF SInv, sessionVars
<1>2. /\ job' = job /\ stage' = stage /\ entered' = entered /\ alive' = alive /\ held' = held
      /\ parallel' = parallel /\ cpuGroup' = cpuGroup /\ context' = context /\ failure' = failure
  BY <1>1 DEF runtimeVars
<1>3. GInv'
  BY <1>1, <1>2 DEF GInv, RuntimeShape, EnteredOK, RecordedOK, Order, DestroyedCpu
<1>4. EInv'
  <2>1. \A q \in Ranks : stage'[q] \in {"syncing", "closing", "leaving", "closed"} =>
                           outcome[q].kind # "running"
    BY <1>1, <1>2 DEF EInv, PlaceOK
  <2> QED BY <1>1, <1>2, <2>1, EngineUntouched
<1> QED BY <1>3, <1>4 DEF SInv

\* In every reachable state the groups of a rank are recorded, and the ranks are together.
LEMMA SessionInvariant == Spec => []SInv
<1>1. SInv /\ [Next]_sessionVars => SInv'
  <2> SUFFICES ASSUME SInv, [Next]_sessionVars PROVE SInv'
    OBVIOUS
  <2>1. ASSUME NEW r \in Ranks, Sets(r) \/ Stops(r) \/ StopFails(r) \/ BootErrors(r) \/ Works(r)
        PROVE  SInv'
    BY <2>1, GroupStepHolds, WorkHolds
  <2> QED BY <2>1, StutterHolds DEF Next
<1> QED BY <1>1, InitHolds, PTL DEF Spec

\* A rank that has failed to set its groups up, or has taken them down, leaves no process
\* group of its own and no published context behind (initialize_runtime_distributed and
\* destroy_runtime_distributed).
THEOREM RanksLeaveNothing == Spec => []NothingLeaks
<1>1. SInv => NothingLeaks
  BY DEF SInv, GInv, RecordedOK, NothingLeaks
<1> QED BY <1>1, SessionInvariant, PTL

\* The ranks of a job enter the same collectives in the same order, when they create their
\* groups and when they execute a plan (initialize_parallel_context, synchronize_phase_error).
THEOREM CollectivesAlwaysMatch == Spec => []CollectivesMatch
<1>1. SInv => CollectivesMatch
  <2> SUFFICES ASSUME SInv, NEW r \in Ranks, NEW q \in Ranks
               PROVE  /\ \A i \in DOMAIN log[r] \cap DOMAIN log[q] : log[r][i].phase = log[q][i].phase
                      /\ \A i \in DOMAIN entered[r] \cap DOMAIN entered[q] :
                            i <= Len(BootOrders[job]) => entered[r][i] = entered[q][i]
    BY DEF CollectivesMatch
  <2>1. \A x \in Ranks : DOMAIN log[x] = 1..Len(log[x]) /\ DOMAIN entered[x] = 1..Len(entered[x])
    BY ListedFacts DEF SInv, GInv, EInv, RuntimeShape, EngineShape
  <2>2. \A x \in Ranks : \A i \in 1..Len(log[x]) : log[x][i].phase = PhaseAt(i)
    BY DEF SInv, EInv, EntriesOK
  <2>3. \A x \in Ranks : \A i \in 1..Len(entered[x]) :
           i <= Len(BootOrders[job]) => entered[x][i] = BootOrders[job][i]
    BY DEF SInv, GInv, EnteredOK, Order
  <2> QED BY <2>1, <2>2, <2>3, ZenonT(120)
<1> QED BY <1>1, SessionInvariant, PTL

\* Ranks that return or raise do so alike, and blame exactly the ranks that have reported an
\* error.
LEMMA RaisedAlike ==
    ASSUME SInv
    PROVE  \A r, q \in Ranks :
             /\ {outcome[r].kind, outcome[q].kind} \subseteq {"returned", "raised"}
                   => outcome[r] = outcome[q]
             /\ outcome[r].kind = "raised" =>
                   \/ outcome[r].ranks = {x \in Ranks : \E i \in DOMAIN log[x] : log[x][i].bad}
                   \/ \E x, y \in Ranks : given[x] /= given[y]
<1>1. \A x \in Ranks : /\ PlaceOK(x) /\ EntriesOK(x) /\ MeetOK(x) /\ pc[x] \in Nat \ {0}
                       /\ Len(log[x]) \in Nat /\ DOMAIN log[x] = 1..Len(log[x])
  BY ListedFacts DEF SInv, EInv, EngineShape
<1>2. Running.kind = "running"
  BY DEF Running
<1>3. ASSUME NEW r \in Ranks, NEW q \in Ranks, outcome[r].kind \in {"returned", "raised"},
             outcome[q].kind \in {"returned", "raised"}
      PROVE  ~(pc[r] < pc[q])
  <2> SUFFICES ASSUME pc[r] < pc[q] PROVE FALSE
    OBVIOUS
  <2>1. PICK k \in Nat \ {0} : k = pc[r]
    BY <1>1
  <2>2. outcome[r] = VerdictAt(k)
    BY <1>1, <1>3, <2>1 DEF MeetOK
  <2>3. k \in 1..(pc[q] - 1)
    BY <1>1, <2>1
  <2>4. VerdictAt(k) = Running
    BY <1>1, <2>3 DEF MeetOK, Passed
  <2> QED BY <1>2, <1>3, <2>2, <2>4
<1>4. ASSUME NEW r \in Ranks, NEW q \in Ranks, outcome[r].kind \in {"returned", "raised"},
             outcome[q].kind \in {"returned", "raised"}
      PROVE  outcome[r] = outcome[q]
  <2>1. pc[r] = pc[q]
    BY <1>1, <1>3, <1>4
  <2>2. PICK k \in Nat \ {0} : k = pc[r]
    BY <1>1
  <2> QED BY <1>1, <1>4, <2>1, <2>2 DEF MeetOK
<1>5. ASSUME NEW r \in Ranks, outcome[r].kind = "raised"
      PROVE  \/ outcome[r].ranks = {x \in Ranks : \E i \in DOMAIN log[x] : log[x][i].bad}
             \/ \E x, y \in Ranks : given[x] /= given[y]
  <2>1. PICK k \in Nat \ {0} : k = pc[r]
    BY <1>1
  <2>2. Held(k) /\ outcome[r] = VerdictAt(k)
    BY <1>1, <1>5, <2>1 DEF MeetOK
  <2>3. \A x \in Ranks : k \in 1..Len(log[x])
    BY <1>1, <2>2 DEF Held
  <2>4. CASE PhaseAt(k) = "signature"
    <3>1. ~AgreeAt(k)
      BY <1>2, <1>5, <2>2, <2>4 DEF VerdictAt
    <3>2. \A x \in Ranks : log[x][k].sign = Signed(x)
      BY <1>1, <2>3, <2>4 DEF EntriesOK
    <3>3. Signed(Owner)[1]
      BY RealPlans DEF SInv, EInv, EngineShape, Signed
    <3>4. PICK x \in Ranks : Signed(x) # Signed(Owner)
      BY <3>1, <3>2, <3>3, OwnerIsRank DEF AgreeAt
    <3>5. given[x] # given[Owner]
      BY <3>4 DEF Signed
    <3> QED BY <3>5, OwnerIsRank
  <2>5. CASE PhaseAt(k) # "signature"
    <3>1. outcome[r].ranks = FlaggedAt(k)
      <4>1. [Running EXCEPT !.kind = "returned"].kind = "returned"
        BY DEF Running
      <4>2. FlaggedAt(k) # {}
        BY <1>2, <1>5, <2>2, <2>5, <4>1 DEF VerdictAt
      <4>3. VerdictAt(k) = [kind |-> "raised", phase |-> Reported(PhaseAt(k)), ranks |-> FlaggedAt(k)]
        BY <2>5, <4>2 DEF VerdictAt
      <4> QED BY <2>2, <4>3
    <3>2. ASSUME NEW x \in FlaggedAt(k) PROVE \E i \in DOMAIN log[x] : log[x][i].bad
      BY <1>1, <2>3 DEF FlaggedAt
    <3>3. ASSUME NEW x \in Ranks, NEW i \in DOMAIN log[x], log[x][i].bad PROVE x \in FlaggedAt(k)
      <4>1. i \in 1..Len(log[x]) /\ i \in Nat \ {0} /\ Len(log[x]) <= pc[x]
        BY <1>1 DEF PlaceOK
      <4>2. CASE i = k
        BY <3>3, <4>2 DEF FlaggedAt
      <4>3. CASE i < k
        <5>1. VerdictAt(i) = Running
          BY <1>1, <2>1, <4>1, <4>3 DEF MeetOK, Passed
        <5>2. PhaseAt(i) # "signature"
          BY <1>1, <3>3, <4>1 DEF EntriesOK
        <5>3. FlaggedAt(i) = {}
          BY <5>1, <5>2 DEF VerdictAt, Running
        <5> QED BY <3>3, <5>3 DEF FlaggedAt
      <4>4. CASE i > k
        <5>1. k \in 1..(pc[x] - 1)
          BY <1>1, <4>1, <4>4
        <5>2. VerdictAt(k) = Running
          BY <1>1, <5>1 DEF MeetOK, Passed
        <5> QED BY <1>2, <1>5, <2>2, <5>2
      <4> QED BY <4>1, <4>2, <4>3, <4>4
    <3>4. FlaggedAt(k) \subseteq Ranks
      BY DEF FlaggedAt
    <3> QED BY <3>1, <3>2, <3>3, <3>4
  <2> QED BY <2>4, <2>5
<1> QED BY <1>4, <1>5

-----------------------------------------------------------------------------
(***************************************************************************)
(* Plans as lists of numbers: parts, flattening and the codec.             *)
(***************************************************************************)

\* FlattenSeq goes through its parts one by one.
LEMMA FlattenFacts ==
    ASSUME NEW S, NEW parts \in Seq(Seq(S)), NEW n \in Nat, n = Len(parts)
    PROVE  \E f : /\ f \in [0..n -> Seq(S)] /\ f[0] = <<>>
                  /\ \A i \in 1..n : f[i] = f[i - 1] \o parts[i]
                  /\ FlattenSeq(parts) = f[n]
<1>0. /\ DOMAIN parts = 1..n /\ Len(parts) = n /\ (n = 0 => parts = <<>>)
      /\ \A i \in 1..n : parts[i] \in Seq(S)
  OBVIOUS
<1> DEFINE Rule(f, k) == f = [i \in 1..k |-> IF i = 1 THEN parts[i] ELSE f[i - 1] \o parts[i]]
           Exists == {k \in Nat : \E f : Rule(f, k)}
<1>1. \A k \in Nat : k \in Exists
  <2>1. 0 \in Exists
    <3> DEFINE f == [i \in 1..0 |-> <<>>]
    <3>1. Rule(f, 0)
      OBVIOUS
    <3> QED BY <3>1
  <2>2. ASSUME NEW k \in Nat, k \in Exists PROVE k + 1 \in Exists
    <3>1. PICK f : Rule(f, k)
      BY <2>2
    <3> DEFINE g == [i \in 1..(k + 1) |-> IF i <= k THEN f[i]
                       ELSE IF i = 1 THEN parts[i] ELSE f[k] \o parts[k + 1]]
               h == [i \in 1..(k + 1) |-> IF i = 1 THEN parts[i] ELSE g[i - 1] \o parts[i]]
    <3>2. ASSUME NEW i \in 1..(k + 1) PROVE g[i] = h[i]
      <4>1. CASE i <= k
        <5>1. f[i] = IF i = 1 THEN parts[i] ELSE f[i - 1] \o parts[i]
          <6>1. i \in 1..k
            BY <4>1
          <6> QED BY <3>1, <6>1
        <5>2. i # 1 => i - 1 \in 1..(k + 1) /\ i - 1 <= k
          BY <4>1
        <5> QED BY <4>1, <5>1, <5>2
      <4>2. CASE i = k + 1
        <5>1. i # 1 => i - 1 = k /\ k \in 1..(k + 1)
          BY <4>2
        <5>2. ~(i <= k)
          BY <4>2
        <5> QED BY <4>2, <5>1, <5>2
      <4> QED BY <4>1, <4>2
    <3>3. g = h
      BY <3>2
    <3>4. Rule(g, k + 1)
      BY <3>3
    <3> HIDE DEF g, Rule
    <3>5. \E x : Rule(x, k + 1)
      BY <3>4
    <3> QED BY <3>5
  <2> HIDE DEF Exists
  <2> QED BY <2>1, <2>2, SetInduction
<1> DEFINE flat == CHOOSE f : Rule(f, Len(parts))
<1>2. Rule(flat, n)
  BY <1>1
<1>3. FlattenSeq(parts) = IF n = 0 THEN parts ELSE flat[n]
  BY DEF FlattenSeq
<1> HIDE DEF flat
<1> DEFINE f == [i \in 0..n |-> IF i = 0 THEN <<>> ELSE flat[i]]
<1>4. /\ DOMAIN f = 0..n /\ f = [i \in 0..n |-> f[i]] /\ f[0] = <<>>
      /\ \A i \in 1..n : f[i] = flat[i]
  OBVIOUS
<1>5. FlattenSeq(parts) = f[n]
  BY <1>3, <1>4
<1> HIDE DEF f
<1> DEFINE Good == {k \in Nat : k <= n => f[k] \in Seq(S) /\ (k # 0 => f[k] = f[k - 1] \o parts[k])}
<1>6. \A k \in Nat : k \in Good
  <2>1. 0 \in Good
    <3>1. f[0] = <<>> /\ <<>> \in Seq(S)
      BY <1>4
    <3> QED BY <3>1
  <2>2. ASSUME NEW k \in Nat, k \in Good PROVE k + 1 \in Good
    <3>0. k <= n => f[k] \in Seq(S)
      BY <2>2
    <3> HIDE DEF Good
    <3>00. (k + 1) - 1 = k /\ k + 1 \in Nat
      OBVIOUS
    <3> SUFFICES ASSUME k + 1 <= n PROVE f[k + 1] \in Seq(S) /\ f[k + 1] = f[(k + 1) - 1] \o parts[k + 1]
      BY <3>00 DEF Good
    <3>1. f[k] \in Seq(S) /\ parts[k + 1] \in Seq(S) /\ k + 1 \in 1..n /\ k \in 0..n
      BY <3>0
    <3>2. f[k + 1] = flat[k + 1]
      BY <1>4, <3>1
    <3>3. f[k + 1] = f[k] \o parts[k + 1]
      <4>1. CASE k = 0
        <5>1. flat[1] = parts[1]
          BY <1>2, <3>1, <4>1
        <5>2. parts[1] = <<>> \o parts[1]
          BY <3>1, <4>1
        <5> QED BY <1>4, <3>2, <4>1, <5>1, <5>2
      <4>2. CASE k # 0
        <5>1. (k + 1) - 1 = k /\ k + 1 # 1 /\ k \in 1..n
          BY <3>1, <4>2
        <5>2. flat[k + 1] = flat[k] \o parts[k + 1]
          BY <1>2, <3>1, <5>1
        <5> QED BY <1>4, <3>2, <5>1, <5>2
      <4> QED BY <4>1, <4>2
    <3>4. f[k + 1] \in Seq(S)
      BY <3>1, <3>3
    <3> QED BY <3>00, <3>3, <3>4
  <2> HIDE DEF Good
  <2> QED BY <2>1, <2>2, SetInduction
<1>7. ASSUME NEW i \in 0..n PROVE f[i] \in Seq(S) /\ (i # 0 => f[i] = f[i - 1] \o parts[i])
  <2>1. i \in Nat /\ i <= n
    OBVIOUS
  <2> QED BY <1>6, <2>1
<1>8. f \in [0..n -> Seq(S)]
  BY <1>4, <1>7
<1>9. ASSUME NEW i \in 1..n PROVE f[i] = f[i - 1] \o parts[i]
  <2>1. i \in 0..n /\ i # 0
    OBVIOUS
  <2> QED BY <1>7, <2>1
<1> QED BY <1>4, <1>5, <1>8, <1>9

\* The greatest of finitely many numbers is one of them and no smaller than any.
LEMMA MaxFacts ==
    ASSUME NEW n \in Nat \ {0}, NEW s, \A i \in 1..n : s[i] \in Int
    PROVE  LET T == {s[i] : i \in 1..n}
           IN Max(T) \in T /\ \A x \in T : x <= Max(T)
<1> DEFINE T(k) == {s[i] : i \in 1..k}
           Good == {k \in Nat : k + 1 <= n => \E x \in T(k + 1) : \A y \in T(k + 1) : x >= y}
<1>1. \A k \in Nat : k \in Good
  <2>1. 0 \in Good
    <3>1. 1 \in 1..n /\ T(1) = {s[1]} /\ s[1] \in Int
      OBVIOUS
    <3> QED BY <3>1
  <2>2. ASSUME NEW k \in Nat, k \in Good PROVE k + 1 \in Good
    <3> SUFFICES ASSUME k + 2 <= n PROVE \E x \in T(k + 2) : \A y \in T(k + 2) : x >= y
      OBVIOUS
    <3>1. PICK x \in T(k + 1) : \A y \in T(k + 1) : x >= y
      BY <2>2
    <3>2. T(k + 2) = T(k + 1) \cup {s[k + 2]} /\ s[k + 2] \in Int /\ \A y \in T(k + 1) : y \in Int
      OBVIOUS
    <3> HIDE DEF T
    <3>3. x \in Int
      BY <3>1, <3>2
    <3>4. CASE x >= s[k + 2]
      BY <3>1, <3>2, <3>3, <3>4
    <3>5. CASE ~(x >= s[k + 2])
      <4>1. \A y \in T(k + 2) : s[k + 2] >= y
        BY <3>1, <3>2, <3>3, <3>5
      <4> QED BY <3>2, <4>1
    <3> QED BY <3>4, <3>5
  <2> HIDE DEF Good
  <2> QED BY <2>1, <2>2, SetInduction
<1>2. \E x \in T(n) : \A y \in T(n) : x >= y
  <2>1. n - 1 \in Nat /\ (n - 1) + 1 = n
    OBVIOUS
  <2>2. n - 1 \in Good
    BY <1>1, <2>1
  <2> QED BY <2>1, <2>2
<1>3. \A y \in T(n) : y \in Int
  OBVIOUS
<1> HIDE DEF T
<1>4. Max(T(n)) \in T(n) /\ \A y \in T(n) : Max(T(n)) >= y
  BY <1>2 DEF Max
<1>5. \A y \in T(n) : y <= Max(T(n))
  BY <1>3, <1>4
<1> QED BY <1>4, <1>5 DEF T

\* The tasks of one rank are those assigned to it, each once.
LEMMA ShareFacts ==
    ASSUME NEW tasks \in Seq(VAETaskSpec), \A i \in 1..Len(tasks) : tasks[i].id = i - 1, NEW rank
    PROVE  LET mine == TasksOf(tasks, rank)
           IN /\ mine \in Seq(VAETaskSpec)
              /\ \A k \in 1..Len(mine) : /\ mine[k].id + 1 \in 1..Len(tasks) /\ mine[k].rank = rank
                                         /\ tasks[mine[k].id + 1] = mine[k]
              /\ \A k, l \in 1..Len(mine) : mine[k].id = mine[l].id => k = l
              /\ \A i \in 1..Len(tasks) : tasks[i].rank = rank =>
                    \E k \in 1..Len(mine) : mine[k] = tasks[i]
<1> DEFINE n == Len(tasks)
           parts == [i \in DOMAIN tasks |-> IF tasks[i].rank = rank THEN <<tasks[i]>> ELSE <<>>]
<1>1. n \in Nat /\ DOMAIN tasks = 1..n /\ \A i \in 1..n : tasks[i] \in VAETaskSpec
  OBVIOUS
<1>2. \A i \in 1..n : parts[i] = IF tasks[i].rank = rank THEN <<tasks[i]>> ELSE <<>>
  BY <1>1
<1>3. parts \in Seq(Seq(VAETaskSpec)) /\ Len(parts) = n
  <2>1. DOMAIN parts = 1..n /\ parts = [i \in 1..n |-> parts[i]]
    BY <1>1
  <2>2. \A i \in 1..n : parts[i] \in Seq(VAETaskSpec)
    BY <1>1, <1>2
  <2> HIDE DEF parts, n
  <2> QED BY <1>1, <2>1, <2>2
<1>4. TasksOf(tasks, rank) = FlattenSeq(parts)
  BY DEF TasksOf
<1> HIDE DEF parts, n
<1>5. PICK f : /\ f \in [0..n -> Seq(VAETaskSpec)] /\ f[0] = <<>>
               /\ \A i \in 1..n : f[i] = f[i - 1] \o parts[i]
               /\ FlattenSeq(parts) = f[n]
  BY <1>1, <1>3, FlattenFacts, ZenonT(120)
<1> DEFINE Right(g, m) ==
             /\ \A k \in 1..Len(g) : /\ g[k].id + 1 \in 1..m /\ g[k].rank = rank
                                     /\ tasks[g[k].id + 1] = g[k]
             /\ \A k, l \in 1..Len(g) : g[k].id = g[l].id => k = l
             /\ \A i \in 1..m : tasks[i].rank = rank => \E k \in 1..Len(g) : g[k] = tasks[i]
           Good == {m \in Nat : m <= n => Right(f[m], m)}
<1>6. \A m \in Nat : m \in Good
  <2>1. 0 \in Good
    BY <1>5
  <2>2. ASSUME NEW m \in Nat, m \in Good PROVE m + 1 \in Good
    <3> SUFFICES ASSUME m + 1 <= n PROVE Right(f[m + 1], m + 1)
      <4> HIDE DEF Right
      <4> QED OBVIOUS
    <3>1. m + 1 \in 1..n /\ (m + 1) - 1 = m /\ m \in 0..n
      BY <1>1
    <3>2. Right(f[m], m)
      BY <2>2, <3>1
    <3>3. PICK g \in Seq(VAETaskSpec) : g = f[m]
      BY <1>5, <3>1
    <3>4. PICK t \in VAETaskSpec : t = tasks[m + 1] /\ t.id = m /\ t.id \in Int
      <4>1. tasks[m + 1].id = (m + 1) - 1 /\ tasks[m + 1] \in VAETaskSpec
        BY <1>1, <3>1
      <4> QED BY <3>1, <4>1
    <3>5. Right(g, m) /\ f[m + 1] = g \o parts[m + 1] /\ parts[m + 1] = IF t.rank = rank THEN <<t>> ELSE <<>>
      BY <1>2, <1>5, <3>1, <3>2, <3>3, <3>4
    <3>6. CASE t.rank # rank
      <4>1. f[m + 1] = g
        BY <3>5, <3>6
      <4>2. Right(g, m + 1)
        BY <3>4, <3>5, <3>6
      <4> HIDE DEF Right
      <4> QED BY <4>1, <4>2
    <3>7. CASE t.rank = rank
      <4>1. PICK h : h = g \o <<t>>
        OBVIOUS
      <4>2. /\ Len(g) \in Nat /\ Len(h) = Len(g) + 1 /\ h[Len(g) + 1] = t
            /\ \A k \in 1..Len(g) : h[k] = g[k]
        BY <4>1
      <4>3. \A k \in 1..Len(g) : g[k].id + 1 \in 1..m /\ g[k] \in VAETaskSpec /\ g[k].id \in Int
        <5> TAKE k \in 1..Len(g)
        <5>1. g[k].id + 1 \in 1..m /\ g[k] \in VAETaskSpec
          BY <3>5
        <5> QED BY <5>1 DEF VAETaskSpec
      <4>4. ASSUME NEW k \in 1..Len(h)
            PROVE  h[k].id + 1 \in 1..(m + 1) /\ h[k].rank = rank /\ tasks[h[k].id + 1] = h[k]
        <5>1. CASE k \in 1..Len(g)
          <6>1. h[k] = g[k] /\ g[k].id + 1 \in 1..m /\ g[k].rank = rank /\ tasks[g[k].id + 1] = g[k]
            BY <3>5, <4>2, <5>1
          <6> QED BY <6>1
        <5>2. CASE k = Len(g) + 1
          BY <3>4, <3>7, <4>2, <5>2
        <5> QED BY <4>2, <5>1, <5>2
      <4>5. ASSUME NEW k \in 1..Len(h), NEW l \in 1..Len(h), h[k].id = h[l].id PROVE k = l
        <5>1. CASE k \in 1..Len(g) /\ l \in 1..Len(g)
          BY <3>5, <4>2, <4>5, <5>1
        <5>2. CASE k = Len(g) + 1 /\ l \in 1..Len(g)
          BY <3>4, <4>2, <4>3, <4>5, <5>2
        <5>3. CASE l = Len(g) + 1 /\ k \in 1..Len(g)
          BY <3>4, <4>2, <4>3, <4>5, <5>3
        <5> QED BY <4>2, <5>1, <5>2, <5>3
      <4>6. ASSUME NEW i \in 1..(m + 1), tasks[i].rank = rank PROVE \E k \in 1..Len(h) : h[k] = tasks[i]
        <5>1. CASE i \in 1..m
          <6>1. PICK k \in 1..Len(g) : g[k] = tasks[i]
            BY <3>5, <4>6, <5>1
          <6> QED BY <4>2, <6>1
        <5>2. CASE i = m + 1
          BY <3>4, <4>2, <5>2
        <5> QED BY <5>1, <5>2
      <4>7. Right(h, m + 1)
        BY <4>4, <4>5, <4>6
      <4> HIDE DEF Right
      <4> QED BY <3>5, <3>7, <4>1, <4>7
    <3> QED BY <3>6, <3>7
  <2> HIDE DEF Good
  <2> QED BY <2>1, <2>2, SetInduction
<1>7. Right(f[n], n)
  <2> HIDE DEF Right
  <2> QED BY <1>1, <1>6
<1>8. f[n] \in Seq(VAETaskSpec)
  BY <1>1, <1>5
<1> QED BY <1>4, <1>5, <1>7, <1>8 DEF n

\* The fields of a plan that has been validated.
LEMMA PlanFacts ==
    ASSUME NEW p \in VAETaskPlan, PlanOK(p)
    PROVE  /\ p.tasks \in Seq(VAETaskSpec) /\ Len(p.tasks) \in Nat \ {0} /\ DOMAIN p.tasks = 1..Len(p.tasks)
           /\ p.gin \in Seq(Int) /\ p.gout \in Seq(Int) /\ Len(p.gin) \in Nat \ {0} /\ Len(p.gout) \in Nat \ {0}
           /\ p.rounds \in Int /\ p.rounds = LongestShare(p.tasks)
           /\ \A i \in 1..Len(p.tasks) :
                 /\ p.tasks[i] \in VAETaskSpec /\ p.tasks[i].id = i - 1
                 /\ p.tasks[i].in \in Seq(Int \X Int) /\ p.tasks[i].out \in Seq(Int \X Int)
                 /\ p.tasks[i].padin \in Seq(Int) /\ p.tasks[i].padout \in Seq(Int)
                 /\ Len(p.tasks[i].in) = Len(p.gin) /\ Len(p.tasks[i].padin) = Len(p.gin)
                 /\ Len(p.tasks[i].out) = Len(p.gout) /\ Len(p.tasks[i].padout) = Len(p.gout)
                 /\ p.tasks[i].padin[1] \in Nat \ {0} /\ p.tasks[i].padout[1] \in Nat \ {0}
<1>1. /\ p.tasks \in Seq(VAETaskSpec) /\ p.gin \in Seq(Int) /\ p.gout \in Seq(Int) /\ p.rounds \in Int
  BY DEF VAETaskPlan, Shape
<1>2. /\ p.gin # <<>> /\ p.gout # <<>> /\ p.tasks # <<>> /\ p.rounds = LongestShare(p.tasks)
      /\ \A i \in DOMAIN p.tasks :
           /\ SlicesOK(p.tasks[i].in, p.gin, p.tasks[i].padin)
           /\ SlicesOK(p.tasks[i].out, p.gout, p.tasks[i].padout)
           /\ p.tasks[i].id = i - 1
  BY DEF PlanOK, ShapeOK
<1>3. \A S : \A x \in Seq(S) : x # <<>> => Len(x) \in Nat \ {0} /\ DOMAIN x = 1..Len(x)
  OBVIOUS
<1>4. /\ Len(p.tasks) \in Nat \ {0} /\ DOMAIN p.tasks = 1..Len(p.tasks)
      /\ Len(p.gin) \in Nat \ {0} /\ Len(p.gout) \in Nat \ {0}
  BY <1>1, <1>2, <1>3
<1>5. ASSUME NEW i \in 1..Len(p.tasks)
      PROVE  /\ p.tasks[i] \in VAETaskSpec /\ p.tasks[i].id = i - 1
             /\ p.tasks[i].in \in Seq(Int \X Int) /\ p.tasks[i].out \in Seq(Int \X Int)
             /\ p.tasks[i].padin \in Seq(Int) /\ p.tasks[i].padout \in Seq(Int)
             /\ Len(p.tasks[i].in) = Len(p.gin) /\ Len(p.tasks[i].padin) = Len(p.gin)
             /\ Len(p.tasks[i].out) = Len(p.gout) /\ Len(p.tasks[i].padout) = Len(p.gout)
             /\ p.tasks[i].padin[1] \in Nat \ {0} /\ p.tasks[i].padout[1] \in Nat \ {0}
  <2>1. PICK t \in VAETaskSpec : t = p.tasks[i]
    BY <1>1, <1>4
  <2>2. /\ t.in \in Seq(Int \X Int) /\ t.out \in Seq(Int \X Int)
        /\ t.padin \in Seq(Int) /\ t.padout \in Seq(Int)
    BY DEF VAETaskSpec, Shape, Slices
  <2>3. SlicesOK(t.in, p.gin, t.padin) /\ SlicesOK(t.out, p.gout, t.padout) /\ t.id = i - 1
    BY <1>2, <1>4, <2>1
  <2>4. ASSUME NEW a \in Seq(Int \X Int), NEW g \in Seq(Int), NEW b \in Seq(Int),
               SlicesOK(a, g, b), Len(g) \in Nat \ {0}
        PROVE  Len(a) = Len(g) /\ Len(b) = Len(g) /\ b[1] \in Nat \ {0}
    <3>1. Len(a) = Len(g) /\ Len(b) = Len(g) /\ \A d \in DOMAIN a : b[d] > 0
      BY <2>4 DEF SlicesOK
    <3>2. 1 \in DOMAIN a /\ 1 \in 1..Len(b)
      BY <2>4, <3>1
    <3>3. b[1] \in Int /\ b[1] > 0
      BY <3>1, <3>2
    <3> QED BY <3>1, <3>3
  <2>5. Len(t.in) = Len(p.gin) /\ Len(t.padin) = Len(p.gin) /\ t.padin[1] \in Nat \ {0}
    BY <1>1, <1>4, <2>2, <2>3, <2>4
  <2>6. Len(t.out) = Len(p.gout) /\ Len(t.padout) = Len(p.gout) /\ t.padout[1] \in Nat \ {0}
    BY <1>1, <1>4, <2>2, <2>3, <2>4
  <2> QED BY <2>1, <2>2, <2>3, <2>5, <2>6
<1> QED BY <1>1, <1>2, <1>4, <1>5

\* Every task is that of its rank in exactly one round.
LEMMA TaskFacts ==
    ASSUME NEW p \in VAETaskPlan, PlanOK(p)
    PROVE  /\ p.rounds \in Nat
           /\ \A r : \A k \in Nat \ {0} :
                 /\ TaskIn(p, r, k) \in 0..Len(p.tasks)
                 /\ TaskIn(p, r, k) # 0 => p.tasks[TaskIn(p, r, k)].rank = r
           /\ \A r : \A k, l \in Nat \ {0} : TaskIn(p, r, k) = TaskIn(p, r, l) /\ TaskIn(p, r, k) # 0 => k = l
           /\ \A t \in 1..Len(p.tasks) : \E k \in 1..p.rounds : TaskIn(p, p.tasks[t].rank, k) = t
<1> DEFINE n == Len(p.tasks)
           Mine(r) == TasksOf(p.tasks, r)
           longest == {Len(Mine(p.tasks[i].rank)) : i \in 1..n}
<1>1. /\ p.tasks \in Seq(VAETaskSpec) /\ n \in Nat \ {0} /\ DOMAIN p.tasks = 1..n
      /\ \A i \in 1..n : p.tasks[i] \in VAETaskSpec /\ p.tasks[i].id = i - 1
      /\ p.rounds \in Int /\ p.rounds = LongestShare(p.tasks)
  BY PlanFacts
<1>2. ASSUME NEW r
      PROVE  /\ Mine(r) \in Seq(VAETaskSpec)
             /\ \A k \in 1..Len(Mine(r)) : /\ Mine(r)[k].id + 1 \in 1..n /\ Mine(r)[k].rank = r
                                           /\ p.tasks[Mine(r)[k].id + 1] = Mine(r)[k]
             /\ \A k, l \in 1..Len(Mine(r)) : Mine(r)[k].id = Mine(r)[l].id => k = l
             /\ \A i \in 1..n : p.tasks[i].rank = r => \E k \in 1..Len(Mine(r)) : Mine(r)[k] = p.tasks[i]
  BY <1>1, ShareFacts
<1>3. \A r : \A k : TaskIn(p, r, k) = IF k <= Len(Mine(r)) THEN Mine(r)[k].id + 1 ELSE 0
  BY DEF TaskIn
<1>4. p.rounds = Max(longest)
  BY <1>1 DEF LongestShare
<1> HIDE DEF Mine, n
<1>5. \A i \in 1..n : Len(Mine(p.tasks[i].rank)) \in Int /\ Len(Mine(p.tasks[i].rank)) <= p.rounds
  <2> DEFINE s == [i \in 1..n |-> Len(Mine(p.tasks[i].rank))]
  <2>1. \A r : Len(Mine(r)) \in Nat
    BY <1>2
  <2>2. (\A i \in 1..n : s[i] \in Int) /\ longest = {s[i] : i \in 1..n}
    BY <2>1
  <2>3. \A i \in 1..n : s[i] = Len(Mine(p.tasks[i].rank)) /\ s[i] \in longest
    OBVIOUS
  <2> HIDE DEF s, longest
  <2>4. \A x \in longest : x <= Max(longest)
    BY <1>1, <2>2, MaxFacts
  <2> QED BY <1>4, <2>2, <2>3, <2>4
<1>6. p.rounds \in Nat
  <2>1. 1 \in 1..n /\ Len(Mine(p.tasks[1].rank)) \in Nat
    BY <1>1, <1>2
  <2>2. Len(Mine(p.tasks[1].rank)) <= p.rounds
    BY <1>5, <2>1
  <2> QED BY <1>1, <2>1, <2>2
<1>7. ASSUME NEW r, NEW k \in Nat \ {0}
      PROVE  /\ TaskIn(p, r, k) \in 0..n
             /\ TaskIn(p, r, k) # 0 => /\ p.tasks[TaskIn(p, r, k)].rank = r
                                       /\ k \in 1..Len(Mine(r)) /\ TaskIn(p, r, k) = Mine(r)[k].id + 1
  <2>1. Len(Mine(r)) \in Nat
    BY <1>2
  <2>2. CASE k <= Len(Mine(r))
    <3>1. k \in 1..Len(Mine(r)) /\ TaskIn(p, r, k) = Mine(r)[k].id + 1
      BY <1>3, <2>1, <2>2
    <3> QED BY <1>1, <1>2, <3>1
  <2>3. CASE ~(k <= Len(Mine(r)))
    BY <1>1, <1>3, <2>3
  <2> QED BY <2>2, <2>3
<1>8. ASSUME NEW r, NEW k \in Nat \ {0}, NEW l \in Nat \ {0},
             TaskIn(p, r, k) = TaskIn(p, r, l), TaskIn(p, r, k) # 0
      PROVE  k = l
  <2>1. /\ k \in 1..Len(Mine(r)) /\ l \in 1..Len(Mine(r)) /\ Mine(r)[k].id + 1 = Mine(r)[l].id + 1
        /\ Mine(r)[k].id + 1 \in 1..n /\ Mine(r)[l].id + 1 \in 1..n
    BY <1>2, <1>7, <1>8
  <2>2. Mine(r)[k].id \in Int /\ Mine(r)[l].id \in Int
    <3>1. Mine(r)[k] \in VAETaskSpec /\ Mine(r)[l] \in VAETaskSpec
      BY <1>2, <2>1
    <3> QED BY <3>1 DEF VAETaskSpec
  <2>3. Mine(r)[k].id = Mine(r)[l].id
    BY <2>1, <2>2
  <2> QED BY <1>2, <2>1, <2>3
<1>9. ASSUME NEW t \in 1..n PROVE \E k \in 1..p.rounds : TaskIn(p, p.tasks[t].rank, k) = t
  <2>1. PICK r : r = p.tasks[t].rank
    OBVIOUS
  <2>2. PICK k \in 1..Len(Mine(r)) : Mine(r)[k] = p.tasks[t]
    BY <1>2, <2>1
  <2>3. Len(Mine(r)) \in Nat /\ Len(Mine(r)) <= p.rounds
    BY <1>2, <1>5, <2>1
  <2>4. k \in 1..p.rounds /\ k <= Len(Mine(r))
    BY <1>6, <2>2, <2>3
  <2>5. TaskIn(p, r, k) = (t - 1) + 1
    BY <1>1, <1>3, <2>2, <2>4
  <2>6. (t - 1) + 1 = t
    BY <1>1
  <2> QED BY <2>1, <2>4, <2>5, <2>6
<1> QED BY <1>6, <1>7, <1>8, <1>9 DEF n

\* Multiplication by a fixed number.
LEMMA Products ==
    ASSUME NEW w \in Nat, NEW m \in Nat
    PROVE  /\ m * w \in Nat /\ 0 * w = 0 /\ (m + 1) * w = m * w + w
           /\ \A i \in Nat : i < m => i * w + w <= m * w
<1>1. m * w \in Nat /\ 0 * w = 0 /\ (m + 1) * w = m * w + w
  OBVIOUS
<1>2. ASSUME NEW i \in Nat, i < m PROVE i * w + w <= m * w
  <2>1. PICK d \in Nat : m = (i + 1) + d
    <3>1. m - (i + 1) \in Nat /\ m = (i + 1) + (m - (i + 1))
      BY <1>2
    <3> QED BY <3>1
  <2>2. m * w = i * w + w + d * w
    BY <2>1
  <2>3. d * w \in Nat /\ i * w \in Nat
    OBVIOUS
  <2> QED BY <2>2, <2>3
<1> QED BY <1>1, <1>2

\* Two sequences one after the other.
LEMMA Chained ==
    ASSUME NEW S, NEW a \in Seq(S), NEW b \in Seq(S)
    PROVE  /\ a \o b \in Seq(S) /\ Len(a \o b) = Len(a) + Len(b) /\ Len(a) \in Nat /\ Len(b) \in Nat
           /\ \A i \in 1..Len(a) : (a \o b)[i] = a[i]
           /\ \A i \in 1..Len(b) : (a \o b)[Len(a) + i] = b[i]
OBVIOUS

\* FlattenSeq goes through the parts one by one.
Flattens(S) ==
    \A parts \in Seq(Seq(S)) : \A n \in Nat : n = Len(parts) =>
        \E f : /\ f \in [0..n -> Seq(S)] /\ f[0] = <<>>
               /\ \A i \in 1..n : f[i] = f[i - 1] \o parts[i]
               /\ FlattenSeq(parts) = f[n]

\* FlattenSeq does so on sequences over any set.
LEMMA FlattenAll == ASSUME NEW S PROVE Flattens(S)
<1>1. ASSUME NEW parts \in Seq(Seq(S)), NEW n \in Nat, n = Len(parts)
      PROVE  \E f : /\ f \in [0..n -> Seq(S)] /\ f[0] = <<>>
                    /\ \A i \in 1..n : f[i] = f[i - 1] \o parts[i]
                    /\ FlattenSeq(parts) = f[n]
  BY <1>1, FlattenFacts, ZenonT(120)
<1> QED BY <1>1 DEF Flattens

\* Parts of one length lie at multiples of it.
EvenlyCut(S) ==
    \A parts \in Seq(Seq(S)) : \A w, n \in Nat :
        n = Len(parts) /\ (\A i \in 1..n : Len(parts[i]) = w) =>
           /\ FlattenSeq(parts) \in Seq(S) /\ Len(FlattenSeq(parts)) = n * w
           /\ \A i \in 1..n : \A j \in 1..w : FlattenSeq(parts)[(i - 1) * w + j] = parts[i][j]

\* FlattenSeq cuts parts of one length evenly.
LEMMA EvenParts == ASSUME NEW S PROVE EvenlyCut(S)
<1> SUFFICES ASSUME NEW parts \in Seq(Seq(S)), NEW w \in Nat, NEW n \in Nat, n = Len(parts),
                    \A i \in 1..n : Len(parts[i]) = w
             PROVE  /\ FlattenSeq(parts) \in Seq(S) /\ Len(FlattenSeq(parts)) = n * w
                    /\ \A i \in 1..n : \A j \in 1..w :
                          FlattenSeq(parts)[(i - 1) * w + j] = parts[i][j]
  BY DEF EvenlyCut
<1>1. n \in Nat /\ parts \in Seq(Seq(S)) /\ n = Len(parts)
  OBVIOUS
<1>2. PICK f : /\ f \in [0..n -> Seq(S)] /\ f[0] = <<>>
               /\ \A i \in 1..n : f[i] = f[i - 1] \o parts[i]
               /\ FlattenSeq(parts) = f[n]
  <2>1. Flattens(S)
    BY FlattenAll
  <2> QED BY <2>1, <1>1 DEF Flattens
<1> DEFINE Right(g, m) == /\ Len(g) = m * w
                          /\ \A i \in 1..m : \A j \in 1..w : g[(i - 1) * w + j] = parts[i][j]
           Good == {m \in Nat : m <= n => Right(f[m], m)}
<1>3. \A m \in Nat : m \in Good
  <2>1. 0 \in Good
    <3>1. Right(f[0], 0)
      BY <1>2, Products
    <3> HIDE DEF Right
    <3> QED BY <3>1
  <2>2. ASSUME NEW m \in Nat, m \in Good PROVE m + 1 \in Good
    <3> SUFFICES ASSUME m + 1 <= n PROVE Right(f[m + 1], m + 1)
      <4> HIDE DEF Right
      <4> QED OBVIOUS
    <3>1. m + 1 \in 1..n /\ (m + 1) - 1 = m /\ m \in 0..n
      BY <1>1
    <3>2. Right(f[m], m)
      <4> HIDE DEF Right
      <4> QED BY <2>2, <3>1
    <3>3. PICK g \in Seq(S) : g = f[m]
      BY <1>2, <3>1
    <3>4. PICK b \in Seq(S) : b = parts[m + 1] /\ Len(b) = w
      BY <1>1, <3>1
    <3>5. PICK h : h = g \o b /\ g \in Seq(S) /\ b \in Seq(S)
      OBVIOUS
    <3>6. f[m + 1] = h /\ Right(g, m)
      BY <1>2, <3>1, <3>2, <3>3, <3>4, <3>5
    <3>7. PICK x \in Nat : x = m * w /\ (m + 1) * w = x + w /\ Len(g) = x
      BY <3>6, Products
    <3>8. /\ Len(h) = x + w /\ (\A i \in 1..x : h[i] = g[i])
          /\ \A j \in 1..w : h[x + j] = b[j]
      <4>1. /\ Len(h) = Len(g) + Len(b) /\ (\A i \in 1..Len(g) : h[i] = g[i])
            /\ \A j \in 1..Len(b) : h[Len(g) + j] = b[j]
        BY <3>5, Chained
      <4> QED BY <3>4, <3>7, <4>1
    <3>9. ASSUME NEW i \in 1..(m + 1), NEW j \in 1..w PROVE h[(i - 1) * w + j] = parts[i][j]
      <4>1. CASE i \in 1..m
        <5>1. PICK k \in Nat : k = i - 1 /\ k < m
          BY <4>1
        <5>2. k * w \in Nat /\ k * w + w <= x
          BY <3>7, <5>1, Products
        <5>3. k * w + j \in 1..x
          <6>1. PICK y \in Nat : y = k * w /\ y + w <= x
            BY <5>2
          <6>2. y + j \in 1..x
            <7>1. y \in Nat /\ y + w <= x
              BY <6>1
            <7> QED BY <7>1
          <6> QED BY <6>1, <6>2
        <5>4. g[(i - 1) * w + j] = parts[i][j]
          BY <3>6, <4>1
        <5> QED BY <3>8, <5>1, <5>3, <5>4
      <4>2. CASE i = m + 1
        <5>1. (i - 1) * w = x
          BY <3>1, <3>7, <4>2
        <5> QED BY <3>4, <3>8, <4>2, <5>1
      <4> QED BY <4>1, <4>2
    <3>10. Right(h, m + 1)
      BY <3>7, <3>8, <3>9
    <3> HIDE DEF Right
    <3> QED BY <3>6, <3>10
  <2> HIDE DEF Good
  <2> QED BY <2>1, <2>2, SetInduction
<1>4. Right(f[n], n)
  <2> HIDE DEF Right
  <2> QED BY <1>1, <1>3
<1>5. f[n] \in Seq(S)
  BY <1>1, <1>2
<1> QED BY <1>1, <1>2, <1>4, <1>5

\* The pairs of a list of slices, one number after the other.
LEMMA PairsFlat ==
    ASSUME NEW s \in Seq(Int \X Int), NEW n \in Nat, n = Len(s)
    PROVE  /\ FlattenSeq(s) \in Seq(Int) /\ Len(FlattenSeq(s)) = 2 * n
           /\ \A d \in 1..n : s[d] = <<FlattenSeq(s)[2 * d - 1], FlattenSeq(s)[2 * d]>>
<1>1. ASSUME NEW x \in Int \X Int PROVE x \in Seq(Int) /\ Len(x) = 2 /\ x = <<x[1], x[2]>>
  <2>1. PICK u \in Int, v \in Int : x = <<u, v>>
    OBVIOUS
  <2>2. <<u, v>> \in Seq(Int) /\ Len(<<u, v>>) = 2 /\ <<u, v>>[1] = u /\ <<u, v>>[2] = v
    OBVIOUS
  <2> QED BY <2>1, <2>2
<1>2. s \in Seq(Seq(Int)) /\ \A i \in 1..n : Len(s[i]) = 2 /\ s[i] = <<s[i][1], s[i][2]>>
  <2>1. s = [i \in 1..n |-> s[i]] /\ \A i \in 1..n : s[i] \in Int \X Int
    OBVIOUS
  <2> QED BY <1>1, <2>1
<1>3. EvenlyCut(Int)
  BY EvenParts
<1>4. /\ FlattenSeq(s) \in Seq(Int) /\ Len(FlattenSeq(s)) = n * 2
      /\ \A i \in 1..n : \A j \in 1..2 : FlattenSeq(s)[(i - 1) * 2 + j] = s[i][j]
  <2>1. PICK w \in Nat : w = 2
    OBVIOUS
  <2>2. s \in Seq(Seq(Int)) /\ \A i \in 1..n : Len(s[i]) = w
    BY <1>2, <2>1
  <2>3. /\ FlattenSeq(s) \in Seq(Int) /\ Len(FlattenSeq(s)) = n * w
        /\ \A i \in 1..n : \A j \in 1..w : FlattenSeq(s)[(i - 1) * w + j] = s[i][j]
    <3>1. w \in Nat
      OBVIOUS
    <3> HIDE <2>1
    <3> QED BY <1>3, <2>2, <3>1 DEF EvenlyCut
  <2> QED BY <2>1, <2>3
<1>5. ASSUME NEW d \in 1..n PROVE s[d] = <<FlattenSeq(s)[2 * d - 1], FlattenSeq(s)[2 * d]>>
  <2>1. (d - 1) * 2 + 1 = 2 * d - 1 /\ (d - 1) * 2 + 2 = 2 * d /\ 1 \in 1..2 /\ 2 \in 1..2
    OBVIOUS
  <2>2. FlattenSeq(s)[2 * d - 1] = s[d][1] /\ FlattenSeq(s)[2 * d] = s[d][2]
    BY <1>4, <2>1, SMTT(60)
  <2> QED BY <1>2, <2>2
<1>6. n * 2 = 2 * n
  OBVIOUS
<1> QED BY <1>4, <1>5, <1>6

\* Part s lies in the numbers v right behind position at.
Holds(v, at, s) == /\ v \in Seq(Int) /\ s \in Seq(Int) /\ at \in Nat /\ at + Len(s) <= Len(v)
                   /\ \A j \in 1..Len(s) : v[at + j] = s[j]

\* Where the two halves of a concatenation lie, and what a longer sequence keeps.
LEMMA HoldsFacts ==
    ASSUME NEW a \in Seq(Int), NEW b \in Seq(Int)
    PROVE  /\ a \o b \in Seq(Int) /\ Len(a \o b) = Len(a) + Len(b) /\ Len(a) \in Nat /\ Len(b) \in Nat
           /\ Holds(a \o b, 0, a) /\ Holds(a \o b, Len(a), b)
           /\ \A at, s : Holds(a, at, s) => Holds(a \o b, at, s)
<1>1. PICK h : h = a \o b
  OBVIOUS
<1>2. /\ h \in Seq(Int) /\ Len(h) = Len(a) + Len(b) /\ Len(a) \in Nat /\ Len(b) \in Nat
      /\ \A i \in 1..Len(a) : h[i] = a[i]
      /\ \A i \in 1..Len(b) : h[Len(a) + i] = b[i]
  BY <1>1
<1>3. Holds(h, 0, a)
  <2>1. \A j \in 1..Len(a) : h[0 + j] = a[j]
    <3>1. \A j \in 1..Len(a) : 0 + j = j
      OBVIOUS
    <3> QED BY <1>2, <3>1
  <2> QED BY <1>2, <2>1 DEF Holds
<1>4. Holds(h, Len(a), b)
  BY <1>2 DEF Holds
<1>5. ASSUME NEW at, NEW s, Holds(a, at, s) PROVE Holds(h, at, s)
  <2>1. s \in Seq(Int) /\ at \in Nat /\ at + Len(s) <= Len(a) /\ \A j \in 1..Len(s) : a[at + j] = s[j]
    BY <1>5 DEF Holds
  <2>2. ASSUME NEW j \in 1..Len(s) PROVE h[at + j] = s[j]
    <3>1. at + j \in 1..Len(a)
      BY <1>2, <2>1
    <3> QED BY <1>2, <2>1, <3>1
  <2>3. Len(s) \in Nat
    BY <2>1
  <2> QED BY <1>2, <2>1, <2>2, <2>3 DEF Holds
<1> QED BY <1>1, <1>2, <1>3, <1>4, <1>5

\* A part of a part lies where both offsets add up.
LEMMA HoldsInside ==
    ASSUME NEW v, NEW at, NEW s, NEW from, NEW q, Holds(v, at, s), Holds(s, from, q)
    PROVE  Holds(v, at + from, q)
<1>1. /\ v \in Seq(Int) /\ s \in Seq(Int) /\ q \in Seq(Int) /\ at \in Nat /\ from \in Nat
      /\ Len(v) \in Nat /\ Len(s) \in Nat /\ Len(q) \in Nat
      /\ at + Len(s) <= Len(v) /\ from + Len(q) <= Len(s)
      /\ \A j \in 1..Len(s) : v[at + j] = s[j]
      /\ \A j \in 1..Len(q) : s[from + j] = q[j]
  BY DEF Holds
<1>2. ASSUME NEW j \in 1..Len(q) PROVE v[(at + from) + j] = q[j]
  <2>1. from + j \in 1..Len(s) /\ at + (from + j) = (at + from) + j
    BY <1>1
  <2>2. v[at + (from + j)] = s[from + j]
    BY <1>1, <2>1
  <2> QED BY <1>1, <2>1, <2>2
<1>3. (at + from) + Len(q) <= Len(v) /\ at + from \in Nat
  BY <1>1
<1> QED BY <1>1, <1>2, <1>3 DEF Holds

\* Reading a part back, as numbers or as slices.
LEMMA ReadBack ==
    ASSUME NEW v, NEW at
    PROVE  /\ \A s : Holds(v, at, s) => Cut(v, at, Len(s)) = s
           /\ \A s \in Seq(Int \X Int) : Holds(v, at, FlattenSeq(s)) => DecodeSlices(v, at, Len(s)) = s
<1>1. ASSUME NEW s, Holds(v, at, s) PROVE Cut(v, at, Len(s)) = s
  <2>1. /\ v \in Seq(Int) /\ s \in Seq(Int) /\ at \in Nat /\ Len(v) \in Nat /\ Len(s) \in Nat
        /\ at + Len(s) <= Len(v) /\ \A j \in 1..Len(s) : v[at + j] = s[j]
    BY <1>1 DEF Holds
  <2>2. PICK c : c = SubSeq(v, at + 1, at + Len(s))
    OBVIOUS
  <2>3. c \in Seq(Int) /\ Len(c) = Len(s) /\ \A j \in 1..Len(s) : c[j] = v[at + j]
    <3>1. \A j \in 1..Len(s) : (at + 1) + j - 1 = at + j
      BY <2>1
    <3>2. c \in Seq(Int) /\ Len(c) = Len(s)
      <4>1. \A i \in (at + 1)..(at + Len(s)) : v[i] \in Int
        BY <2>1
      <4>2. Len(c) = Len(s)
        <5>1. CASE Len(s) = 0
          BY <2>1, <2>2, <5>1
        <5>2. CASE Len(s) > 0
          BY <2>1, <2>2, <5>2
        <5> QED BY <2>1, <5>1, <5>2
      <4> QED BY <2>1, <2>2, <4>1, <4>2
    <3>3. \A j \in 1..Len(s) : c[j] = v[(at + 1) + j - 1]
      BY <2>1, <2>2
    <3> QED BY <3>1, <3>2, <3>3
  <2>4. c = s
    <3>1. c = [j \in 1..Len(s) |-> c[j]] /\ s = [j \in 1..Len(s) |-> s[j]]
      BY <2>1, <2>3
    <3>2. \A j \in 1..Len(s) : c[j] = s[j]
      BY <2>1, <2>3
    <3> QED BY <3>1, <3>2
  <2> QED BY <2>2, <2>4 DEF Cut
<1>2. ASSUME NEW s \in Seq(Int \X Int), Holds(v, at, FlattenSeq(s)) PROVE DecodeSlices(v, at, Len(s)) = s
  <2>1. PICK n \in Nat : n = Len(s)
    OBVIOUS
  <2>2. PICK g \in Seq(Int) : /\ g = FlattenSeq(s) /\ Len(g) = 2 * n
                              /\ \A d \in 1..n : s[d] = <<g[2 * d - 1], g[2 * d]>>
    BY <2>1, PairsFlat
  <2>3. at \in Nat /\ \A j \in 1..Len(g) : v[at + j] = g[j]
    BY <1>2, <2>2 DEF Holds
  <2>4. ASSUME NEW d \in 1..n PROVE <<v[at + 2 * d - 1], v[at + 2 * d]>> = s[d]
    <3>1. 2 * d - 1 \in 1..Len(g) /\ 2 * d \in 1..Len(g) /\ at + (2 * d - 1) = at + 2 * d - 1
      BY <2>2, <2>3
    <3> QED BY <2>2, <2>3, <3>1
  <2>5. s = [d \in 1..n |-> s[d]]
    BY <2>1
  <2>6. [d \in 1..n |-> <<v[at + 2 * d - 1], v[at + 2 * d]>>] = [d \in 1..n |-> s[d]]
    BY <2>4
  <2> QED BY <2>1, <2>5, <2>6 DEF DecodeSlices
<1> QED BY <1>1, <1>2

\* The numbers of one task, and the task they stand for.
LEMMA TaskCodec ==
    ASSUME NEW t \in VAETaskSpec, NEW ni \in Nat, NEW no \in Nat,
           Len(t.in) = ni, Len(t.padin) = ni, Len(t.out) = no, Len(t.padout) = no
    PROVE  /\ EncodeTask(t) \in Seq(Int) /\ Len(EncodeTask(t)) = TaskSize(ni, no)
           /\ \A v, at : Holds(v, at, EncodeTask(t)) => DecodeTask(v, at, ni, no) = t
<1>1. /\ t.id \in Int /\ t.rank \in Int /\ t.cost \in Int
      /\ t.in \in Seq(Int \X Int) /\ t.out \in Seq(Int \X Int) /\ t.padin \in Seq(Int) /\ t.padout \in Seq(Int)
      /\ t = [id |-> t.id, rank |-> t.rank, cost |-> t.cost, in |-> t.in, out |-> t.out,
              padin |-> t.padin, padout |-> t.padout]
  BY DEF VAETaskSpec, Shape, Slices
<1>2. PICK h \in Seq(Int) : /\ h = <<t.id, t.rank, t.cost>> /\ Len(h) = 3
                            /\ h[1] = t.id /\ h[2] = t.rank /\ h[3] = t.cost
  <2>1. PICK x \in Int, y \in Int, z \in Int : x = t.id /\ y = t.rank /\ z = t.cost
    BY <1>1
  <2>2. /\ <<x, y, z>> \in Seq(Int) /\ Len(<<x, y, z>>) = 3
        /\ <<x, y, z>>[1] = x /\ <<x, y, z>>[2] = y /\ <<x, y, z>>[3] = z
    OBVIOUS
  <2> QED BY <2>1, <2>2
<1>3. PICK a \in Seq(Int) : a = FlattenSeq(t.in) /\ Len(a) = 2 * ni
  BY <1>1, PairsFlat
<1>4. PICK b \in Seq(Int) : b = FlattenSeq(t.out) /\ Len(b) = 2 * no
  BY <1>1, PairsFlat
<1>5. PICK c \in Seq(Int) : c = t.padin /\ Len(c) = ni
  BY <1>1
<1>6. PICK d \in Seq(Int) : d = t.padout /\ Len(d) = no
  BY <1>1
<1>7. PICK x1 \in Seq(Int) : x1 = h \o a /\ Len(x1) = 3 + 2 * ni /\ Holds(x1, 0, h) /\ Holds(x1, 3, a)
  BY <1>2, <1>3, HoldsFacts, ZenonT(120)
<1>8. PICK x2 \in Seq(Int) : /\ x2 = x1 \o b /\ Len(x2) = 3 + 2 * ni + 2 * no
                             /\ Holds(x2, 0, h) /\ Holds(x2, 3, a) /\ Holds(x2, 3 + 2 * ni, b)
  <2>1. PICK x : x = x1 \o b
    OBVIOUS
  <2>2. /\ x \in Seq(Int) /\ Len(x) = Len(x1) + Len(b) /\ Holds(x, Len(x1), b)
        /\ \A at, s : Holds(x1, at, s) => Holds(x, at, s)
    BY <2>1, HoldsFacts
  <2> QED BY <1>4, <1>7, <2>1, <2>2
<1>9. PICK x3 \in Seq(Int) : /\ x3 = x2 \o c /\ Len(x3) = 3 + 3 * ni + 2 * no
                             /\ Holds(x3, 0, h) /\ Holds(x3, 3, a) /\ Holds(x3, 3 + 2 * ni, b)
                             /\ Holds(x3, 3 + 2 * ni + 2 * no, c)
  <2>1. PICK x : x = x2 \o c
    OBVIOUS
  <2>2. /\ x \in Seq(Int) /\ Len(x) = Len(x2) + Len(c) /\ Holds(x, Len(x2), c)
        /\ \A at, s : Holds(x2, at, s) => Holds(x, at, s)
    BY <2>1, HoldsFacts
  <2>3. Len(x) = 3 + 3 * ni + 2 * no
    BY <1>5, <1>8, <2>2
  <2> QED BY <1>8, <2>1, <2>2, <2>3
<1>10. PICK x4 \in Seq(Int) : /\ x4 = x3 \o d /\ Len(x4) = 3 + 3 * ni + 3 * no
                              /\ Holds(x4, 0, h) /\ Holds(x4, 3, a) /\ Holds(x4, 3 + 2 * ni, b)
                              /\ Holds(x4, 3 + 2 * ni + 2 * no, c) /\ Holds(x4, 3 + 3 * ni + 2 * no, d)
  <2>1. PICK x : x = x3 \o d
    OBVIOUS
  <2>2. /\ x \in Seq(Int) /\ Len(x) = Len(x3) + Len(d) /\ Holds(x, Len(x3), d)
        /\ \A at, s : Holds(x3, at, s) => Holds(x, at, s)
    BY <2>1, HoldsFacts
  <2>3. Len(x) = 3 + 3 * ni + 3 * no
    BY <1>6, <1>9, <2>2
  <2> QED BY <1>9, <2>1, <2>2, <2>3
<1>11. EncodeTask(t) = x4
  BY <1>2, <1>3, <1>4, <1>5, <1>6, <1>7, <1>8, <1>9, <1>10 DEF EncodeTask
<1>12. ASSUME NEW v, NEW at, Holds(v, at, x4) PROVE DecodeTask(v, at, ni, no) = t
  <2>1. /\ Holds(v, at + 0, h) /\ Holds(v, at + 3, a) /\ Holds(v, at + (3 + 2 * ni), b)
        /\ Holds(v, at + (3 + 2 * ni + 2 * no), c) /\ Holds(v, at + (3 + 3 * ni + 2 * no), d)
    BY <1>10, <1>12, HoldsInside
  <2>2. at \in Nat
    BY <1>12 DEF Holds
  <2>3. /\ at + 0 = at /\ at + (3 + 2 * ni) = at + 3 + 2 * ni
        /\ at + (3 + 2 * ni + 2 * no) = at + 3 + 2 * ni + 2 * no
        /\ at + (3 + 3 * ni + 2 * no) = at + 3 + 3 * ni + 2 * no
    BY <2>2
  <2>4. v[at + 1] = t.id /\ v[at + 2] = t.rank /\ v[at + 3] = t.cost
    <3>1. \A j \in 1..Len(h) : v[at + j] = h[j]
      BY <2>1, <2>3 DEF Holds
    <3> QED BY <1>2, <3>1
  <2>5. DecodeSlices(v, at + 3, ni) = t.in
    BY <1>1, <1>3, <2>1, ReadBack
  <2>6. DecodeSlices(v, at + 3 + 2 * ni, no) = t.out
    BY <1>1, <1>4, <2>1, <2>3, ReadBack
  <2>7. Cut(v, at + 3 + 2 * ni + 2 * no, ni) = t.padin /\ Cut(v, at + 3 + 3 * ni + 2 * no, no) = t.padout
    BY <1>5, <1>6, <2>1, <2>3, ReadBack, ZenonT(120)
  <2> QED BY <1>1, <2>4, <2>5, <2>6, <2>7 DEF DecodeTask
<1> QED BY <1>10, <1>11, <1>12 DEF TaskSize

\* A plan that VAETaskPlan.validate accepts survives its encoding: the owner can send it as a list
\* of numbers, and every rank that decodes the list has the very plan of the owner, whatever the
\* shapes and the tasks (VAEParallelEngine._encode_plan, _decode_plan).
THEOREM PlanSurvivesEncoding ==
    ASSUME NEW p \in VAETaskPlan, PlanOK(p)
    PROVE  EncodePlan(p) # <<>> /\ DecodePlan(EncodePlan(p)) = p
<1>1. PICK ni \in Nat \ {0}, no \in Nat \ {0}, n \in Nat \ {0} :
        ni = Len(p.gin) /\ no = Len(p.gout) /\ n = Len(p.tasks)
  BY PlanFacts
<1>2. /\ p.tasks \in Seq(VAETaskSpec) /\ DOMAIN p.tasks = 1..n /\ p.gin \in Seq(Int) /\ p.gout \in Seq(Int)
      /\ p.rounds \in Int
      /\ \A i \in 1..n : /\ p.tasks[i] \in VAETaskSpec
                         /\ Len(p.tasks[i].in) = ni /\ Len(p.tasks[i].padin) = ni
                         /\ Len(p.tasks[i].out) = no /\ Len(p.tasks[i].padout) = no
  BY <1>1, PlanFacts
<1>3. /\ p.operation \in {"encode", "decode"} /\ p.owner \in Int
      /\ p = [operation |-> p.operation, owner |-> p.owner, gin |-> p.gin, gout |-> p.gout,
              tasks |-> p.tasks, rounds |-> p.rounds]
  BY DEF VAETaskPlan
<1>4. PICK w \in Nat : w = TaskSize(ni, no)
  BY DEF TaskSize
<1> DEFINE parts == [i \in DOMAIN p.tasks |-> EncodeTask(p.tasks[i])]
<1>5. ASSUME NEW i \in 1..n
      PROVE  /\ parts[i] \in Seq(Int) /\ Len(parts[i]) = w
             /\ \A v, at : Holds(v, at, parts[i]) => DecodeTask(v, at, ni, no) = p.tasks[i]
  <2>1. parts[i] = EncodeTask(p.tasks[i])
    BY <1>2
  <2>2. PICK t \in VAETaskSpec : t = p.tasks[i]
    BY <1>2
  <2>3. Len(t.in) = ni /\ Len(t.padin) = ni /\ Len(t.out) = no /\ Len(t.padout) = no
    BY <1>2, <2>2
  <2>4. ni \in Nat /\ no \in Nat
    OBVIOUS
  <2>5. /\ EncodeTask(t) \in Seq(Int) /\ Len(EncodeTask(t)) = TaskSize(ni, no)
        /\ \A v, at : Holds(v, at, EncodeTask(t)) => DecodeTask(v, at, ni, no) = t
    BY <2>3, <2>4, TaskCodec
  <2> QED BY <1>4, <2>1, <2>2, <2>5
<1>6. parts \in Seq(Seq(Int)) /\ Len(parts) = n /\ FlattenSeq(parts) = FlattenSeq([i \in DOMAIN p.tasks |-> EncodeTask(p.tasks[i])])
  <2>1. parts = [i \in 1..n |-> parts[i]]
    BY <1>2
  <2> HIDE DEF parts
  <2>2. parts \in Seq(Seq(Int)) /\ Len(parts) = n
    BY <1>5, <2>1
  <2> QED BY <2>2 DEF parts
<1> HIDE DEF parts
<1>7. PICK f \in Seq(Int) : /\ f = FlattenSeq(parts) /\ Len(f) = n * w
                            /\ \A i \in 1..n : \A j \in 1..w : f[(i - 1) * w + j] = parts[i][j]
  <2>1. EvenlyCut(Int)
    BY EvenParts
  <2>2. n \in Nat /\ w \in Nat /\ n = Len(parts) /\ \A i \in 1..n : Len(parts[i]) = w
    BY <1>5, <1>6
  <2> QED BY <1>6, <2>1, <2>2 DEF EvenlyCut
<1>8. ASSUME NEW i \in 1..n PROVE (i - 1) * w \in Nat /\ Holds(f, (i - 1) * w, parts[i])
  <2>1. PICK k \in Nat : k = i - 1 /\ k < n /\ n \in Nat
    BY <1>1
  <2>2. PICK x \in Nat, y \in Nat : x = k * w /\ y = n * w /\ x + w <= y
    BY <2>1, Products
  <2>3. x + Len(parts[i]) <= Len(f)
    BY <1>5, <1>7, <2>2
  <2>4. \A j \in 1..Len(parts[i]) : f[x + j] = parts[i][j]
    BY <1>5, <1>7, <2>1, <2>2
  <2>5. Holds(f, x, parts[i])
    BY <1>5, <2>3, <2>4 DEF Holds
  <2> QED BY <2>1, <2>2, <2>5
<1>9. PICK h \in Seq(Int) : /\ h = <<SchemaVersion, IF p.operation = "encode" THEN 0 ELSE 1, p.owner,
                                     Len(p.gin), Len(p.gout), Len(p.tasks), p.rounds>>
                            /\ Len(h) = 7 /\ h[1] = 1 /\ h[2] = (IF p.operation = "encode" THEN 0 ELSE 1)
                            /\ h[3] = p.owner /\ h[4] = ni /\ h[5] = no /\ h[6] = n /\ h[7] = p.rounds
  <2>1. PICK a \in Int, b \in Int, c \in Int, d \in Int :
           a = 1 /\ b = (IF p.operation = "encode" THEN 0 ELSE 1) /\ c = p.owner /\ d = p.rounds
    BY <1>2, <1>3
  <2>2. PICK x \in Int, y \in Int, z \in Int : x = ni /\ y = no /\ z = n
    OBVIOUS
  <2>3. /\ <<a, b, c, x, y, z, d>> \in Seq(Int) /\ Len(<<a, b, c, x, y, z, d>>) = 7
        /\ <<a, b, c, x, y, z, d>>[1] = a /\ <<a, b, c, x, y, z, d>>[2] = b
        /\ <<a, b, c, x, y, z, d>>[3] = c /\ <<a, b, c, x, y, z, d>>[4] = x
        /\ <<a, b, c, x, y, z, d>>[5] = y /\ <<a, b, c, x, y, z, d>>[6] = z
        /\ <<a, b, c, x, y, z, d>>[7] = d
    OBVIOUS
  <2> HIDE DEF SchemaVersion
  <2>4. <<a, b, c, x, y, z, d>> = <<SchemaVersion, IF p.operation = "encode" THEN 0 ELSE 1, p.owner,
                                    Len(p.gin), Len(p.gout), Len(p.tasks), p.rounds>>
    BY <1>1, <2>1, <2>2 DEF SchemaVersion
  <2> QED BY <2>1, <2>2, <2>3, <2>4
<1>10. PICK x1 \in Seq(Int) : x1 = h \o p.gin /\ Len(x1) = 7 + ni /\ Holds(x1, 0, h) /\ Holds(x1, 7, p.gin)
  <2>1. PICK x : x = h \o p.gin
    OBVIOUS
  <2>2. x \in Seq(Int) /\ Len(x) = Len(h) + Len(p.gin) /\ Holds(x, 0, h) /\ Holds(x, Len(h), p.gin)
    BY <1>2, <2>1, HoldsFacts
  <2> QED BY <1>1, <1>9, <2>1, <2>2
<1>11. PICK x2 \in Seq(Int) : /\ x2 = x1 \o p.gout /\ Len(x2) = 7 + ni + no
                              /\ Holds(x2, 0, h) /\ Holds(x2, 7, p.gin) /\ Holds(x2, 7 + ni, p.gout)
  <2>1. PICK x : x = x1 \o p.gout
    OBVIOUS
  <2>2. /\ x \in Seq(Int) /\ Len(x) = Len(x1) + Len(p.gout) /\ Holds(x, Len(x1), p.gout)
        /\ \A at, s : Holds(x1, at, s) => Holds(x, at, s)
    BY <1>2, <2>1, HoldsFacts
  <2> QED BY <1>1, <1>10, <2>1, <2>2
<1>12. PICK v \in Seq(Int) : /\ v = x2 \o f /\ Len(v) = 7 + ni + no + n * w
                             /\ Holds(v, 0, h) /\ Holds(v, 7, p.gin) /\ Holds(v, 7 + ni, p.gout)
                             /\ Holds(v, 7 + ni + no, f)
  <2>1. PICK x : x = x2 \o f
    OBVIOUS
  <2>2. /\ x \in Seq(Int) /\ Len(x) = Len(x2) + Len(f) /\ Holds(x, Len(x2), f)
        /\ \A at, s : Holds(x2, at, s) => Holds(x, at, s)
    BY <2>1, HoldsFacts
  <2> QED BY <1>7, <1>11, <2>1, <2>2
<1>13. EncodePlan(p) = v
  BY <1>6, <1>7, <1>9, <1>10, <1>11, <1>12 DEF EncodePlan
<1>14. /\ v[1] = 1 /\ v[2] = (IF p.operation = "encode" THEN 0 ELSE 1) /\ v[3] = p.owner
       /\ v[4] = ni /\ v[5] = no /\ v[6] = n /\ v[7] = p.rounds
  <2>1. \A j \in 1..Len(h) : v[0 + j] = h[j]
    BY <1>12 DEF Holds
  <2>2. \A j \in 1..7 : v[j] = h[j]
    <3>1. \A j \in 1..7 : 0 + j = j
      OBVIOUS
    <3> QED BY <1>9, <2>1, <3>1
  <2>3. 1 \in 1..7 /\ 2 \in 1..7 /\ 3 \in 1..7 /\ 4 \in 1..7 /\ 5 \in 1..7 /\ 6 \in 1..7 /\ 7 \in 1..7
    OBVIOUS
  <2>4. v[1] = h[1] /\ v[2] = h[2] /\ v[3] = h[3] /\ v[4] = h[4] /\ v[5] = h[5] /\ v[6] = h[6] /\ v[7] = h[7]
    BY <2>2, <2>3
  <2> QED BY <1>9, <2>4
<1>15. HeaderOK(v) /\ Len(v) = MetadataSize(v[4], v[5], v[6])
  <2>1. PICK m \in Nat : m = n * w
    BY <1>1
  <2>2. Len(v) = MetadataSize(ni, no, n)
    BY <1>4, <1>12 DEF MetadataSize
  <2>3. Len(v) >= 7
    BY <1>12, <2>1
  <2> QED BY <1>14, <2>2, <2>3 DEF HeaderOK, SchemaVersion
<1>16. Cut(v, 7, ni) = p.gin /\ Cut(v, 7 + ni, no) = p.gout
  BY <1>1, <1>12, ReadBack
<1>17. ASSUME NEW i \in 1..n
       PROVE  DecodeTask(v, 7 + ni + no + (i - 1) * w, ni, no) = p.tasks[i]
  BY <1>5, <1>8, <1>12, HoldsInside
<1>18. [i \in 1..n |-> DecodeTask(v, 7 + ni + no + (i - 1) * TaskSize(ni, no), ni, no)] = p.tasks
  <2>1. p.tasks = [i \in 1..n |-> p.tasks[i]]
    BY <1>1, <1>2
  <2> QED BY <1>4, <1>17, <2>1
<1>19. (IF v[2] = 0 THEN "encode" ELSE "decode") = p.operation
  BY <1>3, <1>14
<1>20. [operation |-> IF v[2] = 0 THEN "encode" ELSE "decode", owner |-> v[3],
        gin |-> Cut(v, 7, v[4]), gout |-> Cut(v, 7 + v[4], v[5]),
        tasks |-> [i \in 1..v[6] |-> DecodeTask(v, 7 + v[4] + v[5] + (i - 1) * TaskSize(v[4], v[5]), v[4], v[5])],
        rounds |-> v[7]] = p
  BY <1>3, <1>14, <1>16, <1>18, <1>19
<1>21. DecodePlan(v) = p
  BY <1>15, <1>20 DEF DecodePlan
<1>22. v # <<>>
  BY <1>14, <1>15 DEF HeaderOK
<1> QED BY <1>13, <1>21, <1>22

-----------------------------------------------------------------------------
(***************************************************************************)
(* The script of a plan, step by step.                                     *)
(***************************************************************************)

StepSet == [phase : {"plan", "signature", "metadata", "materialize", "scatter", "execute",
                     "gather", "merge", "drain"}, round : Int, task : Int]

\* Before step i, the tile of task t has gone to r in round k and is there still.
ScatteredBefore(p, s, i, r, k, t) ==
  \E j \in 4..(i - 1) :
     /\ s[j] = Step("scatter", k, t)
     /\ \A l \in (j + 1)..(i - 1) :
           s[l].phase # "execute" /\ (s[l].phase = "scatter" => p.tasks[s[l].task].rank # r)

\* Before step i, the last round that was executed is k.
ExecutedBefore(s, i, k) ==
  \E j \in 4..(i - 1) : /\ s[j] = Step("execute", k, 0)
                        /\ \A l \in (j + 1)..(i - 1) : s[l].phase # "execute"

\* Step i stands in its place.
SaneAt(p, s, i) ==
  /\ s[i].phase \in {"materialize", "scatter", "execute", "gather", "merge"} /\ s[i].round \in Nat \ {0}
  /\ s[i].phase # "execute" => s[i].task \in Active(p, Ranks, s[i].round)
  /\ s[i].phase = "scatter" => i > 4 /\ s[i - 1] = Step("materialize", s[i].round, s[i].task)
  /\ s[i].phase = "merge" => i > 4 /\ s[i - 1] = Step("gather", s[i].round, s[i].task)
  /\ s[i].phase = "execute" =>
       \A r \in Ranks : TaskIn(p, r, s[i].round) # 0 =>
          ScatteredBefore(p, s, i, r, s[i].round, TaskIn(p, r, s[i].round))
  /\ s[i].phase = "gather" => ExecutedBefore(s, i, s[i].round)

Sane(p, s) ==
  /\ s \in Seq(StepSet) /\ Len(s) >= 3 /\ s[1] = Opening[1] /\ s[2] = Opening[2] /\ s[3] = Opening[3]
  /\ \A i \in 4..Len(s) : SaneAt(p, s, i)

\* Every task is merged at most once, and those of the rounds before k and the first m of
\* round k have been.
Returned(p, s, k, m) ==
  /\ \A i \in 4..Len(s) : s[i].phase = "merge" => s[i].round < k \/ (s[i].round = k /\ s[i].task <= m)
  /\ \A i, l \in 4..Len(s) :
        s[i].phase = "merge" /\ s[l].phase = "merge" /\ s[i].task = s[l].task => i = l
  /\ \A t \in 1..Len(p.tasks) : \A x \in Nat \ {0} :
        TaskIn(p, p.tasks[t].rank, x) = t /\ (x < k \/ (x = k /\ t <= m)) =>
           \E i \in 4..Len(s) : s[i].phase = "merge" /\ s[i].task = t

\* The first m ranks have their tiles of round k.
Delivered(p, s, k, m) ==
  \A r \in Ranks : r < m /\ TaskIn(p, r, k) # 0 => ScatteredBefore(p, s, Len(s) + 1, r, k, TaskIn(p, r, k))

ScriptPlan(p) == p \in VAETaskPlan /\ PlanOK(p) /\ MembersOK(p, Owner, Ranks)

\* The tasks of a round.
LEMMA ActiveFacts ==
    ASSUME NEW p, ScriptPlan(p), NEW k \in Nat \ {0}
    PROVE  \A t : t \in Active(p, Ranks, k) <=> t \in 1..Len(p.tasks) /\ TaskIn(p, p.tasks[t].rank, k) = t
<1>1. /\ p.tasks \in Seq(VAETaskSpec) /\ DOMAIN p.tasks = 1..Len(p.tasks) /\ Len(p.tasks) \in Nat
      /\ \A i \in 1..Len(p.tasks) : p.tasks[i].rank \in Ranks
  BY PlanFacts DEF ScriptPlan, MembersOK
<1>2. \A r : /\ TaskIn(p, r, k) \in 0..Len(p.tasks)
             /\ TaskIn(p, r, k) # 0 => p.tasks[TaskIn(p, r, k)].rank = r
  BY TaskFacts DEF ScriptPlan
<1>3. ASSUME NEW t, t \in Active(p, Ranks, k) PROVE t \in 1..Len(p.tasks) /\ TaskIn(p, p.tasks[t].rank, k) = t
  <2>1. PICK r \in Ranks : t = TaskIn(p, r, k) /\ t # 0
    BY <1>3 DEF Active
  <2>2. t \in 0..Len(p.tasks) /\ p.tasks[t].rank = r
    BY <1>2, <2>1
  <2> QED BY <1>1, <2>1, <2>2
<1>4. ASSUME NEW t \in 1..Len(p.tasks), TaskIn(p, p.tasks[t].rank, k) = t PROVE t \in Active(p, Ranks, k)
  <2>1. p.tasks[t].rank \in Ranks /\ t # 0
    BY <1>1
  <2> QED BY <1>4, <2>1 DEF Active
<1> QED BY <1>3, <1>4

\* The fields of a step.
LEMMA StepFacts ==
    ASSUME NEW f \in {"plan", "signature", "metadata", "materialize", "scatter", "execute", "gather",
                      "merge", "drain"}, NEW k \in Int, NEW t \in Int
    PROVE  /\ Step(f, k, t) \in StepSet /\ Step(f, k, t).phase = f
           /\ Step(f, k, t).round = k /\ Step(f, k, t).task = t
BY DEF Step, StepSet

\* A script that grows by a step.
LEMMA AppendedStep ==
    ASSUME NEW s \in Seq(StepSet), NEW x \in StepSet, NEW h, h = Append(s, x), NEW n \in Nat, n = Len(s)
    PROVE  h \in Seq(StepSet) /\ Len(h) = n + 1 /\ h[n + 1] = x /\ \A i \in 1..n : h[i] = s[i]
OBVIOUS

\* The beginnings of a script keep their places.
LEMMA EarlierSteps ==
    ASSUME NEW p, NEW s \in Seq(StepSet), NEW x \in StepSet, NEW h, h = Append(s, x), NEW n \in Nat, n = Len(s)
    PROVE  /\ \A i \in 4..(n + 1) :
                 /\ \A r, k, t : ScatteredBefore(p, s, i, r, k, t) => ScatteredBefore(p, h, i, r, k, t)
                 /\ \A k : ExecutedBefore(s, i, k) => ExecutedBefore(h, i, k)
           /\ \A i \in 4..n : SaneAt(p, s, i) => SaneAt(p, h, i)
<1>1. h \in Seq(StepSet) /\ Len(h) = n + 1 /\ h[n + 1] = x /\ \A i \in 1..n : h[i] = s[i]
  OBVIOUS
<1>2. ASSUME NEW i \in 4..(n + 1), NEW r, NEW k, NEW t, ScatteredBefore(p, s, i, r, k, t)
      PROVE  ScatteredBefore(p, h, i, r, k, t)
  <2>1. PICK j \in 4..(i - 1) :
           /\ s[j] = Step("scatter", k, t)
           /\ \A l \in (j + 1)..(i - 1) :
                 s[l].phase # "execute" /\ (s[l].phase = "scatter" => p.tasks[s[l].task].rank # r)
    BY <1>2 DEF ScatteredBefore
  <2>2. h[j] = s[j] /\ \A l \in (j + 1)..(i - 1) : h[l] = s[l]
    BY <1>1
  <2> QED BY <2>1, <2>2 DEF ScatteredBefore
<1>3. ASSUME NEW i \in 4..(n + 1), NEW k, ExecutedBefore(s, i, k) PROVE ExecutedBefore(h, i, k)
  <2>1. PICK j \in 4..(i - 1) :
           s[j] = Step("execute", k, 0) /\ \A l \in (j + 1)..(i - 1) : s[l].phase # "execute"
    BY <1>3 DEF ExecutedBefore
  <2>2. h[j] = s[j] /\ \A l \in (j + 1)..(i - 1) : h[l] = s[l]
    BY <1>1
  <2> QED BY <2>1, <2>2 DEF ExecutedBefore
<1>4. ASSUME NEW i \in 4..n, SaneAt(p, s, i) PROVE SaneAt(p, h, i)
  <2>1. h[i] = s[i] /\ h[i - 1] = s[i - 1] /\ i \in 4..(n + 1)
    BY <1>1
  <2> QED BY <1>2, <1>3, <1>4, <2>1 DEF SaneAt
<1> QED BY <1>2, <1>3, <1>4

\* What has been delivered or executed stays so while other steps follow.
LEMMA LaterSteps ==
    ASSUME NEW p, NEW s \in Seq(StepSet), NEW x \in StepSet, NEW h, h = Append(s, x), NEW n \in Nat, n = Len(s),
           n >= 3
    PROVE  /\ \A r, k, t : /\ ScatteredBefore(p, s, n + 1, r, k, t) /\ x.phase # "execute"
                           /\ (x.phase = "scatter" => p.tasks[x.task].rank # r)
                           => ScatteredBefore(p, h, n + 2, r, k, t)
           /\ \A r, k, t : x = Step("scatter", k, t) => ScatteredBefore(p, h, n + 2, r, k, t)
           /\ \A k : ExecutedBefore(s, n + 1, k) /\ x.phase # "execute" => ExecutedBefore(h, n + 2, k)
           /\ \A k : x = Step("execute", k, 0) => ExecutedBefore(h, n + 2, k)
<1>1. /\ h \in Seq(StepSet) /\ Len(h) = n + 1 /\ h[n + 1] = x /\ \A i \in 1..n : h[i] = s[i]
      /\ (n + 2) - 1 = n + 1 /\ (n + 1) - 1 = n
  OBVIOUS
<1>2. ASSUME NEW r, NEW k, NEW t, ScatteredBefore(p, s, n + 1, r, k, t), x.phase # "execute",
             x.phase = "scatter" => p.tasks[x.task].rank # r
      PROVE  ScatteredBefore(p, h, n + 2, r, k, t)
  <2>1. PICK j \in 4..n :
           /\ s[j] = Step("scatter", k, t)
           /\ \A l \in (j + 1)..n :
                 s[l].phase # "execute" /\ (s[l].phase = "scatter" => p.tasks[s[l].task].rank # r)
    BY <1>1, <1>2 DEF ScatteredBefore
  <2>2. ASSUME NEW l \in (j + 1)..(n + 1)
        PROVE  h[l].phase # "execute" /\ (h[l].phase = "scatter" => p.tasks[h[l].task].rank # r)
    <3>1. CASE l = n + 1
      BY <1>1, <1>2, <3>1
    <3>2. CASE l # n + 1
      <4>1. l \in (j + 1)..n /\ l \in 1..n
        BY <3>2
      <4> QED BY <1>1, <2>1, <4>1
    <3> QED BY <3>1, <3>2
  <2>3. j \in 4..(n + 1) /\ h[j] = Step("scatter", k, t)
    BY <1>1, <2>1
  <2> QED BY <1>1, <2>2, <2>3 DEF ScatteredBefore
<1>3. ASSUME NEW r, NEW k, NEW t, x = Step("scatter", k, t) PROVE ScatteredBefore(p, h, n + 2, r, k, t)
  <2>1. n + 1 \in 4..(n + 1) /\ h[n + 1] = Step("scatter", k, t) /\ (n + 1) + 1 > n + 1
    BY <1>1, <1>3
  <2> QED BY <1>1, <2>1 DEF ScatteredBefore
<1>4. ASSUME NEW k, ExecutedBefore(s, n + 1, k), x.phase # "execute" PROVE ExecutedBefore(h, n + 2, k)
  <2>1. PICK j \in 4..n : s[j] = Step("execute", k, 0) /\ \A l \in (j + 1)..n : s[l].phase # "execute"
    BY <1>1, <1>4 DEF ExecutedBefore
  <2>2. ASSUME NEW l \in (j + 1)..(n + 1) PROVE h[l].phase # "execute"
    <3>1. CASE l = n + 1
      BY <1>1, <1>4, <3>1
    <3>2. CASE l # n + 1
      <4>1. l \in (j + 1)..n /\ l \in 1..n
        BY <3>2
      <4> QED BY <1>1, <2>1, <4>1
    <3> QED BY <3>1, <3>2
  <2>3. j \in 4..(n + 1) /\ h[j] = Step("execute", k, 0)
    BY <1>1, <2>1
  <2> QED BY <1>1, <2>2, <2>3 DEF ExecutedBefore
<1>5. ASSUME NEW k, x = Step("execute", k, 0) PROVE ExecutedBefore(h, n + 2, k)
  <2>1. n + 1 \in 4..(n + 1) /\ h[n + 1] = Step("execute", k, 0) /\ (n + 1) + 1 > n + 1
    BY <1>1, <1>5
  <2> QED BY <1>1, <2>1 DEF ExecutedBefore
<1> QED BY <1>2, <1>3, <1>4, <1>5

\* One more step that stands in its place.
LEMMA OneMore ==
    ASSUME NEW p, NEW s, Sane(p, s), NEW x \in StepSet, NEW h, h = Append(s, x), NEW n \in Nat, n = Len(s),
           SaneAt(p, h, n + 1)
    PROVE  Sane(p, h) /\ Len(h) = n + 1
<1>1. s \in Seq(StepSet) /\ n >= 3
  BY DEF Sane
<1>2. /\ h \in Seq(StepSet) /\ Len(h) = n + 1 /\ \A i \in 1..n : h[i] = s[i]
      /\ \A i \in 4..n : SaneAt(p, s, i) => SaneAt(p, h, i)
  <2>1. h \in Seq(StepSet) /\ Len(h) = n + 1 /\ \A i \in 1..n : h[i] = s[i]
    BY <1>1, AppendedStep
  <2>2. ASSUME NEW i \in 4..n, SaneAt(p, s, i) PROVE SaneAt(p, h, i)
    BY <1>1, <2>2, EarlierSteps
  <2> QED BY <2>1, <2>2
<1>3. ASSUME NEW i \in 4..(n + 1) PROVE SaneAt(p, h, i)
  <2>1. CASE i = n + 1
    BY <2>1
  <2>2. CASE i # n + 1
    <3>1. i \in 4..n
      BY <2>2
    <3> QED BY <1>2, <3>1 DEF Sane
  <2> QED BY <2>1, <2>2
<1> QED BY <1>1, <1>2, <1>3 DEF Sane

\* Steps other than a merge change nothing in what has been merged.
LEMMA ReturnedStays ==
    ASSUME NEW p, NEW s \in Seq(StepSet), NEW x \in StepSet, NEW h, h = Append(s, x), NEW n \in Nat, n = Len(s),
           NEW k, NEW m, Returned(p, s, k, m), x.phase # "merge"
    PROVE  Returned(p, h, k, m)
<1>1. Len(h) = n + 1 /\ h[n + 1] = x /\ \A i \in 1..n : h[i] = s[i]
  BY AppendedStep
<1>2. \A i \in 4..(n + 1) : h[i].phase = "merge" => i \in 4..n /\ h[i] = s[i]
  BY <1>1
<1>3. \A i \in 4..n : i \in 4..(n + 1) /\ h[i] = s[i]
  BY <1>1
<1>4. /\ \A i \in 4..(n + 1) : h[i].phase = "merge" => h[i].round < k \/ (h[i].round = k /\ h[i].task <= m)
      /\ \A i, l \in 4..(n + 1) :
            h[i].phase = "merge" /\ h[l].phase = "merge" /\ h[i].task = h[l].task => i = l
  BY <1>2 DEF Returned
<1>5. ASSUME NEW t \in 1..Len(p.tasks), NEW y \in Nat \ {0},
             TaskIn(p, p.tasks[t].rank, y) = t, y < k \/ (y = k /\ t <= m)
      PROVE  \E i \in 4..(n + 1) : h[i].phase = "merge" /\ h[i].task = t
  <2>1. PICK i \in 4..n : s[i].phase = "merge" /\ s[i].task = t
    BY <1>5 DEF Returned
  <2> QED BY <1>3, <2>1
<1> QED BY <1>1, <1>4, <1>5 DEF Returned

\* The next rank gets its tile, if it has one in this round.
LEMMA DeliversNext ==
    ASSUME NEW p, ScriptPlan(p), NEW s, Sane(p, s), NEW k \in Nat \ {0}, Returned(p, s, k, 0),
           NEW m \in 0..(N - 1), Delivered(p, s, k, m), NEW t, t = TaskIn(p, m, k),
           NEW h, h = IF t = 0 THEN s ELSE s \o << Step("materialize", k, t), Step("scatter", k, t) >>
    PROVE  Sane(p, h) /\ Returned(p, h, k, 0) /\ Delivered(p, h, k, m + 1)
<1>0. m \in Nat /\ m \in Ranks /\ s \in Seq(StepSet) /\ \A r \in Ranks : r \in Nat
  BY JobsAssumption DEF Ranks, Sane
<1>1. /\ \A r : TaskIn(p, r, k) \in 0..Len(p.tasks)
      /\ \A r : TaskIn(p, r, k) # 0 => p.tasks[TaskIn(p, r, k)].rank = r
  BY TaskFacts DEF ScriptPlan
<1>2. CASE t = 0
  <2>1. ASSUME NEW r \in Ranks, r < m + 1, TaskIn(p, r, k) # 0 PROVE r < m
    <3>1. r # m
      BY <1>2, <2>1
    <3>2. r \in Nat
      BY <1>0
    <3> QED BY <1>0, <2>1, <3>1, <3>2
  <2> QED BY <1>2, <2>1 DEF Delivered
<1>3. CASE t # 0
  <2>1. t \in Active(p, Ranks, k) /\ t \in Nat /\ p.tasks[t].rank = m
    BY <1>0, <1>1, <1>3 DEF Active
  <2>2. PICK x \in StepSet : /\ x = Step("materialize", k, t) /\ x.phase = "materialize"
                             /\ x.round = k /\ x.task = t
    <3>1. k \in Int /\ t \in Int
      BY <2>1
    <3>2. /\ Step("materialize", k, t) \in StepSet /\ Step("materialize", k, t).phase = "materialize"
          /\ Step("materialize", k, t).round = k /\ Step("materialize", k, t).task = t
      BY <3>1, StepFacts
    <3> QED BY <3>2
  <2>3. PICK y \in StepSet : y = Step("scatter", k, t) /\ y.phase = "scatter" /\ y.round = k /\ y.task = t
    <3>1. k \in Int /\ t \in Int
      BY <2>1
    <3>2. /\ Step("scatter", k, t) \in StepSet /\ Step("scatter", k, t).phase = "scatter"
          /\ Step("scatter", k, t).round = k /\ Step("scatter", k, t).task = t
      BY <3>1, StepFacts
    <3> QED BY <3>2
  <2>4. PICK n \in Nat : n = Len(s) /\ n >= 3
    BY <1>0 DEF Sane
  <2>5. PICK g : g = Append(s, x)
    OBVIOUS
  <2>6. PICK e : e = Append(g, y)
    OBVIOUS
  <2>60. h = e
    <3>1. s \o <<x, y>> = Append(Append(s, x), y)
      BY <1>0
    <3> QED BY <1>3, <2>2, <2>3, <2>5, <2>6, <3>1
  <2>7. g[n + 1] = x /\ Len(g) = n + 1 /\ g \in Seq(StepSet)
    BY <1>0, <2>4, <2>5, AppendedStep
  <2>8. SaneAt(p, g, n + 1)
    BY <2>1, <2>2, <2>7 DEF SaneAt
  <2>9. Sane(p, g)
    BY <2>4, <2>5, <2>8, OneMore
  <2>10. PICK o \in Nat : o = Len(g) /\ o = n + 1 /\ o >= 3
    BY <2>4, <2>7
  <2>11. e[o + 1] = y /\ Len(e) = o + 1 /\ e \in Seq(StepSet) /\ e[o] = x
    <3>1. e[o + 1] = y /\ Len(e) = o + 1 /\ e \in Seq(StepSet) /\ \A i \in 1..o : e[i] = g[i]
      BY <2>6, <2>7, <2>10, AppendedStep
    <3> QED BY <2>7, <2>10, <3>1
  <2>12. SaneAt(p, e, o + 1)
    <3>1. o + 1 > 4 /\ (o + 1) - 1 = o
      BY <2>4, <2>10
    <3> QED BY <2>1, <2>2, <2>3, <2>11, <3>1 DEF SaneAt
  <2>13. Sane(p, e)
    BY <2>6, <2>9, <2>10, <2>12, OneMore
  <2>14. Returned(p, e, k, 0)
    <3>1. Returned(p, g, k, 0)
      BY <1>0, <2>2, <2>4, <2>5, ReturnedStays
    <3> QED BY <2>3, <2>6, <2>7, <2>10, <3>1, ReturnedStays
  <2>15. ASSUME NEW r \in Ranks, r < m + 1, TaskIn(p, r, k) # 0
         PROVE  ScatteredBefore(p, e, Len(e) + 1, r, k, TaskIn(p, r, k))
    <3>1. Len(e) + 1 = o + 2
      BY <2>11
    <3>2. CASE r = m
      <4>1. y = Step("scatter", k, TaskIn(p, r, k))
        BY <2>3, <3>2
      <4> QED BY <2>6, <2>7, <2>10, <3>1, <4>1, LaterSteps
    <3>3. CASE r # m
      <4>1. r < m
        BY <1>0, <2>15, <3>3
      <4>2. ScatteredBefore(p, s, n + 1, r, k, TaskIn(p, r, k))
        BY <2>4, <2>15, <4>1 DEF Delivered
      <4>3. ScatteredBefore(p, g, n + 2, r, k, TaskIn(p, r, k))
        BY <1>0, <2>2, <2>4, <2>5, <4>2, LaterSteps
      <4>4. n + 2 = o + 1
        BY <2>10
      <4>5. y.phase # "execute" /\ p.tasks[y.task].rank # r
        BY <2>1, <2>3, <3>3
      <4> QED BY <2>6, <2>7, <2>10, <3>1, <4>3, <4>4, <4>5, LaterSteps
    <3> QED BY <3>2, <3>3
  <2>16. Delivered(p, e, k, m + 1)
    BY <2>15 DEF Delivered
  <2> QED BY <2>13, <2>14, <2>16, <2>60
<1> QED BY <1>2, <1>3

\* When all ranks have their tiles, they compute.
LEMMA ExecutesNext ==
    ASSUME NEW p, ScriptPlan(p), NEW s, Sane(p, s), NEW k \in Nat \ {0}, Returned(p, s, k, 0),
           Delivered(p, s, k, N), NEW h, h = s \o << Step("execute", k, 0) >>
    PROVE  Sane(p, h) /\ Returned(p, h, k, 0) /\ ExecutedBefore(h, Len(h) + 1, k)
<1>0. s \in Seq(StepSet) /\ \A r \in Ranks : r < N
  BY JobsAssumption DEF Ranks, Sane
<1>1. PICK x \in StepSet : x = Step("execute", k, 0) /\ x.phase = "execute" /\ x.round = k /\ x.task = 0
  BY StepFacts
<1>2. PICK n \in Nat : n = Len(s) /\ n >= 3
  BY <1>0 DEF Sane
<1>3. h = Append(s, x)
  <2>1. s \o <<x>> = Append(s, x)
    BY <1>0
  <2> QED BY <1>1, <2>1
<1>4. h[n + 1] = x /\ Len(h) = n + 1 /\ n + 1 \in 4..(n + 1)
  BY <1>0, <1>2, <1>3, AppendedStep
<1>5. ASSUME NEW r \in Ranks, TaskIn(p, r, k) # 0
      PROVE  ScatteredBefore(p, h, n + 1, r, k, TaskIn(p, r, k))
  <2>1. ScatteredBefore(p, s, n + 1, r, k, TaskIn(p, r, k))
    BY <1>0, <1>2, <1>5 DEF Delivered
  <2> QED BY <1>0, <1>2, <1>3, <1>4, <2>1, EarlierSteps
<1>6. SaneAt(p, h, n + 1)
  BY <1>1, <1>4, <1>5 DEF SaneAt
<1>7. Sane(p, h)
  BY <1>2, <1>3, <1>6, OneMore
<1>8. Returned(p, h, k, 0)
  BY <1>0, <1>1, <1>2, <1>3, ReturnedStays
<1>9. ExecutedBefore(h, n + 2, k)
  BY <1>0, <1>1, <1>2, <1>3, LaterSteps
<1>10. Len(h) + 1 = n + 2
  BY <1>4
<1> QED BY <1>7, <1>8, <1>9, <1>10

\* The next task comes back and is merged, if it is one of this round.
LEMMA ReturnsNext ==
    ASSUME NEW p, ScriptPlan(p), NEW s, Sane(p, s), NEW k \in Nat \ {0}, NEW t \in 1..Len(p.tasks),
           NEW m \in Nat, m + 1 = t, Returned(p, s, k, m), ExecutedBefore(s, Len(s) + 1, k),
           NEW h, h = IF t \notin Active(p, Ranks, k) THEN s
                      ELSE s \o << Step("gather", k, t), Step("merge", k, t) >>
    PROVE  Sane(p, h) /\ Returned(p, h, k, t) /\ ExecutedBefore(h, Len(h) + 1, k)
<1>0. s \in Seq(StepSet) /\ Len(p.tasks) \in Nat /\ t \in Nat /\ t # 0 /\ m \in Nat /\ m + 1 = t
  BY PlanFacts DEF ScriptPlan, Sane
<1>1. \A x \in 1..Len(p.tasks), l \in Nat \ {0} :
         x \in Active(p, Ranks, l) <=> TaskIn(p, p.tasks[x].rank, l) = x
  BY ActiveFacts
<1>2. CASE t \notin Active(p, Ranks, k)
  <2>1. ASSUME NEW x \in 1..Len(p.tasks), NEW l \in Nat \ {0},
               TaskIn(p, p.tasks[x].rank, l) = x, l < k \/ (l = k /\ x <= t)
        PROVE  \E i \in 4..Len(s) : s[i].phase = "merge" /\ s[i].task = x
    <3>1. ~(l = k /\ x = t)
      BY <1>1, <1>2, <2>1
    <3>2. l < k \/ (l = k /\ x <= m)
      BY <1>0, <2>1, <3>1
    <3> QED BY <2>1, <3>2 DEF Returned
  <2>2. ASSUME NEW i \in 4..Len(s), s[i].phase = "merge"
        PROVE  s[i].round < k \/ (s[i].round = k /\ s[i].task <= t)
    <3>1. s[i].round < k \/ (s[i].round = k /\ s[i].task <= m)
      BY <2>2 DEF Returned
    <3>2. s[i].task \in Int
      <4>1. s[i] \in StepSet
        BY <1>0
      <4> QED BY <4>1 DEF StepSet
    <3> QED BY <1>0, <3>1, <3>2
  <2>3. Returned(p, s, k, t)
    BY <2>1, <2>2 DEF Returned
  <2> QED BY <1>2, <2>3
<1>3. CASE t \in Active(p, Ranks, k)
  <2>2. PICK x \in StepSet : x = Step("gather", k, t) /\ x.phase = "gather" /\ x.round = k /\ x.task = t
    <3>1. k \in Int /\ t \in Int
      BY <1>0
    <3>2. /\ Step("gather", k, t) \in StepSet /\ Step("gather", k, t).phase = "gather"
          /\ Step("gather", k, t).round = k /\ Step("gather", k, t).task = t
      BY <3>1 DEF Step, StepSet
    <3> QED BY <3>2
  <2>3. PICK y \in StepSet : y = Step("merge", k, t) /\ y.phase = "merge" /\ y.round = k /\ y.task = t
    <3>1. k \in Int /\ t \in Int
      BY <1>0
    <3>2. /\ Step("merge", k, t) \in StepSet /\ Step("merge", k, t).phase = "merge"
          /\ Step("merge", k, t).round = k /\ Step("merge", k, t).task = t
      BY <3>1 DEF Step, StepSet
    <3> QED BY <3>2
  <2>4. PICK n \in Nat : n = Len(s) /\ n >= 3
    BY <1>0 DEF Sane
  <2>5. PICK g : g = Append(s, x)
    OBVIOUS
  <2>6. PICK e : e = Append(g, y)
    OBVIOUS
  <2>60. h = e
    <3>1. s \o <<x, y>> = Append(Append(s, x), y)
      BY <1>0
    <3> QED BY <1>3, <2>2, <2>3, <2>5, <2>6, <3>1
  <2>7. g[n + 1] = x /\ Len(g) = n + 1 /\ g \in Seq(StepSet) /\ \A i \in 1..n : g[i] = s[i]
    BY <1>0, <2>4, <2>5, AppendedStep
  <2>8. SaneAt(p, g, n + 1)
    <3>1. ExecutedBefore(s, n + 1, k) /\ n + 1 \in 4..(n + 1)
      BY <2>4
    <3>2. ExecutedBefore(g, n + 1, k)
      BY <1>0, <2>4, <2>5, <3>1, EarlierSteps
    <3> QED BY <1>3, <2>2, <2>7, <3>2 DEF SaneAt
  <2>9. Sane(p, g)
    BY <2>4, <2>5, <2>8, OneMore
  <2>10. PICK o \in Nat : o = Len(g) /\ o = n + 1 /\ o >= 3
    BY <2>4, <2>7
  <2>11. e[o + 1] = y /\ Len(e) = o + 1 /\ e \in Seq(StepSet) /\ \A i \in 1..o : e[i] = g[i]
    <3>1. g \in Seq(StepSet) /\ o = Len(g) /\ y \in StepSet /\ o \in Nat
      BY <2>7, <2>10
    <3> QED BY <2>6, <3>1, AppendedStep
  <2>12. SaneAt(p, e, o + 1)
    <3>1. o + 1 > 4 /\ (o + 1) - 1 = o /\ e[o] = x
      BY <2>4, <2>7, <2>10, <2>11
    <3> QED BY <1>3, <2>2, <2>3, <2>11, <3>1 DEF SaneAt
  <2>13. Sane(p, e)
    BY <2>6, <2>9, <2>10, <2>12, OneMore
  <2>14. ExecutedBefore(e, Len(e) + 1, k)
    <3>1. ExecutedBefore(g, n + 2, k)
      BY <1>0, <2>2, <2>4, <2>5, LaterSteps
    <3>2. n + 2 = o + 1 /\ Len(e) + 1 = o + 2
      BY <2>10, <2>11
    <3> QED BY <2>3, <2>6, <2>7, <2>10, <3>1, <3>2, LaterSteps, ZenonT(120)
  <2>15. Returned(p, g, k, m)
    BY <1>0, <2>2, <2>4, <2>5, ReturnedStays
  <2>16. ASSUME NEW i \in 4..o, g[i].phase = "merge"
         PROVE  /\ g[i].round \in Nat \ {0} /\ g[i].task \in 1..Len(p.tasks)
                /\ g[i].round < k \/ (g[i].round = k /\ g[i].task <= m)
                /\ g[i].task # t
    <3>1. SaneAt(p, g, i)
      BY <2>9, <2>10 DEF Sane
    <3>2. g[i].round \in Nat \ {0} /\ g[i].task \in Active(p, Ranks, g[i].round)
      BY <2>16, <3>1 DEF SaneAt
    <3>3. /\ g[i].task \in 1..Len(p.tasks)
          /\ TaskIn(p, p.tasks[g[i].task].rank, g[i].round) = g[i].task
      <4>1. PICK j \in Nat \ {0} : j = g[i].round /\ g[i].task \in Active(p, Ranks, j)
        BY <3>2
      <4>2. \A v : v \in Active(p, Ranks, j) => v \in 1..Len(p.tasks) /\ TaskIn(p, p.tasks[v].rank, j) = v
        BY ActiveFacts
      <4>3. g[i].task \in 1..Len(p.tasks) /\ TaskIn(p, p.tasks[g[i].task].rank, j) = g[i].task
        BY <4>1, <4>2
      <4> QED BY <4>1, <4>3
    <3>4. g[i].round < k \/ (g[i].round = k /\ g[i].task <= m)
      BY <2>10, <2>15, <2>16 DEF Returned
    <3>5. g[i].task # t
      <4> SUFFICES ASSUME g[i].task = t PROVE FALSE
        OBVIOUS
      <4>1. g[i].round < k
        BY <1>0, <3>4
      <4>2. /\ TaskIn(p, p.tasks[t].rank, g[i].round) = t /\ TaskIn(p, p.tasks[t].rank, k) = t
        BY <1>1, <1>3, <3>3
      <4>3. g[i].round = k
        <5>1. PICK l \in Nat \ {0}, r \in {p.tasks[t].rank} : l = g[i].round
          BY <3>2
        <5>2. TaskIn(p, r, l) = TaskIn(p, r, k) /\ TaskIn(p, r, l) # 0
          BY <1>0, <4>2, <5>1
        <5>3. l = k
          BY <5>2, TaskFacts DEF ScriptPlan
        <5> QED BY <5>1, <5>3
      <4> QED BY <3>2, <4>1, <4>3
    <3> QED BY <3>2, <3>3, <3>4, <3>5
  <2>17. \A i \in 4..Len(e) : i = o + 1 \/ (i \in 4..o /\ e[i] = g[i])
    BY <2>11
  <2>18. ASSUME NEW i \in 4..Len(e), e[i].phase = "merge"
         PROVE  e[i].round < k \/ (e[i].round = k /\ e[i].task <= t)
    <3>1. CASE i = o + 1
      BY <1>0, <2>3, <2>11, <3>1
    <3>2. CASE i # o + 1
      <4>1. i \in 4..o /\ e[i] = g[i]
        BY <2>17, <3>2
      <4>2. g[i].round < k \/ (g[i].round = k /\ g[i].task <= m)
        BY <2>16, <2>18, <4>1
      <4>3. g[i].task \in 1..Len(p.tasks)
        BY <2>16, <2>18, <4>1
      <4> QED BY <1>0, <4>1, <4>2, <4>3
    <3> QED BY <3>1, <3>2
  <2>19. ASSUME NEW i \in 4..Len(e), NEW l \in 4..Len(e), e[i].phase = "merge", e[l].phase = "merge",
                e[i].task = e[l].task
         PROVE  i = l
    <3>1. CASE i = o + 1 /\ l = o + 1
      BY <3>1
    <3>2. CASE i = o + 1 /\ l # o + 1
      <4>1. l \in 4..o /\ e[l] = g[l] /\ e[i] = y
        BY <2>11, <2>17, <3>2
      <4> QED BY <2>3, <2>16, <2>19, <4>1
    <3>3. CASE i # o + 1 /\ l = o + 1
      <4>1. i \in 4..o /\ e[i] = g[i] /\ e[l] = y
        BY <2>11, <2>17, <3>3
      <4> QED BY <2>3, <2>16, <2>19, <4>1
    <3>4. CASE i # o + 1 /\ l # o + 1
      <4>1. i \in 4..o /\ e[i] = g[i] /\ l \in 4..o /\ e[l] = g[l]
        BY <2>17, <3>4
      <4> QED BY <2>10, <2>15, <2>19, <4>1 DEF Returned
    <3> QED BY <3>1, <3>2, <3>3, <3>4
  <2>20. ASSUME NEW z \in 1..Len(p.tasks), NEW l \in Nat \ {0},
                TaskIn(p, p.tasks[z].rank, l) = z, l < k \/ (l = k /\ z <= t)
         PROVE  \E i \in 4..Len(e) : e[i].phase = "merge" /\ e[i].task = z
    <3>1. CASE z = t
      <4>1. o + 1 \in 4..Len(e) /\ e[o + 1].phase = "merge" /\ e[o + 1].task = z
        BY <2>3, <2>10, <2>11, <3>1
      <4> QED BY <4>1
    <3>2. CASE z # t
      <4>1. l < k \/ (l = k /\ z <= m)
        BY <1>0, <2>20, <3>2
      <4>2. PICK i \in 4..o : g[i].phase = "merge" /\ g[i].task = z
        BY <2>10, <2>15, <2>20, <4>1 DEF Returned
      <4>3. i \in 4..Len(e) /\ e[i] = g[i]
        BY <2>11
      <4> QED BY <4>2, <4>3
    <3> QED BY <3>1, <3>2
  <2>21. Returned(p, e, k, t)
    BY <2>18, <2>19, <2>20 DEF Returned
  <2> QED BY <2>13, <2>14, <2>21, <2>60
<1> QED BY <1>2, <1>3

\* What two steps, or none, add to a script.
LEMMA PairOfSteps ==
    ASSUME NEW f \in {"materialize", "gather"}, NEW g \in {"scatter", "merge"}, NEW k \in Int, NEW t \in Int
    PROVE  << Step(f, k, t), Step(g, k, t) >> \in Seq(StepSet) /\ <<>> \in Seq(StepSet)
<1>1. Step(f, k, t) \in StepSet /\ Step(g, k, t) \in StepSet
  BY DEF Step, StepSet
<1> QED BY <1>1

\* Scripts may be put together in any grouping.
LEMMA StepsGroup ==
    ASSUME NEW a \in Seq(StepSet), NEW b \in Seq(StepSet), NEW c \in Seq(StepSet)
    PROVE  (a \o b) \o c = a \o (b \o c)
OBVIOUS

\* One round leads from what the earlier rounds have merged to what this one has merged too.
LEMMA RoundRuns ==
    ASSUME NEW p, ScriptPlan(p), NEW s, Sane(p, s), NEW k \in Nat \ {0}, Returned(p, s, k, 0)
    PROVE  /\ RoundScript(p, k) \in Seq(StepSet)
           /\ Sane(p, s \o RoundScript(p, k)) /\ Returned(p, s \o RoundScript(p, k), k + 1, 0)
<1> DEFINE out(t) == IF t = 0 THEN <<>> ELSE << Step("materialize", k, t), Step("scatter", k, t) >>
           back(t) == IF t \notin Active(p, Ranks, k) THEN <<>>
                      ELSE << Step("gather", k, t), Step("merge", k, t) >>
           outs == [i \in 1..N |-> out(TaskIn(p, i - 1, k))]
           backs == [t \in DOMAIN p.tasks |-> back(t)]
           run == << Step("execute", k, 0) >>
<1>1. PICK n \in Nat \ {0} : n = Len(p.tasks) /\ DOMAIN p.tasks = 1..n
  BY PlanFacts DEF ScriptPlan
<1>2. RoundScript(p, k) = FlattenSeq(outs) \o run \o FlattenSeq(backs)
  BY DEF RoundScript
<1>3. s \in Seq(StepSet) /\ N \in Nat \ {0} /\ \A r \in Ranks : r \in Nat
  BY JobsAssumption DEF Sane, Ranks
<1>4. \A t \in Int : out(t) \in Seq(StepSet) /\ back(t) \in Seq(StepSet)
  <2> TAKE t \in Int
  <2>1. k \in Int
    OBVIOUS
  <2>2. << Step("materialize", k, t), Step("scatter", k, t) >> \in Seq(StepSet) /\ <<>> \in Seq(StepSet)
    BY <2>1, PairOfSteps
  <2>3. << Step("gather", k, t), Step("merge", k, t) >> \in Seq(StepSet)
    BY <2>1, PairOfSteps
  <2> QED BY <2>2, <2>3
<1>5. run \in Seq(StepSet)
  <2>1. Step("execute", k, 0) \in StepSet
    BY DEF Step, StepSet
  <2> QED BY <2>1
<1>6. \A r : TaskIn(p, r, k) \in Int
  BY TaskFacts, PlanFacts DEF ScriptPlan
<1>7. outs \in Seq(Seq(StepSet)) /\ N = Len(outs) /\ N \in Nat
  <2>1. \A i \in 1..N : out(TaskIn(p, i - 1, k)) \in Seq(StepSet)
    BY <1>4, <1>6
  <2> HIDE DEF out
  <2> QED BY <1>3, <2>1
<1>8. backs \in Seq(Seq(StepSet)) /\ n = Len(backs) /\ n \in Nat
  <2>1. \A t \in 1..n : back(t) \in Seq(StepSet)
    BY <1>4
  <2> HIDE DEF back
  <2> QED BY <1>1, <2>1
<1>9. (\A i \in 1..N : outs[i] = out(TaskIn(p, i - 1, k))) /\ \A t \in 1..n : backs[t] = back(t)
  BY <1>1
<1> HIDE DEF outs, backs
<1>10. Flattens(StepSet)
  BY FlattenAll
<1>11. PICK f : /\ f \in [0..N -> Seq(StepSet)] /\ f[0] = <<>>
                /\ \A i \in 1..N : f[i] = f[i - 1] \o outs[i]
                /\ FlattenSeq(outs) = f[N]
  BY <1>7, <1>10 DEF Flattens
<1>12. PICK g : /\ g \in [0..n -> Seq(StepSet)] /\ g[0] = <<>>
                /\ \A i \in 1..n : g[i] = g[i - 1] \o backs[i]
                /\ FlattenSeq(backs) = g[n]
  BY <1>8, <1>10 DEF Flattens
<1> DEFINE Sent == {m \in Nat : m <= N => /\ Sane(p, s \o f[m]) /\ Returned(p, s \o f[m], k, 0)
                                          /\ Delivered(p, s \o f[m], k, m)}
<1>13. \A m \in Nat : m \in Sent
  <2>1. 0 \in Sent
    <3>1. s \o f[0] = s
      BY <1>3, <1>11
    <3>2. Delivered(p, s, k, 0)
      BY <1>3 DEF Delivered
    <3> QED BY <3>1, <3>2
  <2>2. ASSUME NEW m \in Nat, m \in Sent PROVE m + 1 \in Sent
    <3> SUFFICES ASSUME m + 1 <= N
                 PROVE  /\ Sane(p, s \o f[m + 1]) /\ Returned(p, s \o f[m + 1], k, 0)
                        /\ Delivered(p, s \o f[m + 1], k, m + 1)
      OBVIOUS
    <3>1. m \in 0..(N - 1) /\ m + 1 \in 1..N /\ (m + 1) - 1 = m /\ m \in 0..N
      BY <1>3
    <3>2. PICK u \in Seq(StepSet) : u = f[m]
      BY <1>11, <3>1
    <3>3. PICK t : t = TaskIn(p, m, k)
      OBVIOUS
    <3>4. PICK b \in Seq(StepSet) : b = outs[m + 1] /\ b = out(t)
      BY <1>4, <1>6, <1>9, <3>1, <3>3
    <3>5. PICK v : v = s \o u
      OBVIOUS
    <3>6. Sane(p, v) /\ Returned(p, v, k, 0) /\ Delivered(p, v, k, m)
      BY <2>2, <3>1, <3>2, <3>5
    <3>7. f[m + 1] = u \o b
      BY <1>11, <3>1, <3>2, <3>4
    <3>8. s \o f[m + 1] = v \o b
      <4>1. s \in Seq(StepSet) /\ u \in Seq(StepSet) /\ b \in Seq(StepSet)
        BY <1>3, <3>2, <3>4
      <4>2. (s \o u) \o b = s \o (u \o b)
        BY <4>1, StepsGroup
      <4> QED BY <3>5, <3>7, <4>2
    <3>9. v \o b = IF t = 0 THEN v ELSE v \o << Step("materialize", k, t), Step("scatter", k, t) >>
      <4>1. v \in Seq(StepSet)
        BY <3>6 DEF Sane
      <4>2. v \o <<>> = v
        BY <4>1
      <4> QED BY <3>4, <4>2
    <3> HIDE DEF out
    <3> QED BY <3>1, <3>3, <3>6, <3>8, <3>9, DeliversNext
  <2> HIDE DEF Sent
  <2> QED BY <2>1, <2>2, SetInduction
<1>14. PICK v : v = s \o f[N] /\ Sane(p, v) /\ Returned(p, v, k, 0) /\ Delivered(p, v, k, N)
  <2>1. N \in Sent /\ N <= N
    BY <1>3, <1>13
  <2>2. Sane(p, s \o f[N]) /\ Returned(p, s \o f[N], k, 0) /\ Delivered(p, s \o f[N], k, N)
    BY <2>1
  <2> QED BY <2>2
<1>15. PICK w : w = v \o run /\ Sane(p, w) /\ Returned(p, w, k, 0) /\ ExecutedBefore(w, Len(w) + 1, k)
  BY <1>14, ExecutesNext
<1> DEFINE Back == {m \in Nat : m <= n => /\ Sane(p, w \o g[m]) /\ Returned(p, w \o g[m], k, m)
                                          /\ ExecutedBefore(w \o g[m], Len(w \o g[m]) + 1, k)}
<1>16. \A m \in Nat : m \in Back
  <2>0. w \in Seq(StepSet)
    BY <1>15 DEF Sane
  <2>1. 0 \in Back
    <3>1. w \o g[0] = w
      BY <1>12, <2>0
    <3> QED BY <1>15, <3>1
  <2>2. ASSUME NEW m \in Nat, m \in Back PROVE m + 1 \in Back
    <3> SUFFICES ASSUME m + 1 <= n
                 PROVE  /\ Sane(p, w \o g[m + 1]) /\ Returned(p, w \o g[m + 1], k, m + 1)
                        /\ ExecutedBefore(w \o g[m + 1], Len(w \o g[m + 1]) + 1, k)
      OBVIOUS
    <3>1. m + 1 \in 1..n /\ (m + 1) - 1 = m /\ m \in 0..n
      BY <1>1
    <3>2. PICK u \in Seq(StepSet) : u = g[m]
      BY <1>12, <3>1
    <3>3. PICK t \in 1..n : t = m + 1
      BY <3>1
    <3>4. PICK b \in Seq(StepSet) : b = backs[m + 1] /\ b = back(t)
      <4>1. backs[m + 1] = back(t)
        BY <1>9, <3>1, <3>3
      <4>2. back(t) \in Seq(StepSet)
        <5>1. t \in Int
          OBVIOUS
        <5> HIDE DEF back
        <5> QED BY <1>4, <5>1
      <4> QED BY <4>1, <4>2
    <3>5. PICK x : x = w \o u
      OBVIOUS
    <3>6. Sane(p, x) /\ Returned(p, x, k, m) /\ ExecutedBefore(x, Len(x) + 1, k)
      BY <2>2, <3>1, <3>2, <3>5
    <3>7. g[m + 1] = u \o b
      BY <1>12, <3>1, <3>2, <3>4
    <3>8. w \o g[m + 1] = x \o b
      <4>1. w \in Seq(StepSet) /\ u \in Seq(StepSet) /\ b \in Seq(StepSet)
        BY <2>0, <3>2, <3>4
      <4>2. (w \o u) \o b = w \o (u \o b)
        BY <4>1, StepsGroup
      <4> QED BY <3>5, <3>7, <4>2
    <3>9. PICK y : y = x \o b
      OBVIOUS
    <3>10. y = IF t \notin Active(p, Ranks, k) THEN x ELSE x \o << Step("gather", k, t), Step("merge", k, t) >>
      <4>1. x \in Seq(StepSet)
        BY <3>6 DEF Sane
      <4>2. x \o <<>> = x
        BY <4>1
      <4> QED BY <3>4, <3>9, <4>2
    <3> HIDE DEF back
    <3>11. Sane(p, y) /\ Returned(p, y, k, t) /\ ExecutedBefore(y, Len(y) + 1, k)
      <4>1. t \in 1..Len(p.tasks) /\ m \in Nat /\ m + 1 = t
        BY <1>1, <3>3
      <4> QED BY <3>6, <3>10, <4>1, ReturnsNext
    <3> QED BY <3>3, <3>8, <3>9, <3>11
  <2> HIDE DEF Back
  <2> QED BY <2>1, <2>2, SetInduction
<1>17. PICK h : h = w \o g[n] /\ Sane(p, h) /\ Returned(p, h, k, n)
  <2>1. n \in Back /\ n <= n
    BY <1>16
  <2>2. Sane(p, w \o g[n]) /\ Returned(p, w \o g[n], k, n)
    BY <2>1
  <2> QED BY <2>2
<1>18. RoundScript(p, k) \in Seq(StepSet) /\ s \o RoundScript(p, k) = h
  <2>1. PICK a \in Seq(StepSet), b \in Seq(StepSet), c \in Seq(StepSet) : a = f[N] /\ b = run /\ c = g[n]
    <3>1. N \in 0..N /\ n \in 0..n
      BY <1>3
    <3> QED BY <1>5, <1>11, <1>12, <3>1
  <2>2. RoundScript(p, k) = (a \o b) \o c
    BY <1>2, <1>11, <1>12, <2>1
  <2>3. h = ((s \o a) \o b) \o c
    BY <1>14, <1>15, <1>17, <2>1
  <2>4. a \o b \in Seq(StepSet) /\ s \o a \in Seq(StepSet) /\ (a \o b) \o c \in Seq(StepSet)
    BY <1>3
  <2>5. s \o (a \o b) = (s \o a) \o b
    BY <1>3, StepsGroup, SMTT(60)
  <2>6. PICK d \in Seq(StepSet) : d = a \o b
    BY <2>4
  <2>7. s \o (d \o c) = (s \o d) \o c
    BY <1>3, StepsGroup, SMTT(60)
  <2> QED BY <2>2, <2>3, <2>4, <2>5, <2>6, <2>7
<1>19. Returned(p, h, k + 1, 0)
  <2>1. ASSUME NEW i \in 4..Len(h), h[i].phase = "merge" PROVE h[i].round < k + 1
    <3>1. h[i].round < k \/ h[i].round = k
      BY <1>17, <2>1 DEF Returned
    <3>2. h[i] \in StepSet
      BY <1>17 DEF Sane
    <3>3. h[i].round \in Int
      BY <3>2 DEF StepSet
    <3> QED BY <3>1, <3>3
  <2>2. ASSUME NEW t \in 1..Len(p.tasks), NEW x \in Nat \ {0}, TaskIn(p, p.tasks[t].rank, x) = t,
               x < k + 1 \/ (x = k + 1 /\ t <= 0)
        PROVE  \E i \in 4..Len(h) : h[i].phase = "merge" /\ h[i].task = t
    <3>1. x < k \/ (x = k /\ t <= n)
      BY <1>1, <2>2
    <3> QED BY <1>17, <2>2, <3>1 DEF Returned
  <2> QED BY <1>17, <2>1, <2>2 DEF Returned
<1> QED BY <1>17, <1>18, <1>19

\* The script of a plan: every step in its place, every task merged exactly once, drained at
\* the end.
LEMMA ScriptFacts ==
    ASSUME NEW p \in Plans, ScriptPlan(p)
    PROVE  \E n \in Nat :
             /\ n >= 4 /\ Len(Scripts[p]) = n /\ DOMAIN Scripts[p] = 1..n
             /\ Scripts[p][1] = Opening[1] /\ Scripts[p][2] = Opening[2] /\ Scripts[p][3] = Opening[3]
             /\ Scripts[p][n].phase = "drain"
             /\ \A i \in 4..(n - 1) : SaneAt(p, Scripts[p], i)
             /\ \A i, l \in 4..(n - 1) :
                   /\ Scripts[p][i].phase = "merge" /\ Scripts[p][l].phase = "merge"
                   /\ Scripts[p][i].task = Scripts[p][l].task
                   => i = l
             /\ \A t \in 1..Len(p.tasks) :
                   \E i \in 4..(n - 1) : Scripts[p][i].phase = "merge" /\ Scripts[p][i].task = t
<1>1. Scripts[p] = Opening \o FlattenSeq([k \in 1..p.rounds |-> RoundScript(p, k)]) \o << Step("drain", 0, 0) >>
  BY RealPlans DEF Scripts, Script, ScriptPlan
<1>2. PICK m \in Nat : m = p.rounds
  BY TaskFacts DEF ScriptPlan
<1> DEFINE parts == [k \in 1..m |-> RoundScript(p, k)]
<1>3. Opening \in Seq(StepSet) /\ Len(Opening) = 3
  <2>1. Step("plan", 0, 0) \in StepSet /\ Step("signature", 0, 0) \in StepSet /\ Step("metadata", 0, 0) \in StepSet
    BY DEF Step, StepSet
  <2> QED BY <2>1 DEF Opening
<1>4. Sane(p, Opening) /\ Returned(p, Opening, 1, 0)
  <2>1. \A i : i \notin 4..3
    OBVIOUS
  <2>2. Sane(p, Opening)
    BY <1>3, <2>1 DEF Sane
  <2>3. ASSUME NEW t \in 1..Len(p.tasks), NEW x \in Nat \ {0}, x < 1 \/ (x = 1 /\ t <= 0) PROVE FALSE
    BY <2>3
  <2>4. Returned(p, Opening, 1, 0)
    BY <1>3, <2>1, <2>3 DEF Returned
  <2> QED BY <2>2, <2>4
<1>5. \A k \in 1..m : parts[k] = RoundScript(p, k) /\ RoundScript(p, k) \in Seq(StepSet)
  <2> TAKE k \in 1..m
  <2>1. \E s : Sane(p, s) /\ Returned(p, s, k, 0)
    <3> DEFINE Starts == {l \in Nat : l < m => \E s : Sane(p, s) /\ Returned(p, s, l + 1, 0)}
    <3>1. \A l \in Nat : l \in Starts
      <4>1. 0 \in Starts
        BY <1>4
      <4>2. ASSUME NEW l \in Nat, l \in Starts PROVE l + 1 \in Starts
        <5> SUFFICES ASSUME l + 1 < m PROVE \E s : Sane(p, s) /\ Returned(p, s, (l + 1) + 1, 0)
          OBVIOUS
        <5>1. PICK s : Sane(p, s) /\ Returned(p, s, l + 1, 0)
          BY <4>2
        <5>2. PICK x \in Nat \ {0} : x = l + 1
          OBVIOUS
        <5>3. Sane(p, s \o RoundScript(p, x)) /\ Returned(p, s \o RoundScript(p, x), x + 1, 0)
          BY <5>1, <5>2, RoundRuns
        <5> QED BY <5>2, <5>3
      <4> HIDE DEF Starts
      <4> QED BY <4>1, <4>2, SetInduction
    <3>2. k - 1 \in Nat /\ k - 1 < m /\ (k - 1) + 1 = k
      BY <1>2
    <3>3. k - 1 \in Starts
      BY <3>1, <3>2
    <3> QED BY <3>2, <3>3
  <2>2. PICK s : Sane(p, s) /\ Returned(p, s, k, 0)
    BY <2>1
  <2>3. k \in Nat \ {0}
    OBVIOUS
  <2>4. RoundScript(p, k) \in Seq(StepSet)
    BY <2>2, <2>3, RoundRuns
  <2> QED BY <2>4
<1>6. parts \in Seq(Seq(StepSet)) /\ m = Len(parts)
  BY <1>5
<1>7. Scripts[p] = Opening \o FlattenSeq(parts) \o << Step("drain", 0, 0) >>
  BY <1>1, <1>2
<1> HIDE DEF parts
<1>8. PICK f : /\ f \in [0..m -> Seq(StepSet)] /\ f[0] = <<>>
               /\ \A i \in 1..m : f[i] = f[i - 1] \o parts[i]
               /\ FlattenSeq(parts) = f[m]
  <2>1. Flattens(StepSet)
    BY FlattenAll
  <2> QED BY <1>6, <2>1 DEF Flattens
<1> DEFINE Done == {k \in Nat : k <= m => Sane(p, Opening \o f[k]) /\ Returned(p, Opening \o f[k], k + 1, 0)}
<1>9. \A k \in Nat : k \in Done
  <2>1. 0 \in Done
    <3>1. Opening \o f[0] = Opening /\ 0 + 1 = 1
      BY <1>3, <1>8
    <3>2. Sane(p, Opening \o f[0]) /\ Returned(p, Opening \o f[0], 0 + 1, 0)
      BY <1>4, <3>1
    <3> QED BY <3>2
  <2>2. ASSUME NEW k \in Nat, k \in Done PROVE k + 1 \in Done
    <3> SUFFICES ASSUME k + 1 <= m
                 PROVE  Sane(p, Opening \o f[k + 1]) /\ Returned(p, Opening \o f[k + 1], (k + 1) + 1, 0)
      OBVIOUS
    <3>1. k + 1 \in 1..m /\ (k + 1) - 1 = k /\ k \in 0..m
      OBVIOUS
    <3>2. PICK u \in Seq(StepSet) : u = f[k]
      BY <1>8, <3>1
    <3>3. PICK x \in Nat \ {0} : x = k + 1
      OBVIOUS
    <3>4. PICK b \in Seq(StepSet) : b = RoundScript(p, x) /\ b = parts[k + 1]
      BY <1>5, <3>1, <3>3
    <3>5. PICK s : s = Opening \o u
      OBVIOUS
    <3>6. Sane(p, s) /\ Returned(p, s, x, 0)
      BY <2>2, <3>1, <3>2, <3>3, <3>5
    <3>7. f[k + 1] = u \o b
      BY <1>8, <3>1, <3>2, <3>4
    <3>8. (Opening \o u) \o b = Opening \o (u \o b)
      BY <1>3, StepsGroup
    <3>9. Sane(p, s \o b) /\ Returned(p, s \o b, x + 1, 0)
      BY <3>4, <3>6, RoundRuns
    <3> QED BY <3>3, <3>5, <3>7, <3>8, <3>9
  <2> HIDE DEF Done
  <2> QED BY <2>1, <2>2, SetInduction
<1>10. PICK s : s = Opening \o f[m] /\ Sane(p, s) /\ Returned(p, s, m + 1, 0)
  <2>1. m \in Done /\ m <= m
    BY <1>9
  <2>2. Sane(p, Opening \o f[m]) /\ Returned(p, Opening \o f[m], m + 1, 0)
    BY <2>1
  <2> QED BY <2>2
<1>11. PICK d \in StepSet : d = Step("drain", 0, 0) /\ d.phase = "drain"
  <2>1. Step("drain", 0, 0) \in StepSet /\ Step("drain", 0, 0).phase = "drain"
    BY DEF Step, StepSet
  <2> QED BY <2>1
<1>12. PICK o \in Nat : o = Len(s) /\ o >= 3 /\ s \in Seq(StepSet)
  BY <1>10 DEF Sane
<1>13. PICK h : h = Append(s, d)
  OBVIOUS
<1>14. Scripts[p] = h
  <2>1. s \o <<d>> = Append(s, d)
    BY <1>12
  <2> QED BY <1>7, <1>8, <1>10, <1>11, <1>13, <2>1
<1>15. h \in Seq(StepSet) /\ Len(h) = o + 1 /\ h[o + 1] = d /\ \A i \in 1..o : h[i] = s[i]
  BY <1>12, <1>13, AppendedStep
<1>16. ASSUME NEW i \in 4..o PROVE SaneAt(p, h, i)
  <2>1. SaneAt(p, s, i)
    BY <1>10, <1>12 DEF Sane
  <2> QED BY <1>12, <1>13, <2>1, EarlierSteps
<1>17. /\ h[1] = Opening[1] /\ h[2] = Opening[2] /\ h[3] = Opening[3]
  <2>1. h[1] = s[1] /\ h[2] = s[2] /\ h[3] = s[3]
    BY <1>12, <1>15
  <2> QED BY <1>10, <2>1 DEF Sane
<1>18. ASSUME NEW i \in 4..o, NEW l \in 4..o, h[i].phase = "merge", h[l].phase = "merge", h[i].task = h[l].task
       PROVE  i = l
  <2>1. h[i] = s[i] /\ h[l] = s[l]
    BY <1>15
  <2>2. \A x, y \in 4..o : s[x].phase = "merge" /\ s[y].phase = "merge" /\ s[x].task = s[y].task => x = y
    BY <1>10, <1>12 DEF Returned
  <2>3. s[i].phase = "merge" /\ s[l].phase = "merge" /\ s[i].task = s[l].task
    BY <1>18, <2>1
  <2> QED BY <2>2, <2>3
<1>19. ASSUME NEW t \in 1..Len(p.tasks)
       PROVE  \E i \in 4..o : h[i].phase = "merge" /\ h[i].task = t
  <2>1. PICK x \in 1..p.rounds : TaskIn(p, p.tasks[t].rank, x) = t
    BY TaskFacts DEF ScriptPlan
  <2>2. x \in Nat \ {0} /\ x < m + 1
    BY <1>2
  <2>3. PICK i \in 4..o : s[i].phase = "merge" /\ s[i].task = t
    BY <1>10, <1>12, <2>1, <2>2 DEF Returned
  <2>4. h[i] = s[i]
    BY <1>15
  <2> QED BY <2>3, <2>4
<1>20. PICK n \in Nat : n = o + 1
  OBVIOUS
<1>21. n - 1 = o /\ n >= 4 /\ Len(h) = n /\ DOMAIN h = 1..n
  BY <1>12, <1>15, <1>20
<1>22. h[n].phase = "drain"
  BY <1>11, <1>15, <1>20
<1>23. \A i \in 4..(n - 1) : SaneAt(p, h, i)
  BY <1>16, <1>21
<1>24. \A i, l \in 4..(n - 1) :
         h[i].phase = "merge" /\ h[l].phase = "merge" /\ h[i].task = h[l].task => i = l
  BY <1>18, <1>21
<1>25. \A t \in 1..Len(p.tasks) : \E i \in 4..(n - 1) : h[i].phase = "merge" /\ h[i].task = t
  BY <1>19, <1>21
<1> WITNESS n \in Nat
<1> QED BY <1>14, <1>17, <1>21, <1>22, <1>23, <1>24, <1>25

-----------------------------------------------------------------------------
(***************************************************************************)
(* What the ranks know of the plan, and the tiles they hold.               *)
(***************************************************************************)

\* A rank that has checked its arguments has been given a valid plan or none; a rank that
\* works by a plan works by that of the owner, which is valid and concerns the ranks.
Knows(r) ==
  /\ \A i \in 1..Len(log[r]) : ~log[r][i].bad =>
        /\ log[r][i].phase = "plan" => ValidHere(r)
        /\ log[r][i].phase = "metadata" => agreed[r] # NotAPlan
  /\ \/ agreed[r] = NotAPlan
     \/ /\ agreed[r] = ThePlan /\ ThePlan = given[Owner].plan
        /\ PlanOK(ThePlan) /\ MembersOK(ThePlan, Owner, Ranks)

KInv == given[Owner].plan \in Plans /\ \A r \in Ranks : Knows(r)

\* The k-th step of the script of the owner's plan, and the rank its task is assigned to.
StepAt(k) == Scripts[ThePlan][k]
WorkerAt(k) == ThePlan.tasks[StepAt(k).task].rank

\* The tile of task t in round k as it travels to its rank, and back.
Packed(p, t, k) == PadTensor(Content(p, t), InputEnvelope(p, Ranks, k))
Computed(p, t, k) ==
  PadTensor(Executed(p, t, OriginCrop(Packed(p, t, k), p.tasks[t].padin)), OutputEnvelope(p, Ranks, k))

\* The k-th step takes a tile from a to b, and that tile.
Carries(a, b, k) ==
  /\ k > 3 /\ a # b
  /\ \/ StepAt(k).phase = "scatter" /\ a = Owner /\ b = WorkerAt(k)
     \/ StepAt(k).phase = "gather" /\ a = WorkerAt(k) /\ b = Owner
TileOf(k) == IF StepAt(k).phase = "scatter" THEN Packed(ThePlan, StepAt(k).task, StepAt(k).round)
             ELSE Computed(ThePlan, StepAt(k).task, StepAt(k).round)

\* No rank has reported an error.
AllFine == \A q \in Ranks : \A i \in 1..Len(log[q]) : ~log[q][i].bad

\* A tile under way is that of the step its sender is in, and the receiver has not taken it:
\* it has still to come to its end of the transfer, or has failed there.
ChanOK(a, b) ==
  chan[<<a, b>>] # <<>> =>
    /\ \E m : chan[<<a, b>>] = <<m>>
    /\ \A k \in Nat : k = pc[a] =>
          /\ Carries(a, b, k) /\ (Len(log[b]) < k \/ log[b][k].bad)
          /\ Len(log[a]) = k \/ sending[a]
          /\ AllFine => chan[<<a, b>>][1].data = TileOf(k)
\* A rank has received only what has been sent.
WaitOK(a, b) ==
  \A k \in 4..Len(log[b]) : Carries(a, b, k) =>
     log[b][k].bad \/ Len(log[a]) >= k \/ (sending[a] /\ pc[a] = k)
\* A tile that has been sent is under way until the receiver is done with its step.
HandedOK(a, b) ==
  \A k \in Nat :
     /\ k = pc[a] /\ Carries(a, b, k) /\ (sending[a] \/ (Len(log[a]) = k /\ ~log[a][k].bad))
     => chan[<<a, b>>] # <<>> \/ Len(log[b]) >= k
\* A rank waits inside a send only where it has a tile to send.
SendOK(r) == sending[r] => \A k \in Nat : k = pc[r] => \E b \in Ranks : Carries(r, b, k)

\* What the owner has materialized or got back is the tile of its last step.
PreparedOK ==
  \A d \in Nat : d = Len(log[Owner]) /\ d > 3 =>
    /\ StepAt(d).phase = "materialize" => prepared = Packed(ThePlan, StepAt(d).task, StepAt(d).round)
    /\ StepAt(d).phase = "gather" => received = Computed(ThePlan, StepAt(d).task, StepAt(d).round)

\* A rank holds the tile of its task from the scatter to the execute, and the result from
\* there to the next execute.
TileOK(r) ==
  \A j \in 4..Len(log[r]) :
    /\ StepAt(j).phase = "scatter" /\ WorkerAt(j) = r
    /\ \A i \in (j + 1)..Len(log[r]) :
          StepAt(i).phase # "execute" /\ (StepAt(i).phase = "scatter" => WorkerAt(i) # r)
    => tile[r] = Packed(ThePlan, StepAt(j).task, StepAt(j).round)
OutputOK(r) ==
  \A j \in 4..Len(log[r]) :
    /\ StepAt(j).phase = "execute" /\ TaskIn(ThePlan, r, StepAt(j).round) # 0
    /\ \A i \in (j + 1)..Len(log[r]) : StepAt(i).phase # "execute"
    => output[r] = Computed(ThePlan, TaskIn(ThePlan, r, StepAt(j).round), StepAt(j).round)

\* The tasks that the owner has merged.
MergedBy(d) == {StepAt(j).task : j \in {i \in 4..d : StepAt(i).phase = "merge"}}
MergedOK ==
  /\ Listed(merged) /\ Len(merged) = Cardinality(MergedBy(Len(log[Owner])))
  /\ \A t \in MergedBy(Len(log[Owner])) :
        \E k \in DOMAIN merged : merged[k] = <<t, Reference(ThePlan, t)>>

DataOK == /\ PreparedOK /\ MergedOK
          /\ \A r \in Ranks : TileOK(r) /\ OutputOK(r)

\* The tiles under way, and the tiles held as long as nobody has reported an error.
ChanInv == /\ DOMAIN chan = Ranks \X Ranks
           /\ \A a, b \in Ranks : ChanOK(a, b) /\ WaitOK(a, b) /\ HandedOK(a, b)
           /\ \A r \in Ranks : SendOK(r)
TilesKnown == /\ DOMAIN tile = Ranks /\ DOMAIN output = Ranks
              /\ AllFine => DataOK
DInv == ChanInv /\ TilesKnown

\* A rank past the first collective: the owner has been given a valid plan, and its
\* metadata decode to it.
LEMMA OwnersPlan ==
    ASSUME EInv, KInv, NEW r \in Ranks, pc[r] >= 2
    PROVE  ThePlan = given[Owner].plan /\ ThePlan \in Plans /\ ScriptPlan(ThePlan)
<1>1. EngineShape /\ Owner \in Ranks /\ MeetOK(r) /\ EntriesOK(Owner) /\ Knows(Owner) /\ pc[r] \in Nat \ {0}
  BY OwnerIsRank DEF EInv, EngineShape, KInv
<1>2. Held(1) /\ VerdictAt(1) = Running
  BY <1>1 DEF MeetOK, Passed
<1>3. PhaseAt(1) = "plan"
  BY OpeningFacts DEF PhaseAt
<1>4. FlaggedAt(1) = {}
  BY <1>2, <1>3 DEF VerdictAt, Running
<1>5. Len(log[Owner]) >= 1 /\ ~log[Owner][1].bad /\ Len(log[Owner]) \in Nat
  BY <1>1, <1>2, <1>4, ListedFacts DEF Held, FlaggedAt, EngineShape
<1>6. ValidHere(Owner)
  BY <1>1, <1>3, <1>5 DEF EntriesOK, Knows
<1> DEFINE g == given[Owner].plan
<1>7. g \in Plans /\ g # NotAPlan /\ PlanOK(g) /\ MembersOK(g, Owner, Ranks) /\ g \in VAETaskPlan
  BY <1>1, <1>6, RealPlans, EngineAssumption DEF ValidHere, EngineShape, KInv
<1>8. ThePlan = DecodePlan(EncodePlan(g))
  BY <1>7 DEF ThePlan, Encodings
<1> HIDE DEF g
<1>9. ThePlan = g
  BY <1>7, <1>8, PlanSurvivesEncoding
<1> QED BY <1>7, <1>9 DEF g, ScriptPlan

\* What is known of the plan in the initial states.
LEMMA KnowsInit == Init => KInv
<1> SUFFICES ASSUME Init PROVE KInv
  OBVIOUS
<1>1. PICK p \in Plans :
        given \in {g \in [Ranks -> Supplies(p)] :
                     /\ g[Owner] = WithPlan(p)
                     /\ \A r \in Ranks \ (Unusual \cup {Owner}) : g[r] = Usual(p)}
  BY DEF Init, EngineInit
<1>2. given[Owner].plan \in Plans
  BY <1>1 DEF WithPlan
<1>3. /\ agreed = [r \in Ranks |-> NotAPlan] /\ log = [r \in Ranks |-> <<>>]
  BY DEF Init, EngineInit
<1>4. ASSUME NEW r \in Ranks PROVE Knows(r)
  <2>1. agreed[r] = NotAPlan /\ Len(log[r]) = 0
    BY <1>3, Nothing
  <2> QED BY <2>1 DEF Knows
<1> QED BY <1>2, <1>4 DEF KInv

\* A rank whose plan is not changed, and whose last contribution is not about the plan.
LEMMA KnowsStays ==
    ASSUME EInv, KInv, given' = given, NEW q \in Ranks, agreed'[q] = agreed[q],
           \/ log'[q] = log[q]
           \/ \E e : /\ log'[q] = Append(log[q], e)
                     /\ e.phase = "metadata" => e.bad
                     /\ e.phase = "plan" /\ ~e.bad => ValidHere(q)
    PROVE  Knows(q)'
<1>1. Knows(q) /\ Listed(log[q]) /\ Len(log[q]) \in Nat
  BY ListedFacts DEF KInv, EInv, EngineShape
<1>2. ThePlan' = ThePlan /\ (ValidHere(q)' <=> ValidHere(q))
  BY DEF ThePlan, ValidHere
<1>3. CASE log'[q] = log[q]
  BY <1>1, <1>2, <1>3 DEF Knows
<1>4. ASSUME NEW e, log'[q] = Append(log[q], e), e.phase = "metadata" => e.bad,
             e.phase = "plan" /\ ~e.bad => ValidHere(q)
      PROVE  Knows(q)'
  <2>1. PICK n \in Nat : n = Len(log[q])
    BY <1>1
  <2>2. /\ Len(log'[q]) = n + 1 /\ log'[q][n + 1] = e
        /\ \A i \in 1..n : log'[q][i] = log[q][i]
    BY <1>1, <1>4, <2>1, Longer
  <2>3. ASSUME NEW i \in 1..Len(log'[q]), ~log'[q][i].bad
        PROVE  /\ log'[q][i].phase = "plan" => ValidHere(q)
               /\ log'[q][i].phase = "metadata" => agreed[q] # NotAPlan
    <3>1. CASE i = n + 1
      BY <1>4, <2>2, <2>3, <3>1
    <3>2. CASE i \in 1..n
      BY <1>1, <2>1, <2>2, <2>3, <3>2 DEF Knows
    <3> QED BY <2>1, <2>2, <3>1, <3>2
  <2> QED BY <1>1, <1>2, <2>3 DEF Knows
<1> QED BY <1>3, <1>4

\* A step of the engine keeps what is known of the plan.
LEMMA WorkKnows ==
    ASSUME SInv, KInv, NEW r \in Ranks, Works(r)
    PROVE  KInv'
<1>1. EInv /\ EngineShape /\ EngineStep(r) /\ PlaceOK(r) /\ DOMAIN agreed = Ranks /\ DOMAIN log = Ranks
  BY DEF SInv, EInv, EngineShape, Works
<1>2. given' = given
  BY <1>1 DEF EngineStep, ChecksPlan, Signs, Announces, Materializes, Scatters, Executes, Gathers,
              Merges, Drains, TransferFails, TimesOut, Escapes, SendTaken, Syncs, LosesPeer
<1>3. given'[Owner].plan \in Plans
  BY <1>2 DEF KInv
<1>4. At(r).phase = PhaseAt(pc[r]) /\ pc[r] \in Nat \ {0}
  BY <1>1, WhereItIs DEF EngineShape
<1>5. CASE \E b, s : Post(r, b, s) /\ agreed' = agreed /\ (At(r).phase = "metadata" => b)
                     /\ (At(r).phase = "plan" /\ ~b => ValidHere(r))
  <2>1. PICK b, s : Post(r, b, s) /\ agreed' = agreed /\ (At(r).phase = "metadata" => b)
                     /\ (At(r).phase = "plan" /\ ~b => ValidHere(r))
    BY <1>5
  <2> DEFINE e == [phase |-> At(r).phase, bad |-> b, sign |-> s]
  <2>2. e.phase = At(r).phase /\ e.bad = b
    OBVIOUS
  <2>3. log' = [log EXCEPT ![r] = Append(@, e)]
    BY <2>1 DEF Post
  <2> HIDE DEF e
  <2>4. log'[r] = Append(log[r], e) /\ \A q \in Ranks \ {r} : log'[q] = log[q]
    BY <1>1, <2>3
  <2>5. Knows(r)'
    BY <1>1, <1>2, <2>1, <2>2, <2>4, KnowsStays
  <2>6. ASSUME NEW q \in Ranks \ {r} PROVE Knows(q)'
    BY <1>1, <1>2, <2>1, <2>4, <2>6, KnowsStays
  <2> QED BY <1>3, <2>5, <2>6 DEF KInv
<1>6. CASE log' = log /\ agreed' = agreed
  <2>1. ASSUME NEW q \in Ranks PROVE Knows(q)'
    BY <1>1, <1>2, <1>6, KnowsStays
  <2> QED BY <1>3, <2>1 DEF KInv
<1>7. CASE Announces(r)
  <2> DEFINE p == Decoded[announced']
             fits == /\ p /= NotAPlan
                     /\ MembersOK(p, Owner, Ranks)
                     /\ given[r].plan \in {NotAPlan, p}
  <2>1. /\ At(r).phase = "metadata"
        /\ announced' = IF r = Owner THEN Encodings[given[r].plan] ELSE announced
        /\ r = Owner \/ announced /= <<>>
        /\ agreed' = [agreed EXCEPT ![r] = IF fits THEN p ELSE @]
        /\ Posts(r, ~fits) \/ (fits /\ Posts(r, TRUE))
    BY <1>7 DEF Announces, Runs, Raises
  <2>2. p = ThePlan
    <3>1. announced' = Encodings[given[Owner].plan]
      BY <1>1, <2>1 DEF EngineShape
    <3> QED BY <1>1, <3>1, DecodedIs DEF EngineShape, ThePlan
  <2>3. pc[r] >= 2
    <3>1. pc[r] # 1
      BY <1>4, <2>1, OpeningFacts DEF PhaseAt
    <3> QED BY <1>4, <3>1
  <2>4. ThePlan = given[Owner].plan /\ ThePlan \in Plans /\ ScriptPlan(ThePlan) /\ ThePlan' = ThePlan
    BY <1>1, <1>2, <2>3, OwnersPlan DEF ThePlan
  <2> HIDE DEF p, fits
  <2>5. fits \in BOOLEAN
    BY DEF fits
  <2>11. PICK bad \in BOOLEAN : Posts(r, bad) /\ (~fits => bad)
    BY <2>1, <2>5
  <2> DEFINE e == [phase |-> At(r).phase, bad |-> bad, sign |-> <<>>]
  <2>6. e.phase = "metadata" /\ (~fits => e.bad)
    BY <2>1, <2>11
  <2>7. log' = [log EXCEPT ![r] = Append(@, e)]
    BY <2>11 DEF Posts, Post
  <2> HIDE DEF e
  <2>8. log'[r] = Append(log[r], e) /\ \A q \in Ranks \ {r} : log'[q] = log[q] /\ agreed'[q] = agreed[q]
    BY <1>1, <2>1, <2>7
  <2>9. CASE ~fits
    <3>1. agreed'[r] = agreed[r]
      BY <1>1, <2>1, <2>9
    <3>2. Knows(r)'
      BY <1>1, <1>2, <2>6, <2>8, <2>9, <3>1, KnowsStays
    <3>3. ASSUME NEW q \in Ranks \ {r} PROVE Knows(q)'
      BY <1>1, <1>2, <2>8, <3>3, KnowsStays
    <3> QED BY <1>3, <3>2, <3>3 DEF KInv
  <2>10. CASE fits
    <3>1. agreed'[r] = ThePlan /\ ThePlan # NotAPlan
      BY <1>1, <2>1, <2>2, <2>10 DEF fits
    <3>2. Knows(r)'
      <4>1. Listed(log[r]) /\ Knows(r)
        BY <1>1 DEF EngineShape, KInv
      <4>2. PICK n \in Nat : n = Len(log[r])
        BY <4>1, ListedFacts
      <4>3. /\ Len(log'[r]) = n + 1 /\ log'[r][n + 1] = e
            /\ \A i \in 1..n : log'[r][i] = log[r][i]
        BY <2>8, <4>1, <4>2, Longer
      <4>4. ASSUME NEW i \in 1..(n + 1), ~log'[r][i].bad, log'[r][i].phase = "plan" PROVE ValidHere(r)'
        <5>1. i # n + 1
          BY <2>6, <4>3, <4>4
        <5>2. i \in 1..n
          BY <5>1
        <5>3. ValidHere(r)
          BY <4>1, <4>2, <4>3, <4>4, <5>2 DEF Knows
        <5> QED BY <1>2, <5>3 DEF ValidHere
      <4>5. /\ PlanOK(ThePlan)' /\ MembersOK(ThePlan, Owner, Ranks)'
            /\ agreed'[r] = ThePlan' /\ ThePlan' = given'[Owner].plan
        BY <1>2, <2>4, <3>1 DEF ScriptPlan
      <4> QED BY <3>1, <4>3, <4>4, <4>5 DEF Knows
    <3>3. ASSUME NEW q \in Ranks \ {r} PROVE Knows(q)'
      BY <1>1, <1>2, <2>8, <3>3, KnowsStays
    <3> QED BY <1>3, <3>2, <3>3 DEF KInv
  <2> QED BY <2>5, <2>9, <2>10
<1>8. CASE ChecksPlan(r)
  <2>1. At(r).phase = "plan" /\ agreed' = agreed
    BY <1>8 DEF ChecksPlan, Runs
  <2>2. PICK b \in BOOLEAN : Posts(r, b) /\ (~b => ValidHere(r))
    BY <1>8 DEF ChecksPlan, Succeeds, Raises
  <2> QED BY <1>5, <2>1, <2>2 DEF Posts
<1>9. CASE Signs(r)
  <2>1. PICK s : Post(r, FALSE, s) /\ agreed' = agreed /\ At(r).phase = "signature"
    BY <1>9 DEF Signs, Runs
  <2> QED BY <1>5, <2>1
<1>10. CASE Syncs(r) \/ LosesPeer(r)
  BY <1>6, <1>10 DEF Syncs, LosesPeer
<1>11. CASE SendTaken(r)
  <2>1. sending[r] /\ Posts(r, FALSE) /\ agreed' = agreed
    BY <1>11 DEF SendTaken
  <2>2. At(r).phase \notin {"plan", "metadata"}
    BY <1>1, <1>4, <2>1 DEF PlaceOK
  <2> QED BY <1>5, <2>1, <2>2 DEF Posts
<1>12. CASE Materializes(r) \/ Executes(r) \/ Merges(r) \/ Drains(r)
  <2>1. At(r).phase \in {"materialize", "execute", "merge", "drain"} /\ agreed' = agreed
    BY <1>12 DEF Materializes, Executes, Merges, Drains, Runs
  <2>2. PICK b \in BOOLEAN : Posts(r, b)
    BY <1>12 DEF Materializes, Executes, Merges, Drains, Succeeds, Raises
  <2> QED BY <1>5, <2>1, <2>2 DEF Posts
<1>13. CASE Scatters(r) \/ Gathers(r)
  <2>1. At(r).phase \in {"scatter", "gather"} /\ agreed' = agreed
    BY <1>13 DEF Scatters, Gathers, Runs
  <2>2. Posts(r, FALSE) \/ log' = log
    BY <1>13 DEF Scatters, Gathers, NoTransfer, Receives, Sends
  <2> QED BY <1>5, <1>6, <2>1, <2>2 DEF Posts
<1>14. CASE TransferFails(r) \/ TimesOut(r)
  <2>1. Posts(r, TRUE) /\ agreed' = agreed
    BY <1>14 DEF TransferFails, TimesOut, Raises
  <2> QED BY <1>5, <2>1 DEF Posts
<1>15. CASE Escapes(r)
  BY <1>6, <1>15 DEF Escapes
<1> QED BY <1>1, <1>7, <1>8, <1>9, <1>10, <1>11, <1>12, <1>13, <1>14, <1>15 DEF EngineStep

\* Cropping a padded tile to a smaller shape is padding it to that shape.
LEMMA CropsPadding ==
    ASSUME NEW c, NEW env, NEW pad, env[1] \in Int, pad[1] \in Nat, pad[1] <= env[1]
    PROVE  OriginCrop(PadTensor(c, env), pad) = PadTensor(c, pad)
<1> DEFINE f(i) == IF i <= Len(c) THEN c[i] ELSE 0
<1>1. PICK m \in Nat, n \in Nat : m = pad[1] /\ n = env[1] /\ m <= n
  OBVIOUS
<1>2. PadTensor(c, env) = [i \in 1..n |-> f(i)] /\ PadTensor(c, pad) = [i \in 1..m |-> f(i)]
  BY <1>1 DEF PadTensor
<1> HIDE DEF f
<1> DEFINE S == {f(i) : i \in 1..n}
           v == [i \in 1..n |-> f(i)]
<1>3. \A i \in 1..n : f(i) \in S
  OBVIOUS
<1> HIDE DEF S
<1>4. v \in Seq(S) /\ Len(v) = n /\ \A i \in 1..n : v[i] = f(i)
  BY <1>3
<1> HIDE DEF v
<1>5. SubSeq(v, 1, m) = [i \in 1..m |-> f(i)]
  <2>1. SubSeq(v, 1, m) \in Seq(S) /\ Len(SubSeq(v, 1, m)) = m /\ \A i \in 1..m : SubSeq(v, 1, m)[i] = v[i]
    BY <1>1, <1>4
  <2> DEFINE x == SubSeq(v, 1, m)
  <2>2. x = [i \in 1..m |-> x[i]]
    BY <2>1
  <2>3. \A i \in 1..m : x[i] = f(i)
    BY <1>1, <1>4, <2>1
  <2> HIDE DEF x
  <2>4. x = [i \in 1..m |-> f(i)]
    BY <2>2, <2>3
  <2> QED BY <2>4 DEF x
<1> QED BY <1>1, <1>2, <1>5 DEF OriginCrop, v

\* The first dimension of an envelope is no smaller than that of the shapes s[i], i \in A.
EnvelopeFits(m, A, s) ==
  \A t \in A : \A w \in Nat \ {0} :
    (\A i \in 1..m : s[i] \in Seq(Int) /\ Len(s[i]) = w) =>
      Envelope({s[i] : i \in A})[1] \in Int /\ s[t][1] <= Envelope({s[i] : i \in A})[1]

\* Any shapes of the same number of dimensions fit into their envelope.
LEMMA Envelopes == ASSUME NEW m \in Nat, NEW A, A \subseteq 1..m, NEW s PROVE EnvelopeFits(m, A, s)
<1> SUFFICES ASSUME NEW t \in A, NEW w \in Nat \ {0},
                    \A i \in 1..m : s[i] \in Seq(Int) /\ Len(s[i]) = w
             PROVE  Envelope({s[i] : i \in A})[1] \in Int /\ s[t][1] <= Envelope({s[i] : i \in A})[1]
  BY DEF EnvelopeFits
<1> DEFINE shapes == {s[i] : i \in A}
           c == CHOOSE x \in shapes : TRUE
           g(i) == IF i \in A THEN s[i][1] ELSE s[t][1]
           h == [i \in 1..m |-> g(i)]
           T == {x[1] : x \in shapes}
           H == {h[i] : i \in 1..m}
<1>1. c \in shapes
  OBVIOUS
<1>2. \A i \in A : s[i] \in Seq(Int) /\ Len(s[i]) = w /\ s[i][1] \in Int
  OBVIOUS
<1>3. Len(c) = w
  BY <1>1, <1>2
<1>4. 1 \in 1..Len(c)
  BY <1>3
<1>5. Envelope(shapes)[1] = Max(T)
  <2> HIDE DEF c, shapes
  <2>1. Envelope(shapes) = [d \in 1..Len(c) |-> Max({x[d] : x \in shapes})]
    BY DEF Envelope, c
  <2> QED BY <1>4, <2>1
<1>6. T = {s[i][1] : i \in A}
  OBVIOUS
<1>7. T = H
  <2>1. \A i \in 1..m : h[i] = g(i) /\ g(i) \in T
    BY <1>6
  <2>2. \A i \in A : h[i] = s[i][1]
    OBVIOUS
  <2> QED BY <1>6, <2>1, <2>2
<1>8. m \in Nat \ {0} /\ \A i \in 1..m : h[i] \in Int
  BY <1>2
<1>9. s[t][1] \in T
  BY <1>6
<1> HIDE DEF h, T, H
<1>10. Max(H) \in H /\ \A x \in H : x <= Max(H)
  BY <1>8, MaxFacts DEF H
<1>11. H \subseteq Int
  BY <1>8 DEF H
<1> QED BY <1>5, <1>7, <1>9, <1>10, <1>11

\* The shapes of a round fit into its envelopes.
LEMMA RoundFits ==
    ASSUME NEW p, ScriptPlan(p), NEW k \in Nat \ {0}, NEW t \in Active(p, Ranks, k)
    PROVE  /\ InputEnvelope(p, Ranks, k)[1] \in Int /\ OutputEnvelope(p, Ranks, k)[1] \in Int
           /\ p.tasks[t].padin[1] \in Nat /\ p.tasks[t].padout[1] \in Nat
           /\ p.tasks[t].padin[1] <= InputEnvelope(p, Ranks, k)[1]
           /\ p.tasks[t].padout[1] <= OutputEnvelope(p, Ranks, k)[1]
<1>1. p \in VAETaskPlan /\ PlanOK(p)
  BY DEF ScriptPlan
<1> DEFINE m == Len(p.tasks)
           A == Active(p, Ranks, k)
           in == [i \in 1..m |-> p.tasks[i].padin]
           out == [i \in 1..m |-> p.tasks[i].padout]
<1>2. /\ m \in Nat /\ Len(p.gin) \in Nat \ {0} /\ Len(p.gout) \in Nat \ {0}
      /\ \A i \in 1..m : /\ in[i] = p.tasks[i].padin /\ out[i] = p.tasks[i].padout
                         /\ in[i] \in Seq(Int) /\ out[i] \in Seq(Int)
                         /\ Len(in[i]) = Len(p.gin) /\ Len(out[i]) = Len(p.gout)
                         /\ p.tasks[i].padin[1] \in Nat /\ p.tasks[i].padout[1] \in Nat
  BY <1>1, PlanFacts
<1>3. A \subseteq 1..m
  BY ActiveFacts
<1>4. InputEnvelope(p, Ranks, k) = Envelope({in[i] : i \in A})
  <2>1. {in[i] : i \in A} = {p.tasks[i].padin : i \in A}
    BY <1>2, <1>3
  <2> QED BY <2>1 DEF InputEnvelope
<1>5. OutputEnvelope(p, Ranks, k) = Envelope({out[i] : i \in A})
  <2>1. {out[i] : i \in A} = {p.tasks[i].padout : i \in A}
    BY <1>2, <1>3
  <2> QED BY <2>1 DEF OutputEnvelope
<1>6. t \in A /\ t \in 1..m
  BY <1>3
<1> HIDE DEF m, A, in, out
<1>7. Envelope({in[i] : i \in A})[1] \in Int /\ in[t][1] <= Envelope({in[i] : i \in A})[1]
  <2>1. PICK w \in Nat \ {0} : \A i \in 1..m : in[i] \in Seq(Int) /\ Len(in[i]) = w
    BY <1>2
  <2>2. m \in Nat /\ A \subseteq 1..m /\ t \in A
    BY <1>2, <1>3, <1>6
  <2>3. EnvelopeFits(m, A, in)
    BY <2>2, Envelopes
  <2> QED BY <2>1, <2>2, <2>3 DEF EnvelopeFits
<1>8. Envelope({out[i] : i \in A})[1] \in Int /\ out[t][1] <= Envelope({out[i] : i \in A})[1]
  <2>1. PICK w \in Nat \ {0} : \A i \in 1..m : out[i] \in Seq(Int) /\ Len(out[i]) = w
    BY <1>2
  <2>2. m \in Nat /\ A \subseteq 1..m /\ t \in A
    BY <1>2, <1>3, <1>6
  <2>3. EnvelopeFits(m, A, out)
    BY <2>2, Envelopes
  <2> QED BY <2>1, <2>2, <2>3 DEF EnvelopeFits
<1> QED BY <1>2, <1>4, <1>5, <1>6, <1>7, <1>8

\* What comes back, cropped, is what one rank alone would have computed.
LEMMA CroppedResult ==
    ASSUME NEW p, ScriptPlan(p), NEW k \in Nat \ {0}, NEW t \in Active(p, Ranks, k)
    PROVE  OriginCrop(Computed(p, t, k), p.tasks[t].padout) = Reference(p, t)
<1>1. OriginCrop(Packed(p, t, k), p.tasks[t].padin) = PadTensor(Content(p, t), p.tasks[t].padin)
  BY RoundFits, CropsPadding DEF Packed
<1> DEFINE e == Executed(p, t, PadTensor(Content(p, t), p.tasks[t].padin))
<1>2. Computed(p, t, k) = PadTensor(e, OutputEnvelope(p, Ranks, k))
  BY <1>1 DEF Computed
<1> HIDE DEF e
<1>3. OriginCrop(Computed(p, t, k), p.tasks[t].padout) = PadTensor(e, p.tasks[t].padout)
  BY <1>2, RoundFits, CropsPadding
<1> QED BY <1>3 DEF e, Reference

-----------------------------------------------------------------------------
(***************************************************************************)
(* Where the ranks are in the script.                                      *)
(***************************************************************************)

\* A rank past the metadata follows the script of the owner's plan, to its end at most.
LEMMA InScript ==
    ASSUME EInv, KInv, NEW r \in Ranks, pc[r] > 3
    PROVE  /\ agreed[r] = ThePlan /\ ThePlan \in Plans /\ ScriptPlan(ThePlan)
           /\ At(r) = StepAt(pc[r])
           /\ \A k \in Nat : k > 3 => PhaseAt(k) = StepAt(k).phase
           /\ \E n \in Nat :
                /\ n >= 4 /\ DOMAIN Scripts[ThePlan] = 1..n /\ StepAt(n).phase = "drain"
                /\ \A i \in 4..(n - 1) : SaneAt(ThePlan, Scripts[ThePlan], i)
                /\ pc[r] <= n
<1>1. EngineShape /\ MeetOK(r) /\ EntriesOK(r) /\ pc[r] \in Nat \ {0}
  BY DEF EInv, EngineShape
<1>2. ThePlan \in Plans /\ ScriptPlan(ThePlan)
  BY <1>1, OwnersPlan
<1>3. agreed[r] = ThePlan
  <2>1. 3 \in 1..(pc[r] - 1)
    BY <1>1
  <2>2. Held(3) /\ VerdictAt(3) = Running
    BY <1>1, <2>1 DEF MeetOK, Passed
  <2>3. PhaseAt(3) = "metadata"
    BY OpeningFacts DEF PhaseAt
  <2>4. FlaggedAt(3) = {}
    BY <2>2, <2>3 DEF VerdictAt, Running
  <2>5. Len(log[r]) >= 3 /\ ~log[r][3].bad
    BY <2>2, <2>4 DEF Held, FlaggedAt
  <2> QED BY <1>1, <2>5 DEF EntriesOK
<1>4. At(r) = StepAt(pc[r])
  BY <1>1, <1>3, OpeningFacts DEF At, StepAt
<1>5. \A k \in Nat : k > 3 => PhaseAt(k) = StepAt(k).phase
  <2> SUFFICES ASSUME NEW k \in Nat, k > 3 PROVE ~(k <= 3)
    BY OpeningFacts DEF PhaseAt, StepAt
  <2> QED OBVIOUS
<1>6. PICK n \in Nat :
         /\ n >= 4 /\ DOMAIN Scripts[ThePlan] = 1..n /\ Scripts[ThePlan][n].phase = "drain"
         /\ \A i \in 4..(n - 1) : SaneAt(ThePlan, Scripts[ThePlan], i)
  BY <1>2, ScriptFacts
<1>7. pc[r] <= n
  <2> SUFFICES ASSUME ~(pc[r] <= n) PROVE FALSE
    OBVIOUS
  <2>1. n \in 1..(pc[r] - 1)
    BY <1>1, <1>6
  <2>2. VerdictAt(n) = Running
    BY <1>1, <2>1 DEF MeetOK, Passed
  <2>3. PhaseAt(n) = "drain"
    BY <1>6, OpeningFacts DEF PhaseAt
  <2> QED BY <2>2, <2>3 DEF VerdictAt, Running
<1> QED BY <1>2, <1>3, <1>4, <1>5, <1>6, <1>7 DEF StepAt

\* A rank that works on a tile is past the metadata.
LEMMA PastOpening ==
    ASSUME EInv, KInv, NEW r \in Ranks, At(r).phase \notin {"plan", "signature", "metadata"}
    PROVE  pc[r] \in Nat /\ pc[r] > 3 /\ At(r) = StepAt(pc[r])
<1>1. pc[r] \in Nat \ {0}
  BY DEF EInv, EngineShape
<1>2. ~(pc[r] <= 3)
  <2> SUFFICES ASSUME pc[r] <= 3 PROVE FALSE
    OBVIOUS
  <2>1. pc[r] \in 1..3 /\ At(r).phase = Opening[pc[r]].phase
    BY <1>1, OpeningFacts DEF At
  <2> QED BY <2>1, OpeningFacts
<1> QED BY <1>1, <1>2, InScript

-----------------------------------------------------------------------------
(***************************************************************************)
(* The tiles under way.                                                    *)
(***************************************************************************)

\* A step moves one tile, between two ranks.
LEMMA CarriesFacts ==
    ASSUME NEW a, NEW b, NEW k, Carries(a, b, k)
    PROVE  /\ a # b /\ (\A c : Carries(c, b, k) => c = a) /\ (\A c : ~Carries(c, a, k))
           /\ (\A c : Carries(a, c, k) => c = b) /\ (\A c : ~Carries(b, c, k))
BY DEF Carries

\* Nobody is more than one collective ahead of anybody.
LEMMA Behind ==
    ASSUME EInv, NEW a \in Ranks, NEW b \in Ranks
    PROVE  /\ pc[a] \in Nat \ {0} /\ Len(log[b]) \in Nat /\ pc[a] <= Len(log[b]) + 1
           /\ Len(log[b]) <= pc[b]
<1>1. pc[a] \in Nat \ {0} /\ pc[b] \in Nat \ {0} /\ MeetOK(a) /\ PlaceOK(b) /\ Len(log[b]) \in Nat
  BY ListedFacts DEF EInv, EngineShape
<1>2. CASE pc[a] = 1
  BY <1>1, <1>2 DEF PlaceOK
<1>3. CASE pc[a] # 1
  <2>1. pc[a] - 1 \in 1..(pc[a] - 1)
    BY <1>1, <1>3
  <2>2. Held(pc[a] - 1)
    BY <1>1, <2>1 DEF MeetOK, Passed
  <2>3. Len(log[b]) >= pc[a] - 1
    BY <2>2 DEF Held
  <2> QED BY <1>1, <2>3 DEF PlaceOK
<1> QED BY <1>2, <1>3

\* What a rank's entry into a collective adds to the contributions.
Entered(r, bad) ==
  /\ Len(log[r]) = pc[r] - 1 /\ Len(log'[r]) = pc[r] /\ \A q \in Ranks \ {r} : log'[q] = log[q]
  /\ log'[r][pc[r]].bad = bad /\ \A i \in 1..Len(log[r]) : log'[r][i] = log[r][i]
  /\ AllFine' => AllFine /\ ~bad

\* A rank that posts its contribution has entered its collective.
LEMMA Enters ==
    ASSUME EInv, NEW r \in Ranks, NEW bad, NEW sign, Post(r, bad, sign), ~waiting[r],
           outcome[r].kind = "running"
    PROVE  Entered(r, bad)
<1> DEFINE e == [phase |-> At(r).phase, bad |-> bad, sign |-> sign]
<1>1. /\ DOMAIN log = Ranks /\ Listed(log[r]) /\ PlaceOK(r) /\ pc[r] \in Nat \ {0} /\ Len(log[r]) \in Nat
  BY ListedFacts DEF EInv, EngineShape
<1>2. Len(log[r]) = pc[r] - 1
  BY <1>1 DEF PlaceOK
<1>3. e.bad = bad /\ log' = [log EXCEPT ![r] = Append(@, e)]
  BY DEF Post
<1> HIDE DEF e
<1>4. log'[r] = Append(log[r], e) /\ \A q \in Ranks \ {r} : log'[q] = log[q]
  BY <1>1, <1>3
<1>5. PICK n \in Nat : n = Len(log[r])
  BY <1>1
<1>6. Len(log'[r]) = n + 1 /\ log'[r][n + 1] = e /\ \A i \in 1..n : log'[r][i] = log[r][i]
  BY <1>1, <1>4, <1>5, Longer
<1>7. ASSUME AllFine' PROVE AllFine /\ ~bad
  <2>1. \A q \in Ranks : \A i \in 1..Len(log'[q]) : ~log'[q][i].bad
    BY <1>7 DEF AllFine
  <2>2. n + 1 \in 1..Len(log'[r]) /\ \A i \in 1..n : i \in 1..Len(log'[r])
    BY <1>6
  <2>3. ~bad /\ \A i \in 1..n : ~log[r][i].bad
    BY <1>3, <1>6, <2>1, <2>2
  <2>4. ASSUME NEW q \in Ranks, NEW i \in 1..Len(log[q]) PROVE ~log[q][i].bad
    BY <1>4, <1>5, <2>1, <2>3, <2>4
  <2> QED BY <2>3, <2>4 DEF AllFine
<1>8. n + 1 = pc[r]
  BY <1>1, <1>2, <1>5
<1> QED BY <1>1, <1>2, <1>3, <1>4, <1>5, <1>6, <1>7, <1>8 DEF Entered

\* A collective that all ranks have passed without an error has no flag.
LEMMA PassedFine ==
    ASSUME EInv, NEW k \in Nat \ {0}, Held(k), VerdictAt(k) = Running, NEW q \in Ranks
    PROVE  ~log[q][k].bad
<1>1. CASE PhaseAt(k) = "signature"
  <2>1. EntriesOK(q) /\ Len(log[q]) \in Nat /\ Len(log[q]) >= k
    BY ListedFacts DEF EInv, EngineShape, Held
  <2>2. k \in 1..Len(log[q])
    BY <2>1
  <2> QED BY <1>1, <2>1, <2>2 DEF EntriesOK
<1>2. CASE PhaseAt(k) # "signature"
  <2>1. FlaggedAt(k) = {}
    BY <1>2 DEF VerdictAt, Running
  <2> QED BY <2>1 DEF FlaggedAt
<1> QED BY <1>1, <1>2

\* What a step of r, at place k of the script, may do to the tiles under way.
Transfers(r, k) ==
  /\ DOMAIN chan' = Ranks \X Ranks
  /\ k = pc[r] /\ pc' = pc /\ given' = given /\ Len(log[r]) = k - 1 /\ Len(log'[r]) \in {k - 1, k}
  /\ \A q \in Ranks \ {r} : log'[q] = log[q] /\ sending'[q] = sending[q]
  /\ AllFine' => AllFine
  /\ \A i \in 1..(k - 1) : log'[r][i] = log[r][i]
  /\ \A b \in Ranks : chan'[<<r, b>>] # <<>> =>
        /\ (\E m : chan'[<<r, b>>] = <<m>>) /\ Carries(r, b, k) /\ (Len(log[b]) < k \/ log[b][k].bad)
        /\ Len(log'[r]) = k \/ sending'[r]
        /\ AllFine' => chan'[<<r, b>>][1].data = TileOf(k)
  /\ \A b \in Ranks : Carries(r, b, k) /\ (sending'[r] \/ (Len(log'[r]) = k /\ ~log'[r][k].bad)) =>
        chan'[<<r, b>>] # <<>> \/ Len(log[b]) >= k
  /\ \A a \in Ranks \ {r} : chan'[<<a, r>>] # chan[<<a, r>>] => chan'[<<a, r>>] = <<>> /\ Len(log'[r]) = k
  /\ \A a \in Ranks \ {r} : chan'[<<a, r>>] # <<>> /\ Len(log'[r]) = k /\ ~log'[r][k].bad =>
        ~Carries(a, r, k)
  /\ \A a, b \in Ranks \ {r} : chan'[<<a, b>>] = chan[<<a, b>>]
  /\ Len(log'[r]) = k /\ ~log'[r][k].bad =>
        \A a \in Ranks : Carries(a, r, k) => Len(log[a]) >= k \/ (sending[a] /\ pc[a] = k)
  /\ sending[r] => sending'[r] \/ Len(log'[r]) = k
  /\ sending'[r] => \E b \in Ranks : Carries(r, b, k)

\* Such a step keeps the ranks and their channels in order.
LEMMA TransfersKeep ==
    ASSUME EInv, ChanInv, NEW r \in Ranks, NEW k \in Nat \ {0}, Transfers(r, k)
    PROVE  ChanInv'
<1>1. \A q \in Ranks : Len(log[q]) \in Nat /\ pc[q] \in Nat \ {0}
  BY ListedFacts, SMTT(60) DEF EInv, EngineShape
<1>2. /\ \A a, b, i : Carries(a, b, i)' <=> Carries(a, b, i)
      /\ \A i : TileOf(i)' = TileOf(i)
  BY DEF Transfers, Carries, TileOf, StepAt, WorkerAt, ThePlan
<1>3. ASSUME NEW a \in Ranks, NEW b \in Ranks PROVE ChanOK(a, b)'
  <2> SUFFICES ASSUME chan'[<<a, b>>] # <<>>, NEW i \in Nat, i = pc'[a]
               PROVE  /\ (\E m : chan'[<<a, b>>] = <<m>>)
                      /\ Carries(a, b, i) /\ (Len(log'[b]) < i \/ log'[b][i].bad)
                      /\ Len(log'[a]) = i \/ sending'[a]
                      /\ AllFine' => chan'[<<a, b>>][1].data = TileOf(i)
    <3>1. pc'[a] \in Nat
      BY <1>1 DEF Transfers
    <3> QED BY <1>2, <3>1 DEF ChanOK
  <2>1. CASE a = r
    <3>1. /\ i = k /\ (\E m : chan'[<<r, b>>] = <<m>>) /\ Carries(r, b, k)
          /\ Len(log[b]) < k \/ log[b][k].bad
          /\ Len(log'[r]) = k \/ sending'[r]
          /\ AllFine' => chan'[<<r, b>>][1].data = TileOf(k)
      BY <2>1 DEF Transfers
    <3>2. b # r
      BY <3>1, CarriesFacts
    <3>3. log'[b] = log[b]
      BY <3>2 DEF Transfers
    <3> QED BY <2>1, <3>1, <3>3
  <2>2. CASE a # r
    <3>1. chan'[<<a, b>>] = chan[<<a, b>>] /\ i = pc[a]
      BY <2>2 DEF Transfers
    <3>2. /\ (\E m : chan[<<a, b>>] = <<m>>) /\ Carries(a, b, i)
          /\ Len(log[b]) < i \/ log[b][i].bad
          /\ Len(log[a]) = i \/ sending[a]
          /\ AllFine => chan[<<a, b>>][1].data = TileOf(i)
      BY <3>1 DEF ChanInv, ChanOK
    <3>3. log'[a] = log[a] /\ sending'[a] = sending[a] /\ (AllFine' => AllFine)
      BY <2>2 DEF Transfers
    <3>4. Len(log'[b]) < i \/ log'[b][i].bad
      <4>1. CASE b # r
        BY <3>2, <4>1 DEF Transfers
      <4>2. CASE b = r
        <5>1. /\ Len(log[r]) = k - 1 /\ Len(log'[r]) \in {k - 1, k}
              /\ \A j \in 1..(k - 1) : log'[r][j] = log[r][j]
              /\ Len(log'[r]) = k /\ ~log'[r][k].bad => ~Carries(a, r, k)
          BY <2>2, <4>2 DEF Transfers
        <5>2. i > 3 /\ (i <= k - 1 \/ i = k \/ i > k)
          BY <3>2 DEF Carries
        <5>3. CASE i <= k - 1
          <6>1. log[r][i].bad /\ i \in 1..(k - 1)
            BY <3>2, <4>2, <5>1, <5>2, <5>3
          <6> QED BY <4>2, <5>1, <6>1
        <5>4. CASE i = k
          BY <3>2, <4>2, <5>1, <5>4
        <5>5. CASE i > k
          BY <4>2, <5>1, <5>5
        <5> QED BY <5>2, <5>3, <5>4, <5>5
      <4> QED BY <4>1, <4>2
    <3> QED BY <3>1, <3>2, <3>3, <3>4
  <2> QED BY <2>1, <2>2
<1>4. ASSUME NEW a \in Ranks, NEW b \in Ranks PROVE WaitOK(a, b)'
  <2> SUFFICES ASSUME NEW i \in 4..Len(log'[b]), Carries(a, b, i)
               PROVE  log'[b][i].bad \/ Len(log'[a]) >= i \/ (sending'[a] /\ pc'[a] = i)
    BY <1>2 DEF WaitOK
  <2>1. a # b /\ i \in Nat
    BY CarriesFacts
  <2>2. log'[b][i].bad \/ Len(log[a]) >= i \/ (sending[a] /\ pc[a] = i)
    <3>1. CASE i <= Len(log[b])
      <4>1. i \in 4..Len(log[b])
        BY <1>1, <3>1
      <4>2. log[b][i].bad \/ Len(log[a]) >= i \/ (sending[a] /\ pc[a] = i)
        BY <4>1 DEF ChanInv, WaitOK
      <4>3. log'[b][i] = log[b][i]
        <5>1. CASE b # r
          BY <5>1 DEF Transfers
        <5>2. CASE b = r
          <6>1. Len(log[r]) = k - 1 /\ \A j \in 1..(k - 1) : log'[r][j] = log[r][j]
            BY DEF Transfers
          <6> QED BY <4>1, <5>2, <6>1
        <5> QED BY <5>1, <5>2
      <4> QED BY <4>2, <4>3
    <3>2. CASE ~(i <= Len(log[b]))
      <4>1. b = r
        BY <1>1, <3>2 DEF Transfers
      <4>2. Len(log'[r]) = k /\ i = k
        BY <1>1, <3>2, <4>1 DEF Transfers
      <4> QED BY <4>1, <4>2 DEF Transfers
    <3> QED BY <3>1, <3>2
  <2>3. CASE a # r
    BY <2>2, <2>3 DEF Transfers
  <2>4. CASE a = r
    <3>1. /\ k = pc[r] /\ pc' = pc /\ Len(log[r]) = k - 1 /\ Len(log'[r]) \in {k - 1, k}
          /\ sending[r] => sending'[r] \/ Len(log'[r]) = k
      BY DEF Transfers
    <3> QED BY <2>1, <2>2, <2>4, <3>1
  <2> QED BY <2>3, <2>4
<1>5. ASSUME NEW q \in Ranks PROVE SendOK(q)'
  <2> SUFFICES ASSUME sending'[q], NEW i \in Nat, i = pc'[q] PROVE \E b \in Ranks : Carries(q, b, i)
    BY <1>2 DEF SendOK
  <2>1. CASE q = r
    BY <2>1 DEF Transfers
  <2>2. CASE q # r
    BY <2>2 DEF Transfers, ChanInv, SendOK
  <2> QED BY <2>1, <2>2
<1>6. DOMAIN chan' = Ranks \X Ranks
  BY DEF Transfers
<1>7. ASSUME NEW a \in Ranks, NEW b \in Ranks PROVE HandedOK(a, b)'
  <2> SUFFICES ASSUME NEW i \in Nat, i = pc'[a], Carries(a, b, i),
                      sending'[a] \/ (Len(log'[a]) = i /\ ~log'[a][i].bad)
               PROVE  chan'[<<a, b>>] # <<>> \/ Len(log'[b]) >= i
    BY <1>2 DEF HandedOK
  <2>1. a # b
    BY CarriesFacts
  <2>2. CASE a = r
    <3>1. i = k /\ log'[b] = log[b]
      BY <2>1, <2>2 DEF Transfers
    <3> QED BY <2>2, <3>1 DEF Transfers
  <2>3. CASE a # r
    <3>1. log'[a] = log[a] /\ sending'[a] = sending[a] /\ i = pc[a]
      BY <2>3 DEF Transfers
    <3>2. chan[<<a, b>>] # <<>> \/ Len(log[b]) >= i
      BY <3>1 DEF ChanInv, HandedOK
    <3>3. CASE b # r
      BY <2>3, <3>2, <3>3 DEF Transfers
    <3>4. CASE b = r
      <4>1. /\ Len(log[r]) = k - 1 /\ Len(log'[r]) \in {k - 1, k}
            /\ chan'[<<a, r>>] # chan[<<a, r>>] => Len(log'[r]) = k
        BY <2>3 DEF Transfers
      <4>2. i <= Len(log[r]) + 1
        BY <3>1, <3>4, Behind
      <4> QED BY <3>2, <3>4, <4>1, <4>2
    <3> QED BY <3>3, <3>4
  <2> QED BY <2>2, <2>3
<1> QED BY <1>3, <1>4, <1>5, <1>6, <1>7 DEF ChanInv

\* Leaving a collective, giving up or leaving without a word moves no tile.
LEMMA LeavingKeeps ==
    ASSUME EInv, ChanInv, NEW r \in Ranks, GoesOn(r) \/ GivesUp(r) \/ Abandons(r), chan' = chan
    PROVE  ChanInv'
<1>1. \A q \in Ranks : Len(log[q]) \in Nat /\ pc[q] \in Nat \ {0}
  BY ListedFacts DEF EInv, EngineShape
<1>2. /\ given' = given /\ log' = log /\ sending' = sending /\ ~sending[r]
      /\ (GoesOn(r) => waiting[r]) /\ \A q \in Ranks \ {r} : pc'[q] = pc[q]
  BY DEF GoesOn, GivesUp, Abandons, EInv, EngineShape, PlaceOK
<1>3. /\ \A a, b, i : Carries(a, b, i)' <=> Carries(a, b, i)
      /\ \A i : TileOf(i)' = TileOf(i)
      /\ AllFine' <=> AllFine
  BY <1>2 DEF Carries, TileOf, StepAt, WorkerAt, ThePlan, AllFine
<1>4. \/ pc'[r] = pc[r]
      \/ /\ pc'[r] = pc[r] + 1 /\ Len(log[r]) = pc[r]
         /\ \A b \in Ranks : chan[<<r, b>>] = <<>>
  <2>1. CASE GivesUp(r) \/ Abandons(r)
    BY <2>1 DEF GivesUp, Abandons
  <2>2. CASE GoesOn(r)
    <3>1. PICK k \in Nat \ {0} : k = pc[r]
      BY <1>1
    <3>2. Held(k) /\ Verdict(r) = VerdictAt(k) /\ Len(log[r]) = k
      BY <1>2, <2>2, <3>1, VerdictIs DEF GoesOn, EInv, PlaceOK
    <3>3. DOMAIN pc = Ranks /\ pc' = [pc EXCEPT ![r] = IF Verdict(r) = Running THEN @ + 1 ELSE @]
      BY <2>2 DEF GoesOn, EInv, EngineShape
    <3>4. CASE VerdictAt(k) # Running
      BY <3>2, <3>3, <3>4
    <3>5. CASE VerdictAt(k) = Running
      <4>1. ASSUME NEW b \in Ranks, chan[<<r, b>>] # <<>> PROVE FALSE
        <5>1. Len(log[b]) < k \/ log[b][k].bad
          BY <3>1, <4>1 DEF ChanInv, ChanOK
        <5>2. Len(log[b]) >= k /\ ~log[b][k].bad
          BY <3>2, <3>5, PassedFine DEF Held
        <5> QED BY <1>1, <5>1, <5>2
      <4> QED BY <3>1, <3>2, <3>3, <3>5, <4>1
    <3> QED BY <3>4, <3>5
  <2> QED BY <2>1, <2>2
<1>5. ASSUME NEW a \in Ranks, NEW b \in Ranks PROVE ChanOK(a, b)'
  <2> SUFFICES ASSUME chan[<<a, b>>] # <<>>, NEW i \in Nat, i = pc'[a]
               PROVE  /\ (\E m : chan[<<a, b>>] = <<m>>)
                      /\ Carries(a, b, i) /\ (Len(log[b]) < i \/ log[b][i].bad)
                      /\ Len(log[a]) = i \/ sending[a]
                      /\ AllFine => chan[<<a, b>>][1].data = TileOf(i)
    <3>1. ASSUME NEW i \in Nat, i = pc'[a], chan[<<a, b>>] # <<>> PROVE i = pc[a]
      BY <1>2, <1>4, <3>1
    <3>2. chan[<<a, b>>] # <<>> => (\E m : chan[<<a, b>>] = <<m>>)
      BY DEF ChanInv, ChanOK
    <3> QED BY <1>2, <1>3, <3>2 DEF ChanOK
  <2>1. pc'[a] = pc[a]
    BY <1>2, <1>4
  <2> QED BY <2>1 DEF ChanInv, ChanOK
<1>6. ASSUME NEW a \in Ranks, NEW b \in Ranks PROVE WaitOK(a, b)'
  <2>1. sending[a] => pc'[a] = pc[a]
    BY <1>2
  <2> QED BY <1>2, <1>3, <2>1 DEF ChanInv, WaitOK
<1>7. ASSUME NEW q \in Ranks PROVE SendOK(q)'
  <2>1. sending[q] => pc'[q] = pc[q]
    BY <1>2
  <2> QED BY <1>2, <1>3, <2>1 DEF ChanInv, SendOK
<1>8. ASSUME NEW a \in Ranks, NEW b \in Ranks PROVE HandedOK(a, b)'
  <2> SUFFICES ASSUME NEW i \in Nat, i = pc'[a], Carries(a, b, i),
                      sending[a] \/ (Len(log[a]) = i /\ ~log[a][i].bad)
               PROVE  chan[<<a, b>>] # <<>> \/ Len(log[b]) >= i
    BY <1>2, <1>3 DEF HandedOK
  <2>1. i = pc[a]
    <3>1. CASE a # r
      BY <1>2, <3>1
    <3>2. CASE a = r
      BY <1>1, <1>2, <1>4, <3>2
    <3> QED BY <3>1, <3>2
  <2> QED BY <2>1 DEF ChanInv, HandedOK
<1>9. DOMAIN chan' = Ranks \X Ranks
  BY DEF ChanInv
<1> QED BY <1>5, <1>6, <1>7, <1>8, <1>9 DEF ChanInv

\* A rank that has not entered its collective, and does not wait, has no tile under way.
LEMMA NothingSent ==
    ASSUME EInv, ChanInv, NEW r \in Ranks, Len(log[r]) = pc[r] - 1, ~sending[r], NEW b \in Ranks
    PROVE  chan[<<r, b>>] = <<>>
<1>1. pc[r] \in Nat
  BY DEF EInv, EngineShape
<1>2. PICK k \in Nat : k = pc[r]
  BY <1>1
<1> SUFFICES ASSUME chan[<<r, b>>] # <<>> PROVE FALSE
  OBVIOUS
<1>3. Len(log[r]) = k \/ sending[r]
  BY <1>2 DEF ChanInv, ChanOK
<1> QED BY <1>1, <1>2, <1>3

\* A rank enters its collective and moves no tile: there was none for it.
LEMMA QuietTransfers ==
    ASSUME EInv, ChanInv, NEW r \in Ranks, NEW k \in Nat \ {0}, k = pc[r], ~sending[r],
           NEW bad, Entered(r, bad), UNCHANGED <<chan, sending, pc, given>>,
           \A a \in Ranks : ~Carries(a, r, k) /\ ~Carries(r, a, k)
    PROVE  Transfers(r, k)
<1>1. Len(log[r]) = k - 1 /\ Len(log'[r]) = k /\ (AllFine' => AllFine)
      /\ (\A q \in Ranks \ {r} : log'[q] = log[q]) /\ (\A i \in 1..(k - 1) : log'[r][i] = log[r][i])
  BY DEF Entered
<1>2. \A b \in Ranks : chan[<<r, b>>] = <<>>
  BY <1>1, NothingSent
<1>3. DOMAIN chan' = Ranks \X Ranks
  BY DEF ChanInv
<1> QED BY <1>1, <1>2, <1>3 DEF Transfers

\* A rank sends its tile.
LEMMA SendTransfers ==
    ASSUME EInv, ChanInv, NEW r \in Ranks, NEW k \in Nat \ {0}, k = pc[r], Working(r),
           NEW to \in Ranks, NEW data, NEW out, Sends(r, to, data, out), Carries(r, to, k),
           UNCHANGED <<pc, given>>, AllFine => data = TileOf(k)
    PROVE  Transfers(r, k)
<1> DEFINE m == [tag |-> TransferTag(At(r).round, TaskAt(r).rank, N, out), data |-> data]
<1>1. ~waiting[r] /\ outcome[r].kind = "running" /\ ~sending[r]
  BY DEF Working
<1>2. m.data = data /\ chan' = [chan EXCEPT ![<<r, to>>] = Append(@, m)]
  BY DEF Sends
<1> HIDE DEF m
<1>3. Len(log[r]) = k - 1
  BY <1>1, Behind DEF EInv, PlaceOK
<1>4. \A b \in Ranks : chan[<<r, b>>] = <<>>
  BY <1>1, <1>3, NothingSent
<1>5. DOMAIN chan = Ranks \X Ranks /\ <<r, to>> \in Ranks \X Ranks
  BY DEF ChanInv
<1>6. chan'[<<r, to>>] = <<m>>
  <2>1. chan'[<<r, to>>] = Append(<<>>, m)
    BY <1>2, <1>4, <1>5
  <2> QED BY <2>1
<1>7. DOMAIN chan' = Ranks \X Ranks /\ \A a, b \in Ranks : <<a, b>> # <<r, to>> => chan'[<<a, b>>] = chan[<<a, b>>]
  BY <1>2, <1>5
<1>8. /\ \A q \in Ranks \ {r} : log'[q] = log[q] /\ sending'[q] = sending[q]
      /\ AllFine' => AllFine
      /\ \A i \in 1..(k - 1) : log'[r][i] = log[r][i]
      /\ \/ Len(log'[r]) = k /\ ~sending'[r]
         \/ Len(log'[r]) = k - 1 /\ sending'[r]
  <2>1. CASE eager
    <3>1. Posts(r, FALSE) /\ sending' = sending
      BY <2>1 DEF Sends
    <3>2. Entered(r, FALSE)
      BY <1>1, <3>1, Enters DEF Posts
    <3> QED BY <1>1, <1>3, <3>1, <3>2 DEF Entered
  <2>2. CASE ~eager
    <3>1. sending' = [sending EXCEPT ![r] = TRUE] /\ log' = log
      BY <2>2 DEF Sends
    <3>2. DOMAIN sending = Ranks
      BY DEF EInv, EngineShape
    <3>3. AllFine' => AllFine
      BY <3>1 DEF AllFine
    <3> QED BY <1>3, <3>1, <3>2, <3>3
  <2> QED BY <2>1, <2>2
<1>9. r # to /\ (\A a : ~Carries(a, r, k)) /\ (\A b : Carries(r, b, k) => b = to)
  BY CarriesFacts
<1>10. Len(log[to]) < k \/ log[to][k].bad
  <2> SUFFICES ASSUME ~(Len(log[to]) < k) PROVE log[to][k].bad
    OBVIOUS
  <2>1. k \in 4..Len(log[to])
    <3>1. Len(log[to]) \in Nat /\ k > 3
      BY Behind DEF Carries
    <3> QED BY <3>1
  <2>2. log[to][k].bad \/ Len(log[r]) >= k \/ sending[r]
    BY <2>1 DEF ChanInv, WaitOK
  <2> QED BY <1>1, <1>3, <2>2
<1>11. ASSUME NEW b \in Ranks, chan'[<<r, b>>] # <<>>
       PROVE  /\ (\E x : chan'[<<r, b>>] = <<x>>) /\ Carries(r, b, k)
              /\ Len(log[b]) < k \/ log[b][k].bad
              /\ Len(log'[r]) = k \/ sending'[r]
              /\ AllFine' => chan'[<<r, b>>][1].data = TileOf(k)
  <2>1. b = to
    BY <1>4, <1>7, <1>11
  <2>2. <<m>>[1] = m
    OBVIOUS
  <2> QED BY <1>2, <1>6, <1>8, <1>10, <2>1, <2>2
<1>12. ASSUME NEW a \in Ranks \ {r} PROVE chan'[<<a, r>>] = chan[<<a, r>>]
  BY <1>7, <1>12
<1>13. ASSUME NEW a \in Ranks \ {r}, NEW b \in Ranks \ {r} PROVE chan'[<<a, b>>] = chan[<<a, b>>]
  BY <1>7, <1>13
<1>14. ASSUME NEW b \in Ranks, Carries(r, b, k) PROVE chan'[<<r, b>>] # <<>>
  BY <1>6, <1>9, <1>14
<1> QED BY <1>1, <1>3, <1>7, <1>8, <1>9, <1>11, <1>12, <1>13, <1>14 DEF Transfers

\* A tile that has come for a rank is that of the step it is in.
LEMMA TileComes ==
    ASSUME EInv, ChanInv, NEW r \in Ranks, NEW k \in Nat \ {0}, k = pc[r], Len(log[r]) = k - 1,
           NEW from \in Ranks, chan[<<from, r>>] # <<>>
    PROVE  /\ Carries(from, r, k) /\ pc[from] = k
           /\ Len(log[from]) = k \/ sending[from]
           /\ (\E m : chan[<<from, r>>] = <<m>>)
           /\ AllFine => chan[<<from, r>>][1].data = TileOf(k)
<1>1. PICK i \in Nat \ {0} : i = pc[from]
  BY Behind
<1>2. /\ Carries(from, r, i) /\ (Len(log[r]) < i \/ log[r][i].bad) /\ (Len(log[from]) = i \/ sending[from])
      /\ (\E m : chan[<<from, r>>] = <<m>>)
      /\ (AllFine => chan[<<from, r>>][1].data = TileOf(i))
  BY <1>1 DEF ChanInv, ChanOK
<1>3. i <= k
  BY <1>1, Behind
<1>4. i = k
  <2> SUFFICES ASSUME i # k PROVE FALSE
    OBVIOUS
  <2>1. i \in 1..(k - 1)
    BY <1>3
  <2>2. Passed(i)
    BY <2>1 DEF EInv, MeetOK
  <2>3. ~log[r][i].bad
    BY <2>2, PassedFine DEF Passed
  <2> QED BY <1>2, <2>1, <2>3
<1> QED BY <1>1, <1>2, <1>4

\* A rank takes the tile that has come for it.
LEMMA ReceiveTransfers ==
    ASSUME EInv, ChanInv, NEW r \in Ranks, NEW k \in Nat \ {0}, k = pc[r], Working(r),
           NEW from \in Ranks, Receives(r, from), UNCHANGED <<pc, given>>
    PROVE  Transfers(r, k)
<1>1. ~waiting[r] /\ outcome[r].kind = "running" /\ ~sending[r]
  BY DEF Working
<1>2. chan[<<from, r>>] # <<>> /\ chan' = [chan EXCEPT ![<<from, r>>] = Tail(@)] /\ sending' = sending
  BY DEF Receives
<1>3. Entered(r, FALSE)
  BY <1>1, Enters DEF Receives, Posts
<1>4. /\ Len(log[r]) = k - 1 /\ Len(log'[r]) = k /\ (AllFine' => AllFine)
      /\ (\A q \in Ranks \ {r} : log'[q] = log[q]) /\ (\A i \in 1..(k - 1) : log'[r][i] = log[r][i])
  BY <1>3 DEF Entered
<1>5. /\ Carries(from, r, k) /\ pc[from] = k /\ (Len(log[from]) = k \/ sending[from])
      /\ (\E m : chan[<<from, r>>] = <<m>>)
  <2>1. EInv /\ ChanInv /\ r \in Ranks /\ k \in Nat \ {0} /\ k = pc[r] /\ Len(log[r]) = k - 1
    BY <1>4
  <2>2. from \in Ranks /\ chan[<<from, r>>] # <<>>
    BY <1>2
  <2> QED BY <2>1, <2>2, TileComes
<1>6. DOMAIN chan = Ranks \X Ranks /\ <<from, r>> \in Ranks \X Ranks
  BY DEF ChanInv
<1>7. chan'[<<from, r>>] = <<>>
  <2>1. PICK m : chan[<<from, r>>] = <<m>>
    BY <1>5
  <2>2. chan'[<<from, r>>] = Tail(<<m>>)
    BY <1>2, <1>6, <2>1
  <2> QED BY <2>2
<1>8. DOMAIN chan' = Ranks \X Ranks /\ \A a, b \in Ranks : <<a, b>> # <<from, r>> => chan'[<<a, b>>] = chan[<<a, b>>]
  BY <1>2, <1>6
<1>9. \A b \in Ranks : chan[<<r, b>>] = <<>>
  BY <1>1, <1>4, NothingSent
<1>10. from # r /\ (\A a : Carries(a, r, k) => a = from) /\ (\A b : ~Carries(r, b, k))
  BY <1>5, CarriesFacts
<1>11. ASSUME NEW b \in Ranks PROVE chan'[<<r, b>>] = <<>>
  BY <1>8, <1>9, <1>10, <1>11
<1>12. ASSUME NEW a \in Ranks \ {r}, chan'[<<a, r>>] # <<>>
       PROVE  chan'[<<a, r>>] = chan[<<a, r>>] /\ ~Carries(a, r, k)
  <2>1. a # from
    BY <1>7, <1>12
  <2> QED BY <1>8, <1>10, <2>1
<1>13. ASSUME NEW a \in Ranks \ {r}, NEW b \in Ranks \ {r} PROVE chan'[<<a, b>>] = chan[<<a, b>>]
  BY <1>8, <1>13
<1>14. ASSUME NEW a \in Ranks, Carries(a, r, k) PROVE Len(log[a]) >= k \/ (sending[a] /\ pc[a] = k)
  BY <1>5, <1>10, <1>14
<1>15. ASSUME NEW a \in Ranks \ {r}, chan'[<<a, r>>] # chan[<<a, r>>] PROVE chan'[<<a, r>>] = <<>>
  BY <1>7, <1>8, <1>15
<1> QED BY <1>1, <1>2, <1>4, <1>8, <1>10, <1>11, <1>12, <1>13, <1>14, <1>15 DEF Transfers

\* The tile of a rank that waits inside a send has been taken.
LEMMA TakenTransfers ==
    ASSUME EInv, ChanInv, NEW r \in Ranks, NEW k \in Nat \ {0}, k = pc[r], SendTaken(r)
    PROVE  Transfers(r, k) /\ (\E b \in Ranks : Carries(r, b, k)) /\ Entered(r, FALSE)
<1>1. /\ sending[r] /\ (\A q \in Ranks : chan[<<r, q>>] = <<>>) /\ Posts(r, FALSE)
      /\ sending' = [sending EXCEPT ![r] = FALSE]
      /\ chan' = chan /\ pc' = pc /\ given' = given
  BY DEF SendTaken
<1>2. ~waiting[r] /\ outcome[r].kind = "running" /\ DOMAIN sending = Ranks
  BY <1>1 DEF EInv, EngineShape, PlaceOK
<1>3. Entered(r, FALSE)
  BY <1>1, <1>2, Enters DEF Posts
<1>4. /\ Len(log[r]) = k - 1 /\ Len(log'[r]) = k /\ (AllFine' => AllFine)
      /\ (\A q \in Ranks \ {r} : log'[q] = log[q]) /\ (\A i \in 1..(k - 1) : log'[r][i] = log[r][i])
  BY <1>3 DEF Entered
<1>5. PICK b \in Ranks : Carries(r, b, k)
  BY <1>1 DEF ChanInv, SendOK
<1>6. \A a : ~Carries(a, r, k)
  BY <1>5, CarriesFacts
<1>7. ~sending'[r] /\ \A q \in Ranks \ {r} : sending'[q] = sending[q]
  BY <1>1, <1>2
<1>8. DOMAIN chan' = Ranks \X Ranks
  BY <1>1 DEF ChanInv
<1>9. ASSUME NEW c \in Ranks, Carries(r, c, k) PROVE Len(log[c]) >= k
  <2>1. HandedOK(r, c) /\ k \in Nat
    BY DEF ChanInv
  <2>2. chan[<<r, c>>] # <<>> \/ Len(log[c]) >= k
    BY <1>1, <1>9, <2>1 DEF HandedOK
  <2> QED BY <1>1, <2>2
<1>10. Transfers(r, k)
  BY <1>1, <1>4, <1>6, <1>7, <1>8, <1>9 DEF Transfers
<1> QED BY <1>3, <1>5, <1>10

-----------------------------------------------------------------------------
(***************************************************************************)
(* The tiles the ranks hold.                                               *)
(***************************************************************************)

TilePhases == {"materialize", "scatter", "execute", "gather", "merge"}

\* A rank that works on a tile stands at a step of the script of the owner's plan.
LEMMA AtWork ==
    ASSUME EInv, KInv, NEW r \in Ranks, NEW k \in Nat \ {0}, k = pc[r], At(r).phase \in TilePhases
    PROVE  /\ k > 3 /\ At(r) = StepAt(k) /\ agreed[r] = ThePlan /\ ScriptPlan(ThePlan)
           /\ SaneAt(ThePlan, Scripts[ThePlan], k) /\ StepAt(k).round \in Nat \ {0}
           /\ StepAt(k).phase # "execute" =>
                 /\ StepAt(k).task \in Active(ThePlan, Ranks, StepAt(k).round)
                 /\ StepAt(k).task \in 1..Len(ThePlan.tasks) /\ WorkerAt(k) \in Ranks
                 /\ TaskIn(ThePlan, WorkerAt(k), StepAt(k).round) = StepAt(k).task
<1>1. k > 3 /\ At(r) = StepAt(k)
  BY PastOpening DEF TilePhases
<1>2. /\ agreed[r] = ThePlan /\ ScriptPlan(ThePlan)
      /\ \E n \in Nat :
                /\ n >= 4 /\ DOMAIN Scripts[ThePlan] = 1..n /\ StepAt(n).phase = "drain"
                /\ \A i \in 4..(n - 1) : SaneAt(ThePlan, Scripts[ThePlan], i)
                /\ pc[r] <= n
  BY <1>1, InScript
<1>3. PICK n \in Nat :
                /\ StepAt(n).phase = "drain"
                /\ \A i \in 4..(n - 1) : SaneAt(ThePlan, Scripts[ThePlan], i)
                /\ k <= n
  BY <1>2
<1>4. k # n
  BY <1>1, <1>3 DEF TilePhases
<1>5. k \in 4..(n - 1)
  BY <1>1, <1>3, <1>4
<1>6. SaneAt(ThePlan, Scripts[ThePlan], k)
  BY <1>3, <1>5
<1>7. StepAt(k).round \in Nat \ {0}
      /\ (StepAt(k).phase # "execute" => StepAt(k).task \in Active(ThePlan, Ranks, StepAt(k).round))
  BY <1>6 DEF SaneAt, StepAt
<1>8. ASSUME StepAt(k).phase # "execute"
      PROVE  /\ StepAt(k).task \in 1..Len(ThePlan.tasks) /\ WorkerAt(k) \in Ranks
             /\ TaskIn(ThePlan, WorkerAt(k), StepAt(k).round) = StepAt(k).task
  <2>0. PICK rd \in Nat \ {0} : rd = StepAt(k).round
    BY <1>7
  <2>1. PICK t : t = StepAt(k).task
    OBVIOUS
  <2>2. t \in 1..Len(ThePlan.tasks) /\ TaskIn(ThePlan, ThePlan.tasks[t].rank, rd) = t
    BY <1>2, <1>7, <1>8, <2>0, <2>1, ActiveFacts
  <2>3. DOMAIN ThePlan.tasks = 1..Len(ThePlan.tasks)
    BY <1>2, PlanFacts DEF ScriptPlan
  <2>4. ThePlan.tasks[t].rank \in Ranks
    BY <1>2, <2>2, <2>3 DEF ScriptPlan, MembersOK
  <2> QED BY <2>0, <2>1, <2>2, <2>4 DEF WorkerAt
<1> QED BY <1>1, <1>2, <1>6, <1>7, <1>8

\* What a rank that enters its k-th collective has done to the tiles it holds.
TileFits(r, k) ==
  \/ /\ StepAt(k).phase = "scatter" /\ WorkerAt(k) = r
     /\ tile'[r] = Packed(ThePlan, StepAt(k).task, StepAt(k).round)
  \/ StepAt(k).phase = "execute"
  \/ tile'[r] = tile[r] /\ ~(StepAt(k).phase = "scatter" /\ WorkerAt(k) = r)
OutputFits(r, k) ==
  \/ /\ StepAt(k).phase = "execute"
     /\ TaskIn(ThePlan, r, StepAt(k).round) # 0 =>
           output'[r] = Computed(ThePlan, TaskIn(ThePlan, r, StepAt(k).round), StepAt(k).round)
  \/ StepAt(k).phase # "execute" /\ output'[r] = output[r]
OwnerFits(k) ==
  /\ StepAt(k).phase = "materialize" => prepared' = Packed(ThePlan, StepAt(k).task, StepAt(k).round)
  /\ StepAt(k).phase = "gather" => received' = Computed(ThePlan, StepAt(k).task, StepAt(k).round)
  /\ \/ /\ StepAt(k).phase = "merge"
        /\ merged' = Append(merged, <<StepAt(k).task, Reference(ThePlan, StepAt(k).task)>>)
     \/ StepAt(k).phase # "merge" /\ merged' = merged
Fits(r, k) ==
  /\ DOMAIN tile' = Ranks /\ DOMAIN output' = Ranks
  /\ \A q \in Ranks \ {r} : tile'[q] = tile[q] /\ output'[q] = output[q]
  /\ r # Owner => prepared' = prepared /\ received' = received /\ merged' = merged
  /\ \/ k <= 3 /\ merged' = merged
     \/ k > 3 /\ TileFits(r, k) /\ OutputFits(r, k) /\ (r = Owner => OwnerFits(k))

\* The tasks merged so far are tasks of the plan, and each is merged by one step.
LEMMA MergedOnceSoFar ==
    ASSUME EInv, KInv, NEW r \in Ranks, NEW k \in Nat, k = pc[r]
    PROVE  /\ IsFiniteSet(MergedBy(k)) /\ IsFiniteSet(MergedBy(k - 1))
           /\ StepAt(k).phase = "merge" /\ k > 3 =>
                 MergedBy(k) = MergedBy(k - 1) \cup {StepAt(k).task} /\ StepAt(k).task \notin MergedBy(k - 1)
           /\ StepAt(k).phase # "merge" \/ k <= 3 => MergedBy(k) = MergedBy(k - 1)
<1>1. CASE k <= 3
  <2>1. 4..k = {} /\ 4..(k - 1) = {}
    BY <1>1
  <2>2. MergedBy(k) = {} /\ MergedBy(k - 1) = {}
    BY <2>1 DEF MergedBy
  <2> QED BY <1>1, <2>2, FS_EmptySet
<1>2. CASE k > 3
  <2>1. /\ ThePlan \in Plans /\ ScriptPlan(ThePlan)
        /\ \E n \in Nat : DOMAIN Scripts[ThePlan] = 1..n /\ StepAt(n).phase = "drain" /\ pc[r] <= n
    BY <1>2, InScript
  <2>2. PICK n \in Nat : DOMAIN Scripts[ThePlan] = 1..n /\ StepAt(n).phase = "drain" /\ k <= n
    BY <2>1
  <2>3. PICK m \in Nat :
             /\ DOMAIN Scripts[ThePlan] = 1..m /\ m >= 4
             /\ \A i \in 4..(m - 1) : SaneAt(ThePlan, Scripts[ThePlan], i)
             /\ \A i, l \in 4..(m - 1) :
                   /\ Scripts[ThePlan][i].phase = "merge" /\ Scripts[ThePlan][l].phase = "merge"
                   /\ Scripts[ThePlan][i].task = Scripts[ThePlan][l].task
                   => i = l
    BY <2>1, ScriptFacts, SMTT(60)
  <2>4. m = n
    <3>1. 1..m = 1..n /\ m \in 1..n /\ n \in 1..m
      BY <1>2, <2>2, <2>3
    <3> QED BY <3>1
  <2>5. \A i \in 4..k : StepAt(i).phase = "merge" => i \in 4..(m - 1)
    <3> SUFFICES ASSUME NEW i \in 4..k, StepAt(i).phase = "merge" PROVE i \in 4..(m - 1)
      OBVIOUS
    <3>1. i # n
      BY <2>2
    <3> QED BY <2>2, <2>4, <3>1
  <2>6. \A i \in 4..k : StepAt(i).phase = "merge" => StepAt(i).task \in 1..Len(ThePlan.tasks)
    <3> SUFFICES ASSUME NEW i \in 4..k, StepAt(i).phase = "merge"
                 PROVE  StepAt(i).task \in 1..Len(ThePlan.tasks)
      OBVIOUS
    <3>1. SaneAt(ThePlan, Scripts[ThePlan], i)
      BY <2>3, <2>5
    <3>2. StepAt(i).round \in Nat \ {0} /\ StepAt(i).task \in Active(ThePlan, Ranks, StepAt(i).round)
      BY <3>1 DEF SaneAt, StepAt
    <3> QED BY <2>1, <3>2, ActiveFacts
  <2>7. \A d \in Nat : d <= k => IsFiniteSet(MergedBy(d))
    <3> SUFFICES ASSUME NEW d \in Nat, d <= k PROVE IsFiniteSet(MergedBy(d))
      OBVIOUS
    <3>1. Len(ThePlan.tasks) \in Nat
      BY <2>1, PlanFacts DEF ScriptPlan
    <3>2. IsFiniteSet(1..Len(ThePlan.tasks))
      BY <3>1, FS_Interval
    <3>3. MergedBy(d) \subseteq 1..Len(ThePlan.tasks)
      <4>1. \A i \in 4..d : i \in 4..k
        OBVIOUS
      <4> QED BY <2>6, <4>1 DEF MergedBy
    <3> QED BY <3>2, <3>3, FS_Subset
  <2>8. k - 1 \in Nat /\ k - 1 <= k /\ k \in 4..k /\ 4..k = (4..(k - 1)) \cup {k}
    BY <1>2
  <2>9. ASSUME StepAt(k).phase = "merge"
        PROVE  MergedBy(k) = MergedBy(k - 1) \cup {StepAt(k).task} /\ StepAt(k).task \notin MergedBy(k - 1)
    <3>1. MergedBy(k) = MergedBy(k - 1) \cup {StepAt(k).task}
      BY <2>8, <2>9 DEF MergedBy
    <3>2. ASSUME NEW i \in 4..(k - 1), StepAt(i).phase = "merge", StepAt(i).task = StepAt(k).task PROVE FALSE
      <4>1. i \in 4..(m - 1) /\ k \in 4..(m - 1)
        BY <2>5, <2>8, <2>9, <3>2
      <4>2. i = k
        BY <2>3, <2>9, <3>2, <4>1 DEF StepAt
      <4> QED BY <4>2
    <3> QED BY <3>1, <3>2 DEF MergedBy
  <2>10. ASSUME StepAt(k).phase # "merge" PROVE MergedBy(k) = MergedBy(k - 1)
    BY <2>8, <2>10 DEF MergedBy
  <2> QED BY <1>2, <2>7, <2>8, <2>9, <2>10
<1> QED BY <1>1, <1>2

\* A rank that enters a collective keeps the tiles in order.
LEMMA DataKeeps ==
    ASSUME EInv, KInv, DataOK, NEW r \in Ranks, NEW k \in Nat \ {0}, k = pc[r],
           NEW bad, Entered(r, bad), given' = given, Fits(r, k)
    PROVE  DataOK'
<1>1. /\ ThePlan' = ThePlan /\ \A i : StepAt(i)' = StepAt(i) /\ WorkerAt(i)' = WorkerAt(i)
      /\ \A d : MergedBy(d)' = MergedBy(d)
  BY DEF ThePlan, StepAt, WorkerAt, MergedBy
<1>2. /\ Len(log[r]) = k - 1 /\ Len(log'[r]) = k
      /\ \A q \in Ranks \ {r} : log'[q] = log[q] /\ tile'[q] = tile[q] /\ output'[q] = output[q]
      /\ r # Owner => prepared' = prepared /\ received' = received /\ merged' = merged
      /\ k <= 3 => merged' = merged
      /\ k > 3 => TileFits(r, k) /\ OutputFits(r, k) /\ (r = Owner => OwnerFits(k))
  BY DEF Entered, Fits
<1>3. PreparedOK'
  <2>1. CASE r = Owner
    <3> SUFFICES ASSUME NEW d \in Nat, d = Len(log'[Owner]), d > 3
          PROVE  /\ StepAt(d).phase = "materialize" =>
                       prepared' = Packed(ThePlan, StepAt(d).task, StepAt(d).round)
                 /\ StepAt(d).phase = "gather" =>
                       received' = Computed(ThePlan, StepAt(d).task, StepAt(d).round)
      BY <1>1 DEF PreparedOK
    <3>1. d = k
      BY <1>2, <2>1
    <3> QED BY <1>2, <2>1, <3>1 DEF OwnerFits
  <2>2. CASE r # Owner
    <3>1. log'[Owner] = log[Owner]
      BY <1>2, <2>2, OwnerIsRank
    <3>2. PreparedOK
      BY DEF DataOK
    <3> QED BY <1>1, <1>2, <2>2, <3>1, <3>2 DEF PreparedOK
  <2> QED BY <2>1, <2>2
<1>4. MergedOK'
  <2>1. MergedOK
    BY DEF DataOK
  <2>2. CASE r # Owner
    <3>1. log'[Owner] = log[Owner]
      BY <1>2, <2>2, OwnerIsRank
    <3> QED BY <1>1, <1>2, <2>1, <2>2, <3>1 DEF MergedOK
  <2>3. CASE r = Owner /\ (k <= 3 \/ StepAt(k).phase # "merge")
    <3>1. merged' = merged
      BY <1>2, <2>3 DEF OwnerFits
    <3>2. MergedBy(k) = MergedBy(k - 1)
      BY <2>3, MergedOnceSoFar
    <3> QED BY <1>1, <1>2, <2>1, <2>3, <3>1, <3>2 DEF MergedOK
  <2>4. CASE r = Owner /\ k > 3 /\ StepAt(k).phase = "merge"
    <3>1. PICK t : t = StepAt(k).task
      OBVIOUS
    <3>2. PICK x : x = <<t, Reference(ThePlan, t)>>
      OBVIOUS
    <3>3. merged' = Append(merged, x)
      BY <1>2, <2>4, <3>1, <3>2 DEF OwnerFits
    <3>4. /\ MergedBy(k) = MergedBy(k - 1) \cup {t} /\ t \notin MergedBy(k - 1)
          /\ IsFiniteSet(MergedBy(k - 1))
      BY <2>4, <3>1, MergedOnceSoFar
    <3>5. /\ Listed(merged) /\ Len(merged) = Cardinality(MergedBy(k - 1))
          /\ \A u \in MergedBy(k - 1) : \E i \in DOMAIN merged : merged[i] = <<u, Reference(ThePlan, u)>>
      BY <1>2, <2>1, <2>4 DEF MergedOK
    <3>6. PICK n \in Nat : n = Len(merged) /\ DOMAIN merged = 1..n
      BY <3>5, ListedFacts
    <3>7. /\ Listed(merged') /\ Len(merged') = n + 1 /\ DOMAIN merged' = 1..(n + 1)
          /\ merged'[n + 1] = x /\ \A i \in 1..n : merged'[i] = merged[i]
      BY <3>3, <3>5, <3>6, Longer
    <3>8. Cardinality(MergedBy(k)) = n + 1
      BY <3>4, <3>5, <3>6, FS_AddElement, ZenonT(120)
    <3>9. \A u \in MergedBy(k) : \E i \in DOMAIN merged' : merged'[i] = <<u, Reference(ThePlan, u)>>
      <4>1. ASSUME NEW u \in MergedBy(k - 1)
            PROVE  \E i \in DOMAIN merged' : merged'[i] = <<u, Reference(ThePlan, u)>>
        <5>1. PICK i \in 1..n : merged[i] = <<u, Reference(ThePlan, u)>>
          BY <3>5, <3>6
        <5>2. i \in DOMAIN merged' /\ merged'[i] = merged[i]
          BY <3>7
        <5> QED BY <5>1, <5>2
      <4>2. n + 1 \in DOMAIN merged' /\ merged'[n + 1] = <<t, Reference(ThePlan, t)>>
        BY <3>2, <3>7
      <4> QED BY <3>4, <4>1, <4>2
    <3> QED BY <1>1, <1>2, <2>4, <3>7, <3>8, <3>9 DEF MergedOK
  <2> QED BY <2>2, <2>3, <2>4
<1>5. ASSUME NEW q \in Ranks PROVE TileOK(q)'
  <2>1. TileOK(q)
    BY DEF DataOK
  <2>2. CASE q # r
    BY <1>1, <1>2, <2>1, <2>2 DEF TileOK
  <2>3. CASE q = r
    <3> SUFFICES ASSUME NEW j \in 4..k, StepAt(j).phase = "scatter", WorkerAt(j) = r,
                        \A i \in (j + 1)..k :
                           StepAt(i).phase # "execute" /\ (StepAt(i).phase = "scatter" => WorkerAt(i) # r)
                 PROVE  tile'[r] = Packed(ThePlan, StepAt(j).task, StepAt(j).round)
      BY <1>1, <1>2, <2>3 DEF TileOK
    <3>1. CASE j = k
      BY <1>2, <3>1 DEF TileFits
    <3>2. CASE j # k
      <4>1. /\ j \in 4..(k - 1) /\ k > 3 /\ k \in (j + 1)..k
            /\ \A i \in (j + 1)..(k - 1) : i \in (j + 1)..k
        BY <3>2
      <4>2. tile'[r] = tile[r]
        BY <1>2, <4>1 DEF TileFits
      <4>3. tile[r] = Packed(ThePlan, StepAt(j).task, StepAt(j).round)
        BY <1>2, <2>1, <2>3, <4>1 DEF TileOK
      <4> QED BY <4>2, <4>3
    <3> QED BY <3>1, <3>2
  <2> QED BY <2>2, <2>3
<1>6. ASSUME NEW q \in Ranks PROVE OutputOK(q)'
  <2>1. OutputOK(q)
    BY DEF DataOK
  <2>2. CASE q # r
    BY <1>1, <1>2, <2>1, <2>2 DEF OutputOK
  <2>3. CASE q = r
    <3> SUFFICES ASSUME NEW j \in 4..k, StepAt(j).phase = "execute", TaskIn(ThePlan, r, StepAt(j).round) # 0,
                        \A i \in (j + 1)..k : StepAt(i).phase # "execute"
                 PROVE  output'[r] = Computed(ThePlan, TaskIn(ThePlan, r, StepAt(j).round), StepAt(j).round)
      BY <1>1, <1>2, <2>3 DEF OutputOK
    <3>1. CASE j = k
      BY <1>2, <3>1 DEF OutputFits
    <3>2. CASE j # k
      <4>1. /\ j \in 4..(k - 1) /\ k > 3 /\ k \in (j + 1)..k
            /\ \A i \in (j + 1)..(k - 1) : i \in (j + 1)..k
        BY <3>2
      <4>2. output'[r] = output[r]
        BY <1>2, <4>1 DEF OutputFits
      <4>3. output[r] = Computed(ThePlan, TaskIn(ThePlan, r, StepAt(j).round), StepAt(j).round)
        BY <1>2, <2>1, <2>3, <4>1 DEF OutputOK
      <4> QED BY <4>2, <4>3
    <3> QED BY <3>1, <3>2
  <2> QED BY <2>2, <2>3
<1> QED BY <1>3, <1>4, <1>5, <1>6 DEF DataOK

\* A step that enters a collective keeps the invariant, whatever has failed.
LEMMA PostedKeeps ==
    ASSUME EInv, KInv, DInv, NEW r \in Ranks, NEW k \in Nat \ {0}, k = pc[r], Transfers(r, k),
           NEW bad, Entered(r, bad), DOMAIN tile' = Ranks, DOMAIN output' = Ranks,
           AllFine /\ ~bad => Fits(r, k)
    PROVE  DInv'
<1>1. ChanInv /\ TilesKnown
  BY DEF DInv
<1>2. ChanInv'
  BY <1>1, TransfersKeep
<1>3. ASSUME AllFine' PROVE DataOK'
  <2>1. AllFine /\ ~bad
    BY <1>3 DEF Entered
  <2>2. DataOK /\ Fits(r, k) /\ given' = given
    BY <1>1, <2>1 DEF TilesKnown, Transfers
  <2> QED BY <2>2, DataKeeps
<1> QED BY <1>2, <1>3 DEF DInv, TilesKnown

\* A step that neither enters a collective nor touches a tile.
LEMMA TilesStay ==
    ASSUME TilesKnown, log' = log, given' = given,
           UNCHANGED <<prepared, tile, output, received, merged>>
    PROVE  TilesKnown'
<1>1. /\ ThePlan' = ThePlan /\ \A i : StepAt(i)' = StepAt(i) /\ WorkerAt(i)' = WorkerAt(i)
      /\ \A d : MergedBy(d)' = MergedBy(d)
  BY DEF ThePlan, StepAt, WorkerAt, MergedBy
<1>2. AllFine' <=> AllFine
  BY DEF AllFine
<1>3. ASSUME DataOK PROVE DataOK'
  <2>1. PreparedOK' /\ MergedOK'
    BY <1>1, <1>3 DEF DataOK, PreparedOK, MergedOK
  <2>2. ASSUME NEW q \in Ranks PROVE TileOK(q)' /\ OutputOK(q)'
    BY <1>1, <1>3 DEF DataOK, TileOK, OutputOK
  <2> QED BY <2>1, <2>2 DEF DataOK
<1> QED BY <1>2, <1>3 DEF TilesKnown

\* A rank enters its collective and has moved no tile.
LEMMA QuietKeeps ==
    ASSUME EInv, KInv, DInv, NEW r \in Ranks, NEW k \in Nat \ {0}, k = pc[r], Working(r),
           NEW bad, NEW sign, Post(r, bad, sign), UNCHANGED <<chan, sending, pc, given>>,
           DOMAIN tile' = Ranks, DOMAIN output' = Ranks,
           \A a \in Ranks : ~Carries(a, r, k) /\ ~Carries(r, a, k), AllFine /\ ~bad => Fits(r, k)
    PROVE  DInv'
<1>1. ~waiting[r] /\ outcome[r].kind = "running" /\ ~sending[r]
  BY DEF Working
<1>2. Entered(r, bad)
  BY <1>1, Enters
<1>3. ChanInv
  BY DEF DInv
<1>4. Transfers(r, k)
  BY <1>1, <1>2, <1>3, QuietTransfers
<1> QED BY <1>2, <1>4, PostedKeeps

\* The steps that have to do with no tile at all.
LEMMA PlainKeeps ==
    ASSUME EInv, KInv, DInv, NEW r \in Ranks, ChecksPlan(r) \/ Signs(r) \/ Announces(r) \/ Drains(r)
    PROVE  DInv'
<1>1. /\ Working(r) /\ At(r).phase \in {"plan", "signature", "metadata", "drain"}
      /\ UNCHANGED <<chan, sending, pc, given>> /\ UNCHANGED tileVars
  BY DEF ChecksPlan, Signs, Announces, Drains, Runs
<1>2. PICK bad, sign : Post(r, bad, sign)
  BY DEF ChecksPlan, Signs, Announces, Drains, Succeeds, Raises, Posts
<1>3. PICK k \in Nat \ {0} : k = pc[r]
  BY Behind
<1>4. k > 3 => StepAt(k).phase \in {"plan", "signature", "metadata", "drain"}
  BY <1>1, <1>3, InScript
<1>5. \A a \in Ranks : ~Carries(a, r, k) /\ ~Carries(r, a, k)
  BY <1>4 DEF Carries
<1>6. DOMAIN tile' = Ranks /\ DOMAIN output' = Ranks
  BY <1>1 DEF tileVars, DInv, TilesKnown
<1>7. Fits(r, k)
  <2>1. k <= 3 \/ k > 3
    BY <1>3
  <2>2. UNCHANGED <<prepared, tile, output, received, merged>>
    BY <1>1 DEF tileVars
  <2>3. k > 3 => TileFits(r, k) /\ OutputFits(r, k) /\ OwnerFits(k)
    BY <1>4, <2>2 DEF TileFits, OutputFits, OwnerFits
  <2> QED BY <1>6, <2>1, <2>2, <2>3 DEF Fits
<1> QED BY <1>1, <1>2, <1>3, <1>5, <1>6, <1>7, QuietKeeps

\* The owner materializes the tile of a task.
LEMMA MaterializesKeeps ==
    ASSUME EInv, KInv, DInv, NEW r \in Ranks, Materializes(r)
    PROVE  DInv'
<1>1. /\ Working(r) /\ At(r).phase = "materialize"
      /\ UNCHANGED <<given, pc, sending, chan, tile, output, received, merged>>
  BY DEF Materializes, Runs
<1>2. PICK k \in Nat \ {0} : k = pc[r]
  BY Behind
<1>3. k > 3 /\ At(r) = StepAt(k) /\ agreed[r] = ThePlan /\ StepAt(k).phase = "materialize"
  BY <1>1, <1>2, AtWork DEF TilePhases
<1>4. PICK bad \in BOOLEAN :
        /\ Posts(r, bad)
        /\ r # Owner => prepared' = prepared
        /\ r = Owner /\ ~bad => prepared' = PadTensor(Content(agreed[r], At(r).task),
                                                      InputEnvelope(agreed[r], Ranks, At(r).round))
  BY DEF Materializes, Succeeds, Raises
<1>5. \A a \in Ranks : ~Carries(a, r, k) /\ ~Carries(r, a, k)
  BY <1>3 DEF Carries
<1>6. DOMAIN tile' = Ranks /\ DOMAIN output' = Ranks
  BY <1>1 DEF DInv, TilesKnown
<1>7. ~bad => Fits(r, k)
  <2>1. TileFits(r, k) /\ OutputFits(r, k)
    BY <1>1, <1>3 DEF TileFits, OutputFits
  <2>2. ~bad /\ r = Owner => OwnerFits(k)
    BY <1>1, <1>3, <1>4 DEF OwnerFits, Packed
  <2> QED BY <1>1, <1>3, <1>4, <1>6, <2>1, <2>2 DEF Fits
<1> QED BY <1>1, <1>2, <1>4, <1>5, <1>6, <1>7, QuietKeeps DEF Posts

\* A tile goes from the owner to the rank of its task.
LEMMA ScattersKeeps ==
    ASSUME EInv, KInv, DInv, NEW r \in Ranks, Scatters(r)
    PROVE  DInv'
<1>1. /\ Working(r) /\ At(r).phase = "scatter" /\ ChanInv /\ TilesKnown /\ PlaceOK(r)
      /\ UNCHANGED <<given, pc, prepared, output, received, merged>>
      /\ ~waiting[r] /\ outcome[r].kind = "running"
  BY DEF Scatters, Runs, Working, DInv, EInv
<1>2. PICK k \in Nat \ {0} : k = pc[r]
  BY Behind
<1>3. /\ k > 3 /\ At(r) = StepAt(k) /\ agreed[r] = ThePlan /\ ScriptPlan(ThePlan)
      /\ SaneAt(ThePlan, Scripts[ThePlan], k) /\ StepAt(k).phase = "scatter"
      /\ WorkerAt(k) \in Ranks
  BY <1>1, <1>2, AtWork DEF TilePhases
<1>4. TaskAt(r).rank = WorkerAt(k)
  BY <1>3 DEF TaskAt, WorkerAt
<1>5. Len(log[r]) = k - 1 /\ Len(log[r]) \in Nat
  BY <1>1, <1>2, Behind DEF PlaceOK
<1>6. AllFine /\ r = Owner => prepared = Packed(ThePlan, StepAt(k).task, StepAt(k).round)
  <2> SUFFICES ASSUME AllFine, r = Owner
               PROVE  prepared = Packed(ThePlan, StepAt(k).task, StepAt(k).round)
    OBVIOUS
  <2>1. k > 4 /\ StepAt(k - 1) = Step("materialize", StepAt(k).round, StepAt(k).task)
    BY <1>3 DEF SaneAt, StepAt
  <2>2. PICK d \in Nat : d = k - 1
    BY <2>1
  <2>3. /\ StepAt(d).phase = "materialize" /\ StepAt(d).round = StepAt(k).round
        /\ StepAt(d).task = StepAt(k).task
    BY <2>1, <2>2 DEF Step
  <2>4. PreparedOK /\ d = Len(log[Owner]) /\ d > 3
    BY <1>1, <1>5, <2>1, <2>2 DEF TilesKnown, DataOK
  <2> QED BY <2>3, <2>4 DEF PreparedOK
<1>7. OutputFits(r, k) /\ OwnerFits(k)
  BY <1>1, <1>3 DEF OutputFits, OwnerFits
<1>8. DOMAIN tile = Ranks /\ DOMAIN output' = Ranks
  BY <1>1 DEF TilesKnown
<1>9. CASE WorkerAt(k) = Owner
  <2>1. NoTransfer(r) /\ tile' = IF r = Owner THEN [tile EXCEPT ![r] = prepared] ELSE tile
    BY <1>4, <1>9 DEF Scatters
  <2>2. \A a \in Ranks : ~Carries(a, r, k) /\ ~Carries(r, a, k)
    BY <1>3, <1>9 DEF Carries
  <2>3. DOMAIN tile' = Ranks /\ \A q \in Ranks \ {r} : tile'[q] = tile[q]
    BY <1>8, <2>1
  <2>4. AllFine => TileFits(r, k)
    <3>1. CASE r = Owner
      <4>1. tile'[r] = prepared
        BY <1>8, <2>1, <3>1
      <4> QED BY <1>3, <1>6, <1>9, <3>1, <4>1 DEF TileFits
    <3>2. CASE r # Owner
      BY <1>9, <2>1, <3>2 DEF TileFits
    <3> QED BY <3>1, <3>2
  <2>5. AllFine => Fits(r, k)
    BY <1>1, <1>3, <1>7, <1>8, <2>3, <2>4 DEF Fits
  <2>6. Post(r, FALSE, <<>>) /\ UNCHANGED <<chan, sending, pc, given>>
    BY <1>1, <2>1 DEF NoTransfer, Posts
  <2> QED BY <1>1, <1>2, <1>8, <2>2, <2>3, <2>5, <2>6, QuietKeeps
<1>10. CASE WorkerAt(k) # Owner /\ r = Owner
  <2>1. Sends(r, WorkerAt(k), prepared, FALSE) /\ tile' = tile
    BY <1>4, <1>10 DEF Scatters
  <2>2. Carries(r, WorkerAt(k), k)
    BY <1>3, <1>10 DEF Carries
  <2>3. AllFine => prepared = TileOf(k)
    BY <1>3, <1>6, <1>10 DEF TileOf
  <2>4. UNCHANGED <<pc, given>>
    BY <1>1
  <2>5. Transfers(r, k)
    BY <1>1, <1>2, <1>3, <2>1, <2>2, <2>3, <2>4, SendTransfers
  <2>6. CASE eager
    <3>1. Entered(r, FALSE)
      BY <1>1, <2>1, <2>6, Enters DEF Sends, Posts
    <3>2. TileFits(r, k)
      BY <1>10, <2>1 DEF TileFits
    <3>3. Fits(r, k)
      BY <1>1, <1>3, <1>7, <1>8, <2>1, <3>2 DEF Fits
    <3> QED BY <1>2, <1>8, <2>1, <2>5, <3>1, <3>3, PostedKeeps
  <2>7. CASE ~eager
    <3>1. log' = log
      BY <2>1, <2>7 DEF Sends
    <3>2. ChanInv'
      BY <1>1, <2>5, TransfersKeep
    <3>3. TilesKnown'
      BY <1>1, <2>1, <3>1, TilesStay
    <3> QED BY <3>2, <3>3 DEF DInv
  <2> QED BY <2>6, <2>7
<1>11. CASE WorkerAt(k) # Owner /\ r # Owner /\ r = WorkerAt(k)
  <2>1. Receives(r, Owner) /\ tile' = [tile EXCEPT ![r] = Head(chan[<<Owner, r>>]).data]
    BY <1>4, <1>11 DEF Scatters
  <2>2. UNCHANGED <<pc, given>> /\ Owner \in Ranks
    BY <1>1, OwnerIsRank
  <2>3. Transfers(r, k)
    BY <1>1, <1>2, <2>1, <2>2, ReceiveTransfers
  <2>4. Entered(r, FALSE)
    BY <1>1, <2>1, Enters DEF Receives, Posts
  <2>5. chan[<<Owner, r>>] # <<>>
    BY <2>1 DEF Receives
  <2>6. /\ (\E m : chan[<<Owner, r>>] = <<m>>)
        /\ AllFine => chan[<<Owner, r>>][1].data = TileOf(k)
    BY <1>1, <1>2, <1>5, <2>2, <2>5, TileComes
  <2>7. Head(chan[<<Owner, r>>]) = chan[<<Owner, r>>][1]
    <3>1. PICK m : chan[<<Owner, r>>] = <<m>>
      BY <2>6
    <3> QED BY <3>1
  <2>8. DOMAIN tile' = Ranks /\ (\A q \in Ranks \ {r} : tile'[q] = tile[q])
        /\ tile'[r] = chan[<<Owner, r>>][1].data
    BY <1>8, <2>1, <2>7
  <2>9. AllFine => TileFits(r, k)
    BY <1>3, <1>11, <2>6, <2>8 DEF TileFits, TileOf
  <2>10. AllFine => Fits(r, k)
    BY <1>1, <1>3, <1>7, <1>8, <2>8, <2>9 DEF Fits
  <2> QED BY <1>2, <1>8, <2>3, <2>4, <2>8, <2>10, PostedKeeps
<1>12. CASE WorkerAt(k) # Owner /\ r # Owner /\ r # WorkerAt(k)
  <2>1. NoTransfer(r) /\ tile' = tile
    BY <1>4, <1>12 DEF Scatters
  <2>2. \A a \in Ranks : ~Carries(a, r, k) /\ ~Carries(r, a, k)
    BY <1>3, <1>12 DEF Carries
  <2>3. TileFits(r, k)
    BY <1>12, <2>1 DEF TileFits
  <2>4. Fits(r, k)
    BY <1>1, <1>3, <1>7, <1>8, <2>1, <2>3 DEF Fits
  <2>5. Post(r, FALSE, <<>>) /\ UNCHANGED <<chan, sending, pc, given>>
    BY <1>1, <2>1 DEF NoTransfer, Posts
  <2> QED BY <1>1, <1>2, <1>8, <2>1, <2>2, <2>4, <2>5, QuietKeeps
<1> QED BY <1>9, <1>10, <1>11, <1>12

\* Every rank with a task in this round computes on the tile it has got.
LEMMA ExecutesKeeps ==
    ASSUME EInv, KInv, DInv, NEW r \in Ranks, Executes(r)
    PROVE  DInv'
<1>1. /\ Working(r) /\ At(r).phase = "execute" /\ TilesKnown /\ PlaceOK(r)
      /\ UNCHANGED <<given, pc, sending, chan, prepared, received, merged>>
      /\ tile' = [tile EXCEPT ![r] = NoTile] /\ ~waiting[r] /\ outcome[r].kind = "running"
  BY DEF Executes, Runs, Working, DInv, EInv
<1>2. PICK k \in Nat \ {0} : k = pc[r]
  BY Behind
<1>3. /\ k > 3 /\ At(r) = StepAt(k) /\ agreed[r] = ThePlan /\ ScriptPlan(ThePlan)
      /\ SaneAt(ThePlan, Scripts[ThePlan], k) /\ StepAt(k).phase = "execute"
      /\ StepAt(k).round \in Nat \ {0}
  BY <1>1, <1>2, AtWork DEF TilePhases
<1>4. PICK rd \in Nat \ {0} : rd = StepAt(k).round
  BY <1>3
<1>5. PICK i : i = TaskIn(ThePlan, r, rd)
  OBVIOUS
<1>6. PICK bad \in BOOLEAN :
        /\ Posts(r, bad)
        /\ i = 0 => output' = output
        /\ bad => output' = output
        /\ i # 0 /\ ~bad =>
             output' = [output EXCEPT ![r] =
                          PadTensor(Executed(ThePlan, i, OriginCrop(tile[r], ThePlan.tasks[i].padin)),
                                    OutputEnvelope(ThePlan, Ranks, rd))]
  <2>1. PICK b \in BOOLEAN :
          /\ Posts(r, b)
          /\ TaskIn(agreed[r], r, At(r).round) = 0 => output' = output
          /\ b => output' = output
          /\ TaskIn(agreed[r], r, At(r).round) # 0 /\ ~b =>
               output' = [output EXCEPT ![r] =
                   PadTensor(Executed(agreed[r], TaskIn(agreed[r], r, At(r).round),
                                      OriginCrop(tile[r], agreed[r].tasks[TaskIn(agreed[r], r, At(r).round)].padin)),
                             OutputEnvelope(agreed[r], Ranks, At(r).round))]
    <3>1. CASE TaskIn(agreed[r], r, At(r).round) = 0
      <4>1. Posts(r, FALSE) /\ output' = output
        BY <3>1 DEF Executes, Succeeds
      <4> QED BY <3>1, <4>1
    <3>2. CASE TaskIn(agreed[r], r, At(r).round) # 0 /\ output' = output /\ Raises(r)
      <4>1. Posts(r, TRUE)
        BY <3>2 DEF Raises
      <4> QED BY <3>2, <4>1
    <3>3. CASE /\ TaskIn(agreed[r], r, At(r).round) # 0 /\ Succeeds(r)
               /\ output' = [output EXCEPT ![r] =
                   PadTensor(Executed(agreed[r], TaskIn(agreed[r], r, At(r).round),
                                      OriginCrop(tile[r], agreed[r].tasks[TaskIn(agreed[r], r, At(r).round)].padin)),
                             OutputEnvelope(agreed[r], Ranks, At(r).round))]
      <4>1. Posts(r, FALSE)
        BY <3>3 DEF Succeeds
      <4> QED BY <3>3, <4>1
    <3> QED BY <3>1, <3>2, <3>3 DEF Executes
  <2>2. TaskIn(agreed[r], r, At(r).round) = i /\ At(r).round = rd /\ agreed[r] = ThePlan
    BY <1>3, <1>4, <1>5
  <2> QED BY <2>1, <2>2
<1>7. \A a \in Ranks : ~Carries(a, r, k) /\ ~Carries(r, a, k)
  BY <1>3 DEF Carries
<1>8. DOMAIN tile = Ranks /\ DOMAIN output = Ranks
  BY <1>1 DEF TilesKnown
<1>9. DOMAIN tile' = Ranks /\ DOMAIN output' = Ranks
      /\ \A q \in Ranks \ {r} : tile'[q] = tile[q] /\ output'[q] = output[q]
  <2>1. CASE i = 0 \/ bad
    BY <1>1, <1>6, <1>8, <2>1
  <2>2. CASE i # 0 /\ ~bad
    BY <1>1, <1>6, <1>8, <2>2
  <2> QED BY <2>1, <2>2
<1>10. ASSUME AllFine, i # 0 PROVE tile[r] = Packed(ThePlan, i, rd)
  <2>1. ScatteredBefore(ThePlan, Scripts[ThePlan], k, r, rd, i)
    BY <1>3, <1>4, <1>5, <1>10 DEF SaneAt, StepAt
  <2>2. PICK j \in 4..(k - 1) :
           /\ StepAt(j) = Step("scatter", rd, i)
           /\ \A l \in (j + 1)..(k - 1) :
                 StepAt(l).phase # "execute" /\ (StepAt(l).phase = "scatter" => WorkerAt(l) # r)
    BY <2>1 DEF ScatteredBefore, StepAt, WorkerAt
  <2>3. StepAt(j).phase = "scatter" /\ StepAt(j).task = i /\ StepAt(j).round = rd
    BY <2>2 DEF Step
  <2>4. WorkerAt(j) = r
    <3>1. ThePlan.tasks[i].rank = r
      BY <1>3, <1>5, <1>10, TaskFacts DEF ScriptPlan
    <3> QED BY <2>3, <3>1 DEF WorkerAt
  <2>5. Len(log[r]) = k - 1
    BY <1>1, <1>2, Behind DEF PlaceOK
  <2>6. TileOK(r)
    BY <1>1, <1>10 DEF TilesKnown, DataOK
  <2> QED BY <2>2, <2>3, <2>4, <2>5, <2>6 DEF TileOK
<1>11. ASSUME AllFine, ~bad PROVE Fits(r, k)
  <2>1. TileFits(r, k) /\ OwnerFits(k)
    BY <1>1, <1>3 DEF TileFits, OwnerFits
  <2>2. i # 0 => output'[r] = Computed(ThePlan, i, rd)
    BY <1>6, <1>8, <1>10, <1>11 DEF Computed
  <2>3. OutputFits(r, k)
    BY <1>3, <1>4, <1>5, <2>2 DEF OutputFits
  <2> QED BY <1>1, <1>3, <1>9, <2>1, <2>3 DEF Fits
<1> QED BY <1>1, <1>2, <1>6, <1>7, <1>9, <1>11, QuietKeeps DEF Posts

\* A tile comes back to the owner.
LEMMA GathersKeeps ==
    ASSUME EInv, KInv, DInv, NEW r \in Ranks, Gathers(r)
    PROVE  DInv'
<1>1. /\ Working(r) /\ At(r).phase = "gather" /\ ChanInv /\ TilesKnown /\ PlaceOK(r)
      /\ UNCHANGED <<given, pc, prepared, tile, output, merged>>
      /\ ~waiting[r] /\ outcome[r].kind = "running"
  BY DEF Gathers, Runs, Working, DInv, EInv
<1>2. PICK k \in Nat \ {0} : k = pc[r]
  BY Behind
<1>3. /\ k > 3 /\ At(r) = StepAt(k) /\ agreed[r] = ThePlan /\ ScriptPlan(ThePlan)
      /\ SaneAt(ThePlan, Scripts[ThePlan], k) /\ StepAt(k).phase = "gather"
      /\ WorkerAt(k) \in Ranks /\ StepAt(k).round \in Nat \ {0}
      /\ TaskIn(ThePlan, WorkerAt(k), StepAt(k).round) = StepAt(k).task
      /\ StepAt(k).task \in 1..Len(ThePlan.tasks)
  BY <1>1, <1>2, AtWork DEF TilePhases
<1>4. TaskAt(r).rank = WorkerAt(k)
  BY <1>3 DEF TaskAt, WorkerAt
<1>5. Len(log[r]) = k - 1 /\ Len(log[r]) \in Nat
  BY <1>1, <1>2, Behind DEF PlaceOK
<1>6. ASSUME AllFine, r = WorkerAt(k)
      PROVE  output[r] = Computed(ThePlan, StepAt(k).task, StepAt(k).round)
  <2>1. PICK t : t = StepAt(k).task
    OBVIOUS
  <2>2. PICK rd : rd = StepAt(k).round
    OBVIOUS
  <2>3. ExecutedBefore(Scripts[ThePlan], k, rd)
    BY <1>3, <2>2 DEF SaneAt, StepAt
  <2>4. PICK j \in 4..(k - 1) :
           /\ StepAt(j) = Step("execute", rd, 0)
           /\ \A l \in (j + 1)..(k - 1) : StepAt(l).phase # "execute"
    BY <2>3 DEF ExecutedBefore, StepAt
  <2>5. StepAt(j).phase = "execute" /\ StepAt(j).round = rd
    BY <2>4 DEF Step
  <2>6. TaskIn(ThePlan, r, rd) = t /\ t # 0
    <3>1. 0 \notin 1..Len(ThePlan.tasks)
      OBVIOUS
    <3> QED BY <1>3, <1>6, <2>1, <2>2, <3>1
  <2>7. OutputOK(r)
    BY <1>1, <1>6 DEF TilesKnown, DataOK
  <2> QED BY <1>5, <2>1, <2>2, <2>4, <2>5, <2>6, <2>7 DEF OutputOK
<1>7. TileFits(r, k) /\ OutputFits(r, k)
  BY <1>1, <1>3 DEF TileFits, OutputFits
<1>8. DOMAIN tile' = Ranks /\ DOMAIN output' = Ranks
  BY <1>1 DEF TilesKnown
<1>9. ASSUME r # Owner => received' = received,
             r = Owner => received' = Computed(ThePlan, StepAt(k).task, StepAt(k).round)
      PROVE  Fits(r, k)
  <2>1. r = Owner => OwnerFits(k)
    BY <1>1, <1>3, <1>9 DEF OwnerFits
  <2> QED BY <1>1, <1>3, <1>7, <1>8, <1>9, <2>1 DEF Fits
<1>10. CASE WorkerAt(k) = Owner
  <2>1. NoTransfer(r) /\ received' = IF r = Owner THEN output[r] ELSE received
    BY <1>4, <1>10 DEF Gathers
  <2>2. \A a \in Ranks : ~Carries(a, r, k) /\ ~Carries(r, a, k)
    BY <1>3, <1>10 DEF Carries
  <2>3. AllFine => Fits(r, k)
    BY <1>6, <1>9, <1>10, <2>1
  <2>4. Post(r, FALSE, <<>>) /\ UNCHANGED <<chan, sending, pc, given>>
    BY <1>1, <2>1 DEF NoTransfer, Posts
  <2> QED BY <1>1, <1>2, <1>8, <2>2, <2>3, <2>4, QuietKeeps
<1>11. CASE WorkerAt(k) # Owner /\ r = Owner
  <2>1. Receives(r, WorkerAt(k)) /\ received' = Head(chan[<<WorkerAt(k), r>>]).data
    BY <1>4, <1>11 DEF Gathers
  <2>2. UNCHANGED <<pc, given>>
    BY <1>1
  <2>3. Transfers(r, k)
    BY <1>1, <1>2, <1>3, <2>1, <2>2, ReceiveTransfers
  <2>4. Entered(r, FALSE)
    BY <1>1, <2>1, Enters DEF Receives, Posts
  <2>5. chan[<<WorkerAt(k), r>>] # <<>>
    BY <2>1 DEF Receives
  <2>6. /\ (\E m : chan[<<WorkerAt(k), r>>] = <<m>>)
        /\ AllFine => chan[<<WorkerAt(k), r>>][1].data = TileOf(k)
    BY <1>1, <1>2, <1>3, <1>5, <2>5, TileComes
  <2>7. Head(chan[<<WorkerAt(k), r>>]) = chan[<<WorkerAt(k), r>>][1]
    <3>1. PICK m : chan[<<WorkerAt(k), r>>] = <<m>>
      BY <2>6
    <3> QED BY <3>1
  <2>8. AllFine => received' = Computed(ThePlan, StepAt(k).task, StepAt(k).round)
    BY <1>3, <2>1, <2>6, <2>7 DEF TileOf
  <2>9. AllFine => Fits(r, k)
    BY <1>9, <1>11, <2>8
  <2> QED BY <1>2, <1>8, <2>3, <2>4, <2>9, PostedKeeps
<1>12. CASE WorkerAt(k) # Owner /\ r # Owner /\ r = WorkerAt(k)
  <2>1. Sends(r, Owner, output[r], TRUE) /\ received' = received
    BY <1>4, <1>12 DEF Gathers
  <2>2. Carries(r, Owner, k)
    BY <1>3, <1>12 DEF Carries
  <2>3. AllFine => output[r] = TileOf(k)
    BY <1>3, <1>6, <1>12 DEF TileOf
  <2>4. UNCHANGED <<pc, given>> /\ Owner \in Ranks
    BY <1>1, OwnerIsRank
  <2>5. Transfers(r, k)
    BY <1>1, <1>2, <2>1, <2>2, <2>3, <2>4, SendTransfers
  <2>6. CASE eager
    <3>1. Entered(r, FALSE)
      BY <1>1, <2>1, <2>6, Enters DEF Sends, Posts
    <3>2. Fits(r, k)
      BY <1>9, <1>12, <2>1
    <3> QED BY <1>2, <1>8, <2>5, <3>1, <3>2, PostedKeeps
  <2>7. CASE ~eager
    <3>1. log' = log
      BY <2>1, <2>7 DEF Sends
    <3>2. ChanInv'
      BY <1>1, <2>5, TransfersKeep
    <3>3. TilesKnown'
      BY <1>1, <2>1, <3>1, TilesStay
    <3> QED BY <3>2, <3>3 DEF DInv
  <2> QED BY <2>6, <2>7
<1>13. CASE WorkerAt(k) # Owner /\ r # Owner /\ r # WorkerAt(k)
  <2>1. NoTransfer(r) /\ received' = received
    BY <1>4, <1>13 DEF Gathers
  <2>2. \A a \in Ranks : ~Carries(a, r, k) /\ ~Carries(r, a, k)
    BY <1>3, <1>13 DEF Carries
  <2>3. Fits(r, k)
    BY <1>9, <1>13, <2>1
  <2>4. Post(r, FALSE, <<>>) /\ UNCHANGED <<chan, sending, pc, given>>
    BY <1>1, <2>1 DEF NoTransfer, Posts
  <2> QED BY <1>1, <1>2, <1>8, <2>2, <2>3, <2>4, QuietKeeps
<1> QED BY <1>10, <1>11, <1>12, <1>13

\* The owner merges what has come back.
LEMMA MergesKeeps ==
    ASSUME EInv, KInv, DInv, NEW r \in Ranks, Merges(r)
    PROVE  DInv'
<1>1. /\ Working(r) /\ At(r).phase = "merge" /\ TilesKnown /\ PlaceOK(r)
      /\ UNCHANGED <<given, pc, sending, chan, prepared, tile, output, received>>
      /\ ~waiting[r] /\ outcome[r].kind = "running"
  BY DEF Merges, Runs, Working, DInv, EInv
<1>2. PICK k \in Nat \ {0} : k = pc[r]
  BY Behind
<1>3. /\ k > 3 /\ At(r) = StepAt(k) /\ agreed[r] = ThePlan /\ ScriptPlan(ThePlan)
      /\ SaneAt(ThePlan, Scripts[ThePlan], k) /\ StepAt(k).phase = "merge"
      /\ StepAt(k).round \in Nat \ {0}
      /\ StepAt(k).task \in Active(ThePlan, Ranks, StepAt(k).round)
  BY <1>1, <1>2, AtWork DEF TilePhases
<1>4. PICK t : t = StepAt(k).task
  OBVIOUS
<1>5. PICK rd \in Nat \ {0} : rd = StepAt(k).round
  BY <1>3
<1>6. PICK bad \in BOOLEAN :
        /\ Posts(r, bad)
        /\ r # Owner => merged' = merged
        /\ r = Owner /\ ~bad => merged' = Append(merged, <<t, OriginCrop(received, ThePlan.tasks[t].padout)>>)
  <2>1. At(r).task = t /\ TaskAt(r) = ThePlan.tasks[t]
    BY <1>3, <1>4 DEF TaskAt
  <2>2. CASE r # Owner
    BY <2>2 DEF Merges, Succeeds
  <2>3. CASE r = Owner /\ Raises(r)
    BY <2>3 DEF Raises
  <2>4. CASE /\ r = Owner /\ Succeeds(r)
             /\ merged' = Append(merged, <<At(r).task, OriginCrop(received, TaskAt(r).padout)>>)
    <3>1. Posts(r, FALSE)
      BY <2>4 DEF Succeeds
    <3> QED BY <2>1, <2>4, <3>1
  <2> QED BY <2>2, <2>3, <2>4 DEF Merges
<1>7. \A a \in Ranks : ~Carries(a, r, k) /\ ~Carries(r, a, k)
  BY <1>3 DEF Carries
<1>8. DOMAIN tile' = Ranks /\ DOMAIN output' = Ranks
  BY <1>1 DEF TilesKnown
<1>9. ASSUME AllFine, r = Owner PROVE OriginCrop(received, ThePlan.tasks[t].padout) = Reference(ThePlan, t)
  <2>1. k > 4 /\ StepAt(k - 1) = Step("gather", rd, t)
    BY <1>3, <1>4, <1>5 DEF SaneAt, StepAt
  <2>2. PICK d \in Nat : d = k - 1
    BY <2>1
  <2>3. StepAt(d).phase = "gather" /\ StepAt(d).round = rd /\ StepAt(d).task = t
    BY <2>1, <2>2 DEF Step
  <2>4. PreparedOK /\ d > 3
    BY <1>1, <1>9, <2>1, <2>2 DEF TilesKnown, DataOK
  <2>5. d = Len(log[Owner])
    BY <1>1, <1>2, <1>9, <2>2, Behind DEF PlaceOK
  <2>6. received = Computed(ThePlan, t, rd)
    BY <2>3, <2>4, <2>5 DEF PreparedOK
  <2> QED BY <1>3, <1>4, <1>5, <2>6, CroppedResult
<1>10. ASSUME AllFine, ~bad PROVE Fits(r, k)
  <2>1. TileFits(r, k) /\ OutputFits(r, k)
    BY <1>1, <1>3 DEF TileFits, OutputFits
  <2>2. r = Owner => OwnerFits(k)
    BY <1>3, <1>4, <1>6, <1>9, <1>10 DEF OwnerFits
  <2> QED BY <1>1, <1>3, <1>6, <1>8, <2>1, <2>2 DEF Fits
<1> QED BY <1>1, <1>2, <1>6, <1>7, <1>8, <1>10, QuietKeeps DEF Posts

\* A rank whose tile has been taken enters its collective.
LEMMA TakenKeeps ==
    ASSUME EInv, KInv, DInv, NEW r \in Ranks, SendTaken(r)
    PROVE  DInv'
<1>1. ChanInv /\ TilesKnown /\ UNCHANGED tileVars
  BY DEF SendTaken, DInv
<1>2. UNCHANGED <<prepared, tile, output, received, merged>>
  BY <1>1 DEF tileVars
<1>3. PICK k \in Nat \ {0} : k = pc[r]
  BY Behind
<1>4. Transfers(r, k) /\ (\E b \in Ranks : Carries(r, b, k)) /\ Entered(r, FALSE)
  BY <1>1, <1>3, TakenTransfers
<1>5. DOMAIN tile' = Ranks /\ DOMAIN output' = Ranks
  BY <1>1, <1>2 DEF TilesKnown
<1>6. Fits(r, k)
  <2>1. PICK b \in Ranks : Carries(r, b, k)
    BY <1>4
  <2>2. /\ k > 3 /\ StepAt(k).phase \in {"scatter", "gather"}
        /\ ~(StepAt(k).phase = "scatter" /\ WorkerAt(k) = r) /\ ~(StepAt(k).phase = "gather" /\ r = Owner)
    BY <2>1 DEF Carries
  <2>3. TileFits(r, k) /\ OutputFits(r, k) /\ (r = Owner => OwnerFits(k))
    BY <1>2, <2>2 DEF TileFits, OutputFits, OwnerFits
  <2> QED BY <1>2, <1>5, <2>2, <2>3 DEF Fits
<1> QED BY <1>3, <1>4, <1>5, <1>6, PostedKeeps

\* An end of a transfer that fails, or has been deserted, moves no tile.
LEMMA FailsKeeps ==
    ASSUME EInv, KInv, DInv, NEW r \in Ranks, TransferFails(r) \/ TimesOut(r)
    PROVE  DInv'
<1>1. /\ sending[r] \/ Working(r)
      /\ sending' = [sending EXCEPT ![r] = FALSE] /\ Posts(r, TRUE)
      /\ UNCHANGED <<given, pc, chan, tile, output>>
  BY DEF TransferFails, TimesOut, Raises, Deserted, Awaits, Runs, tileVars
<1>2. /\ ~waiting[r] /\ outcome[r].kind = "running" /\ DOMAIN sending = Ranks
      /\ ChanInv /\ TilesKnown
  BY <1>1 DEF EInv, PlaceOK, EngineShape, Working, DInv
<1>3. PICK k \in Nat \ {0} : k = pc[r]
  BY Behind
<1>4. Entered(r, TRUE)
  BY <1>1, <1>2, Enters DEF Posts
<1>5. /\ Len(log[r]) = k - 1 /\ Len(log'[r]) = k /\ log'[r][k].bad /\ ~AllFine'
      /\ (\A q \in Ranks \ {r} : log'[q] = log[q]) /\ (\A i \in 1..(k - 1) : log'[r][i] = log[r][i])
  BY <1>3, <1>4 DEF Entered
<1>6. ~sending'[r] /\ \A q \in Ranks \ {r} : sending'[q] = sending[q]
  BY <1>1, <1>2
<1>7. ASSUME NEW b \in Ranks, chan[<<r, b>>] # <<>>
      PROVE  (\E m : chan[<<r, b>>] = <<m>>) /\ Carries(r, b, k) /\ (Len(log[b]) < k \/ log[b][k].bad)
  BY <1>2, <1>3, <1>7 DEF ChanInv, ChanOK
<1>8. DOMAIN chan' = Ranks \X Ranks
  BY <1>1, <1>2 DEF ChanInv
<1>9. Transfers(r, k)
  BY <1>1, <1>3, <1>5, <1>6, <1>7, <1>8 DEF Transfers
<1>10. DOMAIN tile' = Ranks /\ DOMAIN output' = Ranks
  BY <1>1, <1>2 DEF TilesKnown
<1> QED BY <1>3, <1>4, <1>9, <1>10, PostedKeeps

\* A step of the engine keeps the tiles in order.
LEMMA WorkMoves ==
    ASSUME EInv, KInv, DInv, NEW r \in Ranks, Works(r)
    PROVE  DInv'
<1>1. EngineStep(r)
  BY DEF Works
<1>2. CASE Syncs(r) \/ LosesPeer(r) \/ Escapes(r)
  <2>1. (GoesOn(r) \/ GivesUp(r) \/ Abandons(r)) /\ chan' = chan
    BY <1>2 DEF Syncs, LosesPeer, Escapes, Working, GoesOn, GivesUp, Abandons
  <2>2. ChanInv'
    BY <2>1, LeavingKeeps DEF DInv
  <2>3. log' = log /\ given' = given /\ UNCHANGED <<prepared, tile, output, received, merged>>
    BY <1>2 DEF Syncs, LosesPeer, Escapes, tileVars
  <2>4. TilesKnown'
    BY <2>3, TilesStay DEF DInv
  <2> QED BY <2>2, <2>4 DEF DInv
<1> QED BY <1>1, <1>2, PlainKeeps, MaterializesKeeps, ScattersKeeps, ExecutesKeeps, GathersKeeps,
           MergesKeeps, TakenKeeps, FailsKeeps DEF EngineStep

-----------------------------------------------------------------------------
(***************************************************************************)
(* One execution is one event.                                             *)
(***************************************************************************)

\* No tile is under way and none is held in the initial states.
LEMMA TilesInit == Init => DInv
<1> SUFFICES ASSUME Init PROVE DInv
  OBVIOUS
<1>1. /\ log = [r \in Ranks |-> <<>>] /\ sending = [r \in Ranks |-> FALSE]
      /\ chan = [e \in Ranks \X Ranks |-> <<>>] /\ merged = <<>>
      /\ tile = [r \in Ranks |-> NoTile] /\ output = [r \in Ranks |-> NoTile]
  BY DEF Init, EngineInit
<1>2. \A r \in Ranks : Len(log[r]) = 0 /\ ~sending[r]
  BY <1>1, Nothing
<1>3. \A r, q \in Ranks : chan[<<r, q>>] = <<>>
  <2>1. \A r, q \in Ranks : <<r, q>> \in Ranks \X Ranks
    OBVIOUS
  <2> QED BY <1>1, <2>1
<1>4. 4..0 = {}
  OBVIOUS
<1>5. ChanInv
  <2>1. DOMAIN chan = Ranks \X Ranks
    BY <1>1
  <2>2. \A a, b \in Ranks : ChanOK(a, b) /\ WaitOK(a, b) /\ SendOK(a)
    BY <1>2, <1>3, <1>4 DEF ChanOK, WaitOK, SendOK
  <2>3. ASSUME NEW a \in Ranks, NEW b \in Ranks PROVE HandedOK(a, b)
    <3> SUFFICES ASSUME NEW k \in Nat, Carries(a, b, k), sending[a] \/ Len(log[a]) = k PROVE FALSE
      BY DEF HandedOK
    <3>1. k > 3
      BY DEF Carries
    <3> QED BY <1>2, <3>1
  <2> QED BY <2>1, <2>2, <2>3 DEF ChanInv
<1>6. DataOK
  <2>1. PreparedOK
    BY <1>2, OwnerIsRank DEF PreparedOK
  <2>2. MergedOK
    <3>1. MergedBy(0) = {}
      BY <1>4 DEF MergedBy
    <3> QED BY <1>1, <1>2, <3>1, OwnerIsRank, Nothing, FS_EmptySet DEF MergedOK
  <2>3. \A r \in Ranks : TileOK(r) /\ OutputOK(r)
    BY <1>2, <1>4 DEF TileOK, OutputOK
  <2> QED BY <2>1, <2>2, <2>3 DEF DataOK
<1> QED BY <1>1, <1>5, <1>6 DEF DInv, TilesKnown

\* Steps of the set-up and the take-down leave the engine alone.
LEMMA EngineAside ==
    ASSUME EInv, KInv, DInv, UNCHANGED engineVars
    PROVE  KInv' /\ DInv'
<1>1. /\ given' = given /\ agreed' = agreed /\ pc' = pc /\ log' = log /\ sending' = sending
      /\ chan' = chan /\ UNCHANGED <<prepared, tile, output, received, merged>>
  BY DEF engineVars
<1>2. KInv'
  <2>1. ASSUME NEW q \in Ranks PROVE Knows(q)'
    BY <1>1, KnowsStays
  <2> QED BY <1>1, <2>1 DEF KInv
<1>3. TilesKnown'
  BY <1>1, TilesStay DEF DInv
<1>4. ChanInv'
  <2>1. /\ \A a, b, i : Carries(a, b, i)' <=> Carries(a, b, i)
        /\ \A i : TileOf(i)' = TileOf(i)
        /\ AllFine' <=> AllFine
    BY <1>1 DEF Carries, TileOf, StepAt, WorkerAt, ThePlan, AllFine
  <2>2. ASSUME NEW a \in Ranks, NEW b \in Ranks
        PROVE  ChanOK(a, b)' /\ WaitOK(a, b)' /\ HandedOK(a, b)' /\ SendOK(a)'
    <3>1. ChanOK(a, b) /\ WaitOK(a, b) /\ HandedOK(a, b) /\ SendOK(a)
      BY DEF DInv, ChanInv
    <3>2. ChanOK(a, b)' /\ WaitOK(a, b)'
      BY <1>1, <2>1, <3>1 DEF ChanOK, WaitOK
    <3>3. HandedOK(a, b)' /\ SendOK(a)'
      BY <1>1, <2>1, <3>1 DEF HandedOK, SendOK
    <3> QED BY <3>2, <3>3
  <2> QED BY <1>1, <2>2 DEF DInv, ChanInv
<1> QED BY <1>2, <1>3, <1>4 DEF DInv

\* The stages of a rank whose groups are not yet set up, or never will be.
Early == {"booting", "creating", "booted", "failed"}

\* A rank is lost only where something has gone wrong; the metadata are there once the owner
\* is done with them, and a rank without its groups has not begun.
LInv ==
  /\ Len(log[Owner]) >= 3 /\ ~log[Owner][3].bad => announced = Encodings[given[Owner].plan]
  /\ \A r \in Ranks : stage[r] \in Early => Len(log[r]) = 0
  /\ \A r \in Ranks : outcome[r].kind = "lost" => \E x \in Ranks : Troubled(x)

\* A contribution with a flag makes its rank troubled.
LEMMA BadTroubles ==
    ASSUME EInv, NEW x \in Ranks, NEW k \in Nat \ {0}, k <= Len(log[x]), log[x][k].bad
    PROVE  Troubled(x)
<1>1. DOMAIN log[x] = 1..Len(log[x]) /\ Len(log[x]) \in Nat
  BY ListedFacts DEF EInv, EngineShape
<1>2. k \in DOMAIN log[x]
  BY <1>1
<1> QED BY <1>2 DEF Troubled

\* A rank is deserted only where something has gone wrong at the other end.
LEMMA DesertedTroubled ==
    ASSUME EInv, KInv, ChanInv, LInv, NEW q \in Ranks, Deserted(q)
    PROVE  \E x \in Ranks : Troubled(x)
<1>1. PICK k \in Nat \ {0} : k = pc[q]
  BY Behind
<1>2. /\ PlaceOK(q) /\ Len(log[q]) \in Nat /\ Len(log[q]) <= k /\ Awaits(q)
      /\ Len(log[Partner(q)]) > Len(log[q]) \/ outcome[Partner(q)].kind = "escaped"
  BY <1>1, Behind DEF EInv, Deserted
<1>3. outcome[q].kind = "running" /\ ~waiting[q]
  BY <1>2 DEF Awaits, Runs, Working, PlaceOK
<1>4. Len(log[q]) = k - 1
  BY <1>1, <1>2, <1>3 DEF PlaceOK
<1>5. CASE Runs(q, "metadata") /\ q # Owner /\ announced = <<>>
  <2>1. Partner(q) = Owner /\ Owner \in Ranks
    BY <1>5, OwnerIsRank DEF Partner
  <2>2. CASE outcome[Owner].kind = "escaped"
    BY <2>1, <2>2 DEF Troubled
  <2>3. CASE Len(log[Owner]) > Len(log[q])
    <3>1. At(q).phase = "metadata" /\ At(q).phase = PhaseAt(k)
      BY <1>1, <1>5, WhereItIs DEF Runs
    <3>2. ~(k > 3)
      <4> SUFFICES ASSUME k > 3 PROVE FALSE
        OBVIOUS
      <4>1. PICK n \in Nat : /\ StepAt(n).phase = "drain" /\ k <= n
                             /\ \A i \in 4..(n - 1) : SaneAt(ThePlan, Scripts[ThePlan], i)
        BY <1>1, InScript
      <4>2. StepAt(k).phase = "metadata"
        BY <1>1, <3>1, InScript
      <4>3. k \in 4..(n - 1)
        BY <4>1, <4>2
      <4>4. SaneAt(ThePlan, Scripts[ThePlan], k)
        BY <4>1, <4>3
      <4> QED BY <4>2, <4>4 DEF SaneAt, StepAt
    <3>3. k = 3
      <4>1. k \in {1, 2, 3}
        BY <3>2
      <4> QED BY <3>1, <4>1, OpeningFacts DEF PhaseAt
    <3>4. Len(log[Owner]) \in Nat /\ Len(log[Owner]) >= 3
      BY <1>4, <2>1, <2>3, <3>3, Behind
    <3>5. Encodings[given[Owner].plan] # <<>>
      <4> SUFFICES ASSUME Encodings[given[Owner].plan] = <<>> PROVE FALSE
        OBVIOUS
      <4>4. pc[q] >= 2
        BY <1>1, <3>3
      <4>1. ThePlan \in Plans
        BY <4>4, OwnersPlan
      <4>2. ~HeaderOK(<<>>)
        BY Nothing DEF HeaderOK
      <4>3. ThePlan = NotAPlan
        BY <4>2 DEF ThePlan, DecodePlan
      <4> QED BY <4>1, <4>3, RealPlans
    <3>6. log[Owner][3].bad
      BY <1>5, <3>4, <3>5 DEF LInv
    <3> QED BY <2>1, <3>4, <3>6, BadTroubles
  <2> QED BY <1>2, <2>1, <2>2, <2>3
<1>6. CASE \/ sending[q] /\ chan[<<q, Partner(q)>>] # <<>>
           \/ Runs(q, "scatter") /\ q # Owner /\ Ends(q) /\ chan[<<Owner, q>>] = <<>>
           \/ Runs(q, "gather") /\ q = Owner /\ Ends(q) /\ chan[<<Partner(q), q>>] = <<>>
  <2>1. At(q).phase \in {"scatter", "gather"}
    <3>1. CASE sending[q]
      <4>1. PICK b \in Ranks : Carries(q, b, k)
        BY <1>1, <3>1 DEF ChanInv, SendOK
      <4>2. k > 3 /\ StepAt(k).phase \in {"scatter", "gather"}
        BY <4>1 DEF Carries
      <4> QED BY <1>1, <4>2, InScript
    <3> QED BY <1>6, <3>1 DEF Runs
  <2>2. /\ k > 3 /\ At(q) = StepAt(k) /\ agreed[q] = ThePlan
        /\ WorkerAt(k) \in Ranks
    BY <1>1, <2>1, AtWork DEF TilePhases
  <2>3. TaskAt(q).rank = WorkerAt(k)
    BY <2>2 DEF TaskAt, WorkerAt
  <2>4. PICK p \in Ranks : p = Partner(q)
    BY <2>2, <2>3, OwnerIsRank DEF Partner
  <2>5. CASE outcome[p].kind = "escaped"
    BY <2>5 DEF Troubled
  <2>6. CASE Len(log[p]) > Len(log[q])
    <3>1. Len(log[p]) = k /\ pc[p] = k
      <4>1. Len(log[p]) \in Nat /\ pc[p] \in Nat /\ Len(log[p]) <= pc[p] /\ pc[p] <= Len(log[q]) + 1
        BY Behind
      <4> QED BY <1>4, <2>6, <4>1
    <3>2. CASE sending[q] /\ chan[<<q, p>>] # <<>>
      <4>1. Len(log[p]) < k \/ log[p][k].bad
        BY <1>1, <3>2 DEF ChanInv, ChanOK
      <4> QED BY <3>1, <4>1, BadTroubles
    <3>3. CASE Carries(p, q, k) /\ chan[<<p, q>>] = <<>>
      <4>1. HandedOK(p, q)
        BY DEF ChanInv
      <4>2. log[p][k].bad
        BY <1>4, <3>1, <3>3, <4>1 DEF HandedOK
      <4> QED BY <3>1, <4>2, BadTroubles
    <3>4. CASE Runs(q, "scatter") /\ q # Owner /\ Ends(q) /\ chan[<<Owner, q>>] = <<>>
      <4>1. p = Owner /\ q = WorkerAt(k) /\ StepAt(k).phase = "scatter"
        BY <2>2, <2>3, <2>4, <3>4 DEF Ends, Partner, Runs
      <4> QED BY <2>2, <3>3, <3>4, <4>1 DEF Carries
    <3>5. CASE Runs(q, "gather") /\ q = Owner /\ Ends(q) /\ chan[<<p, q>>] = <<>>
      <4>1. p = WorkerAt(k) /\ p # q /\ StepAt(k).phase = "gather"
        BY <2>2, <2>3, <2>4, <3>5 DEF Ends, Partner, Runs
      <4> QED BY <2>2, <3>3, <3>5, <4>1 DEF Carries
    <3> QED BY <1>6, <2>4, <3>2, <3>4, <3>5
  <2> QED BY <1>2, <2>4, <2>5, <2>6
<1> QED BY <1>2, <1>5, <1>6 DEF Awaits

\* A rank gives up only where something has gone wrong.
LEMMA LosesTroubled ==
    ASSUME EInv, KInv, ChanInv, LInv, NEW r \in Ranks, LosesPeer(r)
    PROVE  \E x \in Ranks : Troubled(x)
<1>1. waiting[r] /\ PlaceOK(r) /\ MeetOK(r) /\ Len(log[r]) \in Nat /\ pc[r] \in Nat \ {0}
  BY Behind DEF LosesPeer, EInv
<1>2. outcome[r].kind = "running" /\ Round(r) = pc[r]
  BY <1>1 DEF PlaceOK, Round
<1>3. PICK q \in Ranks : \/ Len(log[q]) < Round(r) /\ HeldUp(q)
                         \/ outcome[q].kind = "lost"
  BY DEF LosesPeer
<1>4. CASE outcome[q].kind = "lost"
  BY <1>4 DEF LInv
<1>5. CASE stage[q] = "failed" \/ outcome[q].kind = "escaped"
  BY <1>5 DEF Troubled
<1>6. CASE Deserted(q)
  BY <1>6, DesertedTroubled
<1>7. CASE Len(log[q]) < Round(r) /\ stage[q] = "closed" /\ outcome[q].kind \notin {"lost", "escaped"}
  <2>1. PlaceOK(q) /\ MeetOK(q) /\ EngineShape
    BY DEF EInv
  <2>2. outcome[q].kind \in {"returned", "raised"}
    <3>1. outcome[q].kind # "running" /\ outcome[q].kind # "unused"
      BY <1>1, <1>2, <1>7, <2>1 DEF PlaceOK
    <3>2. outcome[q].kind \in {"unused", "running", "returned", "raised", "lost", "escaped"}
      BY <2>1 DEF EngineShape
    <3> QED BY <1>7, <3>1, <3>2
  <2>3. PICK k \in Nat \ {0} : k = pc[q]
    BY Behind
  <2>4. outcome[q] = VerdictAt(k) /\ Len(log[q]) = k
    BY <2>1, <2>2, <2>3 DEF MeetOK, PlaceOK
  <2>5. k \in 1..(pc[r] - 1)
    BY <1>1, <1>2, <1>7, <2>4
  <2>6. VerdictAt(k) = Running
    BY <1>1, <2>5 DEF MeetOK, Passed
  <2>7. Running.kind = "running"
    BY DEF Running
  <2>8. outcome[q].kind = "running"
    BY <2>4, <2>6, <2>7
  <2> QED BY <2>2, <2>8
<1> QED BY <1>3, <1>4, <1>5, <1>6, <1>7 DEF HeldUp, Gone

\* Trouble stays.
LEMMA TroubleStays ==
    ASSUME EInv, EInv', Grows, NEW x \in Ranks, Troubled(x),
           stage[x] = "failed" => stage'[x] = "failed",
           outcome[x].kind = "escaped" => outcome'[x].kind = "escaped"
    PROVE  Troubled(x)'
<1>1. CASE stage[x] = "failed" \/ outcome[x].kind = "escaped"
  BY <1>1 DEF Troubled
<1>2. ASSUME NEW i \in DOMAIN log[x], log[x][i].bad PROVE Troubled(x)'
  <2>1. /\ DOMAIN log[x] = 1..Len(log[x]) /\ Len(log[x]) \in Nat
        /\ DOMAIN log'[x] = 1..Len(log'[x]) /\ Len(log'[x]) \in Nat
    BY ListedFacts DEF EInv, EngineShape
  <2>2. Len(log'[x]) >= Len(log[x]) /\ log'[x][i] = log[x][i]
    BY <1>2, <2>1 DEF Grows
  <2>3. i \in DOMAIN log'[x] /\ log'[x][i].bad
    BY <1>2, <2>1, <2>2
  <2> QED BY <2>3 DEF Troubled
<1> QED BY <1>1, <1>2 DEF Troubled

\* Nobody is lost before the first step.
LEMMA LossInit == Init => LInv
<1> SUFFICES ASSUME Init PROVE LInv
  OBVIOUS
<1>1. /\ log = [r \in Ranks |-> <<>>]
      /\ outcome = [r \in Ranks |-> IF VaeGroup(job.degrees) = WorldRanks(N) THEN Running
                                    ELSE [Running EXCEPT !.kind = "unused"]]
  BY DEF Init, EngineInit
<1>2. \A r \in Ranks : Len(log[r]) = 0 /\ outcome[r].kind \in {"unused", "running"}
  BY <1>1, Nothing DEF Running
<1> QED BY <1>2, OwnerIsRank DEF LInv

\* A step that contributes nothing, and by which no rank is lost.
LEMMA LossStays ==
    ASSUME EInv, EInv', LInv, log' = log, given' = given, announced' = announced,
           \A x \in Ranks : /\ outcome'[x].kind = "lost" => outcome[x].kind = "lost"
                            /\ outcome[x].kind = "escaped" => outcome'[x].kind = "escaped"
                            /\ stage[x] = "failed" => stage'[x] = "failed"
                            /\ stage'[x] \in Early => stage[x] \in Early
    PROVE  LInv'
<1>1. Grows
  <2>1. \A q \in Ranks : Len(log[q]) \in Nat
    BY ListedFacts DEF EInv, EngineShape
  <2> QED BY <2>1 DEF Grows
<1>2. ASSUME NEW r \in Ranks, outcome'[r].kind = "lost" PROVE \E x \in Ranks : Troubled(x)'
  <2>1. PICK x \in Ranks : Troubled(x)
    BY <1>2 DEF LInv
  <2> QED BY <1>1, <2>1, TroubleStays
<1>3. \A r \in Ranks : stage'[r] \in Early => Len(log'[r]) = 0
  BY DEF LInv
<1>4. Len(log'[Owner]) >= 3 /\ ~log'[Owner][3].bad => announced' = Encodings[given'[Owner].plan]
  BY DEF LInv
<1> QED BY <1>2, <1>3, <1>4 DEF LInv

\* The steps of the engine.
LEMMA WorkLoses ==
    ASSUME SInv, KInv, DInv, LInv, NEW r \in Ranks, Works(r)
    PROVE  LInv'
<1>1. EInv /\ EngineShape /\ EInv' /\ ChanInv /\ EngineStep(r) /\ stage' = stage
  BY WorkHolds DEF SInv, EInv, DInv, Works, runtimeVars
<1>2. /\ DOMAIN outcome = Ranks /\ DOMAIN log = Ranks /\ PlaceOK(r)
      /\ \A q \in Ranks : Len(log[q]) \in Nat /\ DOMAIN outcome[q] = {"kind", "phase", "ranks"}
  BY <1>1, ListedFacts DEF EInv, EngineShape
<1>3. CASE StartsToSend(r)
  BY <1>1, <1>3, LossStays DEF StartsToSend
<1>4. CASE Abandons(r)
  <2>1. /\ outcome[r].kind = "running" /\ outcome'[r].kind = "escaped"
        /\ \A q \in Ranks \ {r} : outcome'[q] = outcome[q]
        /\ log' = log /\ given' = given /\ announced' = announced
    BY <1>2, <1>4 DEF Abandons
  <2> QED BY <1>1, <2>1, LossStays
<1>5. CASE GoesOn(r)
  <2>1. /\ waiting[r] /\ outcome' = [outcome EXCEPT ![r] = Verdict(r)]
        /\ log' = log /\ given' = given /\ announced' = announced
    BY <1>5 DEF GoesOn
  <2>2. outcome[r].kind = "running"
    BY <1>2, <2>1 DEF PlaceOK
  <2>3. Verdict(r).kind # "lost"
    BY <1>1, <2>1, VerdictIs, VerdictShape
  <2>4. outcome'[r].kind # "lost" /\ \A q \in Ranks \ {r} : outcome'[q] = outcome[q]
    BY <1>2, <2>1, <2>3
  <2> QED BY <1>1, <2>1, <2>2, <2>4, LossStays
<1>6. CASE GivesUp(r) /\ LosesPeer(r)
  <2>1. /\ waiting[r] /\ outcome' = [outcome EXCEPT ![r].kind = "lost"]
        /\ log' = log /\ given' = given /\ announced' = announced
    BY <1>6 DEF GivesUp
  <2>2. outcome[r].kind = "running"
    BY <1>2, <2>1 DEF PlaceOK
  <2>3. \A q \in Ranks \ {r} : outcome'[q] = outcome[q]
    BY <1>2, <2>1
  <2>4. PICK x \in Ranks : Troubled(x)
    BY <1>1, <1>6, LosesTroubled
  <2>5. Grows
    BY <1>2, <2>1 DEF Grows
  <2>6. Troubled(x)'
    <3>1. outcome[x].kind = "escaped" => outcome'[x].kind = "escaped"
      BY <2>2, <2>3
    <3> QED BY <1>1, <2>4, <2>5, <3>1, TroubleStays
  <2>7. \A q \in Ranks : stage'[q] \in Early => Len(log'[q]) = 0
    BY <1>1, <2>1 DEF LInv
  <2>8. Len(log'[Owner]) >= 3 /\ ~log'[Owner][3].bad => announced' = Encodings[given'[Owner].plan]
    BY <2>1 DEF LInv
  <2> QED BY <2>6, <2>7, <2>8 DEF LInv
<1>7. ASSUME NEW bad, NEW sign, Contributes(r, At(r).phase, bad, sign) PROVE LInv'
  <2> DEFINE e == [phase |-> At(r).phase, bad |-> bad, sign |-> sign]
  <2>1. /\ ~waiting[r] /\ outcome[r].kind = "running" /\ (stage[r] = "up" \/ sending[r])
        /\ log' = [log EXCEPT ![r] = Append(@, e)] /\ e.bad = bad
        /\ (At(r).phase = "metadata" /\ ~bad => announced' = Encodings[given[Owner].plan])
        /\ announced' \in {announced, Encodings[given[Owner].plan]}
        /\ given' = given /\ outcome' = outcome
    BY <1>7 DEF Contributes
  <2> HIDE DEF e
  <2>2. log'[r] = Append(log[r], e) /\ \A q \in Ranks \ {r} : log'[q] = log[q]
    BY <1>2, <2>1
  <2>3. PICK n \in Nat : n = Len(log[r])
    BY <1>2
  <2>4. Len(log'[r]) = n + 1 /\ log'[r][n + 1] = e /\ \A i \in 1..n : log'[r][i] = log[r][i]
    BY <1>1, <2>2, <2>3, Longer DEF EngineShape
  <2>5. Grows
    BY <1>2, <2>2, <2>3, <2>4 DEF Grows
  <2>6. pc[r] = n + 1
    BY <1>1, <1>2, <2>1, <2>3 DEF PlaceOK, EngineShape
  <2>7. ASSUME NEW q \in Ranks, stage'[q] \in Early PROVE Len(log'[q]) = 0
    <3>1. stage[q] \in Early /\ Len(log[q]) = 0
      BY <1>1, <2>7 DEF LInv
    <3>2. q # r
      <4> SUFFICES ASSUME q = r PROVE FALSE
        OBVIOUS
      <4>1. sending[r] /\ pc[r] = 1
        BY <2>1, <2>3, <2>6, <3>1 DEF Early
      <4> QED BY <1>2, <4>1, OpeningFacts DEF PlaceOK, PhaseAt
    <3> QED BY <2>2, <3>1, <3>2
  <2>8. ASSUME NEW q \in Ranks, outcome'[q].kind = "lost" PROVE \E x \in Ranks : Troubled(x)'
    <3>1. PICK x \in Ranks : Troubled(x)
      BY <2>1, <2>8 DEF LInv
    <3> QED BY <1>1, <2>1, <2>5, <3>1, TroubleStays
  <2>9. ASSUME Len(log'[Owner]) >= 3, ~log'[Owner][3].bad
        PROVE  announced' = Encodings[given'[Owner].plan]
    <3>1. CASE r # Owner
      <4>1. log'[Owner] = log[Owner]
        BY <2>2, <3>1, OwnerIsRank
      <4> QED BY <2>1, <2>9, <4>1 DEF LInv
    <3>2. CASE r = Owner /\ n >= 3
      <4>1. 3 \in 1..n
        BY <3>2
      <4> QED BY <2>1, <2>3, <2>4, <2>9, <3>2, <4>1 DEF LInv
    <3>3. CASE r = Owner /\ ~(n >= 3)
      <4>1. n + 1 = 3
        BY <2>3, <2>4, <2>9, <3>3
      <4>2. At(r).phase = "metadata"
        BY <1>1, <2>6, <4>1, OpeningFacts, WhereItIs DEF PhaseAt
      <4>3. ~bad
        BY <2>1, <2>4, <2>9, <3>3, <4>1
      <4> QED BY <2>1, <4>2, <4>3
    <3> QED BY <3>1, <3>2, <3>3
  <2> QED BY <2>7, <2>8, <2>9 DEF LInv
<1> QED BY <1>1, <1>3, <1>4, <1>5, <1>6, <1>7, EngineKinds

\* The steps of the set-up and the take-down.
LEMMA GroupStepLoses ==
    ASSUME SInv, LInv, NEW r \in Ranks, Sets(r) \/ Stops(r) \/ StopFails(r) \/ BootErrors(r)
    PROVE  LInv'
<1>1. EInv /\ EInv' /\ UNCHANGED engineVars /\ DOMAIN stage = Ranks
  BY GroupStepHolds DEF SInv, GInv, RuntimeShape, Sets, Stops, StopFails, BootErrors
<1>2. log' = log /\ given' = given /\ announced' = announced /\ outcome' = outcome
  BY <1>1 DEF engineVars
<1>3. PICK s : stage' = [stage EXCEPT ![r] = s] /\ (s \in Early => stage[r] \in Early) /\ stage[r] # "failed"
  <2>1. CASE Joins(r) \/ Joined(r) \/ Boots(r)
    BY <2>1 DEF Joins, Joined, Boots, Early
  <2>2. CASE BootTimesOut(r) \/ BootFails(r)
    BY <2>2 DEF BootTimesOut, BootFails, Undo, Early
  <2>3. CASE LeavesBarrier(r) \/ ClosesGroups(r) \/ Leaves(r) \/ DestroyBegins(r) \/ DeviceFails(r)
    BY <2>3 DEF LeavesBarrier, ClosesGroups, Leaves, Synced, DestroyBegins, DeviceFails, Early
  <2> QED BY <2>1, <2>2, <2>3 DEF Sets, Stops, StopFails, BootErrors, RuntimeStep
<1>4. \A x \in Ranks : /\ stage[x] = "failed" => stage'[x] = "failed"
                       /\ stage'[x] \in Early => stage[x] \in Early
  BY <1>1, <1>3
<1> QED BY <1>1, <1>2, <1>4, LossStays

\* The inductive invariant: the ranks are together, know the plan and hold their tiles, and
\* none is lost for nothing.
WholeInv == SInv /\ KInv /\ DInv /\ LInv

\* In every reachable state the ranks are together, know the plan and hold their tiles.
LEMMA WholeInvariant == Spec => []WholeInv
<1>1. Init => WholeInv
  BY InitHolds, KnowsInit, TilesInit, LossInit DEF WholeInv
<1>2. WholeInv /\ [Next]_sessionVars => WholeInv'
  <2> SUFFICES ASSUME WholeInv, [Next]_sessionVars PROVE WholeInv'
    OBVIOUS
  <2>1. SInv /\ EInv /\ KInv /\ DInv /\ LInv
    BY DEF WholeInv, SInv
  <2>2. ASSUME NEW r \in Ranks, Sets(r) \/ Stops(r) \/ StopFails(r) \/ BootErrors(r) PROVE WholeInv'
    <3>1. UNCHANGED engineVars
      BY <2>2 DEF Sets, Stops, StopFails, BootErrors
    <3> QED BY <2>1, <2>2, <3>1, GroupStepHolds, GroupStepLoses, EngineAside DEF WholeInv
  <2>3. ASSUME NEW r \in Ranks, Works(r) PROVE WholeInv'
    BY <2>1, <2>3, WorkHolds, WorkKnows, WorkMoves, WorkLoses DEF WholeInv
  <2>4. CASE UNCHANGED sessionVars
    <3>1. UNCHANGED engineVars
      BY <2>4 DEF sessionVars
    <3>2. SInv' /\ EInv'
      BY <2>1, <2>4, StutterHolds DEF SInv
    <3>3. LInv'
      <4>1. log' = log /\ given' = given /\ announced' = announced /\ outcome' = outcome /\ stage' = stage
        BY <2>4 DEF sessionVars, engineVars, runtimeVars
      <4> QED BY <2>1, <3>2, <4>1, LossStays
    <3> QED BY <2>1, <3>1, <3>2, <3>3, EngineAside DEF WholeInv
  <2> QED BY <2>2, <2>3, <2>4 DEF Next
<1> QED BY <1>1, <1>2, PTL DEF Spec

\* Every rank is where it can be.
LEMMA TypesHold == WholeInv => SessionTypeOK
<1> SUFFICES ASSUME WholeInv PROVE SessionTypeOK
  OBVIOUS
<1>1. GInv /\ EInv /\ KInv /\ DInv /\ RuntimeShape
  BY DEF WholeInv, SInv, GInv
<1>2. RuntimeTypeOK
  <2>1. \A r \in Ranks : held[r] \subseteq alive[r]
    BY <1>1 DEF GInv, RecordedOK
  <2> QED BY <1>1, <2>1 DEF RuntimeShape, RuntimeTypeOK
<1>3. ASSUME NEW r \in Ranks
      PROVE  /\ agreed[r] \in Plans \cup {NotAPlan}
             /\ pc[r] \in DOMAIN Scripts[agreed[r]]
             /\ waiting[r] \in BOOLEAN /\ sending[r] \in BOOLEAN
             /\ Len(log[r]) \in {pc[r] - 1, pc[r]}
             /\ outcome[r].kind \in {"unused", "running", "returned", "raised", "lost", "escaped"}
  <2>1. Knows(r) /\ given[Owner].plan \in Plans /\ pc[r] \in Nat \ {0}
    BY <1>1 DEF KInv, EInv, EngineShape
  <2>2. agreed[r] = NotAPlan \/ (agreed[r] \in Plans /\ ScriptPlan(agreed[r]))
    BY <2>1, EngineAssumption DEF Knows, ScriptPlan
  <2>3. pc[r] \in DOMAIN Scripts[agreed[r]]
    <3>1. CASE pc[r] > 3
      <4>1. agreed[r] = ThePlan /\ \E n \in Nat : DOMAIN Scripts[ThePlan] = 1..n /\ pc[r] <= n
        BY <1>1, <3>1, InScript
      <4> QED BY <2>1, <4>1
    <3>2. CASE pc[r] <= 3
      <4>1. pc[r] \in 1..3
        BY <2>1, <3>2
      <4>2. CASE agreed[r] = NotAPlan
        <5>1. Scripts[agreed[r]] = Opening
          BY <4>2 DEF Scripts, Script
        <5>2. DOMAIN Opening = 1..3
          BY DEF Opening
        <5> QED BY <4>1, <5>1, <5>2
      <4>3. CASE agreed[r] \in Plans /\ ScriptPlan(agreed[r])
        <5>1. PICK n \in Nat : n >= 4 /\ DOMAIN Scripts[agreed[r]] = 1..n
          BY <4>3, ScriptFacts
        <5> QED BY <4>1, <5>1
      <4> QED BY <2>2, <4>2, <4>3
    <3> QED BY <2>1, <3>1, <3>2
  <2> QED BY <1>1, <2>2, <2>3 DEF EInv, EngineShape, PlaceOK
<1>4. ASSUME NEW e \in Ranks \X Ranks PROVE Len(chan[e]) <= 1
  <2>1. PICK a \in Ranks, b \in Ranks : e = <<a, b>>
    OBVIOUS
  <2>2. CASE chan[<<a, b>>] = <<>>
    BY <2>1, <2>2
  <2>3. CASE chan[<<a, b>>] # <<>>
    <3>1. PICK m : chan[<<a, b>>] = <<m>>
      BY <1>1, <2>3 DEF DInv, ChanInv, ChanOK
    <3> QED BY <2>1, <3>1
  <2> QED BY <2>2, <2>3
<1> QED BY <1>2, <1>3, <1>4 DEF SessionTypeOK

\* When execute returns, the ranks have come to the end of the script and nobody has reported
\* an error.
LEMMA ReturnedFine ==
    ASSUME WholeInv, NEW r \in Ranks, outcome[r].kind = "returned", NEW k \in Nat, k = pc[r]
    PROVE  /\ k > 3 /\ Held(k) /\ AllFine /\ Len(log[r]) = k
           /\ \A q \in Ranks : pc[q] <= k
           /\ DOMAIN Scripts[ThePlan] = 1..k /\ StepAt(k).phase = "drain"
<1>1. EInv /\ KInv /\ EngineShape /\ PlaceOK(r) /\ EntriesOK(r) /\ MeetOK(r) /\ k \in Nat \ {0}
  BY DEF WholeInv, SInv, EInv, EngineShape
<1>2. Held(k) /\ outcome[r] = VerdictAt(k) /\ Len(log[r]) = k
  BY <1>1 DEF MeetOK, PlaceOK
<1>3. Running.kind = "running"
  BY DEF Running
<1>4. PhaseAt(k) = "drain" /\ FlaggedAt(k) = {}
  BY <1>2, <1>3 DEF VerdictAt
<1>5. k > 3
  <2> SUFFICES ASSUME ~(k > 3) PROVE FALSE
    OBVIOUS
  <2>1. k \in 1..3
    BY <1>1
  <2> QED BY <1>4, <2>1, OpeningFacts DEF PhaseAt
<1>6. PICK n \in Nat :
                /\ n >= 4 /\ DOMAIN Scripts[ThePlan] = 1..n /\ StepAt(n).phase = "drain"
                /\ \A i \in 4..(n - 1) : SaneAt(ThePlan, Scripts[ThePlan], i)
                /\ k <= n
  BY <1>1, <1>5, InScript
<1>7. StepAt(k).phase = "drain"
  BY <1>1, <1>4, <1>5, InScript
<1>8. k = n
  <2> SUFFICES ASSUME k # n PROVE FALSE
    OBVIOUS
  <2>1. k \in 4..(n - 1)
    BY <1>5, <1>6
  <2>2. SaneAt(ThePlan, Scripts[ThePlan], k)
    BY <1>6, <2>1
  <2> QED BY <1>7, <2>2 DEF SaneAt, StepAt
<1>9. \A q \in Ranks : pc[q] <= k
  <2> SUFFICES ASSUME NEW q \in Ranks PROVE pc[q] <= k
    OBVIOUS
  <2>1. CASE pc[q] > 3
    <3>1. PICK m \in Nat : DOMAIN Scripts[ThePlan] = 1..m /\ m >= 4 /\ pc[q] <= m
      BY <1>1, <2>1, InScript
    <3>2. 1..m = 1..n /\ m \in 1..m /\ n \in 1..n
      BY <1>6, <3>1
    <3>3. m = n
      BY <3>1, <3>2
    <3> QED BY <1>8, <3>1, <3>3
  <2>2. CASE ~(pc[q] > 3)
    <3>1. pc[q] \in Nat
      BY <1>1 DEF EngineShape
    <3> QED BY <1>5, <2>2, <3>1
  <2> QED BY <2>1, <2>2
<1>10. AllFine
  <2> SUFFICES ASSUME NEW q \in Ranks, NEW i \in 1..Len(log[q]) PROVE ~log[q][i].bad
    BY DEF AllFine
  <2>1. Len(log[q]) \in Nat /\ Len(log[q]) <= pc[q] /\ pc[q] \in Nat
    BY <1>1, Behind
  <2>2. i \in Nat \ {0} /\ i <= k
    BY <1>9, <2>1
  <2>3. EntriesOK(q)
    BY <1>1 DEF EInv
  <2>4. CASE i = k
    BY <1>4, <2>4 DEF FlaggedAt
  <2>5. CASE i # k
    <3>1. i \in 1..(k - 1)
      BY <2>2, <2>5
    <3>2. VerdictAt(i) = Running
      BY <1>1, <3>1 DEF MeetOK, Passed
    <3>3. CASE PhaseAt(i) = "signature"
      BY <2>3, <3>3 DEF EntriesOK
    <3>4. CASE PhaseAt(i) # "signature"
      <4>1. FlaggedAt(i) = {}
        BY <3>2, <3>4 DEF VerdictAt, Running
      <4> QED BY <4>1 DEF FlaggedAt
    <3> QED BY <3>3, <3>4
  <2> QED BY <2>4, <2>5
<1> QED BY <1>2, <1>5, <1>6, <1>7, <1>8, <1>9, <1>10

\* When execute returns, each task has been merged once, with the result of one device, and
\* no tile is under way.
LEMMA MergedHolds == WholeInv => MergedOnce
<1> SUFFICES ASSUME WholeInv, outcome[Owner].kind = "returned"
             PROVE  LET p == agreed[Owner]
                    IN /\ Len(merged) = Len(p.tasks)
                       /\ \A i \in DOMAIN p.tasks : \E k \in DOMAIN merged : merged[k] = <<i, Reference(p, i)>>
                       /\ \A e \in Ranks \X Ranks : chan[e] = <<>>
  BY DEF MergedOnce
<1>1. EInv /\ KInv /\ DInv /\ Owner \in Ranks
  BY OwnerIsRank DEF WholeInv, SInv
<1>2. PICK k \in Nat : k = pc[Owner]
  BY <1>1, Behind
<1>3. /\ k > 3 /\ Held(k) /\ AllFine /\ Len(log[Owner]) = k
      /\ \A q \in Ranks : pc[q] <= k
      /\ DOMAIN Scripts[ThePlan] = 1..k /\ StepAt(k).phase = "drain"
  BY <1>1, <1>2, ReturnedFine
<1>4. agreed[Owner] = ThePlan /\ ThePlan \in Plans /\ ScriptPlan(ThePlan)
  BY <1>1, <1>2, <1>3, InScript
<1>5. MergedOK
  BY <1>1, <1>3 DEF DInv, TilesKnown, DataOK
<1>6. Len(ThePlan.tasks) \in Nat /\ DOMAIN ThePlan.tasks = 1..Len(ThePlan.tasks)
  BY <1>4, PlanFacts DEF ScriptPlan
<1>7. MergedBy(k) = 1..Len(ThePlan.tasks)
  <2>1. PICK m \in Nat :
             /\ DOMAIN Scripts[ThePlan] = 1..m /\ m >= 4
             /\ \A i \in 4..(m - 1) : SaneAt(ThePlan, Scripts[ThePlan], i)
             /\ \A t \in 1..Len(ThePlan.tasks) :
                   \E i \in 4..(m - 1) : Scripts[ThePlan][i].phase = "merge" /\ Scripts[ThePlan][i].task = t
    BY <1>4, ScriptFacts
  <2>2. m = k
    <3>1. 1..m = 1..k /\ m \in 1..m /\ k \in 1..k
      BY <1>3, <2>1
    <3> QED BY <3>1
  <2>3. ASSUME NEW i \in 4..k, StepAt(i).phase = "merge" PROVE StepAt(i).task \in 1..Len(ThePlan.tasks)
    <3>1. i # k
      BY <1>3, <2>3
    <3>2. SaneAt(ThePlan, Scripts[ThePlan], i)
      BY <2>1, <2>2, <3>1
    <3>3. StepAt(i).round \in Nat \ {0} /\ StepAt(i).task \in Active(ThePlan, Ranks, StepAt(i).round)
      BY <2>3, <3>2 DEF SaneAt, StepAt
    <3> QED BY <1>4, <3>3, ActiveFacts
  <2>4. ASSUME NEW t \in 1..Len(ThePlan.tasks)
        PROVE  \E i \in 4..k : StepAt(i).phase = "merge" /\ StepAt(i).task = t
    <3>1. PICK i \in 4..(m - 1) : Scripts[ThePlan][i].phase = "merge" /\ Scripts[ThePlan][i].task = t
      BY <2>1, <2>4
    <3>2. i \in 4..k
      BY <2>2, <3>1
    <3> QED BY <3>1, <3>2 DEF StepAt
  <2> QED BY <2>3, <2>4 DEF MergedBy
<1>8. Len(merged) = Len(ThePlan.tasks)
  <2>1. Cardinality(1..Len(ThePlan.tasks)) = Len(ThePlan.tasks)
    <3>1. PICK n \in Nat : n = Len(ThePlan.tasks)
      BY <1>6
    <3>2. Cardinality(1..n) = IF 1 > n THEN 0 ELSE n - 1 + 1
      BY FS_Interval
    <3> QED BY <3>1, <3>2
  <2> QED BY <1>3, <1>5, <1>7, <2>1 DEF MergedOK
<1>9. \A i \in DOMAIN ThePlan.tasks : \E x \in DOMAIN merged : merged[x] = <<i, Reference(ThePlan, i)>>
  BY <1>3, <1>5, <1>6, <1>7 DEF MergedOK
<1>10. ASSUME NEW e \in Ranks \X Ranks PROVE chan[e] = <<>>
  <2>1. PICK a \in Ranks, b \in Ranks : e = <<a, b>>
    OBVIOUS
  <2> SUFFICES ASSUME chan[<<a, b>>] # <<>> PROVE FALSE
    BY <2>1
  <2>2. PICK i \in Nat : i = pc[a]
    BY <1>1, Behind
  <2>3. (Len(log[b]) < i \/ log[b][i].bad) /\ Carries(a, b, i)
    BY <1>1, <2>2 DEF DInv, ChanInv, ChanOK
  <2>4. Len(log[b]) >= k /\ i <= k
    BY <1>3, <2>2 DEF Held
  <2>5. Len(log[b]) \in Nat /\ i > 3
    BY <1>1, <2>3, Behind DEF Carries
  <2>6. i \in 1..Len(log[b])
    BY <2>4, <2>5
  <2>7. ~log[b][i].bad
    BY <1>3, <2>6 DEF AllFine
  <2> QED BY <2>3, <2>4, <2>5, <2>7
<1> QED BY <1>4, <1>8, <1>9, <1>10

\* All ranks end an execution together: they return, or raise for the same phase and blame
\* exactly the ranks where something has gone wrong; no rank is lost where nothing has, and
\* none is lost or gone where another has returned (VAEParallelEngine.execute).
THEOREM AllRanksOrNone == Spec => []AllOrNone
<1>1. ASSUME WholeInv, NEW r \in Ranks, NEW q \in Ranks, outcome[r].kind = "returned"
      PROVE  outcome[q].kind \notin {"lost", "escaped"}
  <2>1. EInv /\ LInv
    BY <1>1 DEF WholeInv, SInv
  <2>2. PICK k \in Nat : k = pc[r]
    BY <2>1, Behind
  <2>3. k > 3 /\ Held(k) /\ AllFine /\ \A x \in Ranks : pc[x] <= k
    BY <1>1, <2>2, ReturnedFine
  <2>4. ASSUME NEW x \in Ranks, Troubled(x) PROVE FALSE
    <3>1. /\ Len(log[x]) >= k /\ Len(log[x]) \in Nat /\ DOMAIN log[x] = 1..Len(log[x])
          /\ pc[x] \in Nat /\ pc[x] <= k /\ PlaceOK(x)
      BY <2>1, <2>3, ListedFacts DEF Held, EInv, EngineShape
    <3>2. stage[x] # "failed"
      BY <2>1, <2>3, <3>1 DEF LInv, Early
    <3>3. outcome[x].kind # "escaped"
      BY <3>1 DEF PlaceOK
    <3>4. \A i \in DOMAIN log[x] : ~log[x][i].bad
      BY <2>3, <3>1 DEF AllFine
    <3> QED BY <2>4, <3>2, <3>3, <3>4 DEF Troubled
  <2> QED BY <2>1, <2>4 DEF LInv, Troubled
<1>2. ASSUME WholeInv, NEW r \in Ranks, outcome[r].kind = "lost" PROVE \E x \in Ranks : Troubled(x)
  BY <1>2 DEF WholeInv, LInv
<1>3. WholeInv => AllOrNone
  BY <1>1, <1>2, RaisedAlike DEF WholeInv, AllOrNone
<1> QED BY <1>3, WholeInvariant, PTL

\* One execution of the engine is one event: every rank stands at a step of the agreed script,
\* all ranks see the same collectives and the same end, and an execution that returns has
\* merged every task once with the result one device alone would have computed
\* (VAEParallelEngine.execute).
THEOREM RanksAlwaysEndAlike == Spec => []RanksEndAlike
<1>1. WholeInv => SessionTypeOK /\ MergedOnce
  BY TypesHold, MergedHolds
<1> QED BY <1>1, WholeInvariant, CollectivesAlwaysMatch, AllRanksOrNone, PTL DEF RanksEndAlike
=============================================================================
