--------------------------- MODULE GroupTopology ---------------------------
(***************************************************************************)
(* Arithmetic of the process groups: which ranks form the sequence, the    *)
(* guidance and the VAE groups of a world (distributed/parallel_groups.py, *)
(* parallel/planner.py).                                                   *)
(* Ranks are numbers from 0; a group is the sequence of its ranks.         *)
(***************************************************************************)
LOCAL INSTANCE Integers
LOCAL INSTANCE Sequences
LOCAL INSTANCE FiniteSets

Rejected == "rejected"

(* tuple(range(n)) *)
WorldRanks(n) == [i \in 1..n |-> i - 1]

(* resolve_acceleration_plan: the degrees of a mode, or a refusal.         *)
AutoDegrees(n) == CASE n = 1 -> [sp |-> 1, cfg |-> 1, vae |-> 1]
                    [] n = 2 -> [sp |-> 2, cfg |-> 1, vae |-> 2]
                    [] n = 4 -> [sp |-> 2, cfg |-> 2, vae |-> 4]

DegreesFit(d, n) == /\ d.sp >= 1 /\ d.cfg >= 1 /\ d.vae >= 1
                    /\ d.sp * d.cfg = n
                    /\ d.vae \in {1, n}

ResolvePlan(mode, degrees, writer, n) ==
    IF n \notin {1, 2, 4} \/ writer \notin 0..(n - 1) THEN Rejected
    ELSE IF mode = "disabled" THEN [enabled |-> FALSE, degrees |-> AutoDegrees(1)]
    ELSE LET d == IF mode = "auto" THEN AutoDegrees(n) ELSE degrees
         IN IF DegreesFit(d, n) THEN [enabled |-> n > 1, degrees |-> d] ELSE Rejected

(* build_parallel_topology: SP groups are rows of the mesh, CFG groups its *)
(* columns; the order is the one in which new_group is called.             *)
SpGroup(d, branch) == [i \in 1..d.sp |-> branch * d.sp + i - 1]
CfgGroup(d, shard) == [i \in 1..d.cfg |-> (i - 1) * d.sp + shard]
VaeGroup(d) == WorldRanks(d.vae)

OrderedSubgroups(d) ==
    [i \in 1..d.cfg |-> <<"sp", i - 1, SpGroup(d, i - 1)>>]
    \o [i \in 1..d.sp |-> <<"cfg", i - 1, CfgGroup(d, i - 1)>>]
    \o << <<"vae", 0, VaeGroup(d)>> >>

RanksOf(g) == {g[3][i] : i \in DOMAIN g[3]}

(* A subgroup that is the whole world shares the default process group.    *)
Owned(g, n) == g[3] /= WorldRanks(n)

(* _resolve_vae_parallel_degree; the memory of the device in GB.           *)
RequiredMemory(degree) == CASE degree = 1 -> 50 [] degree = 2 -> 30
                            [] degree = 4 -> 20 [] OTHER -> 0
Least(a, b) == IF a < b THEN a ELSE b

VaeDegree(distributed, requested, n, memory) ==
    IF ~distributed \/ n <= 1 \/ requested = 1 THEN 1
    ELSE IF requested > 1 THEN Least(Least(requested, n), 4)
    ELSE LET degree == Least(n, 4)
         IN IF memory < RequiredMemory(degree) THEN 1 ELSE degree
============================================================================
