---------------------------- MODULE MeshProofs ----------------------------
(***************************************************************************)
(* For any number of devices, any plan and any failures: the exchanges of  *)
(* a window pair the same calls, its barriers count their threads, and the *)
(* residual caches of a group stay equal and young.                        *)
(***************************************************************************)
EXTENDS PeerMesh, FiniteSetTheorems, TLAPS

Ats == {"idle", "local", "posted", "first", "reading", "read", "second", "result", "raised"}
ThreadFields == {"at", "op", "err", "got"}
StateFields == {"seen", "probe", "kept", "run", "acc", "pending", "computed", "reused",
                "learned", "interval", "velocity"}

\* Types, as far as the arguments need them: what is measured is left open.
ShapeOK ==
  /\ plan \in Plans
  /\ owner \in {"entering", "stepping", "collecting", "leaving", "joining", "closed"}
  /\ step \in 0..plan.steps
  /\ branch \in Branches
  /\ pool \in {"free", "held"}
  /\ faults \in Nat
  /\ DOMAIN slots = Devices /\ DOMAIN thread = Devices /\ DOMAIN cache = Devices
  /\ \A d \in Devices :
       /\ DOMAIN thread[d] = ThreadFields
       /\ thread[d].at \in Ats /\ thread[d].op \in Ops /\ thread[d].err \in BOOLEAN
       /\ thread[d].at = "idle" <=> thread[d].op = "end"
       /\ DOMAIN cache[d] = Branches
       /\ \A b \in Branches : DOMAIN cache[d][b] = StateFields
  /\ barrier \in [Groups -> [state : {"filling", "draining", "broken"}, inside : Int]]

\* Where the window's owner is, and what that says of the threads and the barriers.
OwnerOK ==
  /\ owner \in {"entering", "stepping", "closed"} => \A d \in Devices : thread[d].at = "idle"
  /\ \A d \in Devices : thread[d].at # "idle" =>
       Submitted(d) /\ step < plan.steps /\ owner \in {"collecting", "leaving", "joining"}
  /\ owner = "collecting" => step < plan.steps
  /\ step = plan.steps => branch = "negative"
  /\ (plan.cfg = 2 /\ branch = "positive") => plan.sp = 1 /\ step = 0
  /\ \A d \in Devices : thread[d].at = "raised" => \A g \in Groups : barrier[g].state = "broken"
  /\ owner = "joining" => \A g \in Groups : barrier[g].state = "broken"

Waiting(g) == {d \in Members(g) : thread[d].at \in {"first", "second"}}

\* The barrier counts the threads that wait at it.
BarrierOK ==
  \A g \in Groups :
    /\ barrier[g].inside \in 0..(plan.sp - 1)
    /\ barrier[g].state # "broken" => barrier[g].inside = Cardinality(Waiting(g))
    /\ barrier[g].state = "draining" => barrier[g].inside > 0

\* Two threads of a group are at most one half of an exchange apart.
Stages(at, other, state) ==
  /\ at \in {"reading", "read"} => other \in {"first", "reading", "read", "second", "raised"}
  /\ at = "second" => other # "first"
  /\ (state = "draining" /\ at = "first") => other \in {"first", "reading", "read"}
  /\ (state = "draining" /\ at = "second") => other \in {"second", "result", "idle", "local", "posted"}
  /\ (state = "filling" /\ at = "first") => other \in {"result", "idle", "local", "posted", "first"}
  /\ (state = "filling" /\ at = "second") => other \in {"reading", "read", "second"}

InStep(d, e) == Stages(thread[d].at, thread[e].at, barrier[GroupOf(d)].state)

PhasesOK == \A d \in Devices : \A e \in Peers(d) \ {d} : InStep(d, e)

-----------------------------------------------------------------------------
\* A branch a device works for has completed a step of its own more than the last one.
Mine(d, b) == plan.mode # "off" /\ (plan.cfg = 1 \/ b = BranchOf(d))

Finished(d, b) ==
  \/ branch = "positive" /\ b = "negative"
  \/ owner = "collecting" /\ thread[d].at = "idle" /\ Submitted(d) /\ b = BranchOf(d)

Active(d, b) == thread[d].at # "idle" /\ b = BranchOf(d)

\* The counters of a branch, and the age of what it keeps.
Counted(s) ==
  /\ s.run \in 0..MaxReuse /\ s.computed \in Nat /\ s.reused \in Nat
  /\ s.seen \in Int /\ s.seen < plan.steps /\ s.computed + s.reused = s.seen + 1

Aged(s) ==
  /\ s.kept \in Int /\ s.kept >= None /\ s.learned = s.kept
  /\ s.velocity => s.interval \in Int /\ s.interval >= 1
  /\ s.run = 0 => s.kept >= s.seen
  /\ s.run > 0 => /\ s.kept > s.seen \/ s.seen - s.kept = s.run
                  /\ s.kept >= 0 /\ s.kept + 1 >= Warmup /\ s.seen < plan.steps - EndGuard

\* A branch may reuse its residual in the step that is under way.
Usable(s) ==
  /\ s.run < MaxReuse /\ s.kept # None
  /\ Warmup <= step /\ step < plan.steps - EndGuard

CountsOK(d, b) ==
  LET s == cache[d][b] IN
  /\ Counted(s)
  /\ ~Mine(d, b) => s.seen = None
  /\ Mine(d, b) =>
       /\ s.seen \in {step - 1, step}
       /\ owner \in {"entering", "stepping", "collecting"} => (s.seen = step <=> Finished(d, b))
       /\ Active(d, b) => s.seen = step - 1

AgeOK(d, b) ==
  LET s == cache[d][b] op == thread[d].op IN
  /\ Aged(s)
  /\ ~(Active(d, b) /\ op \in {"middle", "back"}) => s.pending = NoDecision
  /\ ~(Active(d, b) /\ op = "back" /\ ~s.pending.reuse) => s.kept <= s.seen
  /\ Active(d, b) /\ plan.mode = "off" => op = "front"
  /\ Active(d, b) /\ op = "middle" => plan.mode # "off" /\ s.pending.step = step /\ ~s.pending.reuse
  /\ Active(d, b) /\ op = "back" =>
       /\ plan.mode = "cache_dit" /\ s.pending.step = step
       /\ IF s.pending.reuse THEN Usable(s) ELSE s.kept = step

LocalOK ==
  \A d \in Devices : \A b \in Branches :
    /\ CountsOK(d, b)
    /\ owner # "closed" => AgeOK(d, b)
-----------------------------------------------------------------------------
State(d) == cache[d][BranchOf(d)]
After(d) == Advanced(thread[d].op, State(d), step, thread[d].got)
Following(d) == NextExchange(thread[d].op, State(d), step, thread[d].got)

Before(d) == thread[d].at \in {"idle", "local", "posted", "first", "reading"}
HasRead(d) == thread[d].at \in {"read", "second", "result"}

Same(d, e) == thread[d].op = thread[e].op /\ State(d) = State(e)

Level(d, e) == Same(d, e) /\ thread[d].got = thread[e].got

ReadsFirst(d, e) ==
  /\ Same(d, e)
  /\ thread[e].got = IF thread[e].op = "metric" THEN Reduced(e) ELSE thread[d].got

OneAhead(d, e) ==
  /\ thread[e].op = Following(d) /\ State(e) = After(d) /\ thread[e].got = thread[d].got

\* Completed alike: what two branch states have to have in common.
Alike(s, t) == (s.seen = t.seen /\ s.pending = NoDecision /\ t.pending = NoDecision) => s = t

InSync(d, e) ==
  LET at == thread[d].at  other == thread[e].at IN
  /\ Before(d) /\ Before(e) => Level(d, e)
  /\ HasRead(d) /\ HasRead(e) => Level(d, e)
  /\ at = "first" /\ other = "read" => ReadsFirst(d, e)
  /\ at = "reading" /\ other \in {"read", "second"} => ReadsFirst(d, e)
  /\ at = "second" /\ other \in {"idle", "local", "posted"} => OneAhead(d, e)
  /\ at = "result" /\ other \in {"idle", "local", "posted", "first"} => OneAhead(d, e)
  /\ at = "result" /\ other = "raised" => State(e) \in {State(d), After(d)}
  /\ at = "raised" /\ other # "result" => Alike(State(d), State(e))

SyncOK ==
  owner # "closed" =>
    \A d \in Devices : \A e \in Peers(d) \ {d} :
      /\ InSync(d, e)
      /\ \A b \in Branches \ {BranchOf(d)} : cache[d][b] = cache[e][b]

\* The reason a device gives its peers for its decision.
Reason(d) == IF thread[d].op = "decision" THEN Decided(State(d), step, thread[d].got).reason ELSE "none"

\* A slot holds what its device has posted, until the device has passed the second barrier.
SlotOK(d) ==
  thread[d].at \in {"posted", "first", "reading", "read", "second"} =>
    /\ slots[d].op = thread[d].op /\ slots[d].step = step /\ slots[d].branch = BranchOf(d)
    /\ faults = 0 => ~slots[d].err
    /\ slots[d].reason = Reason(d)

SlotsOK == \A d \in Devices : SlotOK(d)

\* Without a failure nothing is raised, and the window runs to its end.
FaultlessOK ==
  faults = 0 =>
    /\ \A d \in Devices : thread[d].at # "raised" /\ ~thread[d].err
    /\ owner \notin {"joining", "closed"} => \A g \in Groups : barrier[g].state # "broken"
    /\ owner \in {"leaving", "joining", "closed"} =>
         step = plan.steps /\ \A d \in Devices : thread[d].at = "idle"
    /\ owner = "closed" /\ plan.mode # "off" => report = 2 * plan.steps
\* The product of the degrees, without multiplication of two unknowns.
LEMMA Numbering ==
  ASSUME plan \in Plans
  PROVE  /\ plan.sp \in Nat /\ plan.sp >= 1 /\ plan.cfg \in {1, 2} /\ plan.steps \in Nat /\ plan.steps >= 1
         /\ Groups = IF plan.cfg = 1 THEN {0} ELSE {0, 1}
         /\ Devices = IF plan.cfg = 1 THEN 0..(plan.sp - 1) ELSE 0..(plan.sp + plan.sp - 1)
         /\ \A d \in Devices : GroupOf(d) = IF d < plan.sp THEN 0 ELSE 1
<1>1. /\ plan.sp \in Nat \ {0} /\ plan.cfg \in {1, 2} /\ plan.steps \in Nat \ {0}
  BY PlansAssumption
<1>2. Groups = IF plan.cfg = 1 THEN {0} ELSE {0, 1}
  <2>1. CASE plan.cfg = 1
    <3>1. 0..0 = {0}
      OBVIOUS
    <3> QED BY <2>1, <3>1 DEF Groups
  <2>2. CASE plan.cfg = 2
    <3>1. 0..1 = {0, 1}
      OBVIOUS
    <3> QED BY <2>2, <3>1 DEF Groups
  <2> QED BY <1>1, <2>1, <2>2
<1>3. plan.sp * plan.cfg = IF plan.cfg = 1 THEN plan.sp ELSE plan.sp + plan.sp
  BY <1>1
<1>4. Devices = IF plan.cfg = 1 THEN 0..(plan.sp - 1) ELSE 0..(plan.sp + plan.sp - 1)
  BY <1>1, <1>3 DEF Devices
<1>5. ASSUME NEW d \in Devices PROVE GroupOf(d) = IF d < plan.sp THEN 0 ELSE 1
  <2>1. d \in Nat /\ d < plan.sp + plan.sp
    BY <1>1, <1>4
  <2> DEFINE sp == plan.sp
  <2>2. sp \in Nat \ {0}
    BY <1>1
  <2> HIDE DEF sp
  <2>3. d < sp => d \div sp = 0
    BY <2>1, <2>2
  <2>4. (d >= sp /\ d < sp + sp) => d \div sp = 1
    BY <2>1, <2>2
  <2> QED BY <2>1, <2>2, <2>3, <2>4 DEF GroupOf, sp
<1> QED BY <1>1, <1>2, <1>4, <1>5

LEMMA Groupings ==
  ASSUME plan \in Plans
  PROVE  /\ \A d \in Devices : GroupOf(d) \in Groups /\ d \in Peers(d)
         /\ \A g \in Groups : /\ IsFiniteSet(Members(g)) /\ Cardinality(Members(g)) = plan.sp
                              /\ Members(g) \subseteq Devices
         /\ \A d \in Devices : \A e \in Devices : e \in Peers(d) <=> GroupOf(e) = GroupOf(d)
<1> USE Numbering
<1>1. \A d \in Devices : GroupOf(d) \in Groups /\ d \in Peers(d)
  BY DEF Peers, Members
<1>2. Members(0) = 0..(plan.sp - 1)
  <2>1. \A d \in 0..(plan.sp - 1) : d \in Devices /\ GroupOf(d) = 0
    OBVIOUS
  <2>2. \A d \in Devices : GroupOf(d) = 0 => d \in 0..(plan.sp - 1)
    OBVIOUS
  <2> QED BY <2>1, <2>2 DEF Members
<1>3. plan.cfg = 2 => Members(1) = plan.sp..(plan.sp + plan.sp - 1)
  <2>1. plan.cfg = 2 => \A d \in plan.sp..(plan.sp + plan.sp - 1) : d \in Devices /\ GroupOf(d) = 1
    OBVIOUS
  <2>2. \A d \in Devices : GroupOf(d) = 1 => d \in plan.sp..(plan.sp + plan.sp - 1)
    OBVIOUS
  <2> QED BY <2>1, <2>2 DEF Members
<1>4. \A g \in Groups : IsFiniteSet(Members(g)) /\ Cardinality(Members(g)) = plan.sp
  <2>1. IsFiniteSet(Members(0)) /\ Cardinality(Members(0)) = plan.sp
    BY <1>2, FS_Interval
  <2>2. plan.cfg = 2 => IsFiniteSet(Members(1)) /\ Cardinality(Members(1)) = plan.sp
    BY <1>3, FS_Interval
  <2> QED BY <2>1, <2>2
<1>5. \A g \in Groups : Members(g) \subseteq Devices
  BY DEF Members
<1>6. \A d \in Devices : \A e \in Devices : e \in Peers(d) <=> GroupOf(e) = GroupOf(d)
  BY DEF Peers, Members
<1> QED BY <1>1, <1>4, <1>5, <1>6

-----------------------------------------------------------------------------
(***************************************************************************)
(* The steps of a thread, sorted by what they do to the barrier, the slots *)
(* and the cache; every invariant below is kept kind by kind.              *)
(***************************************************************************)

\* The thread of d goes from one place to another and nobody else moves.
Moves(d, from, to) ==
  /\ UNCHANGED <<plan, owner, step, branch, pool, report>>
  /\ DOMAIN thread' = Devices /\ DOMAIN thread'[d] = ThreadFields
  /\ thread[d].at = from /\ thread'[d].at = to
  /\ \A e \in Devices \ {d} : thread'[e] = thread[e]

SameCall(d) == thread'[d].op = thread[d].op /\ thread'[d].got = thread[d].got

Posts(d) ==
  /\ Moves(d, "local", "posted") /\ SameCall(d) /\ thread'[d].err = thread[d].err
  /\ UNCHANGED <<barrier, cache, faults>>
  /\ DOMAIN slots' = Devices /\ \A e \in Devices \ {d} : slots'[e] = slots[e]
  /\ slots'[d].op = thread[d].op /\ slots'[d].step = step /\ slots'[d].branch = BranchOf(d)
  /\ slots'[d].err = thread[d].err
  /\ slots'[d].reason = IF thread[d].op = "decision"
                        THEN Decided(cache[d][BranchOf(d)], step, thread[d].got).reason ELSE "none"

\* Only the barrier of d's group changes, and from an unbroken state.
AtBarrier(d, from, to, state, inside) ==
  /\ Moves(d, from, to) /\ SameCall(d) /\ thread'[d].err = thread[d].err
  /\ UNCHANGED <<slots, cache, faults>>
  /\ barrier' = [barrier EXCEPT ![GroupOf(d)] = [state |-> state, inside |-> inside]]

Enters(d, from, to) ==
  LET b == barrier[GroupOf(d)] IN
  /\ plan.sp > 1 /\ b.state = "filling" /\ b.inside + 1 # plan.sp
  /\ AtBarrier(d, from, to, "filling", b.inside + 1)

Fills(d, from, to) ==
  LET b == barrier[GroupOf(d)] IN
  /\ plan.sp > 1 /\ b.state = "filling" /\ b.inside + 1 = plan.sp
  /\ AtBarrier(d, from, to, "draining", b.inside)

Drains(d, from, to) ==
  LET b == barrier[GroupOf(d)] IN
  /\ b.state = "draining"
  /\ AtBarrier(d, from, to, IF b.inside = 1 THEN "filling" ELSE "draining", b.inside - 1)

Passes(d, from, to) ==
  /\ plan.sp = 1
  /\ Moves(d, from, to) /\ SameCall(d) /\ thread'[d].err = thread[d].err
  /\ UNCHANGED <<slots, cache, faults, barrier>>

Reads(d) ==
  /\ Moves(d, "reading", "read") /\ UNCHANGED <<barrier, slots, cache, faults>>
  /\ thread'[d].op = thread[d].op /\ thread'[d].err = Refused(d)
  /\ thread'[d].got = IF thread[d].op = "metric" THEN Reduced(d) ELSE thread[d].got

\* Why a thread may raise.
Cause(d) ==
  \/ faults' > 0
  \/ barrier[GroupOf(d)].state = "broken"
  \/ thread[d].at = "result"
       /\ (thread[d].err \/ Unfinished(thread[d].op, cache[d][BranchOf(d)]))

Raises(d) ==
  /\ \E from \in Ats \ {"idle", "raised"} : Moves(d, from, "raised")
  /\ SameCall(d) /\ thread'[d].err = thread[d].err
  /\ UNCHANGED <<slots, cache>> /\ barrier' = AbortAll
  /\ faults' \in {faults, faults + 1} /\ Cause(d)

\* A failure that travels with the exchange.
Notes(d) ==
  /\ Moves(d, "local", "local") /\ SameCall(d) /\ thread'[d].err \in BOOLEAN
  /\ UNCHANGED <<slots, cache, barrier>> /\ faults' = faults + 1

Continues(d) ==
  LET b == BranchOf(d) s == cache[d][b]
      next == NextExchange(thread[d].op, s, step, thread[d].got)
  IN
  /\ Moves(d, "result", IF next = "end" THEN "idle" ELSE "local")
  /\ ~thread[d].err /\ ~Unfinished(thread[d].op, s)
  /\ thread'[d].op = next /\ thread'[d].got = thread[d].got /\ thread'[d].err = thread[d].err
  /\ UNCHANGED <<slots, barrier, faults>>
  /\ DOMAIN cache' = Devices /\ DOMAIN cache'[d] = Branches
  /\ \A e \in Devices \ {d} : cache'[e] = cache[e]
  /\ \A c \in Branches \ {b} : cache'[d][c] = cache[d][c]
  /\ cache'[d][b] = Advanced(thread[d].op, s, step, thread[d].got)

AnyStep(d) ==
  \/ Posts(d) \/ Reads(d) \/ Raises(d) \/ Notes(d) \/ Continues(d)
  \/ Enters(d, "posted", "first") \/ Enters(d, "read", "second")
  \/ Fills(d, "posted", "reading") \/ Fills(d, "read", "result")
  \/ Drains(d, "first", "reading") \/ Drains(d, "second", "result")
  \/ Passes(d, "posted", "reading") \/ Passes(d, "read", "result")

\* Every step of a thread in PeerMesh is of one of these kinds.
LEMMA StepKinds ==
  ASSUME ShapeOK, NEW d \in Devices, DeviceStep(d) \/ Fail(d) \/ TimeOut(d)
  PROVE  AnyStep(d)
<1> USE DEF ThreadFields
<1>1. /\ DOMAIN thread = Devices /\ DOMAIN thread[d] = ThreadFields /\ thread[d].at \in Ats
      /\ thread[d].err \in BOOLEAN /\ faults \in Nat
      /\ DOMAIN slots = Devices /\ DOMAIN cache = Devices /\ DOMAIN cache[d] = Branches
  BY DEF ShapeOK
<1>2. /\ GroupOf(d) \in Groups /\ plan.sp \in Nat /\ plan.sp >= 1
      /\ barrier \in [Groups -> [state : {"filling", "draining", "broken"}, inside : Int]]
  BY Numbering, Groupings DEF ShapeOK
<1>3. CASE Post(d)
  <2>1. Posts(d)
    BY <1>1, <1>3 DEF Post, Posts, Moves, SameCall
  <2> QED BY <2>1 DEF AnyStep
<1>4. ASSUME NEW from, NEW waiting, NEW past, Arrive(d, from, waiting, past), from \in {"posted", "read"}
      PROVE  Raises(d) \/ Enters(d, from, waiting) \/ Fills(d, from, past) \/ Passes(d, from, past)
  <2>1. CASE plan.sp = 1 /\ thread' = [thread EXCEPT ![d].at = past] /\ UNCHANGED barrier
    BY <1>1, <1>4, <2>1 DEF Arrive, Passes, Moves, SameCall
  <2>2. CASE plan.sp > 1 /\ barrier[GroupOf(d)].state = "broken" /\ Raised(d)
    BY <1>1, <1>4, <2>2 DEF Arrive, Raises, Raised, Moves, SameCall, Cause, Ats
  <2>3. CASE plan.sp > 1 /\ barrier[GroupOf(d)].state = "filling"
    <3> DEFINE b == barrier[GroupOf(d)]
    <3>1. b \in [state : {"filling", "draining", "broken"}, inside : Int]
      BY <1>2
    <3>2. /\ barrier' = [barrier EXCEPT ![GroupOf(d)] = Arrived(b)]
          /\ thread' = [thread EXCEPT ![d].at = IF Full(b) THEN past ELSE waiting]
      BY <1>4, <2>3 DEF Arrive
    <3>3. Arrived(b) = IF Full(b) THEN [state |-> "draining", inside |-> b.inside]
                       ELSE [state |-> "filling", inside |-> b.inside + 1]
      BY <2>3, <3>1 DEF Arrived
    <3>4. CASE Full(b)
      <4>1. Fills(d, from, past)
        BY <1>1, <1>4, <2>3, <3>2, <3>3, <3>4 DEF Arrive, Fills, AtBarrier, Moves, SameCall, Full
      <4> QED BY <4>1
    <3>5. CASE ~Full(b)
      <4>1. Enters(d, from, waiting)
        BY <1>1, <1>4, <2>3, <3>2, <3>3, <3>5 DEF Arrive, Enters, AtBarrier, Moves, SameCall, Full
      <4> QED BY <4>1
    <3> QED BY <3>4, <3>5
  <2> QED BY <1>4, <2>1, <2>2, <2>3 DEF Arrive
<1>5. ASSUME NEW waiting, NEW past, Leave(d, waiting, past), waiting \in {"first", "second"}
      PROVE  Raises(d) \/ Drains(d, waiting, past) 
  <2>1. CASE barrier[GroupOf(d)].state = "broken" /\ Raised(d)
    BY <1>1, <1>5, <2>1 DEF Leave, Raises, Raised, Moves, SameCall, Cause, Ats
  <2>2. CASE barrier[GroupOf(d)].state = "draining"
    <3> DEFINE b == barrier[GroupOf(d)]
    <3>1. b \in [state : {"filling", "draining", "broken"}, inside : Int]
      BY <1>2
    <3>2. /\ barrier' = [barrier EXCEPT ![GroupOf(d)] = Left(b)]
          /\ thread' = [thread EXCEPT ![d].at = past]
      BY <1>5, <2>2 DEF Leave
    <3>3. Left(b) = [state |-> IF b.inside = 1 THEN "filling" ELSE "draining", inside |-> b.inside - 1]
      BY <2>2, <3>1 DEF Left
    <3> QED BY <1>1, <1>5, <2>2, <3>2, <3>3 DEF Leave, Drains, AtBarrier, Moves, SameCall
  <2> QED BY <1>5, <2>1, <2>2 DEF Leave
<1>6. CASE ArriveToRead(d) \/ ArriveAfterRead(d)
  BY <1>4, <1>6 DEF ArriveToRead, ArriveAfterRead, AnyStep
<1>7. CASE LeaveToRead(d) \/ LeaveAfterRead(d)
  BY <1>5, <1>7 DEF LeaveToRead, LeaveAfterRead, AnyStep
<1>8. CASE Read(d)
  <2>1. Reads(d)
    BY <1>1, <1>8 DEF Read, Reads, Moves
  <2> QED BY <2>1 DEF AnyStep
<1>9. CASE Continue(d)
  <2> DEFINE s == cache[d][BranchOf(d)]
  <2>1. CASE thread[d].err \/ Unfinished(thread[d].op, s)
    <3>1. Raises(d)
      BY <1>1, <1>9, <2>1 DEF Continue, Raises, Raised, Moves, SameCall, Cause, Ats
    <3> QED BY <3>1 DEF AnyStep
  <2>2. CASE ~(thread[d].err \/ Unfinished(thread[d].op, s))
    <3> DEFINE next == NextExchange(thread[d].op, s, step, thread[d].got)
               u == Advanced(thread[d].op, s, step, thread[d].got)
    <3>1. /\ thread[d].at = "result" /\ UNCHANGED <<plan, owner, step, branch, slots, pool, faults, report, barrier>>
          /\ cache' = [cache EXCEPT ![d][BranchOf(d)] = u]
          /\ thread' = [thread EXCEPT ![d].op = next, ![d].at = IF next = "end" THEN "idle" ELSE "local"]
      BY <1>9, <2>2 DEF Continue
    <3>2. BranchOf(d) \in Branches
      BY DEF BranchOf, ShapeOK, Branches
    <3> HIDE DEF next, u
    <3>3. /\ Moves(d, "result", IF next = "end" THEN "idle" ELSE "local")
          /\ thread'[d].op = next /\ thread'[d].got = thread[d].got /\ thread'[d].err = thread[d].err
      BY <1>1, <3>1 DEF Moves
    <3>4. /\ DOMAIN cache' = Devices /\ DOMAIN cache'[d] = Branches
          /\ \A e \in Devices \ {d} : cache'[e] = cache[e]
          /\ \A c \in Branches \ {BranchOf(d)} : cache'[d][c] = cache[d][c]
          /\ cache'[d][BranchOf(d)] = u
      BY <1>1, <3>1, <3>2
    <3>5. Continues(d)
      BY <2>2, <3>1, <3>3, <3>4 DEF Continues, next, u
    <3> QED BY <3>5 DEF AnyStep
  <2> QED BY <2>1, <2>2
<1>10. CASE Fail(d)
  <2>1. thread[d].at \in {"local", "reading"} /\ faults' = faults + 1 /\ UNCHANGED <<plan, owner, step, branch, slots, cache, pool, report>>
    BY <1>10 DEF Fail
  <2>2. CASE Raised(d)
    <3>1. Raises(d)
      BY <1>1, <2>1, <2>2 DEF Raises, Raised, Moves, SameCall, Cause, Ats
    <3> QED BY <3>1 DEF AnyStep
  <2>3. CASE ~Raised(d)
    <3>1. thread[d].at = "local" /\ thread' = [thread EXCEPT ![d].err = TRUE] /\ UNCHANGED barrier
      BY <1>10, <2>3 DEF Fail
    <3>2. Notes(d)
      BY <1>1, <2>1, <3>1 DEF Notes, Moves, SameCall
    <3> QED BY <3>2 DEF AnyStep
  <2> QED BY <2>2, <2>3
<1>11. CASE TimeOut(d)
  <2>1. Raises(d)
    BY <1>1, <1>11 DEF TimeOut, Raises, Raised, Moves, SameCall, Cause, Ats
  <2> QED BY <2>1 DEF AnyStep
<1> QED BY <1>3, <1>6, <1>7, <1>8, <1>9, <1>10, <1>11 DEF DeviceStep

\* What depends on the plan alone does not change.
LEMMA PlanFixed ==
  ASSUME plan' = plan
  PROVE  /\ Devices' = Devices /\ Groups' = Groups
         /\ \A d : GroupOf(d)' = GroupOf(d) /\ Peers(d)' = Peers(d)
         /\ \A g : Members(g)' = Members(g)
<1>1. Devices' = Devices /\ Groups' = Groups
  BY DEF Devices, Groups
<1>2. \A d : GroupOf(d)' = GroupOf(d)
  BY DEF GroupOf
<1>3. \A g : Members(g)' = Members(g)
  BY <1>1 DEF Members, GroupOf
<1>4. \A d : Peers(d)' = Peers(d)
  BY <1>2, <1>3 DEF Peers
<1> QED BY <1>1, <1>2, <1>3, <1>4

\* A controller's operations keep the fields of the branch state.
LEMMA AdvancedFields ==
  ASSUME NEW s, NEW op, NEW n, NEW got, DOMAIN s = StateFields
  PROVE  DOMAIN Advanced(op, s, n, got) = StateFields
<1> DEFINE decided == [s EXCEPT !.pending = Decided(s, n, got)]
<1>1. DOMAIN decided = StateFields
  OBVIOUS
<1>2. /\ DOMAIN TeaApply(decided, n) = StateFields /\ DOMAIN TeaRecord(s, n) = StateFields
      /\ DOMAIN DitRecord(s, n) = StateFields /\ DOMAIN DitComplete(s, n) = StateFields
  BY <1>1 DEF TeaApply, TeaRecord, DitRecord, DitComplete, Learn
<1> QED BY <1>1, <1>2 DEF Advanced

\* The exchange that follows one is an exchange.
LEMMA FollowingIsExchange ==
  ASSUME NEW op \in Ops \ {"end"}, NEW s, NEW n, NEW got
  PROVE  NextExchange(op, s, n, got) \in Ops
<1>1. AfterPrepare(s, n) \in Ops
  BY DEF AfterPrepare, Ops
<1> QED BY <1>1 DEF NextExchange, Ops

\* The kinds of steps that change the barrier, summarised.
LEMMA BarrierShape ==
  ASSUME ShapeOK, NEW d \in Devices, NEW from, NEW to,
         Enters(d, from, to) \/ Fills(d, from, to) \/ Drains(d, from, to)
  PROVE  /\ Moves(d, from, to) /\ SameCall(d) /\ thread'[d].err = thread[d].err
         /\ UNCHANGED <<slots, cache, faults>>
         /\ barrier' \in [Groups -> [state : {"filling", "draining", "broken"}, inside : Int]]
         /\ \A g \in Groups \ {GroupOf(d)} : barrier'[g] = barrier[g]
         /\ barrier[GroupOf(d)].state # "broken" /\ barrier'[GroupOf(d)].state # "broken"
         /\ GroupOf(d) \in Groups
<1> DEFINE g == GroupOf(d)
<1>1. g \in Groups
  BY Groupings DEF ShapeOK
<1>2. barrier \in [Groups -> [state : {"filling", "draining", "broken"}, inside : Int]]
  BY DEF ShapeOK
<1>3. barrier[g].state \in {"filling", "draining"} /\ barrier[g].inside \in Int
  BY <1>1, <1>2 DEF Enters, Fills, Drains
<1> HIDE DEF g
<1>4. PICK state \in {"filling", "draining"}, inside \in Int : AtBarrier(d, from, to, state, inside)
  BY <1>3 DEF Enters, Fills, Drains, g
<1>5. barrier' = [barrier EXCEPT ![g] = [state |-> state, inside |-> inside]]
  BY <1>4 DEF AtBarrier, g
<1>6. barrier' \in [Groups -> [state : {"filling", "draining", "broken"}, inside : Int]]
  BY <1>1, <1>2, <1>5
<1>7. /\ \A h \in Groups \ {g} : barrier'[h] = barrier[h]
      /\ barrier'[g].state # "broken"
  BY <1>1, <1>2, <1>5
<1>8. /\ Moves(d, from, to) /\ SameCall(d) /\ thread'[d].err = thread[d].err
      /\ UNCHANGED <<slots, cache, faults>>
  BY <1>4 DEF AtBarrier
<1> QED BY <1>1, <1>3, <1>6, <1>7, <1>8 DEF g

\* A raise breaks every barrier of the mesh.
LEMMA AbortShape ==
  ASSUME ShapeOK, barrier' = AbortAll
  PROVE  /\ barrier' \in [Groups -> [state : {"filling", "draining", "broken"}, inside : Int]]
         /\ \A g \in Groups : barrier'[g].state = "broken" /\ barrier'[g].inside = barrier[g].inside
BY DEF ShapeOK, AbortAll

-----------------------------------------------------------------------------
\* Shapes survive a step of a thread.
LEMMA ThreadKeepsShape ==
  ASSUME ShapeOK, NEW d \in Devices, AnyStep(d)
  PROVE  ShapeOK'
<1>1. /\ DOMAIN slots = Devices /\ DOMAIN thread = Devices /\ DOMAIN cache = Devices
      /\ \A e \in Devices :
           /\ DOMAIN thread[e] = ThreadFields
           /\ thread[e].at \in Ats /\ thread[e].op \in Ops /\ thread[e].err \in BOOLEAN
           /\ thread[e].at = "idle" <=> thread[e].op = "end"
           /\ DOMAIN cache[e] = Branches
           /\ \A b \in Branches : DOMAIN cache[e][b] = StateFields
      /\ barrier \in [Groups -> [state : {"filling", "draining", "broken"}, inside : Int]]
      /\ faults \in Nat
  BY DEF ShapeOK
<1>2. ASSUME UNCHANGED <<plan, owner, step, branch, pool, report>>,
             faults' \in {faults, faults + 1},
             DOMAIN slots' = Devices, DOMAIN thread' = Devices, DOMAIN cache' = Devices,
             \A e \in Devices \ {d} : thread'[e] = thread[e] /\ cache'[e] = cache[e],
             DOMAIN thread'[d] = ThreadFields, thread'[d].at \in Ats, thread'[d].op \in Ops,
             thread'[d].err \in BOOLEAN, thread'[d].at = "idle" <=> thread'[d].op = "end",
             DOMAIN cache'[d] = Branches, \A b \in Branches : DOMAIN cache'[d][b] = StateFields,
             barrier' \in [Groups -> [state : {"filling", "draining", "broken"}, inside : Int]]
      PROVE  ShapeOK'
  <2>1. Devices' = Devices /\ Groups' = Groups
    BY <1>2, PlanFixed
  <2>2. \A e \in Devices :
           /\ DOMAIN thread'[e] = ThreadFields
           /\ thread'[e].at \in Ats /\ thread'[e].op \in Ops /\ thread'[e].err \in BOOLEAN
           /\ thread'[e].at = "idle" <=> thread'[e].op = "end"
           /\ DOMAIN cache'[e] = Branches
           /\ \A b \in Branches : DOMAIN cache'[e][b] = StateFields
    <3> SUFFICES ASSUME NEW e \in Devices PROVE
           /\ DOMAIN thread'[e] = ThreadFields
           /\ thread'[e].at \in Ats /\ thread'[e].op \in Ops /\ thread'[e].err \in BOOLEAN
           /\ thread'[e].at = "idle" <=> thread'[e].op = "end"
           /\ DOMAIN cache'[e] = Branches
           /\ \A b \in Branches : DOMAIN cache'[e][b] = StateFields
      OBVIOUS
    <3> QED BY <1>1, <1>2
  <2> QED BY <1>1, <1>2, <2>1, <2>2 DEF ShapeOK
<1>3. ASSUME NEW from \in Ats \ {"idle"}, NEW to \in Ats \ {"idle"}, Moves(d, from, to), SameCall(d),
             thread'[d].err \in BOOLEAN, faults' \in {faults, faults + 1}, cache' = cache,
             DOMAIN slots' = Devices,
             barrier' \in [Groups -> [state : {"filling", "draining", "broken"}, inside : Int]]
      PROVE  ShapeOK'
  BY <1>1, <1>2, <1>3 DEF Moves, SameCall
<1>4. CASE Posts(d)
  BY <1>1, <1>3, <1>4 DEF Posts, Ats
<1>5. CASE Reads(d)
  <2>1. Refused(d) \in BOOLEAN
    BY DEF Refused
  <2> QED BY <1>1, <1>2, <1>5, <2>1 DEF Reads, Moves, Ats
<1>6. CASE Raises(d)
  BY <1>1, <1>3, <1>6, AbortShape DEF Raises, Ats
<1>7. CASE Notes(d)
  BY <1>1, <1>3, <1>7 DEF Notes, Ats
<1>8. ASSUME NEW from \in Ats \ {"idle"}, NEW to \in Ats \ {"idle"},
             Enters(d, from, to) \/ Fills(d, from, to) \/ Drains(d, from, to)
      PROVE  ShapeOK'
  BY <1>1, <1>3, <1>8, BarrierShape
<1>9. ASSUME NEW from \in Ats \ {"idle"}, NEW to \in Ats \ {"idle"}, Passes(d, from, to)
      PROVE  ShapeOK'
  BY <1>1, <1>3, <1>9 DEF Passes
<1>10. CASE Continues(d)
  <2> DEFINE b == BranchOf(d)
             next == NextExchange(thread[d].op, cache[d][b], step, thread[d].got)
             u == Advanced(thread[d].op, cache[d][b], step, thread[d].got)
  <2>1. b \in Branches
    BY DEF BranchOf, ShapeOK, Branches
  <2>2. thread[d].op \in Ops \ {"end"}
    BY <1>1, <1>10 DEF Continues, Moves
  <2>3. next \in Ops
    BY <2>2, FollowingIsExchange
  <2>4. DOMAIN u = StateFields
    BY <1>1, <2>1, AdvancedFields
  <2>5. /\ Moves(d, "result", IF next = "end" THEN "idle" ELSE "local")
        /\ thread'[d].op = next /\ thread'[d].err = thread[d].err
        /\ UNCHANGED <<slots, barrier, faults>>
        /\ DOMAIN cache' = Devices /\ DOMAIN cache'[d] = Branches
        /\ \A e \in Devices \ {d} : cache'[e] = cache[e]
        /\ \A c \in Branches \ {b} : cache'[d][c] = cache[d][c]
        /\ cache'[d][b] = u
    BY <1>10 DEF Continues
  <2> HIDE DEF next, u
  <2>6. \A c \in Branches : DOMAIN cache'[d][c] = StateFields
    BY <1>1, <2>4, <2>5
  <2> QED BY <1>1, <1>2, <2>3, <2>5, <2>6 DEF Moves, Ats
<1> QED BY <1>4, <1>5, <1>6, <1>7, <1>8, <1>9, <1>10 DEF AnyStep, Ats

\* ... and a step of the owner.
LEMMA OwnerKeepsShape ==
  ASSUME ShapeOK, OwnerOK, OwnerStep \/ Cancel
  PROVE  ShapeOK'
<1> USE DEF ShapeOK
<1>1. plan' = plan
  BY DEF OwnerStep, Cancel, EnterWindow, Submit, CollectFailure, CollectResults, FinishWindow, AbortGroups, CloseWindow
<1>2. Devices' = Devices /\ Groups' = Groups
  BY <1>1, PlanFixed
<1>3. CASE EnterWindow
  BY <1>2, <1>3 DEF EnterWindow
<1>4. CASE Submit
  <2>1. Started.op \in Ops \ {"end"} /\ DOMAIN Started = ThreadFields /\ Started.at = "local" /\ Started.err = FALSE
    BY DEF Started, FirstExchange, ThreadFields, Ops
  <2>2. IdleThread.op = "end" /\ DOMAIN IdleThread = ThreadFields /\ IdleThread.at = "idle" /\ IdleThread.err = FALSE
    BY DEF IdleThread, ThreadFields
  <2>3. /\ UNCHANGED <<plan, step, branch, barrier, slots, cache, pool, faults, report>> /\ owner' = "collecting"
        /\ DOMAIN thread' = Devices /\ \A d \in Devices : thread'[d] = Started \/ thread'[d] = IdleThread
    BY <1>4 DEF Submit
  <2> HIDE DEF Started, IdleThread
  <2>4. \A d \in Devices :
           /\ DOMAIN thread'[d] = ThreadFields
           /\ thread'[d].at \in Ats /\ thread'[d].op \in Ops /\ thread'[d].err \in BOOLEAN
           /\ thread'[d].at = "idle" <=> thread'[d].op = "end"
    <3> SUFFICES ASSUME NEW d \in Devices PROVE 
           /\ DOMAIN thread'[d] = ThreadFields
           /\ thread'[d].at \in Ats /\ thread'[d].op \in Ops /\ thread'[d].err \in BOOLEAN
           /\ thread'[d].at = "idle" <=> thread'[d].op = "end"
      OBVIOUS
    <3>1. thread'[d] = Started \/ thread'[d] = IdleThread
      BY <2>3
    <3> QED BY <2>1, <2>2, <3>1 DEF Ats, Ops
  <2>5. DOMAIN slots' = Devices' /\ DOMAIN thread' = Devices' /\ DOMAIN cache' = Devices'
    BY <1>2, <2>3
  <2>6. \A d \in Devices' : DOMAIN cache'[d] = Branches /\ \A b \in Branches : DOMAIN cache'[d][b] = StateFields
    BY <1>2, <2>3
  <2>7. /\ plan' \in Plans /\ owner' = "collecting" /\ step' \in 0..plan'.steps /\ branch' \in Branches
        /\ pool' \in {"free", "held"} /\ faults' \in Nat
        /\ barrier' \in [Groups' -> [state : {"filling", "draining", "broken"}, inside : Int]]
    BY <1>2, <2>3
  <2> QED BY <1>2, <2>4, <2>5, <2>6, <2>7
<1>5. CASE CollectFailure \/ FinishWindow \/ Cancel
  BY <1>2, <1>5 DEF CollectFailure, FinishWindow, Cancel
<1>6. CASE CollectResults
  <2>1. step' \in 0..plan.steps /\ branch' \in Branches
    <3>1. step \in 0..(plan.steps - 1) /\ plan.steps \in Nat
      BY <1>6, Numbering DEF CollectResults, OwnerOK
    <3> QED BY <1>6, <3>1 DEF CollectResults, Branches
  <2> QED BY <1>2, <1>6, <2>1 DEF CollectResults
<1>7. CASE AbortGroups
  BY <1>2, <1>7, AbortShape DEF AbortGroups
<1>8. CASE CloseWindow
  BY <1>2, <1>8, ZenonT(120) DEF CloseWindow, IdleThread, ThreadFields, Ats, Ops, StateFields
<1> QED BY <1>3, <1>4, <1>5, <1>6, <1>7, <1>8 DEF OwnerStep

-----------------------------------------------------------------------------
\* Which device works on which branch is a matter of the plan and the owner's place.
LEMMA BranchesFixed ==
  ASSUME plan' = plan, step' = step, branch' = branch
  PROVE  /\ \A d : Submitted(d)' = Submitted(d) /\ BranchOf(d)' = BranchOf(d)
         /\ \A d, b : Mine(d, b)' = Mine(d, b)
<1>1. \A d : BranchOf(d)' = BranchOf(d)
  BY DEF BranchOf, GroupOf
<1>2. \A d : Submitted(d)' = Submitted(d)
  BY <1>1 DEF Submitted
<1>3. \A d, b : Mine(d, b)' = Mine(d, b)
  BY <1>1 DEF Mine
<1> QED BY <1>1, <1>2, <1>3

LEMMA BranchExists ==
  ASSUME ShapeOK
  PROVE  \A d : BranchOf(d) \in Branches
BY DEF ShapeOK, BranchOf, Branches

\* What every step of a thread has in common.
LEMMA ThreadFrame ==
  ASSUME ShapeOK, NEW d \in Devices, AnyStep(d)
  PROVE  /\ UNCHANGED <<plan, owner, step, branch, pool, report>>
         /\ thread[d].at \notin {"idle", "raised"}
         /\ faults' \in {faults, faults + 1}
         /\ \A e \in Devices \ {d} : thread'[e] = thread[e] /\ cache'[e] = cache[e]
         /\ \A b \in Branches \ {BranchOf(d)} : cache'[d][b] = cache[d][b]
         /\ \A g \in Groups :
              \/ barrier'[g] = barrier[g]
              \/ barrier'[g].state = "broken" /\ barrier'[g].inside = barrier[g].inside
              \/ barrier[g].state # "broken" /\ g = GroupOf(d)
         /\ thread'[d].at = "raised" => \A g \in Groups : barrier'[g].state = "broken"
<1>1. DOMAIN thread = Devices /\ DOMAIN cache = Devices /\ faults \in Nat
  BY DEF ShapeOK
<1>2. CASE Posts(d)
  BY <1>2 DEF Posts, Moves
<1>3. CASE Reads(d)
  BY <1>3 DEF Reads, Moves
<1>4. CASE Raises(d)
  BY <1>4, AbortShape DEF Raises, Moves, Ats
<1>5. CASE Notes(d)
  BY <1>5 DEF Notes, Moves
<1>6. CASE Continues(d)
  BY <1>6 DEF Continues, Moves
<1>7. ASSUME NEW from \in Ats \ {"idle", "raised"}, NEW to \in Ats \ {"raised"},
             Enters(d, from, to) \/ Fills(d, from, to) \/ Drains(d, from, to)
      PROVE  /\ Moves(d, from, to) /\ UNCHANGED <<cache, faults>>
             /\ \A g \in Groups \ {GroupOf(d)} : barrier'[g] = barrier[g]
             /\ barrier[GroupOf(d)].state # "broken"
  BY <1>7, BarrierShape
<1>8. ASSUME NEW from \in Ats \ {"idle", "raised"}, NEW to \in Ats \ {"raised"}, Passes(d, from, to)
      PROVE  Moves(d, from, to) /\ UNCHANGED <<cache, faults, barrier>>
  BY <1>8 DEF Passes
<1>9. CASE \E from \in Ats \ {"idle", "raised"}, to \in Ats \ {"raised"} :
             Enters(d, from, to) \/ Fills(d, from, to) \/ Drains(d, from, to)
  BY <1>7, <1>9 DEF Moves
<1>10. CASE \E from \in Ats \ {"idle", "raised"}, to \in Ats \ {"raised"} : Passes(d, from, to)
  BY <1>8, <1>10 DEF Moves
<1> QED BY <1>2, <1>3, <1>4, <1>5, <1>6, <1>9, <1>10 DEF AnyStep, Ats

\* The owner's place and the threads: kept by a thread ...
LEMMA ThreadKeepsOwner ==
  ASSUME ShapeOK, OwnerOK, NEW d \in Devices, AnyStep(d)
  PROVE  OwnerOK'
<1>1. /\ UNCHANGED <<plan, owner, step, branch, pool, report>>
      /\ thread[d].at \notin {"idle", "raised"}
      /\ \A e \in Devices \ {d} : thread'[e] = thread[e]
  BY ThreadFrame
<1>2. Devices' = Devices /\ Groups' = Groups /\ \A e : Submitted(e)' = Submitted(e)
  BY <1>1, PlanFixed, BranchesFixed
<1>3. \A e \in Devices : thread'[e].at # "idle" =>
        Submitted(e)' /\ step' < plan'.steps /\ owner' \in {"collecting", "leaving", "joining"}
  <2> SUFFICES ASSUME NEW e \in Devices, thread'[e].at # "idle"
               PROVE  Submitted(e) /\ step < plan.steps /\ owner \in {"collecting", "leaving", "joining"}
    BY <1>1, <1>2
  <2>1. thread[e].at # "idle"
    BY <1>1
  <2> QED BY <2>1 DEF OwnerOK
<1>4. \A e \in Devices : thread'[e].at = "raised" => \A g \in Groups : barrier'[g].state = "broken"
  <2> SUFFICES ASSUME NEW e \in Devices, thread'[e].at = "raised", e # d
               PROVE  \A g \in Groups : barrier'[g].state = "broken"
    BY ThreadFrame
  <2>1. \A g \in Groups : barrier[g].state = "broken"
    BY <1>1 DEF OwnerOK
  <2> QED BY <2>1, ThreadFrame
<1>5. owner = "joining" => \A g \in Groups : barrier'[g].state = "broken"
  BY ThreadFrame DEF OwnerOK
<1>6. owner' \in {"entering", "stepping", "closed"} => \A e \in Devices : thread'[e].at = "idle"
  BY <1>1 DEF OwnerOK
<1> QED BY <1>1, <1>2, <1>3, <1>4, <1>5, <1>6 DEF OwnerOK

\* ... and by the owner.
LEMMA OwnerKeepsOwner ==
  ASSUME ShapeOK, OwnerOK, OwnerStep \/ Cancel
  PROVE  OwnerOK'
<1>1. plan' = plan
  BY DEF OwnerStep, Cancel, EnterWindow, Submit, CollectFailure, CollectResults, FinishWindow, AbortGroups, CloseWindow
<1>2. Devices' = Devices /\ Groups' = Groups
  BY <1>1, PlanFixed
<1>3. ASSUME UNCHANGED <<thread, barrier, step, branch>>, owner' = "leaving",
             owner \in {"entering", "stepping", "collecting"}
      PROVE  OwnerOK'
  <2>1. \A e : Submitted(e)' = Submitted(e)
    BY <1>1, <1>3, BranchesFixed
  <2> QED BY <1>1, <1>2, <1>3, <2>1 DEF OwnerOK
<1>4. CASE EnterWindow
  <2>1. \A e : Submitted(e)' = Submitted(e)
    BY <1>1, <1>4, BranchesFixed DEF EnterWindow
  <2> QED BY <1>1, <1>2, <1>4, <2>1 DEF OwnerOK, EnterWindow
<1>5. CASE CollectFailure \/ FinishWindow \/ Cancel
  BY <1>3, <1>5 DEF CollectFailure, FinishWindow, Cancel
<1>6. CASE Submit
  <2>1. /\ owner = "stepping" /\ step < plan.steps /\ owner' = "collecting"
        /\ UNCHANGED <<plan, step, branch, barrier>>
        /\ thread' = [e \in Devices |-> IF Submitted(e) THEN Started ELSE IdleThread]
    BY <1>6 DEF Submit
  <2>2. \A e : Submitted(e)' = Submitted(e)
    BY <2>1, BranchesFixed
  <2>3. \A e \in Devices : thread'[e].at # "raised" /\ (thread'[e].at # "idle" => Submitted(e))
    BY <2>1 DEF Started, IdleThread
  <2> QED BY <1>2, <2>1, <2>2, <2>3 DEF OwnerOK
<1>7. CASE CollectResults
  <2>1. /\ UNCHANGED <<plan, thread, barrier>> /\ owner' = "stepping"
        /\ \A e \in Devices : thread[e].at = "idle" /\ thread'[e].at = "idle"
        /\ step \in Nat /\ step < plan.steps
    BY <1>2, <1>7 DEF CollectResults, OwnerOK, ShapeOK
  <2>2. step' = plan'.steps => branch' = "negative"
    BY <1>7, <2>1 DEF CollectResults
  <2>3. (plan'.cfg = 2 /\ branch' = "positive") => plan'.sp = 1 /\ step' = 0
    BY <1>7, <2>1, Numbering DEF CollectResults, BranchesSubmittedTogether, OwnerOK, ShapeOK
  <2> QED BY <1>2, <2>1, <2>2, <2>3 DEF OwnerOK
<1>8. CASE AbortGroups
  <2>1. /\ UNCHANGED <<plan, thread, step, branch>> /\ owner' = "joining"
        /\ \A g \in Groups : barrier'[g].state = "broken"
    BY <1>8, AbortShape DEF AbortGroups
  <2>2. \A e : Submitted(e)' = Submitted(e)
    BY <2>1, BranchesFixed
  <2>3. owner = "leaving" => \A e \in Devices : thread[e].at # "idle" => Submitted(e) /\ step < plan.steps
    BY DEF OwnerOK
  <2> QED BY <1>2, <1>8, <2>1, <2>2, <2>3 DEF OwnerOK, AbortGroups
<1>9. CASE CloseWindow
  <2>1. /\ UNCHANGED <<plan, step, branch, barrier>> /\ owner' = "closed"
        /\ \A e \in Devices : thread'[e].at = "idle"
    BY <1>9 DEF CloseWindow, IdleThread
  <2> QED BY <1>2, <2>1 DEF OwnerOK
<1> QED BY <1>4, <1>5, <1>6, <1>7, <1>8, <1>9 DEF OwnerStep

\* The shape of the window's state, and the owner's place in it, hold throughout.
LEMMA ShapeInvariant == Spec => [](ShapeOK /\ OwnerOK)
<1>1. Init => ShapeOK /\ OwnerOK
  <2> SUFFICES ASSUME Init PROVE ShapeOK /\ OwnerOK
    OBVIOUS
  <2>1. plan \in Plans /\ plan.steps \in Nat /\ plan.steps >= 1
    BY Numbering DEF Init
  <2>2. /\ \A d \in Devices : /\ thread[d] = IdleThread /\ DOMAIN cache[d] = Branches
                              /\ \A b \in Branches : cache[d][b] = NewBranchState
        /\ DOMAIN slots = Devices /\ DOMAIN thread = Devices /\ DOMAIN cache = Devices
        /\ barrier = [g \in Groups |-> NewBarrier]
        /\ owner = "entering" /\ step = 0 /\ branch = "negative" /\ pool = "free" /\ faults = 0
    BY DEF Init
  <2>3. ShapeOK
    <3>1. /\ DOMAIN IdleThread = ThreadFields /\ IdleThread.at \in Ats /\ IdleThread.op \in Ops
          /\ IdleThread.err \in BOOLEAN /\ IdleThread.at = "idle" /\ IdleThread.op = "end"
      BY DEF IdleThread, ThreadFields, Ats, Ops
    <3>2. DOMAIN NewBranchState = StateFields
      BY DEF NewBranchState, StateFields
    <3>3. barrier \in [Groups -> [state : {"filling", "draining", "broken"}, inside : Int]]
      BY <2>2 DEF NewBarrier
    <3>4. step \in 0..plan.steps /\ branch \in Branches /\ faults \in Nat
      BY <2>1, <2>2 DEF Branches
    <3> QED BY <2>1, <2>2, <3>1, <3>2, <3>3, <3>4 DEF ShapeOK
  <2>4. OwnerOK
    BY <2>1, <2>2 DEF OwnerOK, IdleThread
  <2> QED BY <2>3, <2>4
<1>2. ShapeOK /\ OwnerOK /\ [Next]_meshVars => (ShapeOK /\ OwnerOK)'
  <2> SUFFICES ASSUME ShapeOK, OwnerOK, [Next]_meshVars PROVE (ShapeOK /\ OwnerOK)'
    OBVIOUS
  <2>1. CASE OwnerStep \/ Cancel
    BY <2>1, OwnerKeepsShape, OwnerKeepsOwner
  <2>2. ASSUME NEW d \in Devices, DeviceStep(d) \/ Fail(d) \/ TimeOut(d)
        PROVE  (ShapeOK /\ OwnerOK)'
    <3>1. AnyStep(d)
      BY <2>2, StepKinds
    <3> QED BY <3>1, ThreadKeepsShape, ThreadKeepsOwner
  <2>3. CASE UNCHANGED meshVars
    <3>1. UNCHANGED <<plan, owner, step, branch, thread, barrier, slots, cache, pool, report, faults>>
      BY <2>3 DEF meshVars
    <3>2. Devices' = Devices /\ Groups' = Groups /\ \A d : Submitted(d)' = Submitted(d)
      BY <3>1, PlanFixed, BranchesFixed
    <3>3. ShapeOK'
      BY <3>1, <3>2 DEF ShapeOK
    <3>4. OwnerOK'
      BY <3>1, <3>2 DEF OwnerOK
    <3> QED BY <3>3, <3>4
  <2> QED BY <2>1, <2>2, <2>3 DEF Next
<1> QED BY <1>1, <1>2, PTL DEF Spec

-----------------------------------------------------------------------------
(***************************************************************************)
(* The barriers: whatever the threads compute, a group's threads pass the  *)
(* two halves of an exchange together.                                     *)
(***************************************************************************)

\* A step of d moves nobody else into or out of a barrier.
LEMMA WaitingMoves ==
  ASSUME ShapeOK, NEW d \in Devices, plan' = plan,
         \A e \in Devices \ {d} : thread'[e] = thread[e]
  PROVE  /\ \A g \in Groups \ {GroupOf(d)} : Waiting(g)' = Waiting(g)
         /\ \A g \in Groups : g = GroupOf(d) =>
              Waiting(g)' = (Waiting(g) \ {d})
                \cup (IF thread'[d].at \in {"first", "second"} THEN {d} ELSE {})
         /\ \A g \in Groups : IsFiniteSet(Waiting(g))
<1>1. \A g : Members(g)' = Members(g)
  BY PlanFixed
<1>2. \A g \in Groups : Members(g) \subseteq Devices /\ IsFiniteSet(Members(g))
  BY Groupings DEF ShapeOK
<1>3. \A g : d \in Members(g) <=> g = GroupOf(d)
  BY DEF Members
<1>4. \A g \in Groups \ {GroupOf(d)} : Waiting(g)' = Waiting(g)
  BY <1>1, <1>2, <1>3 DEF Waiting
<1>6. ASSUME NEW g \in Groups, g = GroupOf(d)
      PROVE  Waiting(g)' = (Waiting(g) \ {d})
               \cup (IF thread'[d].at \in {"first", "second"} THEN {d} ELSE {})
  BY <1>1, <1>2, <1>3, <1>6 DEF Waiting
<1>7. \A g \in Groups : IsFiniteSet(Waiting(g))
  <2> SUFFICES ASSUME NEW g \in Groups PROVE IsFiniteSet(Waiting(g))
    OBVIOUS
  <2>1. Waiting(g) \subseteq Members(g) /\ IsFiniteSet(Members(g))
    BY <1>2 DEF Waiting
  <2> QED BY <2>1, FS_Subset
<1> QED BY <1>4, <1>6, <1>7

\* Who fills the barrier is the last of the group; who empties it leaves nobody waiting.
LEMMA LastToArrive ==
  ASSUME ShapeOK, BarrierOK, NEW d \in Devices, thread[d].at \notin {"first", "second"},
         barrier[GroupOf(d)].state = "filling", barrier[GroupOf(d)].inside + 1 = plan.sp
  PROVE  \A e \in Peers(d) \ {d} : thread[e].at \in {"first", "second"}
<1> DEFINE g == GroupOf(d)
<1>1. g \in Groups /\ IsFiniteSet(Members(g)) /\ Cardinality(Members(g)) = plan.sp /\ d \in Members(g)
  BY Groupings DEF ShapeOK, Peers
<1>2. plan.sp \in Nat /\ barrier[g].inside = Cardinality(Waiting(g))
  BY <1>1, Numbering DEF ShapeOK, BarrierOK
<1>3. Waiting(g) \subseteq Members(g) \ {d}
  BY DEF Waiting
<1>4. /\ IsFiniteSet(Members(g) \ {d})
      /\ Cardinality(Members(g) \ {d}) = plan.sp - 1
  BY <1>1, FS_RemoveElement
<1>5. Cardinality(Waiting(g)) = plan.sp - 1
  <2>1. Cardinality(Waiting(g)) \in Nat
    <3>1. IsFiniteSet(Waiting(g))
      BY <1>3, <1>4, FS_Subset
    <3> QED BY <3>1, FS_CardinalityType
  <2> QED BY <1>2, <2>1
<1>6. Waiting(g) = Members(g) \ {d}
  <2> HIDE DEF g
  <2> QED BY <1>3, <1>4, <1>5, FS_Subset
<1> QED BY <1>6 DEF Waiting, Peers

LEMMA LastToLeave ==
  ASSUME ShapeOK, BarrierOK, NEW d \in Devices, thread[d].at \in {"first", "second"},
         barrier[GroupOf(d)].state = "draining", barrier[GroupOf(d)].inside = 1
  PROVE  \A e \in Peers(d) \ {d} : thread[e].at \notin {"first", "second"}
<1> DEFINE g == GroupOf(d)
<1>1. g \in Groups /\ IsFiniteSet(Members(g)) /\ d \in Members(g) /\ d \in Waiting(g)
  BY Groupings DEF ShapeOK, Peers, Waiting
<1>2. Cardinality(Waiting(g)) = 1
  BY <1>1 DEF BarrierOK
<1>3. IsFiniteSet(Waiting(g))
  <2>1. Waiting(g) \subseteq Members(g)
    BY DEF Waiting
  <2> QED BY <1>1, <2>1, FS_Subset
<1>4. Waiting(g) = {d}
  <2> HIDE DEF g
  <2>1. IsFiniteSet({d}) /\ Cardinality({d}) = 1
    BY FS_Singleton
  <2>2. {d} \subseteq Waiting(g)
    BY <1>1
  <2> QED BY <1>2, <1>3, <2>1, <2>2, FS_Subset
<1> QED BY <1>4 DEF Waiting, Peers

\* The count at the barrier: threads ...
LEMMA ThreadKeepsBarrier ==
  ASSUME ShapeOK, BarrierOK, NEW d \in Devices, AnyStep(d)
  PROVE  BarrierOK'
<1>0. PICK h \in Groups : h = GroupOf(d)
  BY Groupings DEF ShapeOK
<1>1. /\ plan' = plan /\ \A e \in Devices \ {d} : thread'[e] = thread[e]
      /\ Groups' = Groups /\ h \in Groups
  BY ThreadFrame, PlanFixed, Groupings DEF ShapeOK
<1>2. plan.sp \in Nat /\ plan.sp >= 1
  BY Numbering DEF ShapeOK
<1>3. \A g \in Groups : barrier[g] \in [state : {"filling", "draining", "broken"}, inside : Int]
  BY DEF ShapeOK
<1>4. /\ \A g \in Groups \ {h} : Waiting(g)' = Waiting(g)
      /\ Waiting(h)' = (Waiting(h) \ {d}) \cup (IF thread'[d].at \in {"first", "second"} THEN {d} ELSE {})
      /\ IsFiniteSet(Waiting(h))
  BY <1>0, <1>1, WaitingMoves
<1>5. d \in Waiting(h) <=> thread[d].at \in {"first", "second"}
  <2>1. d \in Members(h)
    BY <1>0 DEF Members
  <2> QED BY <2>1 DEF Waiting
<1>6. Cardinality(Waiting(h)) \in Nat
  BY <1>4, FS_CardinalityType
<1>7. /\ \A g \in Groups : barrier[g].inside \in 0..(plan.sp - 1)
      /\ \A g \in Groups : barrier[g].state # "broken" => barrier[g].inside = Cardinality(Waiting(g))
      /\ \A g \in Groups : barrier[g].state = "draining" => barrier[g].inside > 0
  BY DEF BarrierOK
<1>8. ASSUME barrier' = barrier, thread[d].at \notin {"first", "second"}, thread'[d].at \notin {"first", "second"}
      PROVE  BarrierOK'
  <2>1. \A g \in Groups : Waiting(g)' = Waiting(g)
    <3> SUFFICES ASSUME NEW g \in Groups PROVE Waiting(g)' = Waiting(g)
      OBVIOUS
    <3>1. CASE g = h
      BY <1>4, <1>5, <1>8, <3>1
    <3>2. CASE g # h
      BY <1>0, <1>4, <3>2
    <3> QED BY <3>1, <3>2
  <2> QED BY <1>1, <1>7, <1>8, <2>1 DEF BarrierOK
<1>9. CASE Posts(d) \/ Reads(d) \/ Notes(d)
  BY <1>8, <1>9 DEF Posts, Reads, Notes, Moves
<1>10. CASE Continues(d)
  BY <1>8, <1>10 DEF Continues, Moves
<1>11. CASE Passes(d, "posted", "reading") \/ Passes(d, "read", "result")
  BY <1>8, <1>11 DEF Passes, Moves
<1>12. CASE Raises(d)
  BY <1>1, <1>7, <1>12, AbortShape DEF Raises, BarrierOK
<1>13. ASSUME NEW state, NEW inside,
             barrier' = [barrier EXCEPT ![h] = [state |-> state, inside |-> inside]],
             inside \in 0..(plan.sp - 1), inside = Cardinality(Waiting(h)'),
             state = "draining" => inside > 0
       PROVE BarrierOK'
  <2>1. barrier'[h].state = state /\ barrier'[h].inside = inside
    BY <1>1, <1>13 DEF ShapeOK
  <2>2. \A g \in Groups \ {h} : barrier'[g] = barrier[g]
    BY <1>1, <1>13 DEF ShapeOK
  <2>3. ASSUME NEW g \in Groups
        PROVE  /\ barrier'[g].inside \in 0..(plan.sp - 1)
               /\ barrier'[g].state # "broken" => barrier'[g].inside = Cardinality(Waiting(g)')
               /\ barrier'[g].state = "draining" => barrier'[g].inside > 0
    <3>1. CASE g = h
      BY <1>13, <2>1, <3>1
    <3>2. CASE g # h
      BY <1>4, <1>7, <2>2, <3>2
    <3> QED BY <3>1, <3>2
  <2> QED BY <1>1, <2>3 DEF BarrierOK
<1>14. ASSUME NEW from \in {"posted", "read"}, NEW to \in {"first", "second"}, Enters(d, from, to)
       PROVE BarrierOK'
  <2>1. d \notin Waiting(h) /\ Waiting(h)' = Waiting(h) \cup {d}
    BY <1>4, <1>5, <1>14 DEF Enters, AtBarrier, Moves
  <2>2. Cardinality(Waiting(h)') = Cardinality(Waiting(h)) + 1
    BY <1>4, <2>1, FS_AddElement
  <2>3. /\ barrier[h].state = "filling" /\ barrier[h].inside + 1 # plan.sp
        /\ barrier' = [barrier EXCEPT ![h] = [state |-> "filling", inside |-> barrier[h].inside + 1]]
    BY <1>0, <1>14 DEF Enters, AtBarrier
  <2>4. barrier[h].inside + 1 \in 0..(plan.sp - 1) /\ barrier[h].inside + 1 = Cardinality(Waiting(h)')
    BY <1>1, <1>2, <1>7, <2>2, <2>3
  <2> QED BY <1>13, <2>3, <2>4
<1>15. ASSUME NEW from \in {"posted", "read"}, NEW to \in {"reading", "result"}, Fills(d, from, to)
       PROVE BarrierOK'
  <2>1. Waiting(h)' = Waiting(h)
    BY <1>4, <1>5, <1>15 DEF Fills, AtBarrier, Moves
  <2>2. /\ barrier[h].state = "filling" /\ barrier[h].inside + 1 = plan.sp /\ plan.sp > 1
        /\ barrier' = [barrier EXCEPT ![h] = [state |-> "draining", inside |-> barrier[h].inside]]
    BY <1>0, <1>15 DEF Fills, AtBarrier
  <2>3. barrier[h].inside \in 0..(plan.sp - 1) /\ barrier[h].inside > 0 /\ barrier[h].inside = Cardinality(Waiting(h)')
    BY <1>1, <1>2, <1>7, <2>1, <2>2
  <2> QED BY <1>13, <2>2, <2>3
<1>16. ASSUME NEW from \in {"first", "second"}, NEW to \in {"reading", "result"}, Drains(d, from, to)
       PROVE BarrierOK'
  <2>1. d \in Waiting(h) /\ Waiting(h)' = Waiting(h) \ {d}
    BY <1>4, <1>5, <1>16 DEF Drains, AtBarrier, Moves
  <2>2. Cardinality(Waiting(h)') = Cardinality(Waiting(h)) - 1
    BY <1>4, <2>1, FS_RemoveElement
  <2>3. /\ barrier[h].state = "draining"
        /\ barrier' = [barrier EXCEPT ![h] =
             [state |-> IF barrier[h].inside = 1 THEN "filling" ELSE "draining", inside |-> barrier[h].inside - 1]]
    BY <1>0, <1>16 DEF Drains, AtBarrier
  <2>4. /\ barrier[h].inside - 1 \in 0..(plan.sp - 1) /\ barrier[h].inside - 1 = Cardinality(Waiting(h)')
        /\ barrier[h].inside # 1 => barrier[h].inside - 1 > 0
    BY <1>1, <1>2, <1>7, <2>2, <2>3
  <2> DEFINE state == IF barrier[h].inside = 1 THEN "filling" ELSE "draining"
  <2>5. state = "draining" => barrier[h].inside - 1 > 0
    BY <2>4
  <2> HIDE DEF state
  <2>6. barrier' = [barrier EXCEPT ![h] = [state |-> state, inside |-> barrier[h].inside - 1]]
    BY <2>3 DEF state
  <2> QED BY <1>13, <2>4, <2>5, <2>6
<1> QED BY <1>9, <1>10, <1>11, <1>12, <1>14, <1>15, <1>16 DEF AnyStep

\* ... and the owner.
LEMMA OwnerKeepsBarrier ==
  ASSUME ShapeOK, OwnerOK, BarrierOK, PhasesOK, OwnerStep \/ Cancel
  PROVE  BarrierOK' /\ PhasesOK'
<1>1. plan' = plan
  BY DEF OwnerStep, Cancel, EnterWindow, Submit, CollectFailure, CollectResults, FinishWindow, AbortGroups, CloseWindow
<1>2. /\ Devices' = Devices /\ Groups' = Groups
      /\ \A d : GroupOf(d)' = GroupOf(d) /\ Peers(d)' = Peers(d)
      /\ \A g : Members(g)' = Members(g)
  BY <1>1, PlanFixed
<1>3. \A d \in Devices : GroupOf(d) \in Groups /\ Peers(d) \subseteq Devices
  BY Groupings DEF ShapeOK, Peers
<1>4. ASSUME UNCHANGED <<thread, barrier>> PROVE BarrierOK' /\ PhasesOK'
  <2>1. \A g : Waiting(g)' = Waiting(g)
    BY <1>2, <1>4 DEF Waiting
  <2> QED BY <1>1, <1>2, <1>4, <2>1 DEF BarrierOK, PhasesOK, InStep
<1>5. CASE EnterWindow \/ CollectFailure \/ CollectResults \/ FinishWindow \/ Cancel
  BY <1>4, <1>5 DEF EnterWindow, CollectFailure, CollectResults, FinishWindow, Cancel
<1>6. CASE Submit
  <2>1. /\ barrier' = barrier
        /\ \A d \in Devices : thread[d].at = "idle" /\ thread'[d].at \in {"idle", "local"}
    BY <1>6 DEF Submit, OwnerOK, Started, IdleThread
  <2>2. ASSUME NEW g \in Groups PROVE Waiting(g)' = Waiting(g)
    <3>1. Members(g) \subseteq Devices
      BY DEF Members
    <3> QED BY <1>2, <2>1, <3>1 DEF Waiting
  <2>3. BarrierOK'
    BY <1>1, <1>2, <2>1, <2>2 DEF BarrierOK
  <2>4. PhasesOK'
    BY <1>2, <1>3, <2>1 DEF PhasesOK, InStep, Stages
  <2> QED BY <2>3, <2>4
<1>7. CASE AbortGroups
  <2>1. /\ thread' = thread
        /\ \A g \in Groups : barrier'[g].state = "broken" /\ barrier'[g].inside = barrier[g].inside
    BY <1>7, AbortShape DEF AbortGroups
  <2>2. BarrierOK'
    BY <1>1, <1>2, <2>1 DEF BarrierOK
  <2>3. PhasesOK'
    BY <1>2, <1>3, <2>1 DEF PhasesOK, InStep, Stages
  <2> QED BY <2>2, <2>3
<1>8. CASE CloseWindow
  <2>1. /\ barrier' = barrier /\ \A g \in Groups : barrier[g].state = "broken"
        /\ \A d \in Devices : thread'[d].at = "idle"
    BY <1>8 DEF CloseWindow, OwnerOK, IdleThread
  <2>2. BarrierOK'
    BY <1>1, <1>2, <2>1 DEF BarrierOK
  <2>3. PhasesOK'
    BY <1>2, <1>3, <2>1 DEF PhasesOK, InStep, Stages
  <2> QED BY <2>2, <2>3
<1> QED BY <1>5, <1>6, <1>7, <1>8 DEF OwnerStep

\* The phases of a group: one step of one thread.
LEMMA ThreadKeepsPhases ==
  ASSUME ShapeOK, OwnerOK, BarrierOK, PhasesOK, NEW d \in Devices, AnyStep(d)
  PROVE  PhasesOK'
<1>1. /\ plan' = plan /\ \A e \in Devices \ {d} : thread'[e] = thread[e]
  BY ThreadFrame
<1>2. /\ Devices' = Devices
      /\ \A e : GroupOf(e)' = GroupOf(e) /\ Peers(e)' = Peers(e)
  BY <1>1, PlanFixed
<1>3. /\ \A e \in Devices : GroupOf(e) \in Groups /\ Peers(e) \subseteq Devices
      /\ \A e \in Devices : \A f \in Devices : f \in Peers(e) <=> GroupOf(f) = GroupOf(e)
  BY Groupings DEF ShapeOK, Peers, Members
<1>4. \A g \in Groups : barrier[g] \in [state : {"filling", "draining", "broken"}, inside : Int]
  BY DEF ShapeOK
<1>5. PICK h \in Groups : h = GroupOf(d)
  BY <1>3
<1>6. \A e \in Devices : thread[e].at \in Ats
  BY DEF ShapeOK
<1>7. \A e \in Devices : \A f \in Peers(e) \ {e} : Stages(thread[e].at, thread[f].at, barrier[GroupOf(e)].state)
  BY DEF PhasesOK, InStep
<1>8. SUFFICES ASSUME NEW e \in Devices, NEW f \in Devices, GroupOf(e) = GroupOf(f), e # f
               PROVE  Stages(thread'[e].at, thread'[f].at, barrier'[GroupOf(e)].state)
  BY <1>2, <1>3 DEF PhasesOK, InStep
<1>9. Stages(thread[e].at, thread[f].at, barrier[GroupOf(e)].state)
  BY <1>3, <1>7, <1>8
<1>10. CASE GroupOf(e) # h
  <2>1. thread'[e] = thread[e] /\ thread'[f] = thread[f]
    BY <1>1, <1>5, <1>8, <1>10
  <2>2. \/ barrier'[GroupOf(e)] = barrier[GroupOf(e)]
        \/ barrier'[GroupOf(e)].state = "broken"
    BY <1>3, <1>5, <1>10, ThreadFrame
  <2> QED BY <1>9, <2>1, <2>2 DEF Stages
<1>11. CASE GroupOf(e) = h
  <2> DEFINE state == barrier[h].state
  <2>1. \A x \in {e, f} : x # d => /\ Stages(thread[d].at, thread[x].at, state)
                                   /\ Stages(thread[x].at, thread[d].at, state)
    BY <1>3, <1>5, <1>7, <1>8, <1>11
  <2>2. Stages(thread[e].at, thread[f].at, state)
    BY <1>9, <1>11
  <2>3. SUFFICES Stages(thread'[e].at, thread'[f].at, barrier'[h].state)
    BY <1>11
  <2>4. \A x \in {e, f} : x # d => thread'[x].at = thread[x].at
    BY <1>1
  <2>5. state \in {"filling", "draining", "broken"}
    BY <1>4
  <2>6. thread[e].at \in Ats /\ thread[f].at \in Ats /\ thread[d].at \in Ats
    BY <1>6
  <2> HIDE DEF state
  <2>7. ASSUME NEW from \in Ats \ {"idle"}, NEW to \in {"idle", "posted", "local"},
               Moves(d, from, to), barrier'[h].state = state,
               from \in {"result", "local"}
        PROVE  Stages(thread'[e].at, thread'[f].at, barrier'[h].state)
    BY <2>1, <2>2, <2>4, <2>5, <2>6, <2>7 DEF Moves, Stages
  <2>8. CASE Posts(d) \/ Notes(d)
    <3>1. barrier'[h].state = state /\ \E to \in {"posted", "local"} : Moves(d, "local", to)
      BY <2>8 DEF Posts, Notes, state
    <3> QED BY <2>7, <3>1 DEF Ats
  <2>9. CASE Continues(d)
    <3>1. barrier'[h].state = state /\ \E to \in {"idle", "local"} : Moves(d, "result", to)
      BY <2>9 DEF Continues, state
    <3> QED BY <2>7, <3>1 DEF Ats
  <2>10. CASE Reads(d)
    BY <2>1, <2>2, <2>4, <2>5, <2>6, <2>10 DEF Reads, Moves, Stages, state
  <2>11. CASE Raises(d)
    <3>1. thread'[d].at = "raised" /\ barrier'[h].state = "broken"
      BY <2>11, AbortShape DEF Raises, Moves
    <3> QED BY <2>1, <2>2, <2>4, <3>1 DEF Stages
  <2>12. CASE Passes(d, "posted", "reading") \/ Passes(d, "read", "result")
    <3>1. Cardinality(Members(h)) = 1 /\ IsFiniteSet(Members(h)) /\ e \in Members(h) /\ f \in Members(h)
      BY <1>8, <1>11, <2>12, Groupings DEF ShapeOK, Passes, Members
    <3>2. {e} \subseteq Members(h) /\ Cardinality({e}) = 1 /\ f \notin {e}
      BY <1>8, <3>1, FS_Singleton
    <3> QED BY <3>1, <3>2, FS_Subset
  <2>13. CASE Enters(d, "posted", "first") \/ Enters(d, "read", "second")
    <3>1. state = "filling" /\ barrier'[h].state = "filling"
      BY <1>5, <2>13 DEF Enters, AtBarrier, state, ShapeOK
    <3>2. \/ thread[d].at = "posted" /\ thread'[d].at = "first"
          \/ thread[d].at = "read" /\ thread'[d].at = "second"
      BY <2>13 DEF Enters, AtBarrier, Moves
    <3>3. thread[e].at # "raised" /\ thread[f].at # "raised"
      BY <1>8, <3>1 DEF OwnerOK, state
    <3> QED BY <2>1, <2>2, <2>4, <2>6, <3>1, <3>2, <3>3 DEF Stages, Ats
  <2>14. CASE Fills(d, "posted", "reading") \/ Fills(d, "read", "result")
    <3>1. state = "filling" /\ barrier'[h].state = "draining" /\ barrier[h].inside + 1 = plan.sp
      BY <1>5, <2>14 DEF Fills, AtBarrier, state, ShapeOK
    <3>2. \/ thread[d].at = "posted" /\ thread'[d].at = "reading"
          \/ thread[d].at = "read" /\ thread'[d].at = "result"
      BY <2>14 DEF Fills, AtBarrier, Moves
    <3>3. \A x \in Peers(d) \ {d} : thread[x].at \in {"first", "second"}
      BY <1>5, <3>1, <3>2, LastToArrive DEF state
    <3>4. \A x \in {e, f} : x # d => thread[x].at \in {"first", "second"}
      BY <1>3, <1>5, <1>8, <1>11, <3>3
    <3> QED BY <2>1, <2>2, <2>4, <2>6, <3>1, <3>2, <3>4 DEF Stages, Ats
  <2>15. CASE Drains(d, "first", "reading") \/ Drains(d, "second", "result")
    <3>1. /\ state = "draining" 
          /\ barrier'[h].state = IF barrier[h].inside = 1 THEN "filling" ELSE "draining"
      BY <1>5, <2>15 DEF Drains, AtBarrier, state, ShapeOK
    <3>2. \/ thread[d].at = "first" /\ thread'[d].at = "reading"
          \/ thread[d].at = "second" /\ thread'[d].at = "result"
      BY <2>15 DEF Drains, AtBarrier, Moves
    <3>3. CASE barrier[h].inside = 1
      <4>1. \A x \in Peers(d) \ {d} : thread[x].at \notin {"first", "second"}
        BY <1>5, <3>1, <3>2, <3>3, LastToLeave DEF state
      <4>2. \A x \in {e, f} : x # d => thread[x].at \notin {"first", "second"}
        BY <1>3, <1>5, <1>8, <1>11, <4>1
      <4> QED BY <2>1, <2>2, <2>4, <2>6, <3>1, <3>2, <3>3, <4>2 DEF Stages, Ats
    <3>4. CASE barrier[h].inside # 1
      BY <2>1, <2>2, <2>4, <2>6, <3>1, <3>2, <3>4 DEF Stages, Ats
    <3> QED BY <3>3, <3>4
  <2> QED BY <2>8, <2>9, <2>10, <2>11, <2>12, <2>13, <2>14, <2>15 DEF AnyStep
<1> QED BY <1>10, <1>11

\* The barriers count their threads and keep a group's threads in phase.
LEMMA BarrierInvariant == Spec => [](BarrierOK /\ PhasesOK)
<1>1. Init => BarrierOK /\ PhasesOK
  <2> SUFFICES ASSUME Init PROVE BarrierOK /\ PhasesOK
    OBVIOUS
  <2>1. /\ \A d \in Devices : thread[d].at = "idle"
        /\ \A g \in Groups : barrier[g].state = "filling" /\ barrier[g].inside = 0
        /\ plan.sp \in Nat /\ plan.sp >= 1
    BY Numbering DEF Init, IdleThread, NewBarrier
  <2>2. ASSUME NEW g \in Groups PROVE Cardinality(Waiting(g)) = 0
    <3>1. Waiting(g) = {}
      BY <2>1 DEF Waiting, Members
    <3> QED BY <3>1, FS_EmptySet
  <2>3. BarrierOK
    BY <2>1, <2>2 DEF BarrierOK
  <2>4. PhasesOK
    BY <2>1 DEF PhasesOK, InStep, Stages, Peers, Members
  <2> QED BY <2>3, <2>4
<1>2. ShapeOK /\ OwnerOK /\ BarrierOK /\ PhasesOK /\ [Next]_meshVars => (BarrierOK /\ PhasesOK)'
  <2> SUFFICES ASSUME ShapeOK, OwnerOK, BarrierOK, PhasesOK, [Next]_meshVars PROVE (BarrierOK /\ PhasesOK)'
    OBVIOUS
  <2>1. CASE OwnerStep \/ Cancel
    BY <2>1, OwnerKeepsBarrier
  <2>2. ASSUME NEW d \in Devices, DeviceStep(d) \/ Fail(d) \/ TimeOut(d)
        PROVE  (BarrierOK /\ PhasesOK)'
    <3>1. AnyStep(d)
      BY <2>2, StepKinds
    <3> QED BY <3>1, ThreadKeepsBarrier, ThreadKeepsPhases
  <2>3. CASE UNCHANGED meshVars
    <3>1. UNCHANGED <<plan, thread, barrier>>
      BY <2>3 DEF meshVars
    <3>2. /\ Devices' = Devices /\ Groups' = Groups
          /\ \A d : GroupOf(d)' = GroupOf(d) /\ Peers(d)' = Peers(d)
          /\ \A g : Members(g)' = Members(g)
      BY <3>1, PlanFixed
    <3>3. \A g : Waiting(g)' = Waiting(g)
      BY <3>1, <3>2 DEF Waiting
    <3> QED BY <3>1, <3>2, <3>3 DEF BarrierOK, PhasesOK, InStep
  <2> QED BY <2>1, <2>2, <2>3 DEF Next
<1> QED BY <1>1, <1>2, ShapeInvariant, PTL DEF Spec

-----------------------------------------------------------------------------
(***************************************************************************)
(* One branch of one device: what its controller counts and keeps.         *)
(***************************************************************************)

\* A decision is for the step it was asked for, and only reuses a residual that is
\* there, from the step before, outside the warm-up and the guarded end.
LEMMA Deciding ==
  ASSUME ShapeOK, plan.mode # "off", NEW s, NEW n \in Int, NEW total, Decided(s, n, total).reuse
  PROVE  /\ ~(n < Warmup) /\ ~(n >= plan.steps - EndGuard)
         /\ s.seen # None /\ s.seen + 1 = n /\ s.kept # None /\ ~(s.run >= MaxReuse)
<1> DEFINE D == Decided(s, n, total)
<1>0. plan.mode \in {"teacache", "cache_dit"}
  BY PlansAssumption DEF ShapeOK
<1>1. NotReusable(s, n) = "none" => s.seen # None /\ s.seen + 1 = n /\ s.kept # None
  BY DEF NotReusable
<1>2. CASE plan.mode = "teacache"
  <2>1. TeaForced(s, n) = "none"
    BY <1>2 DEF Decided, TeaDecision
  <2>2. ~(n < Warmup) /\ ~(n >= plan.steps - EndGuard) /\ NotReusable(s, n) = "none" /\ ~(s.run >= MaxReuse)
    BY <2>1 DEF TeaForced
  <2> QED BY <1>1, <2>2
<1>3. CASE plan.mode = "cache_dit"
  <2>1. DitForced(s, n) = "none"
    BY <1>3 DEF Decided, DitDecision
  <2>2. ~(n < DitWarmup) /\ ~(n >= plan.steps - EndGuard) /\ NotReusable(s, n) = "none" /\ ~(s.run >= MaxReuse)
    BY <2>1 DEF DitForced
  <2>3. ~(n < Warmup)
    <3>1. DitWarmup = Warmup \/ (DitWarmup = plan.steps /\ plan.steps > Warmup)
      BY DEF DitWarmup
    <3>2. CASE DitWarmup = Warmup
      BY <2>2, <3>2
    <3>3. CASE DitWarmup = plan.steps /\ plan.steps > Warmup
      BY <2>2, <3>3, CacheParamsAssumption, Numbering DEF ShapeOK
    <3> QED BY <3>1, <3>2, <3>3
  <2> QED BY <1>1, <2>2, <2>3
<1> QED BY <1>0, <1>2, <1>3

LEMMA DecidedStep ==
  ASSUME NEW s, NEW n, NEW total
  PROVE  Decided(s, n, total).step = n
BY DEF Decided, TeaDecision, DitDecision, Compared

\* What completes a step of a branch counts it once and keeps what was computed.
LEMMA TeaRecords ==
  ASSUME ShapeOK, NEW s, DOMAIN s = StateFields, Counted(s), Aged(s),
         s.seen = step - 1, step < plan.steps
  PROVE  LET u == TeaRecord(s, step) IN
         Counted(u) /\ Aged(u) /\ u.seen = step /\ u.kept <= u.seen /\ u.pending = NoDecision
<1> DEFINE u == TeaRecord(s, step)
<1>1. /\ step \in Nat /\ plan.steps \in Nat /\ MaxReuse \in Nat
  BY Numbering, CacheParamsAssumption DEF ShapeOK
<1>2. /\ u.seen = step /\ u.kept = step /\ u.learned = step /\ u.run = 0
      /\ u.computed = s.computed + 1 /\ u.reused = s.reused /\ u.pending = NoDecision
      /\ u.velocity => u.interval = step - s.learned /\ step > s.learned
  BY DEF TeaRecord, Learn, StateFields
<1> HIDE DEF u
<1>3. Counted(u) /\ Aged(u) /\ u.kept <= u.seen
  BY <1>1, <1>2 DEF Counted, Aged, None
<1> QED BY <1>2, <1>3 DEF u

LEMMA DitRecords ==
  ASSUME ShapeOK, NEW s, DOMAIN s = StateFields, Counted(s), Aged(s),
         s.seen = step - 1, step < plan.steps, s.kept <= s.seen
  PROVE  LET u == DitRecord(s, step) IN
         /\ Counted(u) /\ Aged(u) /\ u.seen = s.seen /\ u.kept = step /\ u.pending = s.pending
<1> DEFINE u == DitRecord(s, step)
<1>1. /\ step \in Nat /\ plan.steps \in Nat /\ MaxReuse \in Nat /\ Warmup \in Nat
  BY Numbering, CacheParamsAssumption DEF ShapeOK
<1>2. /\ u.seen = s.seen /\ u.kept = step /\ u.learned = step /\ u.run = s.run
      /\ u.computed = s.computed /\ u.reused = s.reused /\ u.pending = s.pending
      /\ u.velocity => u.interval = step - s.learned /\ step > s.learned
  BY DEF DitRecord, Learn, StateFields
<1> HIDE DEF u
<1>3. Counted(u) /\ Aged(u)
  BY <1>1, <1>2 DEF Counted, Aged, None
<1> QED BY <1>2, <1>3 DEF u

\* Reusing a residual makes it one step older.
LEMMA Reuses ==
  ASSUME ShapeOK, NEW s, Counted(s), Aged(s), Usable(s),
         s.seen = step - 1, step < plan.steps, s.kept <= s.seen,
         NEW u, u.seen = step, u.kept = s.kept, u.learned = s.learned, u.run = s.run + 1,
         u.computed = s.computed, u.reused = s.reused + 1,
         u.velocity = s.velocity, u.interval = s.interval
  PROVE  Counted(u) /\ Aged(u) /\ u.kept <= u.seen
<1>1. /\ step \in Nat /\ plan.steps \in Nat /\ MaxReuse \in Nat /\ Warmup \in Nat /\ EndGuard \in Nat
  BY Numbering, CacheParamsAssumption DEF ShapeOK
<1> QED BY <1>1 DEF Counted, Aged, Usable, None

LEMMA TeaReuses ==
  ASSUME ShapeOK, NEW s, DOMAIN s = StateFields, Counted(s), Aged(s), Usable(s),
         s.seen = step - 1, step < plan.steps, s.kept <= s.seen, NEW decision
  PROVE  LET u == TeaApply([s EXCEPT !.pending = decision], step) IN
         Counted(u) /\ Aged(u) /\ u.seen = step /\ u.kept <= u.seen /\ u.pending = NoDecision
<1> DEFINE u == TeaApply([s EXCEPT !.pending = decision], step)
<1>1. /\ u.seen = step /\ u.kept = s.kept /\ u.learned = s.learned /\ u.run = s.run + 1
      /\ u.computed = s.computed /\ u.reused = s.reused + 1 /\ u.pending = NoDecision
      /\ u.velocity = s.velocity /\ u.interval = s.interval
  BY DEF TeaApply, StateFields
<1> HIDE DEF u
<1> QED BY <1>1, Reuses DEF u

LEMMA DitCompletes ==
  ASSUME ShapeOK, NEW s, DOMAIN s = StateFields, Counted(s), Aged(s),
         s.seen = step - 1, step < plan.steps,
         IF s.pending.reuse THEN Usable(s) /\ s.kept <= s.seen ELSE s.kept = step
  PROVE  LET u == DitComplete(s, step) IN
         Counted(u) /\ Aged(u) /\ u.seen = step /\ u.kept <= u.seen /\ u.pending = NoDecision
<1> DEFINE u == DitComplete(s, step)
<1>1. /\ u.seen = step /\ u.kept = s.kept /\ u.learned = s.learned /\ u.pending = NoDecision
      /\ u.velocity = s.velocity /\ u.interval = s.interval
  BY DEF DitComplete, StateFields
<1>2. CASE s.pending.reuse
  <2>1. u.run = s.run + 1 /\ u.computed = s.computed /\ u.reused = s.reused + 1
    BY <1>2 DEF DitComplete, StateFields
  <2> HIDE DEF u
  <2> QED BY <1>1, <1>2, <2>1, Reuses DEF u
<1>3. CASE ~s.pending.reuse
  <2>1. u.run = 0 /\ u.computed = s.computed + 1 /\ u.reused = s.reused
    BY <1>3 DEF DitComplete, StateFields
  <2> HIDE DEF u
  <2>2. /\ step \in Nat /\ plan.steps \in Nat /\ MaxReuse \in Nat
    BY Numbering, CacheParamsAssumption DEF ShapeOK
  <2>3. Counted(u) /\ Aged(u) /\ u.kept <= u.seen
    BY <1>1, <1>3, <2>1, <2>2 DEF Counted, Aged, None
  <2> QED BY <1>1, <2>3 DEF u
<1> QED BY <1>2, <1>3

\* The rest of a forward: what the exchange that has returned does to the branch it is for.
LEMMA BranchAdvances ==
  ASSUME ShapeOK, OwnerOK, LocalOK, NEW d \in Devices, Continues(d)
  PROVE  LET b == BranchOf(d) u == cache'[d][b] op == thread'[d].op IN
         /\ Counted(u) /\ Aged(u)
         /\ Mine(d, b) => u.seen = IF op = "end" THEN step ELSE step - 1
         /\ ~Mine(d, b) => u.seen = None
         /\ plan.mode = "off" => op = "end"
         /\ op \notin {"middle", "back"} => u.pending = NoDecision
         /\ ~(op = "back" /\ ~u.pending.reuse) => u.kept <= u.seen
         /\ op = "middle" => u.pending.step = step /\ ~u.pending.reuse
         /\ op = "back" => /\ plan.mode = "cache_dit" /\ u.pending.step = step
                           /\ IF u.pending.reuse THEN Usable(u) ELSE u.kept = step
<1> DEFINE b == BranchOf(d)  s == cache[d][b]  op == thread[d].op  got == thread[d].got
           u == cache'[d][b]
<1>1. /\ thread[d].at = "result" /\ u = Advanced(op, s, step, got)
      /\ thread'[d].op = NextExchange(op, s, step, got)
  BY DEF Continues, Moves
<1>2. b \in Branches /\ DOMAIN s = StateFields /\ Active(d, b)
  BY <1>1, BranchExists DEF ShapeOK, Active
<1>3. owner # "closed" /\ step < plan.steps
  BY <1>1 DEF OwnerOK
<1>4. CountsOK(d, b) /\ AgeOK(d, b)
  BY <1>2, <1>3 DEF LocalOK
<1>5. step \in Nat /\ plan.steps \in Nat /\ plan.mode \in {"off", "teacache", "cache_dit"}
  BY Numbering, PlansAssumption DEF ShapeOK
<1>6. op \in Ops \ {"end"}
  BY <1>1 DEF ShapeOK
<1>7. Mine(d, b) <=> plan.mode # "off"
  BY DEF Mine
<1>8. /\ Counted(s) /\ Aged(s)
      /\ plan.mode # "off" => s.seen = step - 1
      /\ plan.mode = "off" => s.seen = None
      /\ op \notin {"middle", "back"} => s.pending = NoDecision
      /\ ~(op = "back" /\ ~s.pending.reuse) => s.kept <= s.seen
      /\ plan.mode = "off" => op = "front"
      /\ op = "middle" => plan.mode # "off" /\ s.pending.step = step /\ ~s.pending.reuse
      /\ op = "back" => /\ plan.mode = "cache_dit" /\ s.pending.step = step
                        /\ IF s.pending.reuse THEN Usable(s) ELSE s.kept = step
  BY <1>2, <1>4, <1>7 DEF CountsOK, AgeOK
<1> HIDE DEF b, s, u, op, got
<1>9. SUFFICES
         /\ Counted(u) /\ Aged(u)
         /\ plan.mode # "off" => u.seen = IF thread'[d].op = "end" THEN step ELSE step - 1
         /\ plan.mode = "off" => u.seen = None /\ thread'[d].op = "end"
         /\ thread'[d].op \notin {"middle", "back"} => u.pending = NoDecision
         /\ ~(thread'[d].op = "back" /\ ~u.pending.reuse) => u.kept <= u.seen
         /\ thread'[d].op = "middle" => u.pending.step = step /\ ~u.pending.reuse
         /\ thread'[d].op = "back" => /\ plan.mode = "cache_dit" /\ u.pending.step = step
                           /\ IF u.pending.reuse THEN Usable(u) ELSE u.kept = step
  BY <1>7 DEF b, u
<1>10. CASE op \in {"front", "context", "prepare", "regions", "metric"}
  <2>1. u = s
    BY <1>1, <1>10 DEF Advanced
  <2>2. plan.mode = "off" => thread'[d].op = "end"
    BY <1>1, <1>8 DEF NextExchange
  <2>3. plan.mode # "off" => thread'[d].op \notin {"middle", "back", "end"}
    BY <1>1, <1>10 DEF NextExchange, AfterPrepare
  <2> QED BY <1>8, <1>10, <2>1, <2>2, <2>3
<1>11. CASE op = "decision"
  <2> DEFINE D == Decided(s, step, got)
             w == [s EXCEPT !.pending = D]
  <2>1. plan.mode # "off" /\ s.pending = NoDecision /\ s.kept <= s.seen /\ s.seen = step - 1
    BY <1>8, <1>11
  <2>2. /\ w.pending = D /\ w.seen = s.seen /\ w.kept = s.kept /\ w.learned = s.learned /\ w.run = s.run
        /\ w.computed = s.computed /\ w.reused = s.reused
        /\ w.velocity = s.velocity /\ w.interval = s.interval
    BY <1>2, <1>3 DEF StateFields, s, b
  <2>3. D.step = step
    BY DecidedStep
  <2>4. D.reuse => Usable(s)
    <3> SUFFICES ASSUME D.reuse PROVE Usable(s)
      OBVIOUS
    <3> HIDE DEF D
    <3>1. step \in Int
      BY <1>5
    <3>2. /\ ~(step < Warmup) /\ ~(step >= plan.steps - EndGuard)
          /\ s.kept # None /\ ~(s.run >= MaxReuse)
      BY <2>1, <3>1, Deciding DEF D
    <3> QED BY <1>5, <1>8, <3>2, CacheParamsAssumption DEF Usable, Counted
  <2>5. CASE ~D.reuse
    <3>1. u = w /\ thread'[d].op = "middle"
      BY <1>1, <1>11, <2>2, <2>5 DEF Advanced, NextExchange
    <3> HIDE DEF w, D
    <3> QED BY <1>8, <2>1, <2>2, <2>3, <2>5, <3>1 DEF Counted, Aged
  <2>6. CASE D.reuse /\ plan.mode = "teacache"
    <3>1. u = TeaApply(w, step) /\ thread'[d].op = "end"
      BY <1>1, <1>11, <2>2, <2>6 DEF Advanced, NextExchange
    <3>2. DOMAIN s = StateFields
      BY <1>2 DEF s, b
    <3>3. Counted(u) /\ Aged(u) /\ u.seen = step /\ u.kept <= u.seen /\ u.pending = NoDecision
      BY <1>3, <1>8, <2>1, <2>4, <2>6, <3>1, <3>2, TeaReuses
    <3> QED BY <2>1, <3>1, <3>3
  <2>7. CASE D.reuse /\ plan.mode = "cache_dit"
    <3>1. u = w /\ thread'[d].op = "back"
      BY <1>1, <1>11, <2>2, <2>7 DEF Advanced, NextExchange
    <3>2. Usable(s)
      BY <2>4, <2>7
    <3> HIDE DEF w, D
    <3> QED BY <1>8, <2>1, <2>2, <2>3, <2>7, <3>1, <3>2 DEF Counted, Aged, Usable
  <2> QED BY <1>5, <2>1, <2>5, <2>6, <2>7
<1>12. CASE op = "middle" /\ plan.mode = "teacache"
  <2>1. u = TeaRecord(s, step) /\ thread'[d].op = "end"
    BY <1>1, <1>12 DEF Advanced, NextExchange
  <2>2. DOMAIN s = StateFields
    BY <1>2 DEF s, b
  <2>3. Counted(u) /\ Aged(u) /\ u.seen = step /\ u.kept <= u.seen /\ u.pending = NoDecision
    BY <1>3, <1>8, <1>12, <2>1, <2>2, TeaRecords
  <2> QED BY <1>12, <2>1, <2>3
<1>13. CASE op = "middle" /\ plan.mode = "cache_dit"
  <2>1. u = DitRecord(s, step) /\ thread'[d].op = "back"
    BY <1>1, <1>13 DEF Advanced, NextExchange
  <2>2. DOMAIN s = StateFields
    BY <1>2 DEF s, b
  <2>3. /\ Counted(u) /\ Aged(u) /\ u.seen = s.seen /\ u.kept = step /\ u.pending = s.pending
    BY <1>3, <1>8, <1>13, <2>1, <2>2, DitRecords
  <2> QED BY <1>8, <1>13, <2>1, <2>3
<1>14. CASE op = "back"
  <2>1. u = DitComplete(s, step) /\ thread'[d].op = "end"
    BY <1>1, <1>14 DEF Advanced, NextExchange
  <2>2. DOMAIN s = StateFields
    BY <1>2 DEF s, b
  <2>3. plan.mode = "cache_dit" /\ s.seen = step - 1 
        /\ IF s.pending.reuse THEN Usable(s) /\ s.kept <= s.seen ELSE s.kept = step
    BY <1>8, <1>14
  <2>4. Counted(u) /\ Aged(u) /\ u.seen = step /\ u.kept <= u.seen /\ u.pending = NoDecision
    BY <1>3, <1>8, <2>1, <2>2, <2>3, DitCompletes
  <2> QED BY <2>1, <2>3, <2>4
<1> QED BY <1>5, <1>6, <1>8, <1>10, <1>11, <1>12, <1>13, <1>14 DEF Ops

\* Every branch of every device: a step of a thread ...
LEMMA ThreadKeepsLocal ==
  ASSUME ShapeOK, OwnerOK, LocalOK, NEW d \in Devices, AnyStep(d)
  PROVE  LocalOK'
<1>1. /\ UNCHANGED <<plan, owner, step, branch>> /\ thread[d].at # "idle"
      /\ \A e \in Devices \ {d} : thread'[e] = thread[e] /\ cache'[e] = cache[e]
      /\ \A b \in Branches \ {BranchOf(d)} : cache'[d][b] = cache[d][b]
  BY ThreadFrame
<1>2. /\ Devices' = Devices /\ \A e : Submitted(e)' = Submitted(e) /\ BranchOf(e)' = BranchOf(e)
      /\ \A e, b : Mine(e, b)' = Mine(e, b)
  BY <1>1, PlanFixed, BranchesFixed
<1>3. ASSUME NEW e \in Devices, NEW b \in Branches, cache'[e][b] = cache[e][b],
             thread'[e].at = "idle" <=> thread[e].at = "idle",
             Active(e, b) => thread'[e].op = thread[e].op
      PROVE  CountsOK(e, b)' /\ (owner' # "closed" => AgeOK(e, b)')
  <2>1. Active(e, b)' <=> Active(e, b)
    BY <1>2, <1>3 DEF Active
  <2>2. Finished(e, b)' <=> Finished(e, b)
    BY <1>1, <1>2, <1>3 DEF Finished
  <2>3. CountsOK(e, b) /\ (owner # "closed" => AgeOK(e, b))
    BY DEF LocalOK
  <2>4. CountsOK(e, b)'
    BY <1>1, <1>2, <1>3, <2>1, <2>2, <2>3 DEF CountsOK, Counted
  <2>5. owner' # "closed" => AgeOK(e, b)'
    BY <1>1, <1>3, <2>1, <2>3 DEF AgeOK, Aged, Usable
  <2> QED BY <2>4, <2>5
<1>4. ASSUME NEW e \in Devices \ {d}, NEW b \in Branches
      PROVE  CountsOK(e, b)' /\ (owner' # "closed" => AgeOK(e, b)')
  BY <1>1, <1>3
<1>5. ASSUME NEW b \in Branches, ~Continues(d)
      PROVE  CountsOK(d, b)' /\ (owner' # "closed" => AgeOK(d, b)')
  <2>1. ASSUME NEW from \in Ats \ {"idle"}, NEW to \in Ats \ {"idle"},
               Enters(d, from, to) \/ Fills(d, from, to) \/ Drains(d, from, to)
        PROVE  cache' = cache /\ thread'[d].op = thread[d].op /\ thread'[d].at # "idle"
    BY <2>1, BarrierShape DEF Moves, SameCall
  <2>2. cache' = cache /\ thread'[d].op = thread[d].op /\ thread'[d].at # "idle"
    <3>1. CASE Posts(d) \/ Reads(d) \/ Raises(d) \/ Notes(d)
      BY <3>1 DEF Posts, Reads, Raises, Notes, Moves, SameCall
    <3>2. CASE Passes(d, "posted", "reading") \/ Passes(d, "read", "result")
      BY <3>2 DEF Passes, Moves, SameCall
    <3> QED BY <1>5, <2>1, <3>1, <3>2 DEF AnyStep, Ats
  <2> QED BY <1>1, <1>3, <2>2
<1>6. ASSUME NEW b \in Branches, Continues(d)
      PROVE  CountsOK(d, b)' /\ (owner' # "closed" => AgeOK(d, b)')
  <2>1. thread'[d].at \in {"idle", "local"} /\ (thread'[d].at = "idle" <=> thread'[d].op = "end")
    BY <1>6 DEF Continues, Moves
  <2>2. CASE b # BranchOf(d)
    <3>1. cache'[d][b] = cache[d][b]
      BY <1>1, <2>2
    <3>2. CountsOK(d, b) /\ (owner # "closed" => AgeOK(d, b))
      BY DEF LocalOK
    <3>3. ~Active(d, b)' /\ ~Active(d, b) /\ (Finished(d, b)' <=> Finished(d, b))
      BY <1>1, <1>2, <2>2 DEF Active, Finished
    <3>4. CountsOK(d, b)'
      BY <1>1, <1>2, <3>1, <3>2, <3>3 DEF CountsOK, Counted
    <3>5. owner' # "closed" => AgeOK(d, b)'
      BY <1>1, <3>1, <3>2, <3>3 DEF AgeOK, Aged
    <3> QED BY <3>4, <3>5
  <2>3. CASE b = BranchOf(d)
    <3> DEFINE u == cache'[d][b] op == thread'[d].op
    <3>1. /\ Counted(u) /\ Aged(u)
          /\ Mine(d, b) => u.seen = IF op = "end" THEN step ELSE step - 1
          /\ ~Mine(d, b) => u.seen = None
          /\ plan.mode = "off" => op = "end"
          /\ op \notin {"middle", "back"} => u.pending = NoDecision
          /\ ~(op = "back" /\ ~u.pending.reuse) => u.kept <= u.seen
          /\ op = "middle" => u.pending.step = step /\ ~u.pending.reuse
          /\ op = "back" => /\ plan.mode = "cache_dit" /\ u.pending.step = step
                            /\ IF u.pending.reuse THEN Usable(u) ELSE u.kept = step
      BY <1>6, <2>3, BranchAdvances
    <3>2. /\ Submitted(d) /\ owner \in {"collecting", "leaving", "joining"} /\ step \in Nat
          /\ ~(plan.cfg = 1 /\ branch = "positive" /\ b = "negative")
          /\ ~(branch = "positive" /\ b = "negative")
      <4>1. Submitted(d) /\ owner \in {"collecting", "leaving", "joining"}
        BY <1>1 DEF OwnerOK
      <4>2. step \in Nat
        BY Numbering DEF ShapeOK
      <4>3. ~(branch = "positive" /\ b = "negative")
        BY <2>3, <4>1, <4>2, Numbering DEF Submitted, BranchOf, OwnerOK, ShapeOK
      <4> QED BY <4>1, <4>2, <4>3
    <3>3. Active(d, b)' <=> op # "end"
      BY <1>2, <2>1, <2>3 DEF Active
    <3>4. owner = "collecting" => (Finished(d, b)' <=> op = "end")
      BY <1>1, <1>2, <2>1, <2>3, <3>2 DEF Finished
    <3> HIDE DEF u, op
    <3>5. CountsOK(d, b)'
      BY <1>1, <1>2, <3>1, <3>2, <3>3, <3>4 DEF CountsOK, Counted, u
    <3>6. AgeOK(d, b)'
      BY <1>1, <3>1, <3>3 DEF AgeOK, Aged, Usable, u, op
    <3> QED BY <3>5, <3>6
  <2> QED BY <2>2, <2>3
<1> QED BY <1>2, <1>4, <1>5, <1>6 DEF LocalOK

\* ... and a step of the owner.
LEMMA OwnerKeepsLocal ==
  ASSUME ShapeOK, OwnerOK, LocalOK, OwnerStep \/ Cancel
  PROVE  LocalOK'
<1>1. plan' = plan
  BY DEF OwnerStep, Cancel, EnterWindow, Submit, CollectFailure, CollectResults, FinishWindow, AbortGroups, CloseWindow
<1>2. /\ Devices' = Devices /\ plan.steps \in Nat /\ plan.sp \in Nat /\ plan.sp >= 1
      /\ plan.cfg \in {1, 2} /\ step \in Nat
  BY <1>1, PlanFixed, Numbering DEF ShapeOK
<1>3. \A d \in Devices : \A b \in Branches : CountsOK(d, b) /\ (owner # "closed" => AgeOK(d, b))
  BY DEF LocalOK
<1>4. \A d : BranchOf(d) \in Branches
  BY BranchExists
<1>5. ASSUME UNCHANGED <<step, branch, thread, cache>>,
             owner' \in {"leaving", "joining"}, owner # "closed"
      PROVE  LocalOK'
  <2>1. /\ \A e : BranchOf(e)' = BranchOf(e)
        /\ \A e, b : Mine(e, b)' = Mine(e, b)
    BY <1>1, <1>5, BranchesFixed
  <2>2. ASSUME NEW d \in Devices, NEW b \in Branches PROVE CountsOK(d, b)' /\ AgeOK(d, b)'
    <3>1. Active(d, b)' <=> Active(d, b)
      BY <1>5, <2>1 DEF Active
    <3>2. CountsOK(d, b) /\ AgeOK(d, b)
      BY <1>3, <1>5
    <3>3. CountsOK(d, b)'
      BY <1>1, <1>5, <2>1, <3>1, <3>2 DEF CountsOK, Counted
    <3>4. AgeOK(d, b)'
      BY <1>1, <1>5, <3>1, <3>2 DEF AgeOK, Aged, Usable
    <3> QED BY <3>3, <3>4
  <2> QED BY <1>2, <2>2 DEF LocalOK
<1>6. CASE CollectFailure \/ FinishWindow \/ Cancel \/ AbortGroups
  BY <1>5, <1>6 DEF CollectFailure, FinishWindow, Cancel, AbortGroups
<1>7. CASE EnterWindow
  <2>1. /\ UNCHANGED <<step, branch, thread, cache>> /\ owner = "entering"
        /\ owner' \in {"stepping", "leaving"}
    BY <1>7 DEF EnterWindow
  <2>2. /\ \A e : BranchOf(e)' = BranchOf(e)
        /\ \A e, b : Mine(e, b)' = Mine(e, b)
    BY <1>1, <2>1, BranchesFixed
  <2>3. ASSUME NEW d \in Devices, NEW b \in Branches PROVE CountsOK(d, b)' /\ AgeOK(d, b)'
    <3>1. Active(d, b)' <=> Active(d, b)
      BY <2>1, <2>2 DEF Active
    <3>2. CountsOK(d, b) /\ AgeOK(d, b)
      BY <1>3, <2>1
    <3>3. Finished(d, b)' <=> Finished(d, b)
      BY <2>1 DEF Finished
    <3>4. CountsOK(d, b)'
      BY <1>1, <2>1, <2>2, <3>1, <3>2, <3>3 DEF CountsOK, Counted
    <3>5. AgeOK(d, b)'
      BY <1>1, <2>1, <3>1, <3>2 DEF AgeOK, Aged, Usable
    <3> QED BY <3>4, <3>5
  <2> QED BY <1>2, <2>3 DEF LocalOK
<1>8. CASE Submit
  <2>1. /\ UNCHANGED <<plan, step, branch, cache>> /\ owner = "stepping" /\ owner' = "collecting"
        /\ \A d \in Devices : thread[d].at = "idle"
        /\ thread' = [d \in Devices |-> IF Submitted(d) THEN Started ELSE IdleThread]
    BY <1>8 DEF Submit, OwnerOK
  <2>2. /\ \A e : Submitted(e)' = Submitted(e) /\ BranchOf(e)' = BranchOf(e)
        /\ \A e, b : Mine(e, b)' = Mine(e, b)
    BY <2>1, BranchesFixed
  <2>3. ASSUME NEW d \in Devices, NEW b \in Branches PROVE CountsOK(d, b)' /\ AgeOK(d, b)'
    <3>1. CountsOK(d, b) /\ AgeOK(d, b) /\ ~Active(d, b)
      BY <1>3, <2>1 DEF Active
    <3>2. thread'[d] = IF Submitted(d) THEN Started ELSE IdleThread
      BY <2>1
    <3>3. /\ thread'[d].at # "idle" <=> Submitted(d)
          /\ thread'[d].op \notin {"middle", "back"} \/ ~Submitted(d)
          /\ (plan.mode = "off" /\ Submitted(d)) => thread'[d].op = "front"
      BY <3>2 DEF Started, IdleThread, FirstExchange
    <3>4. Finished(d, b)' <=> Finished(d, b)
      <4>1. ~(owner = "collecting")
        BY <2>1
      <4> QED BY <2>1, <2>2, <3>3, <4>1 DEF Finished
    <3>5. Submitted(d) /\ b = BranchOf(d) => ~(branch = "positive" /\ b = "negative")
      BY <1>2 DEF Submitted, BranchOf, OwnerOK
    <3>6. CountsOK(d, b)'
      <4>1. Active(d, b)' => Submitted(d) /\ b = BranchOf(d)
        BY <2>2, <3>3 DEF Active
      <4>2. Active(d, b)' => ~Finished(d, b)
        BY <2>1, <3>5, <4>1 DEF Finished
      <4> QED BY <2>1, <2>2, <3>1, <3>4, <4>2 DEF CountsOK, Counted
    <3>7. AgeOK(d, b)'
      <4>1. Active(d, b)' => Submitted(d)
        BY <2>2, <3>3 DEF Active
      <4> QED BY <2>1, <3>1, <3>3, <4>1 DEF AgeOK, Aged
    <3> QED BY <3>6, <3>7
  <2> QED BY <1>2, <2>3 DEF LocalOK
<1>9. CASE CollectResults
  <2>1. /\ UNCHANGED <<plan, cache, thread>> /\ owner = "collecting" /\ owner' = "stepping"
        /\ \A d \in Devices : thread[d].at = "idle"
        /\ step < plan.steps
    BY <1>9 DEF CollectResults, OwnerOK
  <2>2. \/ step' = step /\ branch' = "positive" /\ branch = "negative" /\ ~BranchesSubmittedTogether
        \/ step' = step + 1 /\ branch' = "negative" /\ (branch = "positive" \/ BranchesSubmittedTogether)
    BY <1>9 DEF CollectResults, ShapeOK, Branches
  <2>3. ASSUME NEW d \in Devices, NEW b \in Branches PROVE CountsOK(d, b)' /\ AgeOK(d, b)'
    <3> DEFINE s == cache[d][b]
    <3>1. CountsOK(d, b) /\ AgeOK(d, b) /\ ~Active(d, b) /\ ~Active(d, b)'
      BY <1>3, <2>1 DEF Active
    <3>2. /\ plan.mode \in {"off", "teacache", "cache_dit"} /\ b \in {"negative", "positive"}
          /\ branch \in {"negative", "positive"}
      BY PlansAssumption DEF ShapeOK, Branches
    <3>3. Mine(d, b)' <=> Mine(d, b)
      BY <2>1 DEF Mine, BranchOf, GroupOf
    <3>4. Finished(d, b) <=>
            \/ branch = "positive" /\ b = "negative"
            \/ Submitted(d) /\ b = BranchOf(d)
      BY <2>1 DEF Finished
    <3>5. Finished(d, b)' <=> branch' = "positive" /\ b = "negative"
      BY <2>1 DEF Finished
    <3>6. Mine(d, b) => s.seen \in {step - 1, step} /\ (s.seen = step <=> Finished(d, b))
      BY <2>1, <3>1 DEF CountsOK
    <3>7. Mine(d, b) => s.seen \in {step' - 1, step'} /\ (s.seen = step' <=> Finished(d, b)')
      <4> SUFFICES ASSUME Mine(d, b) PROVE s.seen \in {step' - 1, step'} /\ (s.seen = step' <=> Finished(d, b)')
        OBVIOUS
      <4>1. plan.cfg = 2 => b = BranchOf(d)
        BY DEF Mine
      <4>2. CASE step' = step /\ branch' = "positive" /\ branch = "negative" /\ ~BranchesSubmittedTogether
        <5>1. Finished(d, b) <=> b = "negative"
          <6>1. CASE plan.cfg = 1
            BY <3>2, <3>4, <4>2, <6>1 DEF Submitted, BranchOf
          <6>2. CASE plan.cfg = 2
            BY <1>2, <3>2, <3>4, <4>1, <4>2, <6>2 DEF Submitted, BranchesSubmittedTogether
          <6> QED BY <1>2, <6>1, <6>2
        <5> QED BY <1>2, <3>2, <3>5, <3>6, <4>2, <5>1
      <4>3. CASE step' = step + 1 /\ branch' = "negative" /\ (branch = "positive" \/ BranchesSubmittedTogether)
        <5>1. Finished(d, b)
          <6>1. CASE plan.cfg = 1
            BY <3>2, <3>4, <4>3, <6>1 DEF Submitted, BranchOf, BranchesSubmittedTogether
          <6>2. CASE plan.cfg = 2
            BY <1>2, <3>2, <3>4, <4>1, <4>3, <6>2 DEF Submitted, BranchesSubmittedTogether
          <6> QED BY <1>2, <6>1, <6>2
        <5> QED BY <1>2, <3>5, <3>6, <4>3, <5>1
      <4> QED BY <2>2, <4>2, <4>3
    <3>8. CountsOK(d, b)'
      BY <2>1, <3>1, <3>3, <3>7 DEF CountsOK, Counted
    <3>9. AgeOK(d, b)'
      BY <2>1, <3>1 DEF AgeOK, Aged
    <3> QED BY <3>8, <3>9
  <2> QED BY <1>2, <2>3 DEF LocalOK
<1>10. CASE CloseWindow
  <2>1. /\ UNCHANGED <<plan, step, branch>> /\ owner = "joining" /\ owner' = "closed"
        /\ thread' = [d \in Devices |-> IdleThread]
        /\ cache' = [d \in Devices |-> [b \in Branches |->
             [cache[d][b] EXCEPT !.probe = None, !.kept = None, !.pending = NoDecision, !.velocity = FALSE]]]
    BY <1>10 DEF CloseWindow
  <2>2. \A e, b : Mine(e, b)' = Mine(e, b)
    BY <2>1, BranchesFixed
  <2>3. ASSUME NEW d \in Devices, NEW b \in Branches PROVE CountsOK(d, b)'
    <3>1. CountsOK(d, b) /\ DOMAIN cache[d][b] = StateFields
      BY <1>3 DEF ShapeOK
    <3>2. /\ cache'[d][b].run = cache[d][b].run /\ cache'[d][b].computed = cache[d][b].computed
          /\ cache'[d][b].reused = cache[d][b].reused /\ cache'[d][b].seen = cache[d][b].seen
      BY <2>1, <3>1 DEF StateFields
    <3>3. ~Active(d, b)'
      BY <2>1 DEF Active, IdleThread
    <3> QED BY <2>1, <2>2, <3>1, <3>2, <3>3 DEF CountsOK, Counted
  <2> QED BY <1>2, <2>1, <2>3 DEF LocalOK
<1> QED BY <1>6, <1>7, <1>8, <1>9, <1>10 DEF OwnerStep

\* Every device's own caches are counted and young, whatever its peers do.
LEMMA LocalInvariant == Spec => []LocalOK
<1>1. Init => LocalOK
  <2> SUFFICES ASSUME Init, NEW d \in Devices, NEW b \in Branches
               PROVE  CountsOK(d, b) /\ AgeOK(d, b)
    BY DEF LocalOK
  <2>1. /\ cache[d][b] = NewBranchState /\ ~Active(d, b) /\ ~Finished(d, b)
        /\ step = 0 /\ owner = "entering"
        /\ plan.steps \in Nat /\ plan.steps >= 1 /\ MaxReuse \in Nat
    BY Numbering, CacheParamsAssumption DEF Init, Active, Finished, IdleThread
  <2>2. CountsOK(d, b)
    BY <2>1 DEF CountsOK, Counted, NewBranchState, None
  <2>3. AgeOK(d, b)
    BY <2>1 DEF AgeOK, Aged, NewBranchState, None
  <2> QED BY <2>2, <2>3
<1>2. ShapeOK /\ OwnerOK /\ LocalOK /\ [Next]_meshVars => LocalOK'
  <2> SUFFICES ASSUME ShapeOK, OwnerOK, LocalOK, [Next]_meshVars PROVE LocalOK'
    OBVIOUS
  <2>1. CASE OwnerStep \/ Cancel
    BY <2>1, OwnerKeepsLocal
  <2>2. ASSUME NEW d \in Devices, DeviceStep(d) \/ Fail(d) \/ TimeOut(d)
        PROVE  LocalOK'
    BY <2>2, StepKinds, ThreadKeepsLocal
  <2>3. CASE UNCHANGED meshVars
    <3>1. UNCHANGED <<plan, owner, step, branch, thread, cache>>
      BY <2>3 DEF meshVars
    <3>2. /\ Devices' = Devices /\ \A d : Submitted(d)' = Submitted(d) /\ BranchOf(d)' = BranchOf(d)
          /\ \A e, b : Mine(e, b)' = Mine(e, b)
      BY <3>1, PlanFixed, BranchesFixed
    <3>3. \A d, b : (Active(d, b)' <=> Active(d, b)) /\ (Finished(d, b)' <=> Finished(d, b))
      BY <3>1, <3>2 DEF Active, Finished
    <3>4. \A d \in Devices : \A b \in Branches : CountsOK(d, b) => CountsOK(d, b)'
      BY <3>1, <3>2, <3>3 DEF CountsOK, Counted
    <3>5. \A d \in Devices : \A b \in Branches : AgeOK(d, b) => AgeOK(d, b)'
      BY <3>1, <3>3 DEF AgeOK, Aged, Usable
    <3> QED BY <3>1, <3>2, <3>4, <3>5 DEF LocalOK
  <2> QED BY <2>1, <2>2, <2>3 DEF Next
<1> QED BY <1>1, <1>2, ShapeInvariant, PTL DEF Spec

-----------------------------------------------------------------------------
(***************************************************************************)
(* Two devices of a group: the same exchange with the same cache, or one   *)
(* of them an exchange ahead with what the other will have.                *)
(***************************************************************************)

\* What an exchange does and what follows it are functions of the plan.
LEMMA RulesFixed ==
  ASSUME plan' = plan
  PROVE  /\ \A op, s, n, got : Advanced(op, s, n, got)' = Advanced(op, s, n, got)
         /\ \A op, s, n, got : NextExchange(op, s, n, got)' = NextExchange(op, s, n, got)
         /\ \A s, n, got : Decided(s, n, got)' = Decided(s, n, got)
<1>1. \A s, n : TeaForced(s, n)' = TeaForced(s, n) /\ DitForced(s, n)' = DitForced(s, n)
  <2>1. DitWarmup' = DitWarmup
    BY DEF DitWarmup
  <2>2. \A s, n : NotReusable(s, n)' = NotReusable(s, n)
    BY DEF NotReusable
  <2> QED BY <2>1, <2>2 DEF TeaForced, DitForced
<1>2. \A s, n, got : Decided(s, n, got)' = Decided(s, n, got)
  <2> SUFFICES ASSUME NEW s, NEW n, NEW got PROVE Decided(s, n, got)' = Decided(s, n, got)
    OBVIOUS
  <2>1. TeaForced(s, n)' = TeaForced(s, n) /\ DitForced(s, n)' = DitForced(s, n)
    BY <1>1
  <2>2. \A m, r : Compared(m, r)' = Compared(m, r)
    BY DEF Compared
  <2>3. TeaDecision(s, n, got)' = TeaDecision(s, n, got)
    BY <2>1, <2>2 DEF TeaDecision
  <2>4. DitDecision(s, n, got)' = DitDecision(s, n, got)
    BY <2>1, <2>2 DEF DitDecision
  <2> QED BY <2>3, <2>4 DEF Decided
<1>3. \A op, s, n, got : Advanced(op, s, n, got)' = Advanced(op, s, n, got)
  <2>1. \A s, n : /\ TeaApply(s, n)' = TeaApply(s, n) /\ TeaRecord(s, n)' = TeaRecord(s, n)
                  /\ DitRecord(s, n)' = DitRecord(s, n) /\ DitComplete(s, n)' = DitComplete(s, n)
    BY DEF TeaApply, TeaRecord, DitRecord, DitComplete, Learn
  <2> SUFFICES ASSUME NEW op, NEW s, NEW n, NEW got
               PROVE  Advanced(op, s, n, got)' = Advanced(op, s, n, got)
    OBVIOUS
  <2>2. PICK D : D = Decided(s, n, got)
    OBVIOUS
  <2>3. Decided(s, n, got)' = D
    BY <1>2, <2>2
  <2> QED BY <2>1, <2>2, <2>3 DEF Advanced
<1>4. \A s, n : AfterPrepare(s, n)' = AfterPrepare(s, n)
  BY <1>1 DEF AfterPrepare, Forced
<1>5. \A op, s, n, got : NextExchange(op, s, n, got)' = NextExchange(op, s, n, got)
  BY <1>2, <1>4 DEF NextExchange
<1> QED BY <1>2, <1>3, <1>5

\* A device that does not move keeps its place in the protocol.
LEMMA StaysPut ==
  ASSUME UNCHANGED <<plan, step, branch>>, NEW y, thread'[y] = thread[y], cache'[y] = cache[y]
  PROVE  State(y)' = State(y) /\ After(y)' = After(y) /\ Following(y)' = Following(y)
<1>1. BranchOf(y)' = BranchOf(y)
  BY BranchesFixed
<1>2. State(y)' = State(y)
  BY <1>1 DEF State
<1>3. After(y)' = Advanced(thread[y].op, State(y), step, thread[y].got)'
  BY DEF After
<1>4. Following(y)' = NextExchange(thread[y].op, State(y), step, thread[y].got)'
  BY DEF Following
<1> DEFINE op == thread[y].op  s == State(y)  got == thread[y].got
<1>5. PICK c, t, m, r : c = op /\ t = s /\ m = step /\ r = got
  OBVIOUS
<1>6. c = op' /\ t = s' /\ m = step' /\ r = got'
  BY <1>2, <1>5
<1>7. After(y)' = Advanced(c, t, m, r)' /\ Following(y)' = NextExchange(c, t, m, r)'
  BY <1>6 DEF After, Following
<1>8. After(y) = Advanced(c, t, m, r) /\ Following(y) = NextExchange(c, t, m, r)
  BY <1>5 DEF After, Following
<1> QED BY <1>2, <1>7, <1>8, RulesFixed

\* A reader's total is its group's: the same for its peers, and unchanged while nobody posts.
LEMMA SameTotal ==
  ASSUME ShapeOK, NEW x \in Devices, NEW y \in Peers(x)
  PROVE  Reduced(x) = Reduced(y) /\ Peers(x) = Peers(y)
<1>1. Peers(x) = Peers(y)
  BY Groupings DEF Peers, Members
<1> QED BY <1>1 DEF Reduced

LEMMA TotalStays ==
  ASSUME ShapeOK, plan' = plan, NEW y \in Devices, \A e \in Peers(y) : slots'[e] = slots[e]
  PROVE  Reduced(y)' = Reduced(y)
<1>1. Peers(y)' = Peers(y)
  BY PlanFixed
<1>2. [e \in Peers(y) |-> slots[e].share]' = [e \in Peers(y) |-> slots[e].share]
  BY <1>1
<1>3. Reduced(y)' = SumFunction([e \in Peers(y) |-> slots[e].share]')
  BY DEF Reduced
<1> QED BY <1>2, <1>3 DEF Reduced

\* Between two completed steps a branch state is recognisable: an exchange either leaves
\* it alone, or completes the step, or leaves a decision pending.
LEMMA AdvanceShows ==
  ASSUME ShapeOK, OwnerOK, LocalOK, owner # "closed", NEW d \in Devices, thread[d].at # "idle"
  PROVE  Alike(State(d), After(d)) /\ Alike(After(d), State(d))
<1> DEFINE s == State(d) op == thread[d].op got == thread[d].got
<1>1. /\ BranchOf(d) \in Branches /\ Active(d, BranchOf(d)) /\ s = cache[d][BranchOf(d)]
      /\ DOMAIN s = StateFields
  BY BranchExists DEF Active, State, ShapeOK
<1>2. CountsOK(d, BranchOf(d)) /\ AgeOK(d, BranchOf(d))
  BY <1>1 DEF LocalOK
<1>3. step \in Nat /\ plan.mode \in {"off", "teacache", "cache_dit"}
  BY Numbering, PlansAssumption DEF ShapeOK
<1>4. /\ plan.mode # "off" => s.seen = step - 1
      /\ plan.mode = "off" => op = "front"
      /\ op \in {"middle", "back"} => s.pending.step = step
  BY <1>1, <1>2 DEF CountsOK, AgeOK, Mine
<1>5. NoDecision.step # step
  BY <1>3 DEF NoDecision, None
<1>6. After(d) = Advanced(op, s, step, got)
  BY DEF After
<1> HIDE DEF s, op, got
<1>7. CASE op \notin {"decision", "middle", "back"}
  BY <1>6, <1>7 DEF Alike, Advanced, s
<1>8. CASE op \in {"middle", "back"}
  BY <1>4, <1>5, <1>8 DEF Alike, s
<1>9. CASE op = "decision"
  <2> DEFINE D == Decided(s, step, got)  w == [s EXCEPT !.pending = D]
  <2>1. w.pending = D /\ D.step = step /\ plan.mode # "off"
    BY <1>1, <1>4, <1>9, DecidedStep DEF StateFields
  <2>2. CASE plan.mode = "teacache" /\ D.reuse
    <3>1. After(d) = TeaApply(w, step)
      BY <1>6, <1>9, <2>1, <2>2 DEF Advanced
    <3>2. DOMAIN w = StateFields
      BY <1>1
    <3>3. After(d).seen = step
      BY <3>1, <3>2 DEF TeaApply, StateFields
    <3> QED BY <1>3, <1>4, <2>1, <3>3 DEF Alike, s
  <2>3. CASE ~(plan.mode = "teacache" /\ D.reuse)
    <3>1. After(d) = w
      BY <1>6, <1>9, <2>1, <2>3 DEF Advanced
    <3>2. After(d).pending # NoDecision
      BY <1>5, <2>1, <3>1
    <3> QED BY <3>2 DEF Alike
  <2> QED BY <2>2, <2>3
<1> QED BY <1>7, <1>8, <1>9

\* Peers in step or one exchange apart never hold different completed states.
LEMMA PeersAlike ==
  ASSUME ShapeOK, OwnerOK, LocalOK, PhasesOK, owner # "closed",
         NEW x \in Devices, NEW y \in Peers(x) \ {x}, InSync(x, y), InSync(y, x)
  PROVE  Alike(State(x), State(y))
<1>1. y \in Devices /\ x \in Peers(y) \ {y}
  BY Groupings DEF Peers, Members
<1>2. /\ thread[x].at \in Ats /\ thread[y].at \in Ats
      /\ Stages(thread[x].at, thread[y].at, barrier[GroupOf(x)].state)
      /\ Stages(thread[y].at, thread[x].at, barrier[GroupOf(y)].state)
  BY <1>1 DEF ShapeOK, PhasesOK, InStep
<1>3. /\ thread[x].at # "idle" => Alike(After(x), State(x))
      /\ thread[y].at # "idle" => Alike(State(y), After(y))
  BY <1>1, AdvanceShows
<1>4. CASE (Before(x) /\ Before(y)) \/ (HasRead(x) /\ HasRead(y))
  BY <1>4 DEF InSync, Level, Same, Alike
<1>5. CASE Before(x) /\ HasRead(y)
  <2>1. State(x) = State(y) \/ State(x) = After(y)
    BY <1>2, <1>5 DEF InSync, ReadsFirst, OneAhead, Same, Stages, Before, HasRead
  <2> QED BY <1>3, <1>5, <2>1 DEF Alike, HasRead
<1>6. CASE HasRead(x) /\ Before(y)
  <2>1. State(y) = State(x) \/ State(y) = After(x)
    BY <1>2, <1>6 DEF InSync, ReadsFirst, OneAhead, Same, Stages, Before, HasRead
  <2> QED BY <1>3, <1>6, <2>1 DEF Alike, HasRead
<1>7. CASE thread[x].at = "raised"
  <2>1. CASE thread[y].at = "result"
    <3>1. State(x) = State(y) \/ State(x) = After(y)
      BY <1>7, <2>1 DEF InSync
    <3> QED BY <1>3, <2>1, <3>1 DEF Alike
  <2>2. CASE thread[y].at # "result"
    BY <1>7, <2>2 DEF InSync
  <2> QED BY <2>1, <2>2
<1>8. CASE thread[y].at = "raised"
  <2>1. CASE thread[x].at = "result"
    <3>1. State(y) = State(x) \/ State(y) = After(x)
      BY <1>8, <2>1 DEF InSync
    <3> QED BY <1>3, <2>1, <3>1 DEF Alike
  <2>2. CASE thread[x].at # "result"
    BY <1>8, <2>2 DEF InSync, Alike
  <2> QED BY <2>1, <2>2
<1> QED BY <1>2, <1>4, <1>5, <1>6, <1>7, <1>8 DEF Before, HasRead, Ats

\* A step of one device keeps it in step with each of its peers.
LEMMA StepKeepsPair ==
  ASSUME ShapeOK, OwnerOK, BarrierOK, PhasesOK, LocalOK, owner # "closed",
         NEW x \in Devices, AnyStep(x),
         NEW y \in Peers(x) \ {x}, InSync(x, y), InSync(y, x)
  PROVE  InSync(x, y)' /\ InSync(y, x)'
<1> DEFINE ax == thread[x].at  ay == thread[y].at  state == barrier[GroupOf(x)].state
<1>1. /\ y \in Devices /\ x \in Peers(y) \ {y} /\ GroupOf(y) = GroupOf(x)
      /\ Reduced(x) = Reduced(y)
  BY Groupings, SameTotal DEF Peers, Members
<1>2. /\ ax \in Ats /\ ay \in Ats
      /\ Stages(ax, ay, state) /\ Stages(ay, ax, state)
      /\ state \in {"filling", "draining", "broken"}
      /\ GroupOf(x) \in Groups
      /\ state # "broken" => ax # "raised" /\ ay # "raised"
  BY <1>1, Groupings DEF ShapeOK, PhasesOK, InStep, OwnerOK
<1>3. /\ UNCHANGED <<plan, step, branch>> /\ thread'[y] = thread[y] /\ cache'[y] = cache[y]
      /\ ax \notin {"idle", "raised"}
  BY <1>1, ThreadFrame
<1>4. State(y)' = State(y) /\ After(y)' = After(y) /\ Following(y)' = Following(y)
  BY <1>3, StaysPut
<1>5. Alike(State(x), State(y)) /\ Alike(State(y), State(x))
  BY PeersAlike DEF Alike
<1>6. Alike(State(x), After(x)) /\ Alike(After(x), State(x))
  BY <1>3, AdvanceShows DEF OwnerOK
<1> HIDE DEF ax, ay, state
\* Steps that leave the call and the cache of x alone.
<1>7. ASSUME cache' = cache, SameCall(x)
      PROVE  State(x)' = State(x) /\ After(x)' = After(x) /\ Following(x)' = Following(x)
  <2>1. BranchOf(x)' = BranchOf(x)
    BY <1>3, BranchesFixed
  <2>2. State(x)' = State(x)
    BY <1>7, <2>1 DEF State
  <2>3. PICK c, t, m, r : c = thread[x].op /\ t = State(x) /\ m = step /\ r = thread[x].got
    OBVIOUS
  <2>4. c = thread'[x].op /\ t = State(x)' /\ m = step' /\ r = thread'[x].got
    BY <1>3, <1>7, <2>2, <2>3 DEF SameCall
  <2>5. After(x)' = Advanced(c, t, m, r)' /\ Following(x)' = NextExchange(c, t, m, r)'
    BY <2>4 DEF After, Following
  <2>6. After(x) = Advanced(c, t, m, r) /\ Following(x) = NextExchange(c, t, m, r)
    BY <2>3 DEF After, Following
  <2> QED BY <1>3, <2>2, <2>5, <2>6, RulesFixed
<1>8. slots' = slots => Reduced(x)' = Reduced(x) /\ Reduced(y)' = Reduced(y)
  BY <1>1, <1>3, TotalStays
<1>9. CASE Posts(x) \/ Notes(x)
  <2>1. /\ cache' = cache /\ SameCall(x) /\ ax = "local" /\ thread'[x].at \in {"local", "posted"}
    BY <1>9 DEF Posts, Notes, Moves, ax
  <2>2. State(x)' = State(x)
    BY <1>7, <2>1
  <2>3. InSync(x, y)'
    BY <1>2, <1>3, <1>4, <2>1, <2>2 DEF InSync, Before, HasRead, Level, Same, ReadsFirst, OneAhead, SameCall, ax, ay, Stages
  <2>4. InSync(y, x)'
    BY <1>2, <1>3, <1>4, <2>1, <2>2 DEF InSync, Before, HasRead, Level, Same, ReadsFirst, OneAhead, SameCall, ax, ay, Stages
  <2> QED BY <2>3, <2>4
<1>10. CASE Raises(x)
  <2>1. cache' = cache /\ SameCall(x) /\ thread'[x].at = "raised"
    BY <1>10 DEF Raises, Moves
  <2>2. State(x)' = State(x)
    BY <1>7, <2>1
  <2>3. InSync(x, y)'
    BY <1>3, <1>4, <1>5, <2>1, <2>2 DEF InSync, Before, HasRead, Alike
  <2>4. ay = "result" => State(x) \in {State(y), After(y)}
    BY <1>2, <1>3 DEF InSync, Level, Same, OneAhead, ax, ay, Stages, Before, HasRead, Ats
  <2>5. InSync(y, x)'
    BY <1>3, <1>4, <1>5, <2>1, <2>2, <2>4 DEF InSync, Before, HasRead, Alike, ay
  <2> QED BY <2>3, <2>5
<1>11. CASE Continues(x)
  <2>1. /\ ax = "result" /\ thread'[x].at \in {"idle", "local"} /\ thread'[x].got = thread[x].got
        /\ thread'[x].op = Following(x)
    BY <1>11 DEF Continues, Moves, ax, Following, State
  <2>2. State(x)' = After(x)
    <3>1. BranchOf(x)' = BranchOf(x)
      BY <1>3, BranchesFixed
    <3> QED BY <1>11, <3>1 DEF Continues, State, After
  <2>3. CASE ay \in {"second", "result"}
    <3>1. Level(x, y) /\ Following(y) = Following(x) /\ After(y) = After(x)
      <4>1. Level(x, y)
        BY <2>1, <2>3 DEF InSync, HasRead, ax, ay
      <4> QED BY <4>1 DEF Level, Same, Following, After
    <3>2. thread'[y].got = thread'[x].got /\ thread'[x].op = Following(y)' /\ State(x)' = After(y)'
      BY <1>3, <1>4, <2>1, <2>2, <3>1 DEF Level
    <3>3. OneAhead(y, x)'
      BY <3>2 DEF OneAhead
    <3> QED BY <1>3, <2>1, <2>3, <3>3 DEF InSync, Before, HasRead, ay
  <2>4. CASE ay \in {"idle", "local", "posted", "first"}
    <3>1. OneAhead(x, y)
      BY <2>1, <2>4 DEF InSync, ax, ay
    <3>2. /\ thread'[y].op = thread'[x].op /\ State(y)' = State(x)' /\ thread'[y].got = thread'[x].got
      BY <1>3, <1>4, <2>1, <2>2, <3>1 DEF OneAhead
    <3>3. Level(x, y)' /\ Level(y, x)'
      BY <3>2 DEF Level, Same
    <3> QED BY <1>3, <2>1, <2>4, <3>3 DEF InSync, Before, HasRead, ay
  <2>5. CASE ay = "raised"
    <3>1. State(y) = State(x) \/ State(y) = After(x)
      BY <2>1, <2>5 DEF InSync, ax, ay
    <3>2. Alike(State(x)', State(y)') /\ Alike(State(y)', State(x)')
      BY <1>4, <1>6, <2>2, <3>1 DEF Alike
    <3> QED BY <1>3, <2>1, <2>5, <3>2 DEF InSync, Before, HasRead, ay, Alike
  <2> QED BY <1>2, <2>1, <2>3, <2>4, <2>5 DEF Stages, Ats
<1>12. CASE Reads(x)
  <2>1. /\ cache' = cache /\ slots' = slots /\ ax = "reading" /\ thread'[x].at = "read"
        /\ thread'[x].op = thread[x].op
        /\ thread'[x].got = IF thread[x].op = "metric" THEN Reduced(x) ELSE thread[x].got
    BY <1>12 DEF Reads, Moves, ax
  <2>2. State(x)' = State(x)
    <3>1. BranchOf(x)' = BranchOf(x)
      BY <1>3, BranchesFixed
    <3> QED BY <2>1, <3>1 DEF State
  <2>3. Reduced(x)' = Reduced(x) /\ Reduced(y)' = Reduced(y)
    BY <1>8, <2>1
  <2>4. ay \in {"first", "reading"} => ReadsFirst(y, x)'
    <3> SUFFICES ASSUME ay \in {"first", "reading"} PROVE ReadsFirst(y, x)'
      OBVIOUS
    <3>1. Level(y, x)
      BY <2>1 DEF InSync, Before, ax, ay
    <3> QED BY <1>3, <1>4, <2>1, <2>2, <2>3, <3>1 DEF ReadsFirst, Level, Same
  <2>5. ay \in {"read", "second"} => Level(x, y)' /\ Level(y, x)'
    <3> SUFFICES ASSUME ay \in {"read", "second"} PROVE Level(x, y)' /\ Level(y, x)'
      OBVIOUS
    <3>1. ReadsFirst(x, y)
      BY <2>1 DEF InSync, ax, ay
    <3>2. thread'[y].op = thread'[x].op /\ State(y)' = State(x)' /\ thread'[y].got = thread'[x].got
      BY <1>1, <1>3, <1>4, <2>1, <2>2, <3>1 DEF ReadsFirst, Same
    <3> QED BY <3>2 DEF Level, Same
  <2>6. ay \in {"first", "reading", "read", "second", "raised"}
    BY <1>2, <2>1 DEF Stages
  <2> QED BY <1>3, <1>4, <1>5, <2>1, <2>2, <2>4, <2>5, <2>6 DEF InSync, Before, HasRead, ay, Alike
\* The passages of the barrier.
<1>13. ASSUME NEW from \in Ats \ {"idle", "raised"}, NEW to \in Ats \ {"idle", "raised"},
              Enters(x, from, to) \/ Fills(x, from, to) \/ Drains(x, from, to)
       PROVE  /\ ax = from /\ thread'[x].at = to /\ SameCall(x) /\ cache' = cache /\ slots' = slots
              /\ State(x)' = State(x) /\ After(x)' = After(x) /\ Following(x)' = Following(x)
              /\ Reduced(x)' = Reduced(x) /\ Reduced(y)' = Reduced(y)
              /\ state # "broken"
  <2>1. ax = from /\ thread'[x].at = to /\ SameCall(x) /\ cache' = cache /\ slots' = slots /\ state # "broken"
    BY <1>13, BarrierShape DEF Moves, ax, state
  <2> QED BY <1>7, <1>8, <2>1
<1>14. CASE Enters(x, "posted", "first") \/ Enters(x, "read", "second")
  <2>1. /\ \/ ax = "posted" /\ thread'[x].at = "first"
           \/ ax = "read" /\ thread'[x].at = "second"
        /\ SameCall(x)
        /\ State(x)' = State(x) /\ After(x)' = After(x) /\ Following(x)' = Following(x)
        /\ Reduced(x)' = Reduced(x) /\ Reduced(y)' = Reduced(y)
    BY <1>13, <1>14 DEF Ats
  <2>2. state = "filling" /\ ay # "raised"
    BY <1>2, <1>14 DEF Enters, state
  <2>3. InSync(x, y)'
    BY <1>2, <1>3, <1>4, <2>1, <2>2 DEF InSync, Before, HasRead, Level, Same, ReadsFirst, OneAhead, SameCall, ax, ay, Stages, Ats
  <2>4. InSync(y, x)'
    BY <1>2, <1>3, <1>4, <2>1, <2>2 DEF InSync, Before, HasRead, Level, Same, ReadsFirst, OneAhead, SameCall, ax, ay, Stages, Ats
  <2> QED BY <2>3, <2>4
<1>15. CASE Fills(x, "posted", "reading") \/ Fills(x, "read", "result")
  <2>1. /\ \/ ax = "posted" /\ thread'[x].at = "reading"
           \/ ax = "read" /\ thread'[x].at = "result"
        /\ SameCall(x)
        /\ State(x)' = State(x) /\ After(x)' = After(x) /\ Following(x)' = Following(x)
        /\ Reduced(x)' = Reduced(x) /\ Reduced(y)' = Reduced(y)
    BY <1>13, <1>15 DEF Ats
  <2>2. state = "filling" /\ barrier[GroupOf(x)].inside + 1 = plan.sp
    BY <1>15 DEF Fills, state
  <2>3. ay \in {"first", "second"}
    BY <2>1, <2>2, LastToArrive DEF ax, ay, state
  <2>4. InSync(x, y)'
    BY <1>2, <1>3, <1>4, <2>1, <2>2, <2>3 DEF InSync, Before, HasRead, Level, Same, ReadsFirst, OneAhead, SameCall, ax, ay, Stages
  <2>5. InSync(y, x)'
    BY <1>2, <1>3, <1>4, <2>1, <2>2, <2>3 DEF InSync, Before, HasRead, Level, Same, ReadsFirst, OneAhead, SameCall, ax, ay, Stages
  <2> QED BY <2>4, <2>5
<1>16. CASE Drains(x, "first", "reading") \/ Drains(x, "second", "result")
  <2>1. /\ \/ ax = "first" /\ thread'[x].at = "reading"
           \/ ax = "second" /\ thread'[x].at = "result"
        /\ SameCall(x)
        /\ State(x)' = State(x) /\ After(x)' = After(x) /\ Following(x)' = Following(x)
        /\ Reduced(x)' = Reduced(x) /\ Reduced(y)' = Reduced(y)
    BY <1>13, <1>16 DEF Ats
  <2>2. state = "draining"
    BY <1>16 DEF Drains, state
  <2>3. InSync(x, y)'
    BY <1>2, <1>3, <1>4, <2>1, <2>2 DEF InSync, Before, HasRead, Level, Same, ReadsFirst, OneAhead, SameCall, ax, ay, Stages
  <2>4. InSync(y, x)'
    BY <1>2, <1>3, <1>4, <2>1, <2>2 DEF InSync, Before, HasRead, Level, Same, ReadsFirst, OneAhead, SameCall, ax, ay, Stages
  <2> QED BY <2>3, <2>4
<1>17. CASE Passes(x, "posted", "reading") \/ Passes(x, "read", "result")
  <2>1. IsFiniteSet(Members(GroupOf(x))) /\ Cardinality(Members(GroupOf(x))) = 1
    BY <1>2, <1>17, Groupings DEF Passes, ShapeOK
  <2>2. {x, y} \subseteq Members(GroupOf(x)) /\ x # y
    BY <1>1 DEF Peers, Members
  <2>3. {x} \subseteq Members(GroupOf(x)) /\ Cardinality({x}) = 1
    BY <2>2, FS_Singleton
  <2>4. {x} = Members(GroupOf(x))
    BY <2>1, <2>3, FS_Subset
  <2> QED BY <2>2, <2>4
<1> QED BY <1>9, <1>10, <1>11, <1>12, <1>14, <1>15, <1>16, <1>17 DEF AnyStep

\* Two others do not notice the step: nobody posts while one of them reads.
LEMMA StepKeepsOthers ==
  ASSUME ShapeOK, PhasesOK, NEW x \in Devices, AnyStep(x),
         NEW d \in Devices \ {x}, NEW e \in Peers(d) \ {d, x}, InSync(d, e)
  PROVE  InSync(d, e)'
<1>1. /\ e \in Devices /\ d \in Peers(e) \ {e} /\ \A z \in Peers(e) : z \in Devices
      /\ x \in Peers(e) => d \in Peers(x) \ {x} /\ e \in Peers(x) \ {x} /\ x \in Peers(d) \ {d}
      /\ plan \in Plans
  BY Groupings DEF Peers, Members, ShapeOK
<1>2. /\ UNCHANGED <<plan, step, branch>>
      /\ thread'[d] = thread[d] /\ cache'[d] = cache[d] /\ thread'[e] = thread[e] /\ cache'[e] = cache[e]
  BY <1>1, ThreadFrame
<1>3. /\ State(d)' = State(d) /\ After(d)' = After(d) /\ Following(d)' = Following(d)
      /\ State(e)' = State(e) /\ After(e)' = After(e) /\ Following(e)' = Following(e)
  BY <1>2, StaysPut
<1>4. thread[d].at = "reading" \/ thread[e].at = "read" => Reduced(e)' = Reduced(e)
  <2> SUFFICES ASSUME thread[d].at = "reading" \/ thread[e].at = "read" PROVE Reduced(e)' = Reduced(e)
    OBVIOUS
  <2>1. \A z \in Devices \ {x} : slots'[z] = slots[z]
    <3>1. ASSUME NEW from \in Ats \ {"idle", "raised"}, NEW to \in Ats \ {"idle", "raised"},
                 Enters(x, from, to) \/ Fills(x, from, to) \/ Drains(x, from, to)
          PROVE slots' = slots
      BY <3>1, BarrierShape
    <3> QED BY <3>1 DEF AnyStep, Posts, Reads, Raises, Notes, Continues, Passes, Ats
  <2>2. CASE x \notin Peers(e)
    BY <1>1, <1>2, <2>1, <2>2, TotalStays
  <2>3. CASE x \in Peers(e)
    <3>1. thread[x].at # "local"
      BY <1>1, <2>3 DEF PhasesOK, InStep, Stages
    <3>2. ~Posts(x)
      BY <3>1 DEF Posts, Moves
    <3>3. slots' = slots
      <4>1. ASSUME NEW from \in Ats \ {"idle", "raised"}, NEW to \in Ats \ {"idle", "raised"},
                   Enters(x, from, to) \/ Fills(x, from, to) \/ Drains(x, from, to)
            PROVE slots' = slots
        BY <4>1, BarrierShape
      <4> QED BY <3>2, <4>1 DEF AnyStep, Reads, Raises, Notes, Continues, Passes, Ats
    <3> QED BY <1>1, <1>2, <3>3, TotalStays
  <2> QED BY <2>2, <2>3
<1>5. CASE thread[d].at = "reading" \/ thread[e].at = "read"
  BY <1>2, <1>3, <1>4, <1>5 DEF InSync, Before, HasRead, Level, Same, ReadsFirst, OneAhead, Alike
<1>6. CASE ~(thread[d].at = "reading" \/ thread[e].at = "read")
  BY <1>2, <1>3, <1>6 DEF InSync, Before, HasRead, Level, Same, OneAhead, Alike
<1> QED BY <1>5, <1>6

\* Synchrony: a step of a thread ...
LEMMA ThreadKeepsSync ==
  ASSUME ShapeOK, OwnerOK, BarrierOK, PhasesOK, LocalOK, SyncOK, NEW x \in Devices, AnyStep(x)
  PROVE  SyncOK'
<1>1. /\ UNCHANGED <<plan, owner, step, branch>> /\ thread[x].at # "idle"
      /\ \A e \in Devices \ {x} : cache'[e] = cache[e]
      /\ \A b \in Branches \ {BranchOf(x)} : cache'[x][b] = cache[x][b]
  BY ThreadFrame
<1>2. owner # "closed"
  BY <1>1 DEF OwnerOK
<1>3. /\ Devices' = Devices /\ \A e : Peers(e)' = Peers(e) /\ BranchOf(e)' = BranchOf(e)
  BY <1>1, PlanFixed, BranchesFixed
<1>4. \A d \in Devices : \A e \in Peers(d) : e \in Devices /\ d \in Peers(e) /\ BranchOf(d) = BranchOf(e)
  BY Groupings DEF ShapeOK, Peers, Members, BranchOf
<1>5. \A d \in Devices : \A e \in Peers(d) \ {d} :
        /\ InSync(d, e)
        /\ \A b \in Branches \ {BranchOf(d)} : cache[d][b] = cache[e][b]
  BY <1>2 DEF SyncOK
<1>6. ASSUME NEW d \in Devices, NEW e \in Peers(d) \ {d}
      PROVE  InSync(d, e)' /\ \A b \in Branches \ {BranchOf(d)} : cache'[d][b] = cache'[e][b]
  <2>1. InSync(d, e) /\ InSync(e, d) /\ e \in Devices /\ d \in Peers(e)
    BY <1>4, <1>5
  <2>2. InSync(d, e)'
    <3>1. CASE d = x
      BY <1>2, <2>1, <3>1, StepKeepsPair
    <3>2. CASE e = x
      BY <1>2, <2>1, <3>2, StepKeepsPair
    <3>3. CASE d # x /\ e # x
      BY <2>1, <3>3, StepKeepsOthers
    <3> QED BY <3>1, <3>2, <3>3
  <2>3. \A b \in Branches \ {BranchOf(d)} : cache'[d][b] = cache'[e][b]
    BY <1>1, <1>4, <1>5, <2>1
  <2> QED BY <2>2, <2>3
<1> QED BY <1>3, <1>6 DEF SyncOK

\* ... and of the owner: between two forwards all caches of a group are equal.
LEMMA OwnerKeepsSync ==
  ASSUME ShapeOK, OwnerOK, SyncOK, OwnerStep \/ Cancel
  PROVE  SyncOK'
<1>1. plan' = plan
  BY DEF OwnerStep, Cancel, EnterWindow, Submit, CollectFailure, CollectResults, FinishWindow, AbortGroups, CloseWindow
<1>2. Devices' = Devices /\ \A e : Peers(e)' = Peers(e)
  BY <1>1, PlanFixed
<1>3. \A d \in Devices : \A e \in Peers(d) : e \in Devices /\ d \in Peers(e) /\ BranchOf(d) = BranchOf(e)
  BY Groupings DEF ShapeOK, Peers, Members, BranchOf
<1>4. \A d : BranchOf(d) \in Branches
  BY BranchExists
<1>5. ASSUME UNCHANGED <<step, branch, thread, cache, slots>>, owner # "closed" PROVE SyncOK'
  <2>1. /\ \A e : BranchOf(e)' = BranchOf(e)
        /\ \A e : State(e)' = State(e) /\ After(e)' = After(e) /\ Following(e)' = Following(e)
    BY <1>1, <1>5, BranchesFixed, StaysPut
  <2>2. \A e \in Devices : Reduced(e)' = Reduced(e)
    BY <1>1, <1>5, TotalStays
  <2>3. ASSUME NEW d \in Devices, NEW e \in Peers(d) \ {d} PROVE InSync(d, e)'
    <3>1. InSync(d, e) /\ Reduced(e)' = Reduced(e)
      BY <1>3, <1>5, <2>2 DEF SyncOK
    <3> QED BY <1>5, <2>1, <3>1 DEF InSync, Before, HasRead, Level, Same, ReadsFirst, OneAhead, Alike
  <2> QED BY <1>2, <1>5, <2>1, <2>3 DEF SyncOK
<1>6. CASE EnterWindow \/ CollectFailure \/ FinishWindow \/ Cancel \/ AbortGroups
  BY <1>5, <1>6 DEF EnterWindow, CollectFailure, FinishWindow, Cancel, AbortGroups
\* Between forwards: every branch alike.
<1>7. ASSUME \A d \in Devices : thread[d].at = "idle", owner # "closed",
             NEW d \in Devices, NEW e \in Peers(d) \ {d}
      PROVE  /\ \A b \in Branches : cache[d][b] = cache[e][b]
             /\ thread[d].op = thread[e].op /\ thread[d].got = thread[e].got
  <2>1. InSync(d, e) /\ \A b \in Branches \ {BranchOf(d)} : cache[d][b] = cache[e][b]
    BY <1>7 DEF SyncOK
  <2>2. Level(d, e)
    BY <1>3, <1>7, <2>1 DEF InSync, Before
  <2> QED BY <1>3, <1>4, <2>1, <2>2 DEF Level, Same, State
<1>8. CASE Submit
  <2>1. /\ UNCHANGED <<plan, step, branch, cache>> /\ owner = "stepping" /\ owner' = "collecting"
        /\ \A d \in Devices : thread[d].at = "idle"
        /\ thread' = [d \in Devices |-> IF Submitted(d) THEN Started ELSE IdleThread]
    BY <1>8 DEF Submit, OwnerOK
  <2>2. \A e : BranchOf(e)' = BranchOf(e)
    BY <2>1, BranchesFixed
  <2>3. ASSUME NEW d \in Devices, NEW e \in Peers(d) \ {d}
        PROVE  InSync(d, e)' /\ \A b \in Branches \ {BranchOf(d)'} : cache'[d][b] = cache'[e][b]
    <3>1. Submitted(d) <=> Submitted(e)
      BY <1>3 DEF Submitted
    <3>2. thread'[d] = thread'[e]
      BY <1>3, <2>1, <3>1
    <3>3. \A b \in Branches : cache[d][b] = cache[e][b]
      BY <1>7, <2>1
    <3>4. State(d)' = State(e)'
      BY <1>3, <1>4, <2>1, <2>2, <3>3 DEF State
    <3>5. thread'[d].at \in {"idle", "local"}
      BY <2>1 DEF Started, IdleThread
    <3> QED BY <2>1, <2>2, <3>2, <3>3, <3>4, <3>5 DEF InSync, Before, HasRead, Level, Same
  <2> QED BY <1>2, <2>3 DEF SyncOK
<1>9. CASE CollectResults
  <2>1. /\ UNCHANGED <<plan, cache, thread>> /\ owner = "collecting"
        /\ \A d \in Devices : thread[d].at = "idle"
    BY <1>9 DEF CollectResults
  <2>2. ASSUME NEW d \in Devices, NEW e \in Peers(d) \ {d}
        PROVE  InSync(d, e)' /\ \A b \in Branches \ {BranchOf(d)'} : cache'[d][b] = cache'[e][b]
    <3>1. /\ \A b \in Branches : cache[d][b] = cache[e][b]
          /\ thread[d].op = thread[e].op /\ thread[d].got = thread[e].got
      BY <1>7, <2>1
    <3>2. BranchOf(d)' = BranchOf(e)' /\ BranchOf(d)' \in Branches
      <4>1. GroupOf(d) = GroupOf(e) /\ GroupOf(d)' = GroupOf(d) /\ GroupOf(e)' = GroupOf(e)
        BY <1>1, PlanFixed DEF Peers, Members
      <4>2. branch' \in Branches
        BY <1>9 DEF CollectResults, Branches
      <4> QED BY <4>1, <4>2 DEF BranchOf, Branches
    <3>3. State(d)' = State(e)'
      BY <2>1, <3>1, <3>2 DEF State
    <3>4. thread'[d].at = "idle" /\ thread'[e].at = "idle"
      BY <1>3, <2>1, SMTT(60)
    <3> QED BY <2>1, <3>1, <3>3, <3>4 DEF InSync, Before, HasRead, Level, Same
  <2> QED BY <1>2, <2>2 DEF SyncOK
<1>10. CASE CloseWindow
  BY <1>10 DEF CloseWindow, SyncOK
<1> QED BY <1>6, <1>8, <1>9, <1>10 DEF OwnerStep

\* The devices of a group stay in step.
LEMMA SyncInvariant == Spec => []SyncOK
<1>1. Init => SyncOK
  <2> SUFFICES ASSUME Init, NEW d \in Devices, NEW e \in Peers(d) \ {d}
               PROVE  InSync(d, e) /\ \A b \in Branches : cache[d][b] = cache[e][b]
    BY DEF SyncOK
  <2>1. e \in Devices
    BY DEF Peers, Members
  <2>2. /\ thread[d] = IdleThread /\ thread[e] = IdleThread
        /\ cache[d] = cache[e] /\ BranchOf(d) = BranchOf(e)
    <3>1. GroupOf(d) = GroupOf(e)
      BY DEF Peers, Members
    <3> QED BY <2>1, <3>1 DEF Init, BranchOf
  <2> QED BY <2>2 DEF InSync, Before, HasRead, Level, Same, State, IdleThread
<1>2. ShapeOK /\ OwnerOK /\ BarrierOK /\ PhasesOK /\ LocalOK /\ SyncOK /\ [Next]_meshVars => SyncOK'
  <2> SUFFICES ASSUME ShapeOK, OwnerOK, BarrierOK, PhasesOK, LocalOK, SyncOK, [Next]_meshVars PROVE SyncOK'
    OBVIOUS
  <2>1. CASE OwnerStep \/ Cancel
    BY <2>1, OwnerKeepsSync
  <2>2. ASSUME NEW d \in Devices, DeviceStep(d) \/ Fail(d) \/ TimeOut(d)
        PROVE  SyncOK'
    BY <2>2, StepKinds, ThreadKeepsSync
  <2>3. CASE UNCHANGED meshVars
    <3>1. UNCHANGED <<plan, owner, step, branch, thread, cache, slots>>
      BY <2>3 DEF meshVars
    <3>2. /\ Devices' = Devices /\ \A d : Peers(d)' = Peers(d) /\ BranchOf(d)' = BranchOf(d)
          /\ \A d : State(d)' = State(d) /\ After(d)' = After(d) /\ Following(d)' = Following(d)
      BY <3>1, PlanFixed, BranchesFixed, StaysPut
    <3>3. ASSUME NEW d \in Devices, NEW e \in Peers(d) \ {d}, InSync(d, e) PROVE InSync(d, e)'
      <4>1. e \in Devices
        BY DEF Peers, Members
      <4>2. Reduced(e)' = Reduced(e)
        BY <3>1, <4>1, TotalStays
      <4> QED BY <3>1, <3>2, <3>3, <4>2 DEF InSync, Before, HasRead, Level, Same, ReadsFirst, OneAhead, Alike
    <3> QED BY <3>1, <3>2, <3>3 DEF SyncOK
  <2> QED BY <2>1, <2>2, <2>3 DEF Next
<1> QED BY <1>1, <1>2, ShapeInvariant, BarrierInvariant, LocalInvariant, PTL DEF Spec

-----------------------------------------------------------------------------
(***************************************************************************)
(* What the slots hold, and a window without a failure.                    *)
(***************************************************************************)

\* A device that does not move gives the same reason.
LEMMA ReasonStays ==
  ASSUME UNCHANGED <<plan, step, branch>>, NEW e, cache'[e] = cache[e],
         thread'[e].op = thread[e].op, thread[e].op = "decision" => thread'[e].got = thread[e].got
  PROVE  Reason(e)' = Reason(e)
<1>1. BranchOf(e)' = BranchOf(e)
  BY BranchesFixed
<1>2. State(e)' = State(e)
  BY <1>1 DEF State
<1>3. \A s, n, got : Decided(s, n, got)' = Decided(s, n, got)
  BY RulesFixed
<1>4. CASE thread[e].op = "decision"
  <2>1. thread'[e].got = thread[e].got
    BY <1>4
  <2>2. \A s, n, got : (s = State(e) /\ n = step /\ got = thread[e].got) =>
          Decided(State(e), step, thread[e].got)' = Decided(s, n, got)
    BY <1>2, <1>3, <2>1
  <2>3. Decided(State(e), step, thread[e].got)' = Decided(State(e), step, thread[e].got)
    BY <2>2
  <2>4. Decided(State(e), step, thread[e].got).reason' = Decided(State(e), step, thread[e].got).reason
    BY <2>3
  <2> QED BY <1>4, <2>4 DEF Reason
<1>5. CASE thread[e].op # "decision"
  BY <1>5 DEF Reason
<1> QED BY <1>4, <1>5

\* The slots: a step of a thread ...
LEMMA ThreadKeepsSlots ==
  ASSUME ShapeOK, SlotsOK, FaultlessOK, NEW d \in Devices, AnyStep(d)
  PROVE  SlotsOK'
<1>1. /\ UNCHANGED <<plan, owner, step, branch>> /\ faults \in Nat /\ faults' \in {faults, faults + 1}
      /\ \A e \in Devices \ {d} : thread'[e] = thread[e] /\ cache'[e] = cache[e]
  BY ThreadFrame DEF ShapeOK
<1>2. /\ Devices' = Devices /\ \A e : BranchOf(e)' = BranchOf(e)
      /\ faults' = 0 => faults = 0
  BY <1>1, PlanFixed, BranchesFixed
<1>3. ASSUME NEW from \in Ats \ {"idle", "raised"}, NEW to \in Ats \ {"idle", "raised"},
             Enters(d, from, to) \/ Fills(d, from, to) \/ Drains(d, from, to)
      PROVE  Moves(d, from, to) /\ SameCall(d) /\ slots' = slots /\ cache' = cache
  BY <1>3, BarrierShape
<1>4. ASSUME NEW e \in Devices, slots'[e] = slots[e], cache'[e] = cache[e],
             thread'[e].op = thread[e].op, thread[e].op = "decision" => thread'[e].got = thread[e].got,
             thread[e].at \in {"posted", "first", "reading", "read", "second"}
      PROVE  SlotOK(e)'
  <2>1. Reason(e)' = Reason(e)
    BY <1>1, <1>4, ReasonStays
  <2>2. /\ slots[e].op = thread[e].op /\ slots[e].step = step /\ slots[e].branch = BranchOf(e)
        /\ faults = 0 => ~slots[e].err
        /\ slots[e].reason = Reason(e)
    BY <1>4 DEF SlotsOK, SlotOK
  <2> QED BY <1>1, <1>2, <1>4, <2>1, <2>2 DEF SlotOK
<1>5. ASSUME NEW e \in Devices \ {d} PROVE SlotOK(e)'
  <2>1. slots'[e] = slots[e] /\ cache'[e] = cache[e] /\ thread'[e] = thread[e]
    <3>1. slots'[e] = slots[e]
      BY <1>3 DEF AnyStep, Posts, Reads, Raises, Notes, Continues, Passes, Ats
    <3> QED BY <1>1, <3>1
  <2>2. CASE thread[e].at \in {"posted", "first", "reading", "read", "second"}
    BY <1>4, <2>1, <2>2
  <2>3. CASE thread[e].at \notin {"posted", "first", "reading", "read", "second"}
    BY <2>1, <2>3 DEF SlotOK
  <2> QED BY <2>2, <2>3
<1>6. SlotOK(d)'
  <2>1. CASE Posts(d)
    <3>1. thread'[d].op = thread[d].op /\ thread'[d].got = thread[d].got /\ cache' = cache /\ faults' = faults
      BY <2>1 DEF Posts, SameCall
    <3>2. Reason(d)' = Reason(d)
      BY <1>1, <3>1, ReasonStays
    <3>3. slots'[d].reason = Reason(d)
      BY <2>1 DEF Posts, Reason, State
    <3>4. faults = 0 => ~thread[d].err
      BY DEF FaultlessOK
    <3> QED BY <1>1, <1>2, <2>1, <3>1, <3>2, <3>3, <3>4 DEF Posts, SlotOK
  <2>2. CASE Reads(d)
    <3>1. /\ thread[d].at = "reading" /\ slots' = slots /\ cache' = cache /\ thread'[d].op = thread[d].op
          /\ thread[d].op = "decision" => thread'[d].got = thread[d].got
      BY <2>2 DEF Reads, Moves
    <3> QED BY <1>4, <3>1
  <2>3. ASSUME NEW from \in {"posted", "first", "reading", "read", "second"}, NEW to \in Ats,
               Moves(d, from, to), SameCall(d), slots' = slots, cache' = cache
        PROVE  SlotOK(d)'
    BY <1>4, <2>3 DEF Moves, SameCall
  <2>4. CASE Raises(d) \/ Notes(d) \/ Continues(d)
    <3>1. thread'[d].at \in {"raised", "local", "idle"}
      BY <2>4 DEF Raises, Notes, Continues, Moves
    <3> QED BY <3>1 DEF SlotOK
  <2>5. CASE Enters(d, "posted", "first") \/ Enters(d, "read", "second")
    BY <1>3, <2>3, <2>5 DEF Ats
  <2>6. CASE Fills(d, "posted", "reading") \/ Fills(d, "read", "result")
    BY <1>3, <2>3, <2>6 DEF Ats
  <2>7. CASE Drains(d, "first", "reading") \/ Drains(d, "second", "result")
    BY <1>3, <2>3, <2>7 DEF Ats
  <2>8. CASE Passes(d, "posted", "reading") \/ Passes(d, "read", "result")
    BY <2>3, <2>8 DEF Passes, Ats
  <2> QED BY <2>1, <2>2, <2>4, <2>5, <2>6, <2>7, <2>8 DEF AnyStep
<1> QED BY <1>2, <1>5, <1>6 DEF SlotsOK

\* Devices in step give the same reason, so that none of them is refused.
LEMMA NobodyRefused ==
  ASSUME ShapeOK, PhasesOK, SyncOK, SlotsOK, FaultlessOK, faults = 0, owner # "closed",
         NEW d \in Devices, thread[d].at = "reading"
  PROVE  ~Refused(d)
<1>1. \A e \in Peers(d) : e \in Devices
  BY DEF Peers, Members
<1>2. ASSUME NEW e \in Peers(d) \ {d}
      PROVE  /\ thread[e].at \in {"first", "reading", "read", "second"}
             /\ thread[e].op = thread[d].op /\ Reason(e) = Reason(d)
  <2>1. Stages(thread[d].at, thread[e].at, barrier[GroupOf(d)].state) /\ InSync(d, e)
    BY DEF PhasesOK, InStep, SyncOK
  <2>2. thread[e].at \in {"first", "reading", "read", "second"}
    BY <1>1, <2>1 DEF Stages, FaultlessOK
  <2>3. CASE thread[e].at \in {"first", "reading"}
    <3>1. Level(d, e)
      BY <2>1, <2>3 DEF InSync, Before
    <3> QED BY <2>2, <3>1 DEF Level, Same, Reason
  <2>4. CASE thread[e].at \in {"read", "second"}
    <3>1. ReadsFirst(d, e)
      BY <2>1, <2>4 DEF InSync
    <3>2. thread[e].op = "decision" => thread[e].got = thread[d].got
      BY <3>1 DEF ReadsFirst
    <3> QED BY <2>2, <3>1, <3>2 DEF ReadsFirst, Same, Reason
  <2> QED BY <2>2, <2>3, <2>4
<1>3. \A e \in Peers(d) : ~slots[e].err /\ slots[e].reason = Reason(d)
  <2> SUFFICES ASSUME NEW e \in Peers(d) PROVE ~slots[e].err /\ slots[e].reason = Reason(d)
    OBVIOUS
  <2>1. SlotOK(e) /\ thread[e].at \in {"first", "reading", "read", "second"} /\ Reason(e) = Reason(d)
    BY <1>1, <1>2 DEF SlotsOK
  <2> QED BY <2>1 DEF SlotOK
<1>4. d \in Peers(d)
  BY Groupings DEF ShapeOK
<1>5. {slots[e].reason : e \in Peers(d)} = {Reason(d)}
  BY <1>3, <1>4
<1>6. Cardinality({Reason(d)}) = 1
  BY FS_Singleton
<1>7. Agree({slots[e].reason : e \in Peers(d)})
  <2>1. \A c : Cardinality(c) = 1 => Agree(c)
    BY DEF Agree
  <2>2. Agree({Reason(d)})
    BY <1>6, <2>1
  <2> QED BY <1>5, <2>2
<1> QED BY <1>3, <1>7 DEF Refused

\* Without a failure nothing is raised: a step of a thread ...
LEMMA ThreadKeepsFaultless ==
  ASSUME ShapeOK, OwnerOK, PhasesOK, LocalOK, SyncOK, SlotsOK, FaultlessOK,
         NEW d \in Devices, AnyStep(d)
  PROVE  FaultlessOK'
<1> SUFFICES ASSUME faults' = 0 PROVE FaultlessOK'
  BY DEF FaultlessOK
<1>1. /\ UNCHANGED <<plan, owner, step, branch>> /\ faults = 0
      /\ thread[d].at \notin {"idle", "raised"}
      /\ \A e \in Devices \ {d} : thread'[e] = thread[e]
      /\ Devices' = Devices /\ Groups' = Groups
  BY ThreadFrame, PlanFixed DEF ShapeOK
<1>2. /\ \A e \in Devices : thread[e].at # "raised" /\ ~thread[e].err
      /\ owner = "collecting"
      /\ \A g \in Groups : barrier[g].state # "broken"
  BY <1>1 DEF FaultlessOK, OwnerOK
<1>3. ~Raises(d)
  <2> SUFFICES ASSUME Raises(d) PROVE FALSE
    OBVIOUS
  <2>1. Cause(d)
    BY DEF Raises
  <2>2. GroupOf(d) \in Groups
    BY Groupings DEF ShapeOK
  <2>3. Unfinished(thread[d].op, cache[d][BranchOf(d)])
    BY <1>2, <2>1, <2>2 DEF Cause
  <2>4. /\ thread[d].op = "prepare" /\ cache[d][BranchOf(d)].pending # NoDecision
        /\ BranchOf(d) \in Branches
    BY <2>3, BranchExists DEF Unfinished
  <2>5. AgeOK(d, BranchOf(d))
    BY <1>2, <2>4 DEF LocalOK
  <2> QED BY <2>4, <2>5 DEF AgeOK
<1>4. ASSUME NEW from \in Ats \ {"idle", "raised"}, NEW to \in Ats \ {"idle", "raised"},
             Enters(d, from, to) \/ Fills(d, from, to) \/ Drains(d, from, to)
      PROVE  /\ thread'[d].at # "raised" /\ thread'[d].err = thread[d].err
             /\ \A g \in Groups : barrier'[g].state # "broken"
  <2>1. /\ Moves(d, from, to) /\ thread'[d].err = thread[d].err
        /\ \A g \in Groups \ {GroupOf(d)} : barrier'[g] = barrier[g]
        /\ barrier'[GroupOf(d)].state # "broken"
    BY <1>4, BarrierShape
  <2> QED BY <1>2, <2>1 DEF Moves
<1>5. /\ thread'[d].at # "raised" /\ ~thread'[d].err
      /\ \A g \in Groups : barrier'[g].state # "broken"
  <2>1. CASE Posts(d)
    BY <1>2, <2>1 DEF Posts, Moves
  <2>2. CASE Reads(d)
    <3>1. ~Refused(d)
      BY <1>1, <1>2, <2>2, NobodyRefused DEF Reads, Moves
    <3> QED BY <1>2, <2>2, <3>1 DEF Reads, Moves
  <2>3. CASE Notes(d)
    BY <1>1, <2>3 DEF Notes
  <2>4. CASE Continues(d)
    BY <1>2, <2>4 DEF Continues, Moves
  <2>5. CASE Passes(d, "posted", "reading") \/ Passes(d, "read", "result")
    BY <1>2, <2>5 DEF Passes, Moves
  <2>6. CASE Enters(d, "posted", "first") \/ Enters(d, "read", "second")
    BY <1>2, <1>4, <2>6 DEF Ats
  <2>7. CASE Fills(d, "posted", "reading") \/ Fills(d, "read", "result")
    BY <1>2, <1>4, <2>7 DEF Ats
  <2>8. CASE Drains(d, "first", "reading") \/ Drains(d, "second", "result")
    BY <1>2, <1>4, <2>8 DEF Ats
  <2> QED BY <1>3, <2>1, <2>2, <2>3, <2>4, <2>5, <2>6, <2>7, <2>8 DEF AnyStep
<1>6. \A e \in Devices : thread'[e].at # "raised" /\ ~thread'[e].err
  BY <1>1, <1>2, <1>5
<1> QED BY <1>1, <1>2, <1>5, <1>6 DEF FaultlessOK

\* Every step of both branches is counted once, whichever devices have run them.
LEMMA StepsCounted ==
  ASSUME ShapeOK, OwnerOK, LocalOK, owner # "closed", step = plan.steps, plan.mode # "off"
  PROVE  CountedSteps = 2 * plan.steps
<1>1. /\ plan.sp \in Nat /\ plan.sp >= 1 /\ plan.cfg \in {1, 2} /\ plan.steps \in Nat
      /\ 0 \in Devices /\ (plan.cfg = 2 => plan.sp \in Devices /\ GroupOf(plan.sp) = 1)
      /\ GroupOf(0) = 0
  <2>1. plan.sp \in Nat /\ plan.sp >= 1 /\ plan.cfg \in {1, 2} /\ plan.steps \in Nat
    BY Numbering DEF ShapeOK
  <2>2. 0 \in Devices /\ (plan.cfg = 2 => plan.sp \in Devices)
    BY <2>1, Numbering DEF ShapeOK
  <2>3. GroupOf(0) = 0 /\ (plan.cfg = 2 => GroupOf(plan.sp) = 1)
    BY <2>1, <2>2, Numbering DEF ShapeOK
  <2> QED BY <2>1, <2>2, <2>3
<1>2. ASSUME NEW d \in Devices, NEW b \in Branches
      PROVE  BranchSteps(d, b) = IF Mine(d, b) THEN plan.steps ELSE 0
  <2>1. CountsOK(d, b)
    BY DEF LocalOK
  <2>2. /\ cache[d][b].seen = (IF Mine(d, b) THEN plan.steps - 1 ELSE None)
        /\ cache[d][b].computed \in Nat /\ cache[d][b].reused \in Nat
        /\ cache[d][b].computed + cache[d][b].reused = cache[d][b].seen + 1
    BY <1>1, <2>1 DEF CountsOK, Counted
  <2> QED BY <1>1, <2>2 DEF BranchSteps, None
<1>3. CASE plan.cfg = 1
  <2>1. 0 * plan.sp = 0
    BY <1>1
  <2>2. Mine(0, "negative") /\ Mine(0, "positive")
    BY <1>3 DEF Mine
  <2>3. BranchSteps(0, "negative") = plan.steps /\ BranchSteps(0, "positive") = plan.steps
    BY <1>1, <1>2, <2>2 DEF Branches
  <2> QED BY <1>1, <1>3, <2>1, <2>3 DEF CountedSteps, GroupSteps
<1>4. CASE plan.cfg = 2
  <2>1. 0 * plan.sp = 0 /\ 1 * plan.sp = plan.sp
    BY <1>1
  <2>2. /\ Mine(0, "positive") /\ ~Mine(0, "negative")
        /\ Mine(plan.sp, "negative") /\ ~Mine(plan.sp, "positive")
    BY <1>1, <1>4 DEF Mine, BranchOf
  <2>3. /\ BranchSteps(0, "positive") = plan.steps /\ BranchSteps(0, "negative") = 0
        /\ BranchSteps(plan.sp, "negative") = plan.steps /\ BranchSteps(plan.sp, "positive") = 0
    BY <1>1, <1>2, <1>4, <2>2 DEF Branches
  <2>4. GroupSteps(0) = plan.steps /\ GroupSteps(1) = plan.steps
    BY <1>1, <2>1, <2>3 DEF GroupSteps
  <2> QED BY <1>1, <1>4, <2>4 DEF CountedSteps
<1> QED BY <1>1, <1>3, <1>4

\* ... and of the owner.
LEMMA OwnerKeepsFaultless ==
  ASSUME ShapeOK, OwnerOK, LocalOK, SlotsOK, FaultlessOK, OwnerStep \/ Cancel
  PROVE  SlotsOK' /\ FaultlessOK'
<1>1. plan' = plan
  BY DEF OwnerStep, Cancel, EnterWindow, Submit, CollectFailure, CollectResults, FinishWindow, AbortGroups, CloseWindow
<1>2. Devices' = Devices /\ Groups' = Groups /\ faults \in Nat
  BY <1>1, PlanFixed DEF ShapeOK
\* The owner changes the threads only while they rest.
<1>3. SlotsOK'
  <2>1. CASE UNCHANGED <<step, branch, thread, slots, cache>> /\ faults' \in {faults, faults + 1}
    <3>1. ASSUME NEW d \in Devices PROVE SlotOK(d)'
      <4>1. SlotOK(d) /\ Reason(d)' = Reason(d) /\ BranchOf(d)' = BranchOf(d)
        BY <1>1, <2>1, ReasonStays, BranchesFixed DEF SlotsOK
      <4>2. faults' = 0 => faults = 0
        BY <1>2, <2>1
      <4> QED BY <2>1, <4>1, <4>2 DEF SlotOK
    <3> QED BY <1>2, <3>1 DEF SlotsOK
  <2>2. CASE \A d \in Devices : thread'[d].at \in {"idle", "local"}
    BY <1>2, <2>2 DEF SlotsOK, SlotOK
  <2>3. CASE Submit \/ CollectResults \/ CloseWindow
    <3>1. CASE Submit
      <4>1. \A d \in Devices : thread'[d] \in {Started, IdleThread}
        BY <3>1 DEF Submit
      <4> QED BY <2>2, <4>1 DEF Started, IdleThread
    <3>2. CASE CollectResults
      BY <2>2, <3>2 DEF CollectResults
    <3>3. CASE CloseWindow
      BY <2>2, <3>3 DEF CloseWindow, IdleThread
    <3> QED BY <2>3, <3>1, <3>2, <3>3
  <2>4. CASE EnterWindow \/ CollectFailure \/ FinishWindow \/ AbortGroups \/ Cancel
    BY <2>1, <2>4 DEF EnterWindow, CollectFailure, FinishWindow, AbortGroups, Cancel
  <2> QED BY <2>3, <2>4 DEF OwnerStep
<1>4. FaultlessOK'
  <2> SUFFICES ASSUME faults' = 0 PROVE FaultlessOK'
    BY DEF FaultlessOK
  <2>1. faults = 0 /\ ~Cancel
    <3>1. ~Cancel
      BY <1>2 DEF Cancel
    <3>2. CASE EnterWindow
      BY <1>2, <3>1, <3>2 DEF EnterWindow
    <3>3. CASE ~EnterWindow
      BY <3>1, <3>3 DEF OwnerStep, Submit, CollectFailure, CollectResults, FinishWindow, AbortGroups, CloseWindow
    <3> QED BY <3>1, <3>2, <3>3
  <2>2. /\ \A d \in Devices : thread[d].at # "raised" /\ ~thread[d].err
        /\ owner \notin {"joining", "closed"} => \A g \in Groups : barrier[g].state # "broken"
        /\ owner \in {"leaving", "joining", "closed"} =>
             step = plan.steps /\ \A d \in Devices : thread[d].at = "idle"
    BY <2>1 DEF FaultlessOK
  <2>3. CASE EnterWindow
    <3>1. owner = "entering" /\ owner' = "stepping" /\ UNCHANGED <<step, thread, barrier>>
      BY <1>2, <2>1, <2>3 DEF EnterWindow
    <3> QED BY <1>1, <1>2, <2>2, <3>1 DEF FaultlessOK
  <2>4. CASE Submit
    <3>1. /\ owner = "stepping" /\ owner' = "collecting" /\ UNCHANGED <<step, barrier>>
          /\ \A d \in Devices : thread'[d].at # "raised" /\ ~thread'[d].err
      BY <2>4 DEF Submit, Started, IdleThread
    <3> QED BY <1>1, <1>2, <2>2, <3>1 DEF FaultlessOK
  <2>5. CASE CollectFailure
    BY <2>2, <2>5 DEF CollectFailure, FirstRaised
  <2>6. CASE CollectResults
    <3>1. owner = "collecting" /\ owner' = "stepping" /\ UNCHANGED <<thread, barrier>>
      BY <2>6 DEF CollectResults
    <3> QED BY <1>1, <1>2, <2>2, <3>1 DEF FaultlessOK
  <2>7. CASE FinishWindow
    <3>1. /\ owner = "stepping" /\ owner' = "leaving" /\ step = plan.steps
          /\ UNCHANGED <<step, thread, barrier>>
      BY <2>7 DEF FinishWindow
    <3> QED BY <1>1, <1>2, <2>2, <3>1 DEF FaultlessOK, OwnerOK
  <2>8. CASE AbortGroups
    <3>1. owner = "leaving" /\ owner' = "joining" /\ UNCHANGED <<step, thread>>
      BY <2>8 DEF AbortGroups
    <3> QED BY <1>1, <1>2, <2>2, <3>1 DEF FaultlessOK
  <2>9. CASE CloseWindow
    <3>1. /\ owner = "joining" /\ owner' = "closed" /\ step' = step /\ report' = CountedSteps
          /\ \A d \in Devices : thread'[d] = IdleThread
      BY <2>9 DEF CloseWindow
    <3>2. plan.mode # "off" => CountedSteps = 2 * plan.steps
      BY <2>2, <3>1, StepsCounted
    <3> QED BY <1>1, <1>2, <2>2, <3>1, <3>2 DEF FaultlessOK, IdleThread
  <2> QED BY <2>1, <2>3, <2>4, <2>5, <2>6, <2>7, <2>8, <2>9 DEF OwnerStep
<1> QED BY <1>3, <1>4

\* The slots hold what their devices have posted; without a failure nothing is raised.
LEMMA FaultlessInvariant == Spec => [](SlotsOK /\ FaultlessOK)
<1>1. Init => SlotsOK /\ FaultlessOK
  <2> SUFFICES ASSUME Init PROVE SlotsOK /\ FaultlessOK
    OBVIOUS
  <2>1. /\ \A d \in Devices : thread[d] = IdleThread
        /\ \A g \in Groups : barrier[g] = NewBarrier
        /\ owner = "entering"
    BY DEF Init
  <2> QED BY <2>1 DEF SlotsOK, SlotOK, FaultlessOK, IdleThread, NewBarrier
<1>2. /\ ShapeOK /\ OwnerOK /\ BarrierOK /\ PhasesOK /\ LocalOK /\ SyncOK
      /\ SlotsOK /\ FaultlessOK /\ [Next]_meshVars
      => SlotsOK' /\ FaultlessOK'
  <2> SUFFICES ASSUME ShapeOK, OwnerOK, BarrierOK, PhasesOK, LocalOK, SyncOK,
                      SlotsOK, FaultlessOK, [Next]_meshVars
               PROVE  SlotsOK' /\ FaultlessOK'
    OBVIOUS
  <2>1. CASE OwnerStep \/ Cancel
    BY <2>1, OwnerKeepsFaultless
  <2>2. ASSUME NEW d \in Devices, DeviceStep(d) \/ Fail(d) \/ TimeOut(d)
        PROVE  SlotsOK' /\ FaultlessOK'
    BY <2>2, StepKinds, ThreadKeepsSlots, ThreadKeepsFaultless
  <2>3. CASE UNCHANGED meshVars
    <3>1. UNCHANGED <<plan, owner, step, branch, thread, barrier, cache, slots, faults, report>>
      BY <2>3 DEF meshVars
    <3>2. Devices' = Devices /\ Groups' = Groups
      BY <3>1, PlanFixed
    <3>3. ASSUME NEW d \in Devices PROVE SlotOK(d)'
      <4>1. SlotOK(d) /\ Reason(d)' = Reason(d) /\ BranchOf(d)' = BranchOf(d)
        BY <3>1, ReasonStays, BranchesFixed DEF SlotsOK
      <4> QED BY <3>1, <4>1 DEF SlotOK
    <3> QED BY <3>1, <3>2, <3>3 DEF SlotsOK, FaultlessOK
  <2> QED BY <2>1, <2>2, <2>3 DEF Next
<1> QED BY <1>1, <1>2, ShapeInvariant, BarrierInvariant, LocalInvariant, SyncInvariant, PTL DEF Spec

-----------------------------------------------------------------------------
\* A peer that has not raised holds its part of the exchange d reads.
PostedOK ==
  \A d \in Devices : thread[d].at = "reading" =>
    \A e \in Peers(d) : thread[e].at # "raised" =>
      slots[e].op = thread[d].op /\ slots[e].step = step /\ slots[e].branch = BranchOf(d)

\* The invariants above say so.
LEMMA MatchesNow == ShapeOK /\ OwnerOK /\ PhasesOK /\ SyncOK /\ SlotsOK => PostedOK
<1> SUFFICES ASSUME ShapeOK, OwnerOK, PhasesOK, SyncOK, SlotsOK,
                    NEW d \in Devices, thread[d].at = "reading",
                    NEW e \in Peers(d), thread[e].at # "raised"
             PROVE  slots[e].op = thread[d].op /\ slots[e].step = step /\ slots[e].branch = BranchOf(d)
  BY DEF PostedOK
<1>1. e \in Devices /\ GroupOf(e) = GroupOf(d) /\ owner # "closed" /\ SlotOK(d) /\ SlotOK(e)
  BY DEF Peers, Members, OwnerOK, SlotsOK
<1>2. CASE e = d
  BY <1>1, <1>2 DEF SlotOK
<1>3. CASE e # d
  <2>1. Stages(thread[d].at, thread[e].at, barrier[GroupOf(d)].state) /\ InSync(d, e)
    BY <1>1, <1>3 DEF PhasesOK, InStep, SyncOK
  <2>2. thread[e].at \in {"first", "reading", "read", "second"}
    BY <2>1 DEF Stages
  <2>3. thread[e].op = thread[d].op
    BY <2>1, <2>2 DEF InSync, Before, Level, ReadsFirst, Same
  <2> QED BY <1>1, <2>2, <2>3 DEF SlotOK, BranchOf
<1> QED BY <1>2, <1>3

\* A peer that has raised since leaves what it had posted in its slot; after it has, nobody
\* comes to read.
LEMMA MatchesLater ==
  ASSUME ShapeOK, OwnerOK, ExchangeMatches, NEW x \in Devices, AnyStep(x),
         NEW d \in Devices, thread'[d].at = "reading",
         NEW e \in Peers(d), thread'[e].at = "raised"
  PROVE  slots'[e].op = thread'[d].op /\ slots'[e].step = step /\ slots'[e].branch = BranchOf(d)
<1>1. e \in Devices /\ GroupOf(e) = GroupOf(d) /\ GroupOf(d) \in Groups /\ e # d
  BY Groupings DEF ShapeOK, Peers, Members
<1>2. /\ \A z \in Devices \ {x} : thread'[z] = thread[z]
      /\ thread[x].at \notin {"idle", "raised"}
      /\ thread'[x].at = "raised" => \A g \in Groups : barrier'[g].state = "broken"
  BY ThreadFrame
<1>3. CASE Raises(x)
  <2>1. thread'[x].at = "raised" /\ slots' = slots /\ x # d
    BY <1>3 DEF Raises, Moves
  <2>2. thread'[d] = thread[d]
    BY <1>2, <2>1
  <2> QED BY <2>1, <2>2 DEF ExchangeMatches
<1>4. CASE ~Raises(x)
  <2>1. ASSUME NEW from \in Ats \ {"idle", "raised"}, NEW to \in Ats \ {"idle", "raised"},
               Enters(x, from, to) \/ Fills(x, from, to) \/ Drains(x, from, to)
        PROVE  Moves(x, from, to) /\ slots' = slots /\ barrier[GroupOf(x)].state # "broken"
    BY <2>1, BarrierShape
  <2>2. thread'[x].at # "raised" /\ \A z \in Devices \ {x} : slots'[z] = slots[z]
    BY <1>4, <2>1 DEF AnyStep, Posts, Reads, Notes, Continues, Passes, Moves, Ats
  <2>3. e # x /\ thread[e].at = "raised" /\ slots'[e] = slots[e]
    BY <1>1, <1>2, <2>2
  <2>4. \A g \in Groups : barrier[g].state = "broken"
    BY <1>1, <2>3 DEF OwnerOK
  <2>5. d # x
    <3> SUFFICES ASSUME d = x PROVE FALSE
      OBVIOUS
    <3>1. CASE Fills(x, "posted", "reading") \/ Drains(x, "first", "reading")
      BY <1>1, <2>1, <2>4, <3>1 DEF Ats
    <3>2. CASE Passes(x, "posted", "reading")
      <4>1. IsFiniteSet(Members(GroupOf(d))) /\ Cardinality(Members(GroupOf(d))) = 1
        BY <1>1, <3>2, Groupings DEF Passes, ShapeOK
      <4>2. {d, e} \subseteq Members(GroupOf(d))
        BY <1>1 DEF Members
      <4>3. {d} = Members(GroupOf(d))
        BY <4>1, <4>2, FS_Singleton, FS_Subset
      <4> QED BY <1>1, <4>2, <4>3
    <3>3. ~(Fills(x, "posted", "reading") \/ Drains(x, "first", "reading") \/ Passes(x, "posted", "reading"))
          => thread'[x].at # "reading"
      BY <1>4, <2>1 DEF AnyStep, Posts, Reads, Notes, Continues, Passes, Moves, Ats
    <3> QED BY <3>1, <3>2, <3>3
  <2>6. thread'[d] = thread[d]
    BY <1>2, <2>5
  <2> QED BY <2>3, <2>6 DEF ExchangeMatches
<1> QED BY <1>3, <1>4

\* A device that reads finds its peers' values for its own call.
LEMMA MatchesInvariant == Spec => []ExchangeMatches
<1>1. Init => ExchangeMatches
  BY DEF Init, ExchangeMatches, IdleThread
<1>2. ShapeOK /\ OwnerOK /\ ExchangeMatches /\ PostedOK' /\ [Next]_meshVars => ExchangeMatches'
  <2> SUFFICES ASSUME ShapeOK, OwnerOK, ExchangeMatches, PostedOK', [Next]_meshVars
               PROVE  ExchangeMatches'
    OBVIOUS
  <2>1. ASSUME NEW x \in Devices, DeviceStep(x) \/ Fail(x) \/ TimeOut(x) PROVE ExchangeMatches'
    <3>1. AnyStep(x)
      BY <2>1, StepKinds
    <3>2. UNCHANGED <<plan, step, branch>>
      BY <3>1, ThreadFrame
    <3>3. Devices' = Devices /\ \A d : Peers(d)' = Peers(d) /\ BranchOf(d)' = BranchOf(d)
      BY <3>2, PlanFixed, BranchesFixed
    <3>4. ASSUME NEW d \in Devices, thread'[d].at = "reading", NEW e \in Peers(d)
          PROVE  slots'[e].op = thread'[d].op /\ slots'[e].step = step /\ slots'[e].branch = BranchOf(d)
      BY <3>1, <3>2, <3>3, <3>4, MatchesLater DEF PostedOK
    <3> QED BY <3>2, <3>3, <3>4 DEF ExchangeMatches
  <2>2. CASE OwnerStep \/ Cancel \/ UNCHANGED meshVars
    <3>1. plan' = plan
      BY <2>2 DEF meshVars, OwnerStep, Cancel, EnterWindow, Submit, CollectFailure, CollectResults, FinishWindow, AbortGroups, CloseWindow
    <3>2. Devices' = Devices /\ \A d : Peers(d)' = Peers(d)
      BY <3>1, PlanFixed
    <3>3. CASE UNCHANGED <<step, branch, thread, slots>>
      <4>1. \A d : BranchOf(d)' = BranchOf(d)
        BY <3>1, <3>3, BranchesFixed
      <4> QED BY <3>2, <3>3, <4>1 DEF ExchangeMatches
    <3>4. CASE Submit
      <4>1. \A d \in Devices : thread'[d] \in {Started, IdleThread}
        BY <3>4 DEF Submit
      <4> QED BY <3>2, <4>1 DEF ExchangeMatches, Started, IdleThread
    <3>5. CASE CollectResults
      BY <3>2, <3>5 DEF CollectResults, ExchangeMatches
    <3>6. CASE CloseWindow
      BY <3>2, <3>6 DEF CloseWindow, ExchangeMatches, IdleThread
    <3>7. CASE EnterWindow \/ CollectFailure \/ FinishWindow \/ AbortGroups \/ Cancel \/ UNCHANGED meshVars
      BY <3>3, <3>7 DEF EnterWindow, CollectFailure, FinishWindow, AbortGroups, Cancel, meshVars
    <3> QED BY <2>2, <3>4, <3>5, <3>6, <3>7 DEF OwnerStep
  <2> QED BY <2>1, <2>2 DEF Next
<1> QED BY <1>1, <1>2, MatchesNow, ShapeInvariant, BarrierInvariant, SyncInvariant,
           FaultlessInvariant, PTL DEF Spec

\* Whatever fails, a device that reads the slots of its group finds the values its peers
\* posted for this very call, the barriers count their threads, and no thread ever raises
\* unless something has failed: the consensus errors are consequences, never causes.
THEOREM ExchangesAlwaysPair == Spec => []ExchangesPair
<1>1. ShapeOK /\ BarrierOK /\ LocalOK => MeshTypeOK
  <2> SUFFICES ASSUME ShapeOK, BarrierOK, LocalOK PROVE MeshTypeOK
    OBVIOUS
  <2>1. \A d \in Devices : \A b \in Branches :
          cache[d][b].run \in 0..MaxReuse /\ cache[d][b].seen < plan.steps
    BY DEF LocalOK, CountsOK, Counted
  <2> QED BY <2>1 DEF MeshTypeOK, ShapeOK, BarrierOK, Ats
<1>2. ShapeOK /\ FaultlessOK => RaisesOnlyOnFault
  BY DEF ShapeOK, FaultlessOK, RaisesOnlyOnFault
<1> QED BY <1>1, <1>2, ShapeInvariant, BarrierInvariant, LocalInvariant, MatchesInvariant,
           FaultlessInvariant, PTL DEF ExchangesPair

\* The devices of a group take the next decision of the residual caches alike, because those
\* that have completed the same step of a branch hold the same state; a residual is reused
\* only while it is young; and a window that ran to its end reports every step once.
THEOREM ReuseAlwaysAgrees == Spec => []ReuseAgrees
<1>1. ShapeOK /\ OwnerOK /\ PhasesOK /\ LocalOK /\ SyncOK => CachesAgree
  <2> SUFFICES ASSUME ShapeOK, OwnerOK, PhasesOK, LocalOK, SyncOK, owner # "closed",
                      NEW d \in Devices, NEW e \in Peers(d), NEW b \in Branches,
                      cache[d][b].seen = cache[e][b].seen,
                      {cache[d][b].pending, cache[e][b].pending} = {NoDecision}
               PROVE  cache[d][b] = cache[e][b]
    BY DEF CachesAgree
  <2>1. cache[d][b].pending = NoDecision /\ cache[e][b].pending = NoDecision
    OBVIOUS
  <2>2. CASE e # d /\ b = BranchOf(d)
    <3>1. e \in Devices /\ d \in Peers(e) /\ BranchOf(e) = BranchOf(d)
      BY Groupings DEF ShapeOK, Peers, Members, BranchOf
    <3>2. InSync(d, e) /\ InSync(e, d)
      BY <2>2, <3>1 DEF SyncOK
    <3>3. Alike(State(d), State(e))
      BY <2>2, <3>2, PeersAlike
    <3> QED BY <2>1, <2>2, <3>1, <3>3 DEF Alike, State
  <2>3. CASE e # d /\ b # BranchOf(d)
    BY <2>3 DEF SyncOK
  <2> QED BY <2>2, <2>3
<1>2. ShapeOK /\ LocalOK => ReuseIsYoung
  <2> SUFFICES ASSUME ShapeOK, LocalOK, NEW d \in Devices, NEW b \in Branches, owner # "closed",
                      cache[d][b].run > 0, cache[d][b].kept <= cache[d][b].seen
               PROVE  LET s == cache[d][b] IN
                      /\ s.seen - s.kept = s.run /\ s.run <= MaxReuse
                      /\ s.kept >= 0 /\ s.learned = s.kept
                      /\ s.kept + 1 >= Warmup /\ s.seen < plan.steps - EndGuard
                      /\ s.velocity => Horizon(s, s.seen) \in 1..s.interval
    BY DEF ReuseIsYoung
  <2> DEFINE s == cache[d][b]
  <2>1. Counted(s) /\ Aged(s)
    BY DEF LocalOK, CountsOK, AgeOK
  <2>2. MaxReuse \in Nat
    BY CacheParamsAssumption
  <2> HIDE DEF s
  <2>3. /\ s.run \in 1..MaxReuse /\ s.seen \in Int /\ s.kept \in Int
        /\ s.seen - s.kept = s.run /\ s.kept >= 0 /\ s.learned = s.kept
        /\ s.kept + 1 >= Warmup /\ s.seen < plan.steps - EndGuard
        /\ s.velocity => s.interval \in Int /\ s.interval >= 1
    BY <2>1, <2>2 DEF Counted, Aged, s
  <2>4. s.velocity => Horizon(s, s.seen) \in 1..s.interval
    <3> SUFFICES ASSUME s.velocity PROVE Horizon(s, s.seen) \in 1..s.interval
      OBVIOUS
    <3> DEFINE a == s.seen - s.learned  c == s.interval
    <3>1. a \in Int /\ a >= 1 /\ c \in Int /\ c >= 1
      BY <2>2, <2>3
    <3> HIDE DEF a, c
    <3>2. \E x \in {a, c} : \A y \in {a, c} : x <= y
      BY <3>1
    <3>3. Min({a, c}) \in {a, c} /\ Min({a, c}) <= c
      BY <3>2 DEF Min
    <3>4. Min({a, c}) \in 1..c
      BY <3>1, <3>3
    <3> QED BY <3>4 DEF Horizon, a, c
  <2> QED BY <2>2, <2>3, <2>4 DEF s
<1>3. FaultlessOK => ReportCountsBranchesOnce
  BY DEF FaultlessOK, ReportCountsBranchesOnce
<1> QED BY <1>1, <1>2, <1>3, ShapeInvariant, BarrierInvariant, LocalInvariant, SyncInvariant,
           FaultlessInvariant, PTL DEF ReuseAgrees

=============================================================================
