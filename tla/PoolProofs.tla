----------------------------- MODULE PoolProofs -----------------------------
(***************************************************************************)
(* For any number of ranks, windows and predictions, and whatever fails:   *)
(* answers belong to their calls and the ranks compute the same calls in   *)
(* the same order (CallsMatched), and memory and processes live exactly    *)
(* as long as needed (MemoryGivenBack).                                    *)
(***************************************************************************)
EXTENDS ProcessPool, TLAPS

ReadyMessage == Command("ready", 0, 0, 0)
ErrorMessage == Command("error", 0, 0, 0)
CloseCommand == Command("close", 0, 0, 0)
GatherEntry  == Command("gather", call.call, 0, 0)

Working == {"reset", "predict", "report"}

\* What rank r is sent of the current call.
Share(r) == IF r = 0 THEN call ELSE Bare(call)

\* The collectives of the current call.
Extent == IF call.kind = "none" THEN 0 ELSE IF call.kind = "predict" THEN 2 ELSE 1

Places == {"unborn", "loading", "waiting", "joined", "computing", "gathering", "leaving", "gone"}

Opening == {"starting", "readying"}
Busy    == {"sending", "receiving", "copying"}
Ending  == {"closing", "joining", "closed"}

PoolTypes ==
    /\ cudaIpc \in BOOLEAN /\ turn \in Ranks
    /\ owner \in Opening \cup {"idle"} \cup Busy \cup {"stopping"} \cup Ending
    /\ force \in BOOLEAN /\ closed \in BOOLEAN
    /\ phase \in {"outside", "entering", "inside", "reported", "leaving"}
    /\ window \in 0..MaxWindows /\ steps \in 0..Steps
    /\ call \in Commands /\ answer \in Commands
    /\ inbox \in [Ranks -> Seq(Commands)] /\ outbox \in [Ranks -> Seq(Commands)]
    /\ at \in [Ranks -> Places] /\ job \in [Ranks -> Commands] /\ log \in [Ranks -> Seq(Commands)]
    /\ conditions \in [Ranks -> 0..MaxWindows] /\ taken \in [Ranks -> 0..Steps]
    /\ resident \in BOOLEAN /\ exported \in Nat

\* The logs agree up to base, where those of the current call begin.
LogsOK(base) ==
    /\ \A r \in Ranks : Len(log[r]) \in base..(base + Extent)
    /\ \A r, s \in Ranks : \A k \in 1..base : Bare(log[r][k]) = Bare(log[s][k])
    /\ \A r \in Ranks : Len(log[r]) > base => log[r][base + 1] = Share(r)
    /\ \A r \in Ranks : Len(log[r]) > base + 1 => log[r][base + 2] = GatherEntry

Full(base) == \A r \in Ranks : Len(log[r]) = base + Extent

\* A rank works on the current call, or, a peer only, still returns from the
\* last collective of the call before.
PlaceOK(r, base) ==
    /\ at[r] \in {"unborn", "loading"} =>
         call = NoCommand /\ owner \in Opening \cup Ending
    /\ at[r] = "joined" =>
         /\ call.kind \in Working
         /\ \/ job[r] = Share(r) /\ Len(log[r]) = base + 1
            \/ r # 0 /\ job[r].kind \in {"reset", "report"} /\ Len(log[r]) = base
    /\ at[r] = "computing" =>
         call.kind = "predict" /\ job[r] = Share(r) /\ Len(log[r]) = base + 1
    /\ at[r] = "gathering" =>
         /\ call.kind \in Working
         /\ \/ call.kind = "predict" /\ job[r] = Share(r) /\ Len(log[r]) = base + 2
            \/ r # 0 /\ Len(log[r]) = base

\* A command in a pipe is the rank's share of the current call, which it has not
\* begun, or close.
InboxOK(r, base) ==
    \/ inbox[r] = <<>>
    \/ inbox[r] = <<Share(r)>> /\ Len(log[r]) = base /\ call.kind \in Working
    \/ inbox[r] = <<CloseCommand>> /\ closed

\* Rank 0 has told at most one thing the owner has not heard.
OutboxOK(base) ==
    /\ \A r \in Ranks : outbox[r] # <<>> => at[r] \notin {"unborn", "loading"}
    /\ \/ outbox[0] = <<>>
       \/ /\ outbox[0] = <<ReadyMessage>> /\ call = NoCommand
          /\ owner \in Opening \cup Ending
          /\ at[0] \in {"waiting", "leaving", "gone"}
       \/ outbox[0] = <<ErrorMessage>> /\ at[0] \in {"leaving", "gone"}
       \/ /\ outbox[0] = <<call>> /\ call.kind \in Working /\ Full(base)
          /\ owner \in {"receiving"} \cup Ending
          /\ at[0] \in {"waiting", "leaving", "gone"}

\* What the owner knows at each point of its calls.
OwnerOK(base) ==
    /\ closed <=> owner \in {"stopping"} \cup Ending
    /\ call.kind \in Working \cup {"none"}
    /\ owner = "starting" => \A r \in Ranks : r >= turn => at[r] = "unborn"
    /\ owner = "readying" => \A r \in Ranks : r < turn => at[r] \notin {"unborn", "loading"}
    /\ owner = "readying" /\ turn > 0 => outbox[0] = <<>>
    /\ owner \in Opening => call = NoCommand
    /\ owner \in Busy => call.kind \in Working
    /\ owner = "sending" =>
         \A r \in Ranks : r >= turn => inbox[r] = <<>> /\ Len(log[r]) = base
    /\ owner = "stopping" => \A r \in Ranks : r >= turn => inbox[r] = <<>>
    /\ owner \in {"idle", "copying", "stopping"} => Full(base)
    /\ owner \in {"idle", "copying", "stopping"} => at[0] \in {"waiting", "leaving", "gone"}
    /\ owner = "copying" => answer = call
    /\ owner = "joining" => \A r \in Ranks : r < turn => at[r] \in {"unborn", "gone"}
    /\ owner = "closed" => \A r \in Ranks : at[r] \in {"unborn", "gone"}

\* The call of an open pool is the one its window has come to.
PhaseOK ==
    ~closed =>
        /\ phase = "outside"  => owner \in Opening \cup {"idle"} /\ call.kind \in {"none", "reset"}
        /\ phase = "entering" => owner \in Busy /\ call.kind = "reset" /\ steps = 0
        /\ phase = "inside" /\ owner = "idle" =>
             \/ call.kind = "reset" /\ steps = 0
             \/ call.kind = "predict" /\ steps = call.step + 1 /\ window = call.window
        /\ phase = "inside" /\ owner # "idle" =>
             /\ owner \in Busy
             /\ \/ call.kind = "predict" /\ steps = call.step /\ window = call.window
                \/ call.kind = "report"
        /\ phase = "reported" => owner = "idle" /\ call.kind = "report"
        /\ phase = "leaving"  => owner \in Busy /\ call.kind = "reset"

\* What a rank keeps of the window, by how far it is in the current call.
RunnerOK(r, base) ==
    /\ call.kind = "none" => conditions[r] = 0 /\ (r = 0 => ~resident)
    /\ call.kind = "reset" /\ Len(log[r]) = base + 1 =>
         conditions[r] = 0 /\ taken[r] = 0 /\ (r = 0 => ~resident)
    /\ call.kind = "predict" =>
         /\ call.step < Steps
         /\ Len(log[r]) <= base + 1 /\ (call.step > 0 \/ at[r] = "computing") =>
              conditions[r] = call.window /\ taken[r] = call.step
         /\ Len(log[r]) = base + 2 => conditions[r] = call.window /\ taken[r] = call.step + 1

\* The output rank 0 has answered with is still there.
ExportOK ==
    owner = "copying" \/ (owner = "receiving" /\ outbox[0] = <<call>>) =>
        (cudaIpc /\ call.kind = "predict" => exported = call.call)

RankOK(r, base) == PlaceOK(r, base) /\ InboxOK(r, base) /\ RunnerOK(r, base)

Inv(base) ==
    /\ PoolTypes /\ PhaseOK /\ ExportOK
    /\ LogsOK(base) /\ OutboxOK(base) /\ OwnerOK(base)
    /\ \A r \in Ranks : RankOK(r, base)

IInv == \E base \in 0..Len(log[0]) : Inv(base)

-----------------------------------------------------------------------------
(***************************************************************************)
(* Commands and sequences.                                                 *)
(***************************************************************************)

LEMMA WorldFacts == 0 \in Ranks /\ World - 1 \in Ranks /\ \A r \in Ranks : r \in Int /\ 0 <= r /\ r <= World - 1
  BY PoolAssumption DEF Ranks

LEMMA Messages ==
  /\ ReadyMessage \in Commands /\ ErrorMessage \in Commands /\ CloseCommand \in Commands
  /\ NoCommand \in Commands
  /\ ReadyMessage.kind = "ready" /\ ErrorMessage.kind = "error" /\ CloseCommand.kind = "close"
  /\ NoCommand.kind = "none"
  BY PoolAssumption DEF ReadyMessage, ErrorMessage, CloseCommand, NoCommand, Command, Commands, Kinds

LEMMA Shares ==
  ASSUME call \in Commands, NEW r \in Ranks
  PROVE  /\ Share(r) \in Commands /\ Share(r).kind = call.kind /\ Share(r).call = call.call
         /\ Bare(Share(r)) = Bare(call)
         /\ Share(0) = call
         /\ GatherEntry \in Commands
         /\ Extent \in {0, 1, 2}
         /\ call.kind \in Working => Extent > 0
         /\ call.kind = "predict" => Extent = 2
         /\ call.kind \in {"reset", "report"} => Extent = 1
         /\ call.kind = "none" => Extent = 0
  BY PoolAssumption DEF Share, Bare, Command, Commands, Kinds, GatherEntry, Extent, Working

LEMMA Extents ==
  /\ Extent \in Nat /\ Extent \in {0, 1, 2}
  /\ call.kind \in Working => Extent > 0
  BY DEF Extent, Working

LEMMA Single ==
  ASSUME NEW S, NEW m \in S
  PROVE  /\ <<m>> # <<>> /\ Head(<<m>>) = m /\ Tail(<<m>>) = <<>> /\ Len(<<m>>) = 1
         /\ Append(<<>>, m) = <<m>> /\ <<m>> \in Seq(S)
  OBVIOUS

LEMMA Appended ==
  ASSUME NEW S, NEW q \in Seq(S), NEW m \in S
  PROVE  /\ Append(q, m) \in Seq(S) /\ Append(q, m) # <<>> /\ Len(Append(q, m)) = Len(q) + 1
         /\ \A k \in 1..Len(q) : Append(q, m)[k] = q[k]
         /\ Append(q, m)[Len(q) + 1] = m
         /\ Len(q) \in Nat
  OBVIOUS

LEMMA Shortened ==
  ASSUME NEW S, NEW q \in Seq(S), q # <<>>
  PROVE  Head(q) \in S /\ Tail(q) \in Seq(S)
  OBVIOUS

LEMMA Turns ==
  ASSUME turn \in Ranks, NEW current, NEW after, NextTurn(current, after)
  PROVE  /\ turn' \in Ranks
         /\ \/ turn < World - 1 /\ turn' = turn + 1 /\ owner' = current
            \/ turn = World - 1 /\ turn' = 0 /\ owner' = after
  BY WorldFacts DEF NextTurn, Ranks

-----------------------------------------------------------------------------
(***************************************************************************)
(* What is not touched stays as it is.                                     *)
(***************************************************************************)

LEMMA SameLogs ==
  ASSUME NEW base \in Nat, LogsOK(base), call' = call, log' = log
  PROVE  LogsOK(base)' /\ (Full(base) => Full(base)')
  BY DEF LogsOK, Extent, Share, GatherEntry, Full

LEMMA SameRank ==
  ASSUME NEW base \in Nat, NEW r \in Ranks, RankOK(r, base), call' = call,
         at'[r] = at[r], job'[r] = job[r], log'[r] = log[r], inbox'[r] = inbox[r],
         conditions'[r] = conditions[r], taken'[r] = taken[r],
         r = 0 => resident' = resident,
         closed => closed',
         at[r] \in {"unborn", "loading"} => owner' \in Opening \cup Ending
  PROVE  RankOK(r, base)'
<1>1. PlaceOK(r, base)'
  BY DEF RankOK, PlaceOK, Share
<1>2. InboxOK(r, base)'
  BY DEF RankOK, InboxOK, Share
<1>3. RunnerOK(r, base)'
  BY DEF RankOK, RunnerOK
<1> QED BY <1>1, <1>2, <1>3 DEF RankOK

LEMMA SamePhase ==
  ASSUME PhaseOK, owner \in Busy, owner' \in Busy, UNCHANGED <<closed, call, phase, window, steps>>
  PROVE  PhaseOK'
<1>1. owner \notin Opening \cup {"idle"} /\ owner' # "idle"
  BY DEF Busy, Opening
<1> QED BY <1>1 DEF PhaseOK

\* A rank that cannot run any more, or has not begun to.
LEMMA QuietRank ==
  ASSUME NEW base \in Nat, NEW r \in Ranks, RankOK(r, base), call' = call,
         at'[r] \in {"leaving", "gone"}, job'[r] = job[r], log'[r] = log[r],
         inbox'[r] = inbox[r] \/ inbox'[r] = <<>>,
         conditions'[r] = conditions[r], taken'[r] = taken[r],
         r = 0 => resident' = resident,
         closed => closed'
  PROVE  RankOK(r, base)'
<1>1. PlaceOK(r, base)'
  BY DEF RankOK, PlaceOK
<1>2. InboxOK(r, base)'
  BY DEF RankOK, InboxOK, Share
<1>3. RunnerOK(r, base)'
  BY DEF RankOK, RunnerOK
<1> QED BY <1>1, <1>2, <1>3 DEF RankOK

-----------------------------------------------------------------------------
(***************************************************************************)
(* The owner.                                                              *)
(***************************************************************************)

LEMMA RaisesKeeps ==
  ASSUME NEW base \in Nat, Inv(base), Raises,
         UNCHANGED <<cudaIpc, windowVars, inbox, rankVars>>,
         outbox' \in [Ranks -> Seq(Commands)],
         \A r \in Ranks : outbox'[r] # <<>> => outbox[r] # <<>>,
         outbox'[0] \in {outbox[0], <<>>}
  PROVE  Inv(base)'
<1> USE DEF Inv
<1>1. /\ owner' = "closing" /\ closed' = TRUE /\ turn' = 0 /\ call' = call
      /\ at' = at /\ job' = job /\ log' = log /\ conditions' = conditions /\ taken' = taken
      /\ resident' = resident /\ inbox' = inbox /\ exported' = exported
  BY DEF Raises, rankVars, runnerVars
<1>2. PoolTypes'
  BY <1>1, WorldFacts DEF PoolTypes, Raises, windowVars, Ending
<1>3. PhaseOK' /\ ExportOK'
  BY <1>1 DEF PhaseOK, ExportOK
<1>4. LogsOK(base)' /\ (Full(base) => Full(base)')
  BY <1>1, SameLogs
<1>5. \A r \in Ranks : RankOK(r, base)'
  BY <1>1, SameRank DEF Ending
<1>6. OutboxOK(base)'
  BY <1>1, <1>4, WorldFacts DEF OutboxOK, Ending
<1>7. OwnerOK(base)'
  BY <1>1 DEF OwnerOK, Ending, Opening, Busy
<1> QED BY <1>2, <1>3, <1>4, <1>5, <1>6, <1>7

LEMMA StartsRankKeeps ==
  ASSUME NEW base \in Nat, Inv(base), StartsRank, cudaIpc' = cudaIpc
  PROVE  Inv(base)'
<1> USE DEF Inv
<1>1. /\ owner = "starting" /\ closed' = closed /\ call' = call /\ answer' = answer /\ force' = force
      /\ at' = [at EXCEPT ![turn] = "loading"] /\ job' = job /\ log' = log
      /\ conditions' = conditions /\ taken' = taken /\ phase' = phase
      /\ resident' = resident /\ inbox' = inbox /\ outbox' = outbox /\ exported' = exported
      /\ window' = window /\ steps' = steps
  BY DEF StartsRank, runnerVars, pipeVars, windowVars
<1>2. /\ turn' \in Ranks
      /\ \/ turn < World - 1 /\ turn' = turn + 1 /\ owner' = "starting"
         \/ turn = World - 1 /\ turn' = 0 /\ owner' = "readying"
  BY Turns DEF PoolTypes, StartsRank
<1>3. /\ owner' \in Opening /\ at' \in [Ranks -> Places] /\ at[turn] = "unborn" /\ turn \in Ranks
      /\ call = NoCommand
  <2>1. turn \in Ranks /\ at \in [Ranks -> Places]
    BY DEF PoolTypes
  <2>2. \A r \in Ranks : r >= turn => at[r] = "unborn"
    BY <1>1 DEF OwnerOK
  <2>3. at[turn] = "unborn"
    BY <2>1, <2>2, WorldFacts
  <2>4. call = NoCommand /\ owner' \in Opening
    BY <1>1, <1>2 DEF OwnerOK, Opening
  <2>5. at' \in [Ranks -> Places]
    BY <1>1, <2>1 DEF Places
  <2> QED BY <2>1, <2>3, <2>4, <2>5
<1>4. PoolTypes'
  BY <1>1, <1>2, <1>3 DEF PoolTypes
<1>5. PhaseOK' /\ ExportOK'
  BY <1>1, <1>3 DEF PhaseOK, ExportOK, Opening, Busy
<1>6. LogsOK(base)'
  BY <1>1, SameLogs
<1>7. \A r \in Ranks : RankOK(r, base)'
  <2> TAKE r \in Ranks
  <2>1. CASE r # turn
    <3>1. at'[r] = at[r]
      BY <1>1, <2>1 DEF PoolTypes
    <3> QED BY <1>1, <1>3, <3>1, SameRank
  <2>2. CASE r = turn
    <3>1. at'[r] = "loading"
      BY <1>1, <2>2 DEF PoolTypes
    <3>2. PlaceOK(r, base)'
      BY <1>1, <1>3, <3>1 DEF PlaceOK
    <3>3. InboxOK(r, base)'
      BY <1>1 DEF RankOK, InboxOK, Share
    <3>4. RunnerOK(r, base)'
      BY <1>1, <3>1 DEF RankOK, RunnerOK
    <3> QED BY <3>2, <3>3, <3>4 DEF RankOK
  <2> QED BY <2>1, <2>2
<1>8. OutboxOK(base)'
  <2>1. \A r \in Ranks : outbox[r] # <<>> => r # turn /\ at'[r] = at[r]
    BY <1>1, <1>3 DEF OutboxOK, PoolTypes
  <2>2. Full(base) => Full(base)'
    BY <1>1, <1>6, SameLogs
  <2> QED BY <1>1, <1>3, <2>1, <2>2, WorldFacts, Single DEF OutboxOK
<1>9. OwnerOK(base)'
  <2>1. \A r \in Ranks : r > turn => at'[r] = "unborn"
    <3>1. \A r \in Ranks : r >= turn => at[r] = "unborn"
      BY <1>1 DEF OwnerOK
    <3>2. \A r \in Ranks : r > turn => at'[r] = at[r]
      BY <1>1, <1>3, WorldFacts DEF PoolTypes
    <3> QED BY <1>3, <3>1, <3>2, WorldFacts
  <2>2. owner' = "starting" => \A r \in Ranks : r >= turn' => at'[r] = "unborn"
    BY <1>2, <1>3, <2>1, WorldFacts
  <2>3. owner' = "readying" => turn' = 0 /\ \A r \in Ranks : r >= turn'
    BY <1>2, WorldFacts
  <2> QED BY <1>1, <1>3, <2>2, <2>3, WorldFacts DEF OwnerOK, Opening, Busy, Ending
<1> QED BY <1>4, <1>5, <1>6, <1>7, <1>8, <1>9

\* What the rank's message leaves in its pipe.
LEMMA Hears ==
  ASSUME PoolTypes, NEW q \in Ranks, outbox[q] # <<>>,
         outbox' = [outbox EXCEPT ![q] = Tail(@)]
  PROVE  /\ outbox' \in [Ranks -> Seq(Commands)]
         /\ \A r \in Ranks : outbox'[r] # <<>> => outbox[r] # <<>>
         /\ \A r \in Ranks : r # q => outbox'[r] = outbox[r]
         /\ outbox'[q] = Tail(outbox[q])
<1>1. outbox[q] \in Seq(Commands) /\ Tail(outbox[q]) \in Seq(Commands)
  BY Shortened DEF PoolTypes
<1> QED BY <1>1 DEF PoolTypes

\* The pipe of rank 0 never holds two messages.
LEMMA OneMessage ==
  ASSUME NEW base \in Nat, Inv(base), outbox[0] # <<>>
  PROVE  Tail(outbox[0]) = <<>> /\ Head(outbox[0]) \in {ReadyMessage, ErrorMessage, call}
  BY Messages, Single, ZenonT(120) DEF Inv, OutboxOK, PoolTypes

LEMMA RanksReadyKeeps ==
  ASSUME NEW base \in Nat, Inv(base), RanksReady, cudaIpc' = cudaIpc
  PROVE  Inv(base)'
<1> USE DEF Inv
<1>1. turn \in Ranks /\ owner = "readying" /\ outbox[turn] # <<>> /\ call = NoCommand /\ phase' = phase
  BY DEF RanksReady, PoolTypes, OwnerOK, Opening, windowVars
<1>2. /\ outbox' \in [Ranks -> Seq(Commands)]
      /\ \A r \in Ranks : outbox'[r] # <<>> => outbox[r] # <<>>
      /\ outbox'[0] \in {outbox[0], <<>>}
  BY <1>1, Hears, OneMessage, WorldFacts DEF RanksReady
<1>3. CASE Raises
  BY <1>2, <1>3, RaisesKeeps DEF RanksReady, rankVars
<1>4. CASE NextTurn("readying", "idle") /\ UNCHANGED <<force, closed, call, answer>>
  <2>1. /\ at' = at /\ job' = job /\ log' = log /\ conditions' = conditions /\ taken' = taken
        /\ resident' = resident /\ inbox' = inbox /\ exported' = exported
        /\ window' = window /\ steps' = steps /\ closed' = closed /\ call' = call
        /\ force' = force /\ answer' = answer
    BY <1>4 DEF RanksReady, rankVars, runnerVars, windowVars
  <2>2. /\ turn' \in Ranks
        /\ \/ turn < World - 1 /\ turn' = turn + 1 /\ owner' = "readying"
           \/ turn = World - 1 /\ turn' = 0 /\ owner' = "idle"
    BY <1>1, <1>4, Turns
  <2>3. \A r \in Ranks : r <= turn => at[r] \notin {"unborn", "loading"}
    <3>1. at[turn] \notin {"unborn", "loading"}
      BY <1>1 DEF OutboxOK
    <3>2. \A r \in Ranks : r < turn => at[r] \notin {"unborn", "loading"}
      BY <1>1 DEF OwnerOK
    <3> QED BY <1>1, <3>1, <3>2, WorldFacts
  <2>4. owner' = "idle" => \A r \in Ranks : at[r] \notin {"unborn", "loading"}
    BY <2>2, <2>3, WorldFacts
  <2>5. PoolTypes'
    BY <1>1, <1>2, <2>1, <2>2 DEF PoolTypes, Opening
  <2>6. PhaseOK' /\ ExportOK'
    BY <1>1, <2>1, <2>2, Messages DEF PhaseOK, ExportOK, Opening, Busy
  <2>7. LogsOK(base)' /\ (Full(base) => Full(base)')
    BY <2>1, SameLogs
  <2>8. \A r \in Ranks : RankOK(r, base)'
    <3> TAKE r \in Ranks
    <3>1. at[r] \in {"unborn", "loading"} => owner' \in Opening \cup Ending
      BY <2>2, <2>4 DEF Opening
    <3> QED BY <2>1, <3>1, SameRank
  <2>9. Full(base)
    BY <1>1, Messages DEF LogsOK, Full, Extent
  <2>10. outbox'[0] = <<>>
    <3>1. turn = 0 => outbox'[0] = <<>>
      BY <1>1, Hears, OneMessage DEF RanksReady
    <3>2. turn # 0 => outbox'[0] = outbox[0] /\ turn > 0
      BY <1>1, Hears, WorldFacts DEF RanksReady
    <3> QED BY <1>1, <3>1, <3>2 DEF OwnerOK
  <2>11. OutboxOK(base)'
    <3>1. \A r \in Ranks : outbox'[r] # <<>> => at'[r] \notin {"unborn", "loading"}
      BY <1>2, <2>1 DEF OutboxOK
    <3> QED BY <2>10, <3>1 DEF OutboxOK
  <2>12. OwnerOK(base)'
    <3>1. owner' = "idle" => at'[0] \in {"waiting", "leaving", "gone"}
      <4>1. at[0] \notin {"joined", "computing", "gathering"}
        BY <1>1, Messages, WorldFacts DEF RankOK, PlaceOK, Working
      <4> QED BY <2>1, <2>4, <4>1, WorldFacts DEF PoolTypes, Places
    <3>2. owner' = "readying" => \A r \in Ranks : r < turn' => at'[r] \notin {"unborn", "loading"}
      BY <1>1, <2>1, <2>2, <2>3, WorldFacts
    <3> QED BY <1>1, <2>1, <2>2, <2>7, <2>9, <2>10, <3>1, <3>2 DEF OwnerOK, Opening, Busy, Ending
  <2> QED BY <2>5, <2>6, <2>7, <2>8, <2>11, <2>12
<1> QED BY <1>3, <1>4 DEF RanksReady

\* Every other exception of the owner.
LEMMA FaultsKeep ==
  ASSUME NEW base \in Nat, Inv(base), Raises, UNCHANGED <<cudaIpc, windowVars, pipeVars, rankVars>>
  PROVE  Inv(base)'
<1>1. inbox' = inbox /\ outbox' = outbox /\ outbox \in [Ranks -> Seq(Commands)]
  BY DEF pipeVars, Inv, PoolTypes
<1> QED BY <1>1, RaisesKeeps

LEMMA SendsKeeps ==
  ASSUME NEW base \in Nat, Inv(base), Sends, cudaIpc' = cudaIpc
  PROVE  Inv(base)'
<1> USE DEF Inv
<1> DEFINE m == Share(turn)
<1>1. /\ owner = "sending" /\ closed' = closed /\ call' = call /\ answer' = answer /\ force' = force
      /\ at' = at /\ job' = job /\ log' = log /\ conditions' = conditions /\ taken' = taken
      /\ phase' = phase /\ window' = window /\ steps' = steps
      /\ resident' = resident /\ outbox' = outbox /\ exported' = exported
      /\ inbox' = [inbox EXCEPT ![turn] = Append(@, m)]
  BY DEF Sends, rankVars, runnerVars, windowVars, Share
<1>2. /\ turn' \in Ranks
      /\ \/ turn < World - 1 /\ turn' = turn + 1 /\ owner' = "sending"
         \/ turn = World - 1 /\ turn' = 0 /\ owner' = "receiving"
  BY Turns DEF PoolTypes, Sends
<1>3. turn \in Ranks /\ m \in Commands /\ ~closed /\ call.kind \in Working
  BY <1>1, Shares DEF PoolTypes, OwnerOK, Busy, Ending
<1>4. \A r \in Ranks : r >= turn => inbox[r] = <<>> /\ Len(log[r]) = base
  BY <1>1 DEF OwnerOK
<1>5. inbox[turn] = <<>> /\ Len(log[turn]) = base
  BY <1>3, <1>4, WorldFacts
<1>6. /\ inbox' \in [Ranks -> Seq(Commands)] /\ inbox'[turn] = <<m>>
      /\ \A r \in Ranks : r # turn => inbox'[r] = inbox[r]
  <2>1. Append(inbox[turn], m) = <<m>> /\ <<m>> \in Seq(Commands)
    BY <1>3, <1>5, Single
  <2> QED BY <1>1, <1>3, <2>1 DEF PoolTypes
<1>7. PoolTypes'
  BY <1>1, <1>2, <1>6 DEF PoolTypes, Busy
<1>8. PhaseOK'
  BY <1>1, <1>2, SamePhase DEF Busy
<1>9. outbox[0] # <<call>>
  <2>1. Extent > 0 /\ Extent \in Nat
    BY <1>3, Extents
  <2>2. ~Full(base)
    BY <1>3, <1>5, <2>1 DEF Full
  <2>3. outbox[0] = <<>> \/ outbox[0] = <<ErrorMessage>>
    BY <1>1, <2>2 DEF OutboxOK, Opening, Ending
  <2>4. <<call>> # <<ErrorMessage>>
    BY <1>3, Messages, Single DEF Working, PoolTypes
  <2> QED BY <2>3, <2>4, Single DEF PoolTypes
<1>10. ExportOK'
  BY <1>1, <1>2, <1>9 DEF ExportOK
<1>11. LogsOK(base)' /\ (Full(base) => Full(base)')
  BY <1>1, SameLogs
<1>12. \A r \in Ranks : at[r] \notin {"unborn", "loading"}
  BY <1>1 DEF RankOK, PlaceOK, Opening, Ending
<1>13. \A r \in Ranks : RankOK(r, base)'
  <2> TAKE r \in Ranks
  <2>1. CASE r # turn
    BY <1>1, <1>6, <1>12, <2>1, SameRank
  <2>2. CASE r = turn
    <3>1. PlaceOK(r, base)'
      BY <1>1, <1>12 DEF RankOK, PlaceOK, Share
    <3>2. InboxOK(r, base)'
      BY <1>1, <1>3, <1>5, <1>6, <2>2 DEF InboxOK, Share
    <3>3. RunnerOK(r, base)'
      BY <1>1 DEF RankOK, RunnerOK
    <3> QED BY <3>1, <3>2, <3>3 DEF RankOK
  <2> QED BY <2>1, <2>2
<1>14. OutboxOK(base)'
  BY <1>1, <1>2, <1>9, <1>11 DEF OutboxOK, Opening, Ending
<1>15. OwnerOK(base)'
  <2>1. \A r \in Ranks : r > turn => inbox'[r] = <<>> /\ Len(log[r]) = base
    BY <1>3, <1>4, <1>6, WorldFacts
  <2>2. owner' = "sending" => \A r \in Ranks : r >= turn' => inbox'[r] = <<>> /\ Len(log[r]) = base
    BY <1>2, <1>3, <2>1, WorldFacts
  <2> QED BY <1>1, <1>2, <1>3, <2>2 DEF OwnerOK, Opening, Busy, Ending
<1> QED BY <1>7, <1>8, <1>10, <1>11, <1>13, <1>14, <1>15

LEMMA ReceivesKeeps ==
  ASSUME NEW base \in Nat, Inv(base), Receives, cudaIpc' = cudaIpc
  PROVE  Inv(base)'
<1> USE DEF Inv
<1>1. owner = "receiving" /\ outbox[0] # <<>> /\ 0 \in Ranks
  BY WorldFacts DEF Receives
<1>2. /\ outbox' \in [Ranks -> Seq(Commands)]
      /\ \A r \in Ranks : outbox'[r] # <<>> => outbox[r] # <<>>
      /\ outbox'[0] = <<>>
  BY <1>1, Hears, OneMessage DEF Receives
<1>3. CASE Raises
  BY <1>2, <1>3, RaisesKeeps DEF Receives, rankVars
<1>4. CASE /\ Head(outbox[0]).kind # "error" /\ answer' = Head(outbox[0]) /\ owner' = "copying"
           /\ UNCHANGED <<turn, force, closed, call>>
  <2>1. /\ at' = at /\ job' = job /\ log' = log /\ conditions' = conditions /\ taken' = taken
        /\ resident' = resident /\ inbox' = inbox /\ exported' = exported /\ phase' = phase
        /\ window' = window /\ steps' = steps /\ closed' = closed /\ call' = call
        /\ force' = force /\ turn' = turn
    BY <1>4 DEF Receives, rankVars, runnerVars, windowVars
  <2>2. outbox[0] = <<call>> /\ call.kind \in Working /\ Full(base) /\ at[0] \in {"waiting", "leaving", "gone"}
    BY <1>1, <1>4, Messages, Single DEF OutboxOK, Opening, Ending
  <2>3. answer' = call
    BY <1>4, <2>2, Single DEF PoolTypes
  <2>4. PoolTypes'
    BY <1>2, <1>4, <2>1, <2>3 DEF PoolTypes, Busy
  <2>5. PhaseOK'
    BY <1>1, <1>4, <2>1, SamePhase DEF Busy
  <2>6. ExportOK'
    BY <1>1, <2>1, <2>2 DEF ExportOK
  <2>7. LogsOK(base)' /\ Full(base)'
    BY <2>1, <2>2, SameLogs
  <2>8. \A r \in Ranks : RankOK(r, base)'
    <3>1. \A r \in Ranks : at[r] \notin {"unborn", "loading"}
      BY <1>1 DEF RankOK, PlaceOK, Opening, Ending
    <3> QED BY <2>1, <3>1, SameRank
  <2>9. OutboxOK(base)'
    BY <1>2, <2>1 DEF OutboxOK
  <2>10. OwnerOK(base)'
    BY <1>1, <1>4, <2>1, <2>2, <2>3, <2>7 DEF OwnerOK, Opening, Busy, Ending
  <2> QED BY <2>4, <2>5, <2>6, <2>7, <2>8, <2>9, <2>10
<1> QED BY <1>3, <1>4 DEF Receives

LEMMA ReturnsKeeps ==
  ASSUME NEW base \in Nat, Inv(base), Returns, cudaIpc' = cudaIpc
  PROVE  Inv(base)'
<1> USE DEF Inv
<1>1. /\ owner = "copying" /\ owner' = "idle" /\ closed' = closed /\ call' = call /\ answer' = answer
      /\ force' = force /\ turn' = turn /\ window' = window /\ steps' = IF call.kind = "predict" THEN steps + 1 ELSE steps
      /\ at' = at /\ job' = job /\ log' = log /\ conditions' = conditions /\ taken' = taken
      /\ resident' = resident /\ inbox' = inbox /\ outbox' = outbox /\ exported' = exported
  BY DEF Returns, rankVars, runnerVars, pipeVars
<1>2. /\ phase = "entering" => phase' = "inside"
      /\ phase = "leaving" => phase' = "outside"
      /\ phase \notin {"entering", "leaving"} /\ call.kind = "report" => phase' = "reported"
      /\ phase \notin {"entering", "leaving"} /\ call.kind # "report" => phase' = "inside"
  BY Zenon DEF Returns
<1>3. ~closed /\ owner \in Busy /\ owner \notin Opening \cup {"idle"}
  BY <1>1 DEF OwnerOK, Ending, Busy, Opening
<1>4. /\ phase = "entering" => call.kind = "reset" /\ steps = 0
      /\ phase = "leaving" => call.kind = "reset"
      /\ phase = "inside" => \/ call.kind = "predict" /\ steps = call.step /\ window = call.window
                             \/ call.kind = "report"
      /\ phase \in {"entering", "inside", "leaving"}
  BY <1>1, <1>3 DEF PhaseOK, PoolTypes
<1>5. call.kind = "predict" => steps < Steps /\ steps \in Nat
  <2>1. call.kind = "predict" => call.step < Steps /\ steps = call.step
    BY <1>4, WorldFacts DEF RankOK, RunnerOK
  <2> QED BY <2>1 DEF PoolTypes
<1>6. PhaseOK'
  <2>1. \/ phase' = "inside" /\ call.kind = "reset" /\ steps' = 0
        \/ phase' = "outside" /\ call.kind = "reset"
        \/ phase' = "inside" /\ call.kind = "predict" /\ steps' = call.step + 1 /\ window' = call.window
        \/ phase' = "reported" /\ call.kind = "report"
    BY <1>1, <1>2, <1>4
  <2> QED BY <1>1, <2>1 DEF PhaseOK
<1>7. PoolTypes'
  <2>1. steps' \in 0..Steps
    BY <1>1, <1>5, PoolAssumption DEF PoolTypes
  <2>2. phase' \in {"outside", "inside", "reported"}
    BY <1>2, <1>4
  <2> QED BY <1>1, <2>1, <2>2 DEF PoolTypes
<1>8. ExportOK'
  BY <1>1 DEF ExportOK
<1>9. LogsOK(base)' /\ (Full(base) => Full(base)')
  BY <1>1, SameLogs
<1>10. \A r \in Ranks : RankOK(r, base)'
  <2>1. \A r \in Ranks : at[r] \notin {"unborn", "loading"}
    BY <1>1 DEF RankOK, PlaceOK, Opening, Ending
  <2> QED BY <1>1, <2>1, SameRank
<1>11. OutboxOK(base)'
  BY <1>1, <1>9 DEF OutboxOK, Opening, Ending
<1>12. OwnerOK(base)'
  BY <1>1, <1>9 DEF OwnerOK, Opening, Busy, Ending
<1> QED BY <1>6, <1>7, <1>8, <1>9, <1>10, <1>11, <1>12

\* A call moves the base: all ranks have entered the collectives of the last one.
LEMMA CallsKeeps ==
  ASSUME NEW base \in Nat, Inv(base), NEW kind \in Working, Calls(kind), cudaIpc' = cudaIpc,
         window' \in 0..MaxWindows, steps' \in 0..Steps,
         phase' \in {"outside", "entering", "inside", "reported", "leaving"}, PhaseOK',
         kind = "predict" =>
           /\ steps' < Steps
           /\ steps' > 0 => \A r \in Ranks : conditions[r] = window' /\ taken[r] = steps',
         NEW next, next = base + Extent
  PROVE  Inv(next)'
<1> USE DEF Inv
<1>1. /\ owner = "idle" /\ ~closed /\ closed' = closed /\ answer' = answer /\ force' = force
      /\ owner' = "sending" /\ turn' = 0
      /\ call' = Command(kind, call.call + 1, window', steps')
      /\ at' = at /\ job' = job /\ log' = log /\ conditions' = conditions /\ taken' = taken
      /\ resident' = resident /\ inbox' = inbox /\ outbox' = outbox /\ exported' = exported
  BY DEF Calls, rankVars, runnerVars, pipeVars
<1>2. /\ call' \in Commands /\ call'.kind = kind /\ call'.window = window' /\ call'.step = steps'
  <2>1. call.call + 1 \in Nat
    BY SMTT(60) DEF PoolTypes, Commands
  <2>2. kind \in Kinds
    BY DEF Working, Kinds
  <2>3. Command(kind, call.call + 1, window', steps') \in Commands
    BY <2>1, <2>2 DEF Command, Commands
  <2>4. /\ Command(kind, call.call + 1, window', steps').kind = kind
        /\ Command(kind, call.call + 1, window', steps').window = window'
        /\ Command(kind, call.call + 1, window', steps').step = steps'
    BY DEF Command
  <2> QED BY <1>1, <2>3, <2>4
<1>3. Full(base) /\ at[0] \in {"waiting", "leaving", "gone"} /\ call.kind \in Working \cup {"none"}
  BY <1>1 DEF OwnerOK
<1>4. /\ Extent \in {0, 1, 2} /\ (call.kind \in Working => Extent > 0)
      /\ (call.kind = "predict" => Extent = 2) /\ (call.kind = "none" => Extent = 0)
      /\ (call.kind \in {"reset", "report"} => Extent = 1)
  BY Shares, WorldFacts DEF PoolTypes
<1>5. next \in Nat /\ \A r \in Ranks : Len(log[r]) = next
  BY <1>3, <1>4 DEF Full
<1>6. PoolTypes'
  BY <1>1, <1>2, WorldFacts DEF PoolTypes, Busy
<1>7. ExportOK'
  BY <1>1 DEF ExportOK
<1>8. LogsOK(next)'
  <2>1. Extent' \in Nat
    BY <1>2, Shares DEF Extent
  <2>2. ASSUME NEW r \in Ranks, NEW s \in Ranks, NEW k \in 1..next
        PROVE  Bare(log[r][k]) = Bare(log[s][k])
    <3>1. CASE k <= base
      <4>1. k \in 1..base
        BY <3>1, <1>4
      <4> QED BY <4>1 DEF LogsOK
    <3>2. CASE k = base + 1
      <4>1. Len(log[r]) > base /\ Len(log[s]) > base
        BY <1>4, <1>5, <3>2
      <4>2. log[r][k] = Share(r) /\ log[s][k] = Share(s)
        BY <3>2, <4>1 DEF LogsOK
      <4> QED BY <4>2, Shares DEF PoolTypes
    <3>3. CASE k = base + 2
      <4>1. Len(log[r]) > base + 1 /\ Len(log[s]) > base + 1
        BY <1>4, <1>5, <3>3
      <4> QED BY <3>3, <4>1 DEF LogsOK
    <3> QED BY <1>4, <3>1, <3>2, <3>3
  <2>3. \A r \in Ranks : Len(log'[r]) = next
    BY <1>1, <1>5
  <2>4. \A r \in Ranks : Len(log'[r]) \in next..(next + Extent') /\ ~(Len(log'[r]) > next)
                         /\ ~(Len(log'[r]) > next + 1)
    BY <1>5, <2>1, <2>3
  <2>5. \A r, s \in Ranks : \A k \in 1..next : Bare(log'[r][k]) = Bare(log'[s][k])
    BY <1>1, <2>2
  <2> QED BY <2>4, <2>5 DEF LogsOK
<1>9. \A r \in Ranks : RankOK(r, next)'
  <2> TAKE r \in Ranks
  <2>1. PlaceOK(r, base) /\ InboxOK(r, base) /\ Len(log[r]) = next /\ Len(log[r]) = base + Extent
    BY <1>5 DEF RankOK
  <2>2. at[r] \notin {"unborn", "loading"}
    BY <1>1, <2>1 DEF PlaceOK, Opening, Ending
  <2>3. at[r] # "computing"
    BY <1>4, <2>1 DEF PlaceOK
  <2>4. at[r] \in {"joined", "gathering"} => r # 0
    BY <1>3
  <2>5. at[r] = "joined" => job[r].kind \in {"reset", "report"}
    <3>1. job[r] = Share(r) => job[r].kind = call.kind
      BY Shares DEF PoolTypes
    <3>2. at[r] = "joined" /\ job[r] = Share(r) /\ Len(log[r]) = base + 1 => call.kind \in {"reset", "report"}
      BY <1>4, <2>1 DEF PlaceOK, Working
    <3> QED BY <2>1, <3>1, <3>2 DEF PlaceOK
  <2>6. PlaceOK(r, next)'
    BY <1>1, <1>2, <2>1, <2>2, <2>3, <2>4, <2>5 DEF PlaceOK
  <2>7. inbox[r] = <<>>
    BY <1>1, <1>4, <2>1 DEF InboxOK
  <2>8. InboxOK(r, next)'
    BY <1>1, <2>7 DEF InboxOK
  <2>9. Len(log'[r]) # next + 1 /\ Len(log'[r]) # next + 2
    BY <1>1, <1>5
  <2>10. RunnerOK(r, next)'
    BY <1>1, <1>2, <2>3, <2>9, <1>5 DEF RunnerOK, Working
  <2> QED BY <2>6, <2>8, <2>10 DEF RankOK
<1>10. OutboxOK(next)'
  <2>1. \/ outbox[0] = <<>>
        \/ outbox[0] = <<ErrorMessage>> /\ at[0] \in {"leaving", "gone"}
    BY <1>1 DEF OutboxOK, Opening, Ending
  <2>2. \A r \in Ranks : outbox[r] # <<>> => at[r] \notin {"unborn", "loading"}
    BY DEF OutboxOK
  <2> QED BY <1>1, <2>1, <2>2 DEF OutboxOK, ErrorMessage
<1>11. OwnerOK(next)'
  <2>1. \A r \in Ranks : inbox[r] = <<>> /\ Len(log[r]) = next
    BY <1>1, <1>3, <1>4, <1>5 DEF RankOK, InboxOK, Full
  <2> QED BY <1>1, <1>2, <2>1 DEF OwnerOK, Opening, Busy, Ending
<1> QED BY <1>6, <1>7, <1>8, <1>9, <1>10, <1>11

LEMMA WindowCallsKeep ==
  ASSUME NEW base \in Nat, Inv(base), cudaIpc' = cudaIpc,
         EntersWindow \/ Predicts \/ Reports \/ LeavesWindow
  PROVE  \E next \in Nat : Inv(next)'
<1> DEFINE next == base + Extent
<1>1. call \in Commands /\ Extent \in Nat
  BY Extents DEF Inv, PoolTypes
<1>2. SUFFICES ASSUME NEW n \in Nat, n = base + Extent PROVE Inv(n)'
  BY <1>1
<1>3. /\ window \in 0..MaxWindows /\ steps \in 0..Steps /\ PhaseOK
  BY DEF Inv, PoolTypes
<1>4. ASSUME NEW kind \in Working, Calls(kind)
      PROVE  /\ owner = "idle" /\ ~closed /\ closed' = closed /\ owner' = "sending"
             /\ call'.kind = kind /\ call'.step = steps' /\ call'.window = window'
  BY <1>4 DEF Calls, Command
<1>5. CASE EntersWindow
  <2>1. Calls("reset") /\ "reset" \in Working
    BY <1>5 DEF EntersWindow, Working
  <2>2. window' \in 0..MaxWindows /\ steps' \in 0..Steps /\ phase' = "entering" /\ steps' = 0
    BY <1>3, <1>5, PoolAssumption DEF EntersWindow
  <2>3. PhaseOK'
    BY <1>4, <2>1, <2>2 DEF PhaseOK, Busy
  <2> QED BY <1>2, <2>1, <2>2, <2>3, CallsKeeps
<1>6. CASE Predicts
  <2>1. /\ Calls("predict") /\ "predict" \in Working
        /\ phase' = "inside" /\ steps' = steps /\ window' = window /\ phase = "inside" /\ steps < Steps
    BY <1>6 DEF Predicts, Working, windowVars
  <2>2. owner = "idle" /\ ~closed /\ Full(base)
    BY <1>4, <2>1 DEF Inv, OwnerOK
  <2>3. steps > 0 => call.kind = "predict" /\ steps = call.step + 1 /\ window = call.window
    BY <1>3, <2>1, <2>2 DEF PhaseOK
  <2>4. call.kind = "predict" => \A r \in Ranks : Len(log[r]) = base + 2
    BY <1>1, <2>2, Shares DEF Full
  <2>5. steps > 0 => \A r \in Ranks : conditions[r] = window /\ taken[r] = steps
    BY <2>3, <2>4 DEF Inv, RankOK, RunnerOK
  <2>6. PhaseOK'
    BY <1>4, <2>1 DEF PhaseOK, Busy
  <2> QED BY <1>2, <1>3, <2>1, <2>5, <2>6, CallsKeeps
<1>7. CASE Reports
  <2>1. /\ Calls("report") /\ "report" \in Working
        /\ phase' = "inside" /\ steps' = steps /\ window' = window
    BY <1>7 DEF Reports, Working, windowVars
  <2>2. PhaseOK'
    BY <1>4, <2>1 DEF PhaseOK, Busy
  <2> QED BY <1>2, <1>3, <2>1, <2>2, CallsKeeps
<1>8. CASE LeavesWindow
  <2>1. /\ Calls("reset") /\ "reset" \in Working
        /\ phase' = "leaving" /\ steps' = steps /\ window' = window
    BY <1>8 DEF LeavesWindow, Working
  <2>2. PhaseOK'
    BY <1>4, <2>1 DEF PhaseOK, Busy
  <2> QED BY <1>2, <1>3, <2>1, <2>2, CallsKeeps
<1> QED BY <1>5, <1>6, <1>7, <1>8

-----------------------------------------------------------------------------
(***************************************************************************)
(* close.                                                                  *)
(***************************************************************************)

LEMMA StageClosesKeeps ==
  ASSUME NEW base \in Nat, Inv(base), StageCloses, cudaIpc' = cudaIpc
  PROVE  Inv(base)'
<1> USE DEF Inv
<1>1. /\ owner = "idle" /\ ~closed /\ closed' = TRUE /\ owner' = "stopping" /\ turn' = 0
      /\ call' = call /\ answer' = answer /\ force' = force
      /\ phase' = phase /\ window' = window /\ steps' = steps
      /\ at' = at /\ job' = job /\ log' = log /\ conditions' = conditions /\ taken' = taken
      /\ resident' = resident /\ inbox' = inbox /\ outbox' = outbox /\ exported' = exported
  BY DEF StageCloses, rankVars, runnerVars, pipeVars, windowVars
<1>2. Full(base) /\ at[0] \in {"waiting", "leaving", "gone"} /\ call.kind \in Working \cup {"none"}
  BY <1>1 DEF OwnerOK
<1>3. PoolTypes'
  BY <1>1, WorldFacts DEF PoolTypes
<1>4. PhaseOK' /\ ExportOK'
  BY <1>1 DEF PhaseOK, ExportOK
<1>5. LogsOK(base)' /\ (Full(base) => Full(base)')
  BY <1>1, SameLogs
<1>6. \A r \in Ranks : at[r] \notin {"unborn", "loading"}
  BY <1>1 DEF RankOK, PlaceOK, Opening, Ending
<1>7. \A r \in Ranks : RankOK(r, base)'
  BY <1>1, <1>6, SameRank
<1>8. OutboxOK(base)'
  BY <1>1 DEF OutboxOK, Opening, Ending
<1>9. OwnerOK(base)'
  <2>1. \A r \in Ranks : inbox[r] = <<>>
    BY <1>1, <1>2, Extents DEF RankOK, InboxOK, Full
  <2> QED BY <1>1, <1>2, <1>5, <2>1 DEF OwnerOK, Opening, Busy, Ending
<1> QED BY <1>3, <1>4, <1>5, <1>7, <1>8, <1>9

LEMMA SendsCloseKeeps ==
  ASSUME NEW base \in Nat, Inv(base), SendsClose, cudaIpc' = cudaIpc
  PROVE  Inv(base)'
<1> USE DEF Inv
<1>1. /\ owner = "stopping" /\ closed' = closed /\ call' = call /\ answer' = answer /\ force' = force
      /\ at' = at /\ job' = job /\ log' = log /\ conditions' = conditions /\ taken' = taken
      /\ phase' = phase /\ window' = window /\ steps' = steps
      /\ resident' = resident /\ outbox' = outbox /\ exported' = exported
      /\ inbox' = [inbox EXCEPT ![turn] = Append(@, CloseCommand)]
  BY DEF SendsClose, rankVars, runnerVars, windowVars, CloseCommand
<1>2. /\ turn' \in Ranks
      /\ \/ turn < World - 1 /\ turn' = turn + 1 /\ owner' = "stopping"
         \/ turn = World - 1 /\ turn' = 0 /\ owner' = "closing"
  BY Turns DEF PoolTypes, SendsClose
<1>3. turn \in Ranks /\ closed
  BY <1>1 DEF PoolTypes, OwnerOK, Busy, Ending
<1>4. \A r \in Ranks : r >= turn => inbox[r] = <<>>
  BY <1>1 DEF OwnerOK
<1>5. inbox[turn] = <<>>
  BY <1>3, <1>4, WorldFacts
<1>6. /\ inbox' \in [Ranks -> Seq(Commands)] /\ inbox'[turn] = <<CloseCommand>>
      /\ \A r \in Ranks : r # turn => inbox'[r] = inbox[r]
  <2>1. Append(inbox[turn], CloseCommand) = <<CloseCommand>> /\ <<CloseCommand>> \in Seq(Commands)
    BY <1>5, Messages, Single
  <2> QED BY <1>1, <1>3, <2>1 DEF PoolTypes
<1>7. PoolTypes'
  BY <1>1, <1>2, <1>6 DEF PoolTypes, Ending
<1>8. PhaseOK' /\ ExportOK'
  BY <1>1, <1>2, <1>3 DEF PhaseOK, ExportOK
<1>9. LogsOK(base)' /\ (Full(base) => Full(base)')
  BY <1>1, SameLogs
<1>10. \A r \in Ranks : at[r] \notin {"unborn", "loading"}
  BY <1>1 DEF RankOK, PlaceOK, Opening, Ending
<1>11. \A r \in Ranks : RankOK(r, base)'
  <2> TAKE r \in Ranks
  <2>1. CASE r # turn
    BY <1>1, <1>6, <1>10, <2>1, SameRank
  <2>2. CASE r = turn
    <3>1. PlaceOK(r, base)'
      BY <1>1, <1>10 DEF RankOK, PlaceOK, Share
    <3>2. InboxOK(r, base)'
      BY <1>1, <1>3, <1>6, <2>2 DEF InboxOK, CloseCommand
    <3>3. RunnerOK(r, base)'
      BY <1>1 DEF RankOK, RunnerOK
    <3> QED BY <3>1, <3>2, <3>3 DEF RankOK
  <2> QED BY <2>1, <2>2
<1>12. OutboxOK(base)'
  <2>1. outbox[0] = <<>> \/ (outbox[0] = <<ErrorMessage>> /\ at[0] \in {"leaving", "gone"})
    BY <1>1 DEF OutboxOK, Opening, Ending
  <2> QED BY <1>1, <2>1 DEF OutboxOK, ErrorMessage
<1>13. OwnerOK(base)'
  <2>1. \A r \in Ranks : r > turn => inbox'[r] = <<>>
    <3>1. \A r \in Ranks : r > turn => r >= turn /\ r # turn
      BY <1>3, WorldFacts
    <3> QED BY <1>4, <1>6, <3>1
  <2>2. owner' = "stopping" => \A r \in Ranks : r >= turn' => inbox'[r] = <<>>
    BY <1>2, <1>3, <2>1, WorldFacts
  <2>3. call.kind \in Working \cup {"none"} /\ Full(base) /\ at[0] \in {"waiting", "leaving", "gone"}
    BY <1>1 DEF OwnerOK
  <2>4. owner' = "stopping" \/ owner' = "closing"
    BY <1>2
  <2> QED BY <1>1, <1>3, <1>9, <2>2, <2>3, <2>4 DEF OwnerOK, Opening, Busy, Ending
<1> QED BY <1>7, <1>8, <1>9, <1>11, <1>12, <1>13

\* Processes that are gone stay so, whatever ended them.
LEMMA LosesKeeps ==
  ASSUME NEW base \in Nat, Inv(base), NEW hit \in SUBSET {r \in Ranks : at[r] # "unborn"},
         at' = [r \in Ranks |-> IF r \in hit THEN "gone" ELSE at[r]],
         call' = call, answer' = answer, closed' = closed,
         UNCHANGED <<pipeVars, job, log, runnerVars>>,
         owner' = owner \/ (owner \in Ending /\ owner' \in Ending)
  PROVE  /\ at' \in [Ranks -> Places] /\ LogsOK(base)' /\ OutboxOK(base)'
         /\ \A r \in Ranks : RankOK(r, base)' /\ (at'[r] = "gone" \/ at'[r] = at[r])
         /\ \A r \in Ranks : at[r] = "unborn" => at'[r] = "unborn"
         /\ Full(base) => Full(base)'
<1> USE DEF Inv
<1>1. /\ job' = job /\ log' = log /\ conditions' = conditions /\ taken' = taken
      /\ resident' = resident /\ inbox' = inbox /\ outbox' = outbox
  BY DEF pipeVars, runnerVars
<1>2. at' \in [Ranks -> Places]
  BY DEF PoolTypes, Places
<1>3. \A r \in Ranks : (at'[r] = "gone" \/ at'[r] = at[r]) /\ (at[r] = "unborn" => at'[r] = "unborn")
  OBVIOUS
<1>4. LogsOK(base)' /\ (Full(base) => Full(base)')
  BY <1>1, SameLogs
<1>5. \A r \in Ranks : RankOK(r, base)'
  <2> TAKE r \in Ranks
  <2>1. CASE at'[r] = "gone"
    BY <1>1, <2>1, QuietRank
  <2>2. CASE at'[r] = at[r]
    <3>1. at[r] \in {"unborn", "loading"} => owner' \in Opening \cup Ending
      BY DEF RankOK, PlaceOK
    <3> QED BY <1>1, <2>2, <3>1, SameRank
  <2> QED BY <1>3, <2>1, <2>2
<1>6. OutboxOK(base)'
  <2>1. \A r \in Ranks : outbox'[r] # <<>> => at'[r] \notin {"unborn", "loading"}
    BY <1>1, <1>3 DEF OutboxOK
  <2>2. at'[0] = "gone" \/ at'[0] = at[0]
    BY <1>3, WorldFacts
  <2> QED BY <1>1, <1>4, <2>1, <2>2 DEF OutboxOK, ReadyMessage, ErrorMessage
<1> QED BY <1>2, <1>3, <1>4, <1>5, <1>6

LEMMA TerminatesKeeps ==
  ASSUME NEW base \in Nat, Inv(base), Terminates, cudaIpc' = cudaIpc
  PROVE  Inv(base)'
<1> USE DEF Inv
<1>1. PICK hit \in SUBSET {r \in Ranks : at[r] # "unborn"} :
        at' = [r \in Ranks |-> IF r \in hit THEN "gone" ELSE at[r]]
  <2>1. CASE force
    BY <2>1 DEF Terminates
  <2>2. CASE ~force
    <3>1. at' = [r \in Ranks |-> IF r \in {} THEN "gone" ELSE at[r]]
      BY <2>2 DEF Terminates, PoolTypes
    <3>2. {} \in SUBSET {r \in Ranks : at[r] # "unborn"}
      OBVIOUS
    <3> QED BY <3>1, <3>2
  <2> QED BY <2>1, <2>2
<1>2. /\ owner = "closing" /\ owner' = "joining" /\ turn' = 0
      /\ UNCHANGED <<force, closed, call, answer, windowVars, pipeVars, job, log, runnerVars>>
  BY DEF Terminates
<1>3. closed /\ owner \in Ending /\ owner' \in Ending
  BY <1>2 DEF OwnerOK, Ending
<1>4. /\ at' \in [Ranks -> Places] /\ LogsOK(base)' /\ OutboxOK(base)'
      /\ \A r \in Ranks : RankOK(r, base)'
  BY <1>1, <1>2, <1>3, LosesKeeps
<1>5. PoolTypes'
  BY <1>2, <1>3, <1>4, WorldFacts DEF PoolTypes, windowVars, pipeVars, runnerVars
<1>6. PhaseOK' /\ ExportOK'
  BY <1>2, <1>3 DEF PhaseOK, ExportOK
<1>7. OwnerOK(base)'
  BY <1>2, <1>3, WorldFacts DEF OwnerOK, Opening, Busy, Ending
<1> QED BY <1>4, <1>5, <1>6, <1>7

LEMMA KillsKeeps ==
  ASSUME NEW base \in Nat, Inv(base), Kills, cudaIpc' = cudaIpc
  PROVE  Inv(base)'
<1> USE DEF Inv
<1>1. /\ owner = "joining" /\ at[turn] \notin {"unborn", "gone"} /\ turn \in Ranks
      /\ at' = [at EXCEPT ![turn] = "gone"]
      /\ UNCHANGED <<ownerVars, windowVars, pipeVars, job, log, runnerVars>>
  BY DEF Kills, PoolTypes
<1>2. /\ turn' = turn /\ owner' = owner /\ force' = force /\ closed' = closed /\ call' = call
      /\ answer' = answer
  BY <1>1 DEF ownerVars
<1>3. at' = [r \in Ranks |-> IF r \in {turn} THEN "gone" ELSE at[r]]
  BY <1>1 DEF PoolTypes
<1>4. {turn} \in SUBSET {r \in Ranks : at[r] # "unborn"}
  BY <1>1
<1>5. /\ at' \in [Ranks -> Places] /\ LogsOK(base)' /\ OutboxOK(base)'
      /\ \A r \in Ranks : RankOK(r, base)' /\ (at'[r] = "gone" \/ at'[r] = at[r])
  BY <1>1, <1>2, <1>3, <1>4, LosesKeeps
<1>6. PoolTypes'
  BY <1>1, <1>2, <1>5 DEF PoolTypes, windowVars, pipeVars, runnerVars
<1>7. PhaseOK' /\ ExportOK'
  BY <1>1, <1>2 DEF PhaseOK, ExportOK, OwnerOK, Ending
<1>8. OwnerOK(base)'
  BY <1>1, <1>2, <1>5 DEF OwnerOK, Opening, Busy, Ending
<1> QED BY <1>5, <1>6, <1>7, <1>8

LEMMA JoinsKeeps ==
  ASSUME NEW base \in Nat, Inv(base), Joins, cudaIpc' = cudaIpc
  PROVE  Inv(base)'
<1> USE DEF Inv
<1>1. /\ owner = "joining" /\ at[turn] \in {"unborn", "gone"} /\ turn \in Ranks
      /\ closed' = closed /\ call' = call /\ answer' = answer /\ force' = force
      /\ window' = window /\ steps' = steps /\ phase' \in {"outside", phase}
      /\ at' = at /\ job' = job /\ log' = log /\ conditions' = conditions /\ taken' = taken
      /\ resident' = resident /\ inbox' = inbox /\ outbox' = outbox /\ exported' = exported
  BY DEF Joins, rankVars, runnerVars, pipeVars, PoolTypes
<1>2. /\ turn' \in Ranks
      /\ \/ turn < World - 1 /\ turn' = turn + 1 /\ owner' = "joining"
         \/ turn = World - 1 /\ turn' = 0 /\ owner' = "closed"
  BY <1>1, Turns DEF Joins
<1>3. closed /\ owner' \in Ending
  BY <1>1, <1>2 DEF OwnerOK, Ending
<1>4. PoolTypes'
  BY <1>1, <1>2, <1>3 DEF PoolTypes
<1>5. PhaseOK' /\ ExportOK'
  BY <1>1, <1>2, <1>3 DEF PhaseOK, ExportOK
<1>6. LogsOK(base)' /\ (Full(base) => Full(base)')
  BY <1>1, SameLogs
<1>7. \A r \in Ranks : RankOK(r, base)'
  BY <1>1, <1>3, SameRank
<1>8. OutboxOK(base)'
  BY <1>1, <1>3, <1>6 DEF OutboxOK, ReadyMessage, ErrorMessage, Opening, Ending
<1>9. OwnerOK(base)'
  <2>1. \A r \in Ranks : r <= turn => at[r] \in {"unborn", "gone"}
    <3>1. \A r \in Ranks : r < turn => at[r] \in {"unborn", "gone"}
      BY <1>1 DEF OwnerOK
    <3> QED BY <1>1, <3>1, WorldFacts
  <2>2. owner' = "joining" => \A r \in Ranks : r < turn' => at'[r] \in {"unborn", "gone"}
    BY <1>1, <1>2, <2>1, WorldFacts
  <2>3. owner' = "closed" => \A r \in Ranks : at'[r] \in {"unborn", "gone"}
    BY <1>1, <1>2, <2>1, WorldFacts
  <2> QED BY <1>1, <1>2, <1>3, <2>2, <2>3 DEF OwnerOK, Opening, Busy, Ending
<1> QED BY <1>4, <1>5, <1>6, <1>7, <1>8, <1>9

\* Each exception of the owner leads to close(force=True).
LEMMA OwnerRaises ==
  ASSUME NEW base \in Nat, Inv(base), cudaIpc' = cudaIpc,
         \/ StartFails \/ NoticesDead \/ NoticesPeerMessage \/ TimesOut
         \/ SendFails \/ BoundaryFails \/ SendCloseFails
  PROVE  Inv(base)'
<1>1. Raises /\ UNCHANGED <<windowVars, pipeVars, rankVars>>
  BY DEF StartFails, NoticesDead, NoticesPeerMessage, TimesOut, SendFails, BoundaryFails,
         SendCloseFails
<1> QED BY <1>1, FaultsKeep

-----------------------------------------------------------------------------
(***************************************************************************)
(* The ranks.                                                              *)
(***************************************************************************)

\* The owner's knowledge survives what a rank does: a rank that has not been
\* sent a command enters nothing, and one that is done with the call stays so.
LEMMA OwnerWaits ==
  ASSUME NEW base \in Nat, Inv(base), NEW r \in Ranks, UNCHANGED <<ownerVars, windowVars>>,
         at[r] \notin {"unborn", "gone"}, at'[r] \notin {"unborn", "loading"},
         \A q \in Ranks : q # r => at'[q] = at[q] /\ inbox'[q] = inbox[q] /\ log'[q] = log[q],
         inbox'[r] = inbox[r] \/ inbox[r] # <<>>,
         \/ Len(log'[r]) = Len(log[r])
         \/ ~Full(base) /\ (inbox[r] # <<>> \/ Len(log[r]) # base),
         r = 0 /\ at[0] \in {"waiting", "leaving", "gone"} =>
           at'[0] \in {"waiting", "leaving", "gone"} \/ ~Full(base),
         call.kind = "none" /\ at[0] \notin {"unborn", "loading"} => outbox'[0] = outbox[0]
  PROVE  OwnerOK(base)' /\ PhaseOK'
<1> USE DEF Inv
<1>1. /\ owner' = owner /\ turn' = turn /\ closed' = closed /\ call' = call /\ answer' = answer
      /\ phase' = phase /\ window' = window /\ steps' = steps
  BY DEF ownerVars, windowVars
<1>2. PhaseOK'
  BY <1>1 DEF PhaseOK
<1>3. owner = "starting" => \A q \in Ranks : q >= turn => at'[q] = "unborn"
  BY DEF OwnerOK
<1>4. owner = "readying" => \A q \in Ranks : q < turn => at'[q] \notin {"unborn", "loading"}
  BY DEF OwnerOK
<1>5. owner = "readying" /\ turn > 0 => outbox'[0] = <<>>
  <2> SUFFICES ASSUME owner = "readying", turn > 0 PROVE outbox'[0] = <<>>
    OBVIOUS
  <2>1. call.kind = "none"
    BY Messages DEF OwnerOK, Opening
  <2>2. outbox[0] = <<>> /\ at[0] \notin {"unborn", "loading"}
    BY WorldFacts DEF OwnerOK
  <2> QED BY <2>1, <2>2
<1>6. owner = "sending" => \A q \in Ranks : q >= turn => inbox'[q] = <<>> /\ Len(log'[q]) = base
  BY DEF OwnerOK
<1>7. owner = "stopping" => \A q \in Ranks : q >= turn => inbox'[q] = <<>>
  BY DEF OwnerOK
<1>8. Full(base) => Full(base)'
  BY <1>1 DEF Full, Extent
<1>9. owner \in {"idle", "copying", "stopping"} => at'[0] \in {"waiting", "leaving", "gone"}
  BY WorldFacts DEF OwnerOK
<1>10. owner = "joining" => \A q \in Ranks : q < turn => at'[q] \in {"unborn", "gone"}
  BY DEF OwnerOK
<1>11. owner = "closed" => \A q \in Ranks : at'[q] \in {"unborn", "gone"}
  BY DEF OwnerOK
<1>12. OwnerOK(base)'
  BY <1>1, <1>3, <1>4, <1>5, <1>6, <1>7, <1>8, <1>9, <1>10, <1>11 DEF OwnerOK
<1> QED BY <1>2, <1>12

\* A rank enters the next collective of the current call.
LEMMA EntersKeeps ==
  ASSUME NEW base \in Nat, Inv(base), NEW r \in Ranks, NEW entry \in Commands, Enters(r, entry),
         call' = call, Len(log[r]) < base + Extent,
         Len(log[r]) = base => entry = Share(r),
         Len(log[r]) = base + 1 => entry = GatherEntry
  PROVE  /\ LogsOK(base)' /\ log' \in [Ranks -> Seq(Commands)]
         /\ Len(log'[r]) = Len(log[r]) + 1 /\ \A q \in Ranks : q # r => log'[q] = log[q]
         /\ ~Full(base)
<1> USE DEF Inv
<1>1. log \in [Ranks -> Seq(Commands)] /\ log[r] \in Seq(Commands) /\ LogsOK(base)
  BY DEF PoolTypes
<1>2. Len(log[r]) \in base..(base + Extent) /\ Extent \in {0, 1, 2}
  BY <1>1, Extents DEF LogsOK
<1>3. log' = [log EXCEPT ![r] = Append(log[r], entry)]
  BY DEF Enters
<1>4. /\ Append(log[r], entry) \in Seq(Commands)
      /\ Len(Append(log[r], entry)) = Len(log[r]) + 1
      /\ \A k \in 1..Len(log[r]) : Append(log[r], entry)[k] = log[r][k]
      /\ Append(log[r], entry)[Len(log[r]) + 1] = entry
  BY <1>1, Appended
<1>5. /\ log' \in [Ranks -> Seq(Commands)] /\ log'[r] = Append(log[r], entry)
      /\ \A q \in Ranks : q # r => log'[q] = log[q]
  BY <1>1, <1>3, <1>4
<1>6. Extent' = Extent /\ GatherEntry' = GatherEntry /\ \A q \in Ranks : Share(q)' = Share(q)
  BY DEF Extent, GatherEntry, Share
<1>7. \A q \in Ranks : Len(log'[q]) \in base..(base + Extent)
  <2>1. Len(log'[r]) \in base..(base + Extent)
    BY <1>2, <1>4, <1>5
  <2>2. \A q \in Ranks : q # r => Len(log'[q]) \in base..(base + Extent)
    BY <1>1, <1>5 DEF LogsOK
  <2> QED BY <2>1, <2>2
<1>8. \A q \in Ranks : \A k \in 1..base : log'[q][k] = log[q][k]
  <2>1. \A k \in 1..base : k \in 1..Len(log[r])
    BY <1>2
  <2>2. \A k \in 1..base : log'[r][k] = log[r][k]
    BY <1>4, <1>5, <2>1
  <2> QED BY <1>5, <2>2
<1>9. \A q \in Ranks : Len(log'[q]) > base => log'[q][base + 1] = Share(q)
  <2>1. log'[r][base + 1] = Share(r)
    <3>1. CASE Len(log[r]) = base
      BY <1>4, <1>5, <3>1
    <3>2. CASE Len(log[r]) > base
      <4>1. base + 1 \in 1..Len(log[r])
        BY <1>2, <3>2
      <4> QED BY <1>1, <1>4, <1>5, <3>2, <4>1 DEF LogsOK
    <3> QED BY <1>2, <3>1, <3>2
  <2> QED BY <1>1, <1>5, <2>1 DEF LogsOK
<1>10. \A q \in Ranks : Len(log'[q]) > base + 1 => log'[q][base + 2] = GatherEntry
  <2>1. Len(log'[r]) > base + 1 => log'[r][base + 2] = GatherEntry
    <3>1. Len(log'[r]) > base + 1 => Len(log[r]) = base + 1
      BY <1>2, <1>4, <1>5
    <3>2. Len(log[r]) = base + 1 => log'[r][base + 2] = GatherEntry
      <4> SUFFICES ASSUME Len(log[r]) = base + 1 PROVE log'[r][base + 2] = GatherEntry
        OBVIOUS
      <4>1. Len(log[r]) + 1 = base + 2
        OBVIOUS
      <4> QED BY <1>4, <1>5, <4>1
    <3> QED BY <3>1, <3>2
  <2> QED BY <1>1, <1>5, <2>1 DEF LogsOK
<1>11. \A q, s \in Ranks : \A k \in 1..base : Bare(log'[q][k]) = Bare(log'[s][k])
  BY <1>1, <1>8 DEF LogsOK
<1>12. LogsOK(base)'
  BY <1>6, <1>7, <1>9, <1>10, <1>11 DEF LogsOK
<1>13. ~Full(base)
  BY DEF Full
<1> QED BY <1>4, <1>5, <1>12, <1>13

LEMMA Told ==
  ASSUME PoolTypes, NEW r \in Ranks, NEW m \in Commands, Tells(r, m)
  PROVE  /\ outbox' \in [Ranks -> Seq(Commands)]
         /\ \A q \in Ranks : q # r => outbox'[q] = outbox[q]
         /\ outbox[r] = <<>> => outbox'[r] = <<m>>
<1>1. outbox[r] \in Seq(Commands)
  BY DEF PoolTypes
<1>2. Append(outbox[r], m) \in Seq(Commands)
  BY <1>1, Appended
<1>3. outbox[r] = <<>> => Append(outbox[r], m) = <<m>>
  BY Single
<1> QED BY <1>2, <1>3 DEF Tells, PoolTypes

LEMMA Going ==
  ASSUME PoolTypes, NEW r \in Ranks, NEW place \in Places, Goes(r, place)
  PROVE  at' \in [Ranks -> Places] /\ at'[r] = place /\ \A q \in Ranks : q # r => at'[q] = at[q]
  BY DEF Goes, PoolTypes

\* A rank that is not at the end of a call has told nothing.
LEMMA NothingTold ==
  ASSUME NEW base \in Nat, Inv(base), at[0] \notin {"waiting", "leaving", "gone"}
  PROVE  outbox[0] = <<>>
  BY DEF Inv, OutboxOK

\* What a rank tells is heard as the answer only if it is one.
LEMMA OthersTell ==
  ASSUME NEW base \in Nat, Inv(base), NEW r \in Ranks, r # 0, UNCHANGED <<ownerVars, log>>,
         \A q \in Ranks : q # r => outbox'[q] = outbox[q] /\ at'[q] = at[q],
         at'[r] \notin {"unborn", "loading"}
  PROVE  OutboxOK(base)'
<1>1. outbox'[0] = outbox[0] /\ at'[0] = at[0] /\ owner' = owner /\ call' = call
  BY WorldFacts DEF ownerVars
<1>2. Full(base) => Full(base)'
  BY <1>1 DEF Full, Extent
<1>3. \A q \in Ranks : outbox'[q] # <<>> => at'[q] \notin {"unborn", "loading"}
  BY DEF Inv, OutboxOK
<1> QED BY <1>1, <1>2, <1>3 DEF Inv, OutboxOK, ReadyMessage, ErrorMessage

LEMMA LoadsKeeps ==
  ASSUME NEW base \in Nat, Inv(base), NEW r \in Ranks, Loads(r),
         UNCHANGED <<cudaIpc, ownerVars, windowVars>>
  PROVE  Inv(base)'
<1> USE DEF Inv
<1>1. /\ at[r] = "loading" /\ inbox' = inbox /\ job' = job /\ log' = log
      /\ conditions' = conditions /\ taken' = taken /\ resident' = resident /\ exported' = exported
      /\ call' = call /\ closed' = closed /\ owner' = owner
  BY DEF Loads, runnerVars, ownerVars
<1>2. /\ outbox' \in [Ranks -> Seq(Commands)] /\ (outbox[r] = <<>> => outbox'[r] = <<ReadyMessage>>)
      /\ \A q \in Ranks : q # r => outbox'[q] = outbox[q]
  BY Messages, Told DEF Loads, ReadyMessage
<1>3. /\ at' \in [Ranks -> Places] /\ at'[r] = "waiting" /\ \A q \in Ranks : q # r => at'[q] = at[q]
  BY Going DEF Loads, Places
<1>4. call = NoCommand /\ owner \in Opening \cup Ending /\ outbox[r] = <<>>
  BY <1>1 DEF RankOK, PlaceOK, OutboxOK
<1>5. PoolTypes'
  BY <1>1, <1>2, <1>3 DEF PoolTypes, ownerVars, windowVars
<1>6. LogsOK(base)' /\ (Full(base) => Full(base)')
  BY <1>1, SameLogs
<1>7. ExportOK'
  BY <1>1, <1>4 DEF ExportOK, Opening, Ending
<1>8. \A q \in Ranks : RankOK(q, base)'
  <2> TAKE q \in Ranks
  <2>1. CASE q # r
    BY <1>1, <1>3, <1>4, <2>1, SameRank
  <2>2. CASE q = r
    <3>1. PlaceOK(q, base)'
      BY <1>3, <2>2 DEF PlaceOK
    <3>2. InboxOK(q, base)'
      BY <1>1 DEF RankOK, InboxOK, Share
    <3>3. RunnerOK(q, base)'
      BY <1>1, <1>4, Messages DEF RankOK, RunnerOK
    <3> QED BY <3>1, <3>2, <3>3 DEF RankOK
  <2> QED BY <2>1, <2>2
<1>9. OutboxOK(base)'
  <2>1. CASE r # 0
    BY <1>1, <1>2, <1>3, <2>1, OthersTell
  <2>2. CASE r = 0
    <3>1. \A q \in Ranks : outbox'[q] # <<>> => at'[q] \notin {"unborn", "loading"}
      BY <1>2, <1>3 DEF OutboxOK
    <3> QED BY <1>1, <1>2, <1>3, <1>4, <2>2, <3>1 DEF OutboxOK, ReadyMessage
  <2> QED BY <2>1, <2>2
<1>10. OwnerOK(base)' /\ PhaseOK'
  BY <1>1, <1>2, <1>3, WorldFacts, OwnerWaits
<1> QED BY <1>5, <1>6, <1>7, <1>8, <1>9, <1>10

\* A rank takes its share of the current call, or close.
LEMMA Took ==
  ASSUME NEW base \in Nat, Inv(base), NEW r \in Ranks, inbox[r] # <<>>
  PROVE  /\ Tail(inbox[r]) = <<>>
         /\ \/ Head(inbox[r]) = Share(r) /\ Len(log[r]) = base /\ call.kind \in Working
            \/ Head(inbox[r]) = CloseCommand /\ closed
<1>1. Share(r) \in Commands /\ CloseCommand \in Commands
  BY Shares, Messages DEF Inv, PoolTypes
<1> QED BY <1>1, Single DEF Inv, RankOK, InboxOK

LEMMA TakesKeeps ==
  ASSUME NEW base \in Nat, Inv(base), NEW r \in Ranks, Takes(r),
         UNCHANGED <<cudaIpc, ownerVars, windowVars>>
  PROVE  Inv(base)'
<1> USE DEF Inv
<1> DEFINE m == Head(inbox[r])
<1>1. /\ at[r] = "waiting" /\ inbox[r] # <<>> /\ outbox' = outbox
      /\ inbox' = [inbox EXCEPT ![r] = Tail(@)] /\ job' = [job EXCEPT ![r] = m]
      /\ exported' = (IF r = 0 THEN 0 ELSE exported)
      /\ call' = call /\ closed' = closed /\ owner' = owner
  BY DEF Takes, ownerVars
<1>2. /\ m.kind = "reset" => /\ conditions' = [conditions EXCEPT ![r] = 0]
                             /\ taken' = [taken EXCEPT ![r] = 0]
      /\ m.kind # "reset" => conditions' = conditions /\ taken' = taken
  BY DEF Takes
<1>3. /\ r # 0 => resident' = resident
      /\ r = 0 /\ m.kind = "reset" => resident' = FALSE
      /\ r = 0 /\ m.kind = "predict" => resident' = TRUE
      /\ r = 0 /\ m.kind \notin {"reset", "predict"} => resident' = resident
  BY DEF Takes
<1>4. /\ m.kind = "close" => Goes(r, "leaving") /\ log' = log
      /\ m.kind # "close" => Goes(r, "joined") /\ Enters(r, m)
  BY DEF Takes
<1>5. /\ Tail(inbox[r]) = <<>>
      /\ \/ m = Share(r) /\ Len(log[r]) = base /\ call.kind \in Working
         \/ m = CloseCommand /\ closed
  BY <1>1, Took
<1>6. m \in Commands /\ inbox[r] \in Seq(Commands) /\ <<>> \in Seq(Commands)
  BY <1>1, Shortened DEF PoolTypes
<1>7. /\ inbox' \in [Ranks -> Seq(Commands)] /\ inbox'[r] = <<>>
      /\ \A q \in Ranks : q # r => inbox'[q] = inbox[q]
  BY <1>1, <1>5, <1>6 DEF PoolTypes
<1>8. /\ job' \in [Ranks -> Commands] /\ job'[r] = m /\ \A q \in Ranks : q # r => job'[q] = job[q]
  BY <1>1, <1>6 DEF PoolTypes
<1>9. /\ conditions' \in [Ranks -> 0..MaxWindows] /\ taken' \in [Ranks -> 0..Steps]
      /\ \A q \in Ranks : q # r => conditions'[q] = conditions[q] /\ taken'[q] = taken[q]
      /\ m.kind = "reset" => conditions'[r] = 0 /\ taken'[r] = 0
      /\ m.kind # "reset" => conditions'[r] = conditions[r] /\ taken'[r] = taken[r]
  <2>1. 0 \in 0..MaxWindows /\ 0 \in 0..Steps
    BY PoolAssumption
  <2>2. conditions \in [Ranks -> 0..MaxWindows] /\ taken \in [Ranks -> 0..Steps]
    BY DEF PoolTypes
  <2> QED BY <1>2, <2>1, <2>2
<1>10. resident' \in BOOLEAN /\ exported' \in Nat
  BY <1>1, <1>3 DEF PoolTypes
<1>11. PhaseOK'
  BY DEF PhaseOK, ownerVars, windowVars
<1>12. CASE m = CloseCommand /\ closed
  <2>1. m.kind = "close"
    BY <1>12, Messages
  <2>2. /\ at' \in [Ranks -> Places] /\ at'[r] = "leaving" /\ \A q \in Ranks : q # r => at'[q] = at[q]
        /\ log' = log /\ resident' = resident
    BY <1>3, <1>4, <2>1, Going DEF Places
  <2>3. PoolTypes'
    BY <1>1, <1>7, <1>8, <1>9, <1>10, <2>2 DEF PoolTypes, ownerVars, windowVars
  <2>4. LogsOK(base)' /\ (Full(base) => Full(base)')
    BY <1>1, <2>2, SameLogs
  <2>5. ExportOK'
    BY <1>1, <1>12 DEF ExportOK, OwnerOK, Ending
  <2>6. \A q \in Ranks : RankOK(q, base)'
    <3> TAKE q \in Ranks
    <3>1. CASE q # r
      <4>1. at[q] \in {"unborn", "loading"} => owner' \in Opening \cup Ending
        BY <1>1 DEF RankOK, PlaceOK
      <4> QED BY <1>1, <1>7, <1>8, <1>9, <2>2, <3>1, <4>1, SameRank
    <3>2. CASE q = r
      <4>1. PlaceOK(q, base)'
        BY <2>2, <3>2 DEF PlaceOK
      <4>2. InboxOK(q, base)'
        BY <1>7, <3>2 DEF InboxOK
      <4>3. RunnerOK(q, base)'
        BY <1>1, <1>9, <2>1, <2>2, <3>2 DEF RankOK, RunnerOK
      <4> QED BY <4>1, <4>2, <4>3 DEF RankOK
    <3> QED BY <3>1, <3>2
  <2>7. OutboxOK(base)'
    <3>1. \A q \in Ranks : outbox'[q] # <<>> => at'[q] \notin {"unborn", "loading"}
      BY <1>1, <2>2 DEF OutboxOK
    <3>2. at'[0] = at[0] \/ (at[0] = "waiting" /\ at'[0] = "leaving")
      BY <1>1, <2>2, WorldFacts
    <3> QED BY <1>1, <2>4, <3>1, <3>2 DEF OutboxOK, ReadyMessage, ErrorMessage
  <2>8. OwnerOK(base)'
    BY <1>1, <1>7, <2>2, OwnerWaits
  <2> QED BY <1>11, <2>3, <2>4, <2>5, <2>6, <2>7, <2>8
<1>13. CASE m = Share(r) /\ Len(log[r]) = base /\ call.kind \in Working
  <2>1. /\ m.kind = call.kind /\ m.kind # "close" /\ Extent > 0 /\ Extent \in Nat
    BY <1>13, Shares, Extents DEF PoolTypes, Working
  <2>2. /\ at' \in [Ranks -> Places] /\ at'[r] = "joined" /\ \A q \in Ranks : q # r => at'[q] = at[q]
        /\ Enters(r, m)
    BY <1>4, <2>1, Going DEF Places
  <2>3. /\ LogsOK(base)' /\ log' \in [Ranks -> Seq(Commands)]
        /\ Len(log'[r]) = base + 1 /\ \A q \in Ranks : q # r => log'[q] = log[q]
        /\ ~Full(base)
    <3>1. Len(log[r]) < base + Extent /\ Len(log[r]) # base + 1
      BY <1>13, <2>1
    <3> QED BY <1>1, <1>6, <1>13, <2>2, <3>1, EntersKeeps
  <2>4. PoolTypes'
    BY <1>1, <1>7, <1>8, <1>9, <1>10, <2>2, <2>3 DEF PoolTypes, ownerVars, windowVars
  <2>5. owner \notin {"idle", "copying", "stopping"} /\ outbox[0] # <<call>>
    <3>1. owner \notin {"idle", "copying", "stopping"}
      BY <2>3 DEF OwnerOK
    <3>2. \/ outbox[0] = <<>>
          \/ outbox[0] = <<ReadyMessage>> /\ call = NoCommand
          \/ outbox[0] = <<ErrorMessage>>
      BY <2>3 DEF OutboxOK
    <3>3. call \in Commands /\ call.kind \notin {"ready", "error", "none"}
      BY <1>13 DEF PoolTypes, Working
    <3>4. <<call>> # <<ReadyMessage>> /\ <<call>> # <<ErrorMessage>> /\ <<call>> # <<>>
      BY <3>3, Messages, Single
    <3> QED BY <3>1, <3>2, <3>4
  <2>6. ExportOK'
    BY <1>1, <2>5 DEF ExportOK
  <2>7. \A q \in Ranks : RankOK(q, base)'
    <3> TAKE q \in Ranks
    <3>1. CASE q # r
      <4>1. at[q] \in {"unborn", "loading"} => owner' \in Opening \cup Ending
        BY <1>1 DEF RankOK, PlaceOK
      <4>2. q = 0 => resident' = resident
        BY <1>3, <3>1
      <4> QED BY <1>1, <1>7, <1>8, <1>9, <2>2, <2>3, <3>1, <4>1, <4>2, SameRank
    <3>2. CASE q = r
      <4>1. PlaceOK(q, base)'
        BY <1>1, <1>8, <1>13, <2>2, <2>3, <3>2 DEF PlaceOK, Share
      <4>2. InboxOK(q, base)'
        BY <1>7, <3>2 DEF InboxOK
      <4>3. RunnerOK(q, base)'
        BY <1>1, <1>3, <1>9, <1>13, <2>1, <2>2, <2>3, <3>2 DEF RankOK, RunnerOK, Working
      <4> QED BY <4>1, <4>2, <4>3 DEF RankOK
    <3> QED BY <3>1, <3>2
  <2>8. OutboxOK(base)'
    <3>1. \A q \in Ranks : outbox'[q] # <<>> => at'[q] \notin {"unborn", "loading"}
      BY <1>1, <2>2 DEF OutboxOK
    <3>2. \/ outbox[0] = <<>>
          \/ outbox[0] = <<ErrorMessage>> /\ at[0] \in {"leaving", "gone"}
      BY <1>13, <2>3, Messages DEF OutboxOK, Working
    <3>3. at[0] \in {"leaving", "gone"} => at'[0] = at[0]
      BY <1>1, <2>2, WorldFacts
    <3> QED BY <1>1, <3>1, <3>2, <3>3 DEF OutboxOK, ErrorMessage
  <2>9. OwnerOK(base)'
    BY <1>1, <1>7, <2>2, <2>3, OwnerWaits
  <2> QED BY <1>11, <2>3, <2>4, <2>6, <2>7, <2>8, <2>9
<1> QED BY <1>5, <1>12, <1>13

\* Rank 0 tells the owner the result once all ranks have entered everything.
LEMMA AnswersKeep ==
  ASSUME NEW base \in Nat, Inv(base), at[0] \in {"joined", "gathering"},
         Len(log[0]) = base + Extent, Present(0) = Ranks, Answers(0), Goes(0, "waiting"),
         UNCHANGED <<cudaIpc, ownerVars, windowVars, inbox, job, log, conditions, taken, resident>>
  PROVE  Inv(base)'
<1> USE DEF Inv
<1>1. /\ inbox' = inbox /\ job' = job /\ log' = log /\ conditions' = conditions /\ taken' = taken
      /\ resident' = resident /\ call' = call /\ closed' = closed /\ owner' = owner
      /\ cudaIpc' = cudaIpc
  BY DEF ownerVars
<1>2. 0 \in Ranks /\ call.kind \in Working /\ job[0] = call /\ call \in Commands
  BY WorldFacts, Shares DEF RankOK, PlaceOK, PoolTypes
<1>3. outbox[0] = <<>>
  BY NothingTold
<1>4. /\ outbox' \in [Ranks -> Seq(Commands)] /\ outbox'[0] = <<call>>
      /\ \A q \in Ranks : q # 0 => outbox'[q] = outbox[q]
  BY <1>2, <1>3, Told DEF Answers
<1>5. exported' \in Nat /\ (cudaIpc /\ call.kind = "predict" => exported' = call.call)
  BY <1>2 DEF Answers, PoolTypes, Commands
<1>6. /\ at' \in [Ranks -> Places] /\ at'[0] = "waiting" /\ \A q \in Ranks : q # 0 => at'[q] = at[q]
  BY <1>2, Going DEF Places
<1>7. Full(base)
  <2>1. \A q \in Ranks : Len(log[q]) >= base + Extent
    BY DEF Present
  <2>2. \A q \in Ranks : Len(log[q]) \in base..(base + Extent)
    BY DEF LogsOK
  <2> QED BY <2>1, <2>2, Extents DEF Full
<1>8. PoolTypes'
  BY <1>1, <1>4, <1>5, <1>6 DEF PoolTypes, ownerVars, windowVars
<1>9. LogsOK(base)' /\ Full(base)'
  BY <1>1, <1>7, SameLogs
<1>10. owner \in {"receiving"} \cup Ending
  <2>1. owner \notin {"idle", "copying", "stopping"}
    BY DEF OwnerOK
  <2>2. owner \notin Opening
    BY <1>2, Messages DEF OwnerOK, Working
  <2>3. owner # "sending"
    <3>1. turn \in Ranks /\ turn >= turn /\ Len(log[turn]) # base
      BY <1>2, <1>7, Extents, WorldFacts, SMTT(60) DEF Full, PoolTypes
    <3> QED BY <3>1 DEF OwnerOK
  <2> QED BY <2>1, <2>2, <2>3 DEF PoolTypes, Busy
<1>11. ExportOK'
  BY <1>1, <1>5 DEF ExportOK
<1>12. \A q \in Ranks : RankOK(q, base)'
  <2> TAKE q \in Ranks
  <2>1. CASE q # 0
    <3>1. at[q] \in {"unborn", "loading"} => owner' \in Opening \cup Ending
      BY <1>1 DEF RankOK, PlaceOK
    <3> QED BY <1>1, <1>6, <2>1, <3>1, SameRank
  <2>2. CASE q = 0
    <3>1. PlaceOK(q, base)'
      BY <1>6, <2>2 DEF PlaceOK
    <3>2. InboxOK(q, base)'
      BY <1>1 DEF RankOK, InboxOK, Share
    <3>3. RunnerOK(q, base)'
      BY <1>1, <1>6, <2>2 DEF RankOK, RunnerOK
    <3> QED BY <3>1, <3>2, <3>3 DEF RankOK
  <2> QED BY <2>1, <2>2
<1>13. OutboxOK(base)'
  <2>1. \A q \in Ranks : outbox'[q] # <<>> => at'[q] \notin {"unborn", "loading"}
    BY <1>4, <1>6 DEF OutboxOK
  <2> QED BY <1>1, <1>2, <1>4, <1>6, <1>9, <1>10, <2>1 DEF OutboxOK
<1>14. OwnerOK(base)' /\ PhaseOK'
  BY <1>1, <1>2, <1>6, OwnerWaits DEF Working
<1> QED BY <1>8, <1>9, <1>11, <1>12, <1>13, <1>14

\* A peer goes on inside a call without telling anybody.
LEMMA PeerReturns ==
  ASSUME NEW base \in Nat, Inv(base), NEW r \in Ranks, r # 0, at[r] \in {"joined", "gathering"},
         Goes(r, "waiting"),
         UNCHANGED <<cudaIpc, ownerVars, windowVars, pipeVars, job, log, runnerVars>>
  PROVE  Inv(base)'
<1> USE DEF Inv
<1>1. /\ inbox' = inbox /\ job' = job /\ log' = log /\ conditions' = conditions /\ taken' = taken
      /\ resident' = resident /\ call' = call /\ closed' = closed /\ owner' = owner
      /\ outbox' = outbox /\ exported' = exported /\ cudaIpc' = cudaIpc
  BY DEF ownerVars, pipeVars, runnerVars
<1>2. /\ at' \in [Ranks -> Places] /\ at'[r] = "waiting" /\ \A q \in Ranks : q # r => at'[q] = at[q]
  BY Going DEF Places
<1>3. PoolTypes'
  BY <1>1, <1>2 DEF PoolTypes, ownerVars, windowVars
<1>4. LogsOK(base)'
  BY <1>1, SameLogs
<1>5. ExportOK'
  BY <1>1 DEF ExportOK
<1>6. \A q \in Ranks : RankOK(q, base)'
  <2> TAKE q \in Ranks
  <2>1. CASE q # r
    <3>1. at[q] \in {"unborn", "loading"} => owner' \in Opening \cup Ending
      BY <1>1 DEF RankOK, PlaceOK
    <3> QED BY <1>1, <1>2, <2>1, <3>1, SameRank
  <2>2. CASE q = r
    <3>1. PlaceOK(q, base)'
      BY <1>2, <2>2 DEF PlaceOK
    <3>2. InboxOK(q, base)'
      BY <1>1 DEF RankOK, InboxOK, Share
    <3>3. RunnerOK(q, base)'
      BY <1>1, <1>2, <2>2 DEF RankOK, RunnerOK
    <3> QED BY <3>1, <3>2, <3>3 DEF RankOK
  <2> QED BY <2>1, <2>2
<1>7. OutboxOK(base)'
  BY <1>1, <1>2, OthersTell
<1>8. OwnerOK(base)' /\ PhaseOK'
  BY <1>1, <1>2, WorldFacts, OwnerWaits
<1> QED BY <1>3, <1>4, <1>5, <1>6, <1>7, <1>8

LEMMA SynchronizesKeeps ==
  ASSUME NEW base \in Nat, Inv(base), NEW r \in Ranks, Synchronizes(r),
         UNCHANGED <<cudaIpc, ownerVars, windowVars>>
  PROVE  Inv(base)'
<1>1. at[r] = "joined" /\ job[r].kind \in {"reset", "report"} /\ Present(r) = Ranks
      /\ Goes(r, "waiting") /\ UNCHANGED <<inbox, job, log, conditions, taken, resident>>
  BY DEF Synchronizes
<1>2. CASE r = 0
  <2>1. job[0] = Share(0) /\ Len(log[0]) = base + 1 /\ call.kind \in Working
    BY <1>1, <1>2 DEF Inv, RankOK, PlaceOK
  <2>2. job[0] = call /\ call.kind \in {"reset", "report"}
    BY <1>1, <1>2, <2>1 DEF Share
  <2>3. Extent = 1
    BY <2>2 DEF Extent
  <2>4. Answers(0)
    BY <1>2 DEF Synchronizes
  <2> QED BY <1>1, <1>2, <2>1, <2>3, <2>4, AnswersKeep
<1>3. CASE r # 0
  <2>1. UNCHANGED <<pipeVars, runnerVars>>
    BY <1>1, <1>3 DEF Synchronizes, pipeVars, runnerVars
  <2> QED BY <1>1, <1>3, <2>1, PeerReturns
<1> QED BY <1>2, <1>3

LEMMA GathersKeeps ==
  ASSUME NEW base \in Nat, Inv(base), NEW r \in Ranks, Gathers(r),
         UNCHANGED <<cudaIpc, ownerVars, windowVars>>
  PROVE  Inv(base)'
<1>1. at[r] = "gathering" /\ (r = 0 => Present(r) = Ranks)
      /\ Goes(r, "waiting") /\ UNCHANGED <<inbox, job, log, conditions, taken, resident>>
  BY DEF Gathers
<1>2. CASE r = 0
  <2>1. Len(log[0]) = base + 2 /\ call.kind = "predict"
    BY <1>1, <1>2 DEF Inv, RankOK, PlaceOK
  <2>2. Extent = 2
    BY <2>1 DEF Extent
  <2>3. Answers(0)
    BY <1>2 DEF Gathers
  <2> QED BY <1>1, <1>2, <2>1, <2>2, <2>3, AnswersKeep
<1>3. CASE r # 0
  <2>1. UNCHANGED <<pipeVars, runnerVars>>
    BY <1>1, <1>3 DEF Gathers, pipeVars, runnerVars
  <2> QED BY <1>1, <1>3, <2>1, PeerReturns
<1> QED BY <1>2, <1>3

\* The packet a rank gets is the command the owner has given rank 0.
LEMMA PacketIsCall ==
  ASSUME NEW base \in Nat, Inv(base), NEW r \in Ranks, at[r] = "joined", job[r].kind = "predict",
         0 \in Present(r)
  PROVE  Packet(r) = call /\ call.kind = "predict" /\ job[r] = Share(r) /\ Len(log[r]) = base + 1
<1>1. job[r] = Share(r) /\ Len(log[r]) = base + 1
  BY DEF Inv, RankOK, PlaceOK
<1>2. call.kind = "predict"
  BY <1>1, Shares DEF Inv, PoolTypes
<1>3. Len(log[0]) > base
  BY <1>1, WorldFacts DEF Present, Inv, PoolTypes
<1>4. log[0][base + 1] = call
  BY <1>3, WorldFacts DEF Inv, LogsOK, Share
<1> QED BY <1>1, <1>2, <1>4 DEF Packet

LEMMA GetsPacketKeeps ==
  ASSUME NEW base \in Nat, Inv(base), NEW r \in Ranks, GetsPacket(r),
         UNCHANGED <<cudaIpc, ownerVars, windowVars>>
  PROVE  Inv(base)'
<1> USE DEF Inv
<1>1. /\ inbox' = inbox /\ job' = job /\ log' = log /\ at[r] = "joined"
      /\ resident' = resident /\ call' = call /\ closed' = closed /\ owner' = owner
      /\ outbox' = outbox /\ exported' = exported /\ cudaIpc' = cudaIpc
  BY DEF GetsPacket, ownerVars, pipeVars
<1>2. Packet(r) = call /\ call.kind = "predict" /\ job[r] = Share(r) /\ Len(log[r]) = base + 1
  BY PacketIsCall DEF GetsPacket
<1>3. /\ at' \in [Ranks -> Places] /\ at'[r] = "computing" /\ \A q \in Ranks : q # r => at'[q] = at[q]
  BY Going DEF GetsPacket, Places
<1>4. call.window \in 0..MaxWindows /\ call.step \in 0..Steps /\ call.step < Steps
  BY <1>2 DEF PoolTypes, Commands, RankOK, RunnerOK
<1>5. /\ conditions' \in [Ranks -> 0..MaxWindows] /\ taken' \in [Ranks -> 0..Steps]
      /\ \A q \in Ranks : q # r => conditions'[q] = conditions[q] /\ taken'[q] = taken[q]
      /\ conditions'[r] = call.window /\ taken'[r] = call.step
  <2>1. conditions \in [Ranks -> 0..MaxWindows] /\ taken \in [Ranks -> 0..Steps] /\ 0 \in 0..Steps
    BY PoolAssumption DEF PoolTypes
  <2>2. CASE call.step = 0
    <3>1. conditions' = [conditions EXCEPT ![r] = call.window] /\ taken' = [taken EXCEPT ![r] = 0]
      BY <1>2, <2>2 DEF GetsPacket
    <3> QED BY <1>4, <2>1, <2>2, <3>1
  <2>3. CASE call.step # 0
    <3>1. conditions' = conditions /\ taken' = taken
      BY <1>2, <2>3 DEF GetsPacket
    <3>2. call.step > 0 /\ Len(log[r]) <= base + 1
      BY <1>2, <1>4, <2>3
    <3>3. conditions[r] = call.window /\ taken[r] = call.step
      BY <1>2, <3>2 DEF RankOK, RunnerOK
    <3> QED BY <2>1, <3>1, <3>3
  <2> QED BY <2>2, <2>3
<1>6. PoolTypes'
  BY <1>1, <1>3, <1>5 DEF PoolTypes, ownerVars, windowVars
<1>7. LogsOK(base)' /\ (Full(base) => Full(base)')
  BY <1>1, SameLogs
<1>8. ExportOK'
  BY <1>1 DEF ExportOK
<1>9. \A q \in Ranks : RankOK(q, base)'
  <2> TAKE q \in Ranks
  <2>1. CASE q # r
    <3>1. at[q] \in {"unborn", "loading"} => owner' \in Opening \cup Ending
      BY <1>1 DEF RankOK, PlaceOK
    <3> QED BY <1>1, <1>3, <1>5, <2>1, <3>1, SameRank
  <2>2. CASE q = r
    <3>1. PlaceOK(q, base)'
      BY <1>1, <1>2, <1>3, <2>2 DEF PlaceOK, Share
    <3>2. InboxOK(q, base)'
      BY <1>1 DEF RankOK, InboxOK, Share
    <3>3. RunnerOK(q, base)'
      BY <1>1, <1>2, <1>3, <1>4, <1>5, <2>2 DEF RunnerOK
    <3> QED BY <3>1, <3>2, <3>3 DEF RankOK
  <2> QED BY <2>1, <2>2
<1>10. OutboxOK(base)'
  <2>1. CASE r # 0
    BY <1>1, <1>3, <2>1, OthersTell
  <2>2. CASE r = 0
    <3>1. outbox[0] = <<>>
      BY <1>1, <2>2, NothingTold
    <3> QED BY <1>1, <1>3, <3>1 DEF OutboxOK
  <2> QED BY <2>1, <2>2
<1>11. OwnerOK(base)' /\ PhaseOK'
  BY <1>1, <1>3, WorldFacts, OwnerWaits
<1> QED BY <1>6, <1>7, <1>8, <1>9, <1>10, <1>11

LEMMA ComputesKeeps ==
  ASSUME NEW base \in Nat, Inv(base), NEW r \in Ranks, Computes(r),
         UNCHANGED <<cudaIpc, ownerVars, windowVars>>
  PROVE  Inv(base)'
<1> USE DEF Inv
<1>1. /\ inbox' = inbox /\ job' = job /\ at[r] = "computing" /\ conditions' = conditions
      /\ resident' = resident /\ call' = call /\ closed' = closed /\ owner' = owner
      /\ outbox' = outbox /\ exported' = exported /\ cudaIpc' = cudaIpc
      /\ taken' = [taken EXCEPT ![r] = @ + 1]
  BY DEF Computes, ownerVars, pipeVars
<1>2. /\ call.kind = "predict" /\ job[r] = Share(r) /\ Len(log[r]) = base + 1
      /\ call.step < Steps /\ conditions[r] = call.window /\ taken[r] = call.step
  BY <1>1 DEF RankOK, PlaceOK, RunnerOK
<1>3. job[r].call = call.call /\ GatherEntry \in Commands /\ Extent = 2
  BY <1>2, Shares DEF PoolTypes
<1>4. Enters(r, GatherEntry)
  BY <1>3 DEF Computes, GatherEntry
<1>5. /\ at' \in [Ranks -> Places] /\ at'[r] = "gathering" /\ \A q \in Ranks : q # r => at'[q] = at[q]
  BY Going DEF Computes, Places
<1>6. /\ LogsOK(base)' /\ log' \in [Ranks -> Seq(Commands)]
      /\ Len(log'[r]) = base + 2 /\ \A q \in Ranks : q # r => log'[q] = log[q]
      /\ ~Full(base)
  <2>1. Len(log[r]) < base + Extent /\ Len(log[r]) # base /\ Len(log[r]) + 1 = base + 2
    BY <1>2, <1>3
  <2> QED BY <1>1, <1>3, <1>4, <2>1, EntersKeeps
<1>7. /\ taken' \in [Ranks -> 0..Steps] /\ taken'[r] = call.step + 1
      /\ \A q \in Ranks : q # r => taken'[q] = taken[q]
  <2>1. call.step + 1 \in 0..Steps
    <3>1. call.step \in 0..Steps
      BY DEF PoolTypes, Commands
    <3> QED BY <1>2, <3>1, PoolAssumption
  <2> QED BY <1>1, <1>2, <2>1 DEF PoolTypes
<1>8. PoolTypes'
  BY <1>1, <1>5, <1>6, <1>7 DEF PoolTypes, ownerVars, windowVars
<1>9. ExportOK'
  BY <1>1 DEF ExportOK
<1>10. \A q \in Ranks : RankOK(q, base)'
  <2> TAKE q \in Ranks
  <2>1. CASE q # r
    <3>1. at[q] \in {"unborn", "loading"} => owner' \in Opening \cup Ending
      BY <1>1 DEF RankOK, PlaceOK
    <3> QED BY <1>1, <1>5, <1>6, <1>7, <2>1, <3>1, SameRank
  <2>2. CASE q = r
    <3>1. PlaceOK(q, base)'
      BY <1>1, <1>2, <1>5, <1>6, <2>2 DEF PlaceOK, Share, Working
    <3>2. InboxOK(q, base)'
      <4>1. Len(log[r]) # base
        BY <1>2
      <4> QED BY <1>1, <2>2, <4>1 DEF RankOK, InboxOK
    <3>3. RunnerOK(q, base)'
      BY <1>1, <1>2, <1>5, <1>6, <1>7, <2>2 DEF RunnerOK
    <3> QED BY <3>1, <3>2, <3>3 DEF RankOK
  <2> QED BY <2>1, <2>2
<1>11. OutboxOK(base)'
  <2>1. \A q \in Ranks : outbox'[q] # <<>> => at'[q] \notin {"unborn", "loading"}
    BY <1>1, <1>5 DEF OutboxOK
  <2>2. outbox[0] = <<>> \/ at'[0] = at[0]
    BY <1>1, <1>5, NothingTold, WorldFacts
  <2> QED BY <1>1, <1>6, <2>1, <2>2 DEF OutboxOK, ReadyMessage, ErrorMessage
<1>12. OwnerOK(base)' /\ PhaseOK'
  <2>1. Len(log[r]) # base
    BY <1>2
  <2> QED BY <1>1, <1>5, <1>6, <2>1, OwnerWaits
<1> QED BY <1>6, <1>8, <1>9, <1>10, <1>11, <1>12

LEMMA FailsKeeps ==
  ASSUME NEW base \in Nat, Inv(base), NEW r \in Ranks, Fails(r),
         UNCHANGED <<cudaIpc, ownerVars, windowVars>>
  PROVE  Inv(base)'
<1> USE DEF Inv
<1>1. /\ at[r] \in {"loading", "joined", "computing", "gathering"}
      /\ inbox' = inbox /\ job' = job /\ log' = log
      /\ conditions' = conditions /\ taken' = taken /\ resident' = resident /\ exported' = exported
      /\ call' = call /\ closed' = closed /\ owner' = owner /\ cudaIpc' = cudaIpc
  BY DEF Fails, runnerVars, ownerVars
<1>2. /\ outbox' \in [Ranks -> Seq(Commands)] /\ (outbox[r] = <<>> => outbox'[r] = <<ErrorMessage>>)
      /\ \A q \in Ranks : q # r => outbox'[q] = outbox[q]
  BY Messages, Told DEF Fails, ErrorMessage
<1>3. /\ at' \in [Ranks -> Places] /\ at'[r] = "leaving" /\ \A q \in Ranks : q # r => at'[q] = at[q]
  BY Going DEF Fails, Places
<1>4. r = 0 => outbox[0] = <<>> /\ outbox'[0] = <<ErrorMessage>>
  BY <1>1, <1>2, NothingTold
<1>5. PoolTypes'
  BY <1>1, <1>2, <1>3 DEF PoolTypes, ownerVars, windowVars
<1>6. LogsOK(base)'
  BY <1>1, SameLogs
<1>7. call.kind # "error"
  BY DEF OwnerOK, Working
<1>8. ExportOK'
  <2>1. outbox'[0] = <<call>> => outbox[0] = <<call>>
    <3>1. CASE r # 0
      BY <1>2, <3>1, WorldFacts
    <3>2. CASE r = 0
      <4>1. <<ErrorMessage>> # <<call>>
        BY <1>7, Messages, Single DEF PoolTypes
      <4> QED BY <1>4, <3>2, <4>1
    <3> QED BY <3>1, <3>2
  <2> QED BY <1>1, <2>1 DEF ExportOK
<1>9. \A q \in Ranks : RankOK(q, base)'
  <2> TAKE q \in Ranks
  <2>1. CASE q # r
    <3>1. at[q] \in {"unborn", "loading"} => owner' \in Opening \cup Ending
      BY <1>1 DEF RankOK, PlaceOK
    <3> QED BY <1>1, <1>3, <2>1, <3>1, SameRank
  <2>2. CASE q = r
    BY <1>1, <1>3, <2>2, QuietRank
  <2> QED BY <2>1, <2>2
<1>10. OutboxOK(base)'
  <2>1. CASE r # 0
    BY <1>1, <1>2, <1>3, <2>1, OthersTell
  <2>2. CASE r = 0
    <3>1. \A q \in Ranks : outbox'[q] # <<>> => at'[q] \notin {"unborn", "loading"}
      BY <1>2, <1>3 DEF OutboxOK
    <3> QED BY <1>3, <1>4, <2>2, <3>1 DEF OutboxOK, ErrorMessage
  <2> QED BY <2>1, <2>2
<1>11. OwnerOK(base)' /\ PhaseOK'
  <2>1. call.kind = "none" /\ at[0] \notin {"unborn", "loading"} => outbox'[0] = outbox[0]
    <3>1. CASE r # 0
      BY <1>2, <3>1, WorldFacts
    <3>2. CASE r = 0
      BY <1>1, <3>2 DEF RankOK, PlaceOK, Working
    <3> QED BY <3>1, <3>2
  <2> QED BY <1>1, <1>3, <2>1, OwnerWaits
<1> QED BY <1>5, <1>6, <1>8, <1>9, <1>10, <1>11

LEMMA EndsKeeps ==
  ASSUME NEW base \in Nat, Inv(base), NEW r \in Ranks, Ends(r),
         UNCHANGED <<cudaIpc, ownerVars, windowVars>>
  PROVE  Inv(base)'
<1> USE DEF Inv
<1>1. /\ at[r] \notin {"unborn", "gone"} /\ UNCHANGED <<pipeVars, job, log, runnerVars>>
      /\ inbox' = inbox /\ outbox' = outbox /\ log' = log /\ exported' = exported
      /\ call' = call /\ answer' = answer /\ closed' = closed /\ owner' = owner
  BY DEF Ends, runnerVars, pipeVars, ownerVars
<1>2. /\ at' \in [Ranks -> Places] /\ at'[r] = "gone" /\ \A q \in Ranks : q # r => at'[q] = at[q]
  BY Going DEF Ends, Places
<1>3. at' = [q \in Ranks |-> IF q \in {r} THEN "gone" ELSE at[q]]
  BY <1>2
<1>4. {r} \in SUBSET {q \in Ranks : at[q] # "unborn"}
  BY <1>1
<1>5. /\ LogsOK(base)' /\ OutboxOK(base)' /\ \A q \in Ranks : RankOK(q, base)'
  BY <1>1, <1>3, <1>4, LosesKeeps
<1>6. PoolTypes'
  BY <1>1, <1>2 DEF PoolTypes, ownerVars, windowVars, pipeVars, runnerVars
<1>7. ExportOK'
  BY <1>1 DEF ExportOK
<1>8. OwnerOK(base)' /\ PhaseOK'
  BY <1>1, <1>2, OwnerWaits
<1> QED BY <1>5, <1>6, <1>7, <1>8

-----------------------------------------------------------------------------
(***************************************************************************)
(* The invariant.                                                          *)
(***************************************************************************)

LEMMA InitHolds == Init => IInv
<1> SUFFICES ASSUME Init PROVE Inv(0) /\ 0 \in 0..Len(log[0])
  BY DEF IInv
<1> USE DEF Init
<1>1. call = NoCommand /\ call.kind = "none" /\ NoCommand \in Commands
  BY Messages
<1>2. \A r \in Ranks : Len(log[r]) = 0 /\ log[r] = <<>> /\ inbox[r] = <<>> /\ outbox[r] = <<>>
  OBVIOUS
<1>3. Extent = 0
  BY <1>1 DEF Extent
<1>4. PoolTypes
  BY <1>1, PoolAssumption, WorldFacts DEF PoolTypes, Opening, Places
<1>5. PhaseOK /\ ExportOK
  BY <1>1 DEF PhaseOK, ExportOK, Opening
<1>6. LogsOK(0)
  BY <1>2, <1>3 DEF LogsOK
<1>7. OutboxOK(0)
  BY <1>2, WorldFacts DEF OutboxOK
<1>8. OwnerOK(0)
  BY <1>1, <1>2 DEF OwnerOK, Opening, Busy, Ending
<1>9. \A r \in Ranks : RankOK(r, 0)
  BY <1>1, <1>2 DEF RankOK, PlaceOK, InboxOK, RunnerOK, Opening
<1> QED BY <1>2, <1>4, <1>5, <1>6, <1>7, <1>8, <1>9, WorldFacts DEF Inv

LEMMA StutterKeeps ==
  ASSUME NEW base \in Nat, Inv(base), UNCHANGED vars
  PROVE  Inv(base)'
<1>1. /\ UNCHANGED <<cudaIpc, owner, turn, force, closed, phase, window, steps, call, answer>>
      /\ UNCHANGED <<inbox, outbox, at, job, log, conditions, taken, resident, exported>>
  BY DEF vars, windowVars, ownerVars, pipeVars, rankVars, runnerVars
<1>2. PoolTypes' /\ PhaseOK' /\ ExportOK'
  BY <1>1, SMTT(60) DEF Inv, PoolTypes, PhaseOK, ExportOK
<1>3. LogsOK(base)' /\ (Full(base) => Full(base)')
  BY <1>1, SameLogs DEF Inv
<1>4. OutboxOK(base)' /\ OwnerOK(base)'
  BY <1>1, <1>3 DEF Inv, OutboxOK, OwnerOK, ReadyMessage, ErrorMessage
<1>5. \A r \in Ranks : RankOK(r, base)'
  <2> TAKE r \in Ranks
  <2>1. at[r] \in {"unborn", "loading"} => owner' \in Opening \cup Ending
    BY <1>1 DEF Inv, RankOK, PlaceOK
  <2> QED BY <1>1, <2>1, SameRank DEF Inv
<1> QED BY <1>2, <1>3, <1>4, <1>5 DEF Inv

LEMMA NextKeeps == IInv /\ [Next]_vars => IInv'
<1> SUFFICES ASSUME IInv, [Next]_vars PROVE IInv'
  OBVIOUS
<1>1. PICK base \in Nat : Inv(base)
  BY DEF IInv
<1>2. SUFFICES \E next \in Nat : Inv(next)'
  <2>1. PICK next \in Nat : Inv(next)'
    BY <1>2
  <2>2. next \in 0..Len(log'[0])
    <3>1. Len(log'[0]) \in next..(next + Extent') /\ Extent' \in Nat
      <4>1. Len(log'[0]) \in next..(next + Extent')
        BY <2>1, WorldFacts DEF Inv, LogsOK
      <4>2. Extent' \in Nat
        BY DEF Extent
      <4> QED BY <4>1, <4>2
    <3> QED BY <3>1
  <2> QED BY <2>1, <2>2 DEF IInv
<1>3. CASE OwnerSteps /\ UNCHANGED cudaIpc
  BY <1>1, <1>3, StartsRankKeeps, RanksReadyKeeps, OwnerRaises, SendsKeeps, ReceivesKeeps,
     ReturnsKeeps, SendsCloseKeeps, TerminatesKeeps, KillsKeeps, JoinsKeeps DEF OwnerSteps
<1>4. CASE OwnerChoices /\ UNCHANGED cudaIpc
  BY <1>1, <1>4, OwnerRaises, WindowCallsKeep, StageClosesKeeps DEF OwnerChoices
<1>5. CASE (\E r \in Ranks : RankSteps(r) \/ RankFaults(r)) /\ UNCHANGED cudaIpc
  <2>1. PICK r \in Ranks : RankSteps(r) \/ RankFaults(r)
    BY <1>5
  <2>2. CASE RankSteps(r)
    BY <1>1, <1>5, <2>2, LoadsKeeps, TakesKeeps, SynchronizesKeeps, GetsPacketKeeps,
       ComputesKeeps, GathersKeeps DEF RankSteps
  <2>3. CASE RankFaults(r)
    BY <1>1, <1>5, <2>3, FailsKeeps, EndsKeeps DEF RankFaults
  <2> QED BY <2>1, <2>2, <2>3
<1>6. CASE UNCHANGED vars
  BY <1>1, <1>6, StutterKeeps
<1> QED BY <1>3, <1>4, <1>5, <1>6 DEF Next, Step, Done

LEMMA PoolInvariant == Spec => []IInv
  BY InitHolds, NextKeeps, PTL DEF Spec

-----------------------------------------------------------------------------
(***************************************************************************)
(* What follows from it.                                                   *)
(***************************************************************************)

LEMMA TypesFollow ==
  ASSUME NEW base \in Nat, Inv(base)
  PROVE  PoolTypeOK
<1>1. \A r \in Ranks : Len(inbox[r]) <= 1
  <2> TAKE r \in Ranks
  <2>1. Share(r) \in Commands /\ CloseCommand \in Commands
    BY Shares, Messages DEF Inv, PoolTypes
  <2>2. inbox[r] = <<>> \/ inbox[r] = <<Share(r)>> \/ inbox[r] = <<CloseCommand>>
    BY DEF Inv, RankOK, InboxOK
  <2>3. Len(<<Share(r)>>) = 1 /\ Len(<<CloseCommand>>) = 1
    BY <2>1, Single
  <2>4. Len(<<>>) = 0
    OBVIOUS
  <2>5. Len(inbox[r]) \in {0, 1}
    BY <2>2, <2>3, <2>4
  <2>6. \A n \in {0, 1} : n <= 1
    OBVIOUS
  <2> QED BY <2>5, <2>6
<1> QED BY <1>1 DEF Inv, PoolTypes, PoolTypeOK, Opening, Busy, Ending, Places

LEMMA AgreementFollows ==
  ASSUME NEW base \in Nat, Inv(base)
  PROVE  RanksAgree
<1> SUFFICES ASSUME NEW r \in Ranks, NEW s \in Ranks, NEW k \in DOMAIN log[r] \cap DOMAIN log[s]
             PROVE  Bare(log[r][k]) = Bare(log[s][k])
  BY DEF RanksAgree
<1>1. LogsOK(base) /\ call \in Commands /\ log[r] \in Seq(Commands) /\ log[s] \in Seq(Commands)
  BY DEF Inv, PoolTypes
<1>2. k \in 1..Len(log[r]) /\ k \in 1..Len(log[s])
  BY <1>1
<1>3. Len(log[r]) <= base + 2
  BY <1>1, Extents DEF LogsOK
<1>4. CASE k <= base
  <2>1. k \in 1..base
    BY <1>2, <1>4
  <2> QED BY <1>1, <2>1 DEF LogsOK
<1>5. CASE k = base + 1
  <2>1. Len(log[r]) > base /\ Len(log[s]) > base
    BY <1>1, <1>2, <1>5
  <2>2. log[r][k] = Share(r) /\ log[s][k] = Share(s)
    BY <1>1, <1>5, <2>1 DEF LogsOK
  <2> QED BY <1>1, <2>2, Shares
<1>6. CASE k = base + 2
  <2>1. Len(log[r]) > base + 1 /\ Len(log[s]) > base + 1
    BY <1>1, <1>2, <1>6
  <2> QED BY <1>1, <1>6, <2>1 DEF LogsOK
<1> QED BY <1>1, <1>2, <1>3, <1>4, <1>5, <1>6

LEMMA MatchFollows ==
  ASSUME NEW base \in Nat, Inv(base)
  PROVE  CallsMatched
<1>1. AnswerBelongs
  BY DEF Inv, OwnerOK, AnswerBelongs
<1>2. OwnConditions
  <2> SUFFICES ASSUME NEW r \in Ranks, at[r] = "computing", ~closed
               PROVE  conditions[r] = window /\ taken[r] = steps
    BY DEF OwnConditions
  <2>1. call.kind = "predict" /\ Len(log[r]) = base + 1
    BY DEF Inv, RankOK, PlaceOK
  <2>2. conditions[r] = call.window /\ taken[r] = call.step
    BY <2>1 DEF Inv, RankOK, RunnerOK
  <2>3. owner # "idle"
    <3>1. Extent = 2 /\ ~Full(base)
      BY <2>1 DEF Full, Extent
    <3> QED BY <3>1 DEF Inv, OwnerOK
  <2>4. steps = call.step /\ window = call.window
    BY <2>1, <2>3 DEF Inv, PoolTypes, PhaseOK
  <2> QED BY <2>2, <2>4
<1> QED BY <1>1, <1>2, TypesFollow, AgreementFollows DEF CallsMatched

LEMMA MemoryFollows ==
  ASSUME NEW base \in Nat, Inv(base)
  PROVE  MemoryGivenBack
<1>1. ParkedBetweenWindows
  <2> SUFFICES ASSUME owner = "idle", phase = "outside"
               PROVE  ~resident /\ \A r \in Ranks : conditions[r] = 0
    BY DEF ParkedBetweenWindows
  <2>1. ~closed /\ Full(base)
    BY DEF Inv, OwnerOK, Ending
  <2>2. call.kind \in {"none", "reset"}
    BY <2>1 DEF Inv, PhaseOK
  <2>3. call.kind = "reset" => \A r \in Ranks : Len(log[r]) = base + 1
    BY <2>1 DEF Full, Extent
  <2>4. \A r \in Ranks : conditions[r] = 0 /\ (r = 0 => ~resident)
    BY <2>2, <2>3 DEF Inv, RankOK, RunnerOK
  <2> QED BY <2>4, WorldFacts
<1>2. ExportHeld
  BY DEF Inv, ExportOK, ExportHeld
<1>3. ClosedLeavesNone
  BY DEF Inv, OwnerOK, ClosedLeavesNone
<1> QED BY <1>1, <1>2, <1>3 DEF MemoryGivenBack

\* For any number of ranks, windows and predictions, whichever process fails,
\* dies or times out: the answer a call receives is its own, the ranks meet in
\* the same collectives in the same order, and each of them computes with the
\* conditions and at the step of the owner's window (dit_executor.py).
THEOREM PoolMatchesCalls == Spec => []CallsMatched
<1>1. IInv => CallsMatched
  BY MatchFollows DEF IInv
<1> QED BY <1>1, PoolInvariant, PTL

\* For the same pools: an output stays in shared memory while it is copied,
\* nothing of a window is left on a rank after it, and a closed pool has left
\* no process (dit_executor.py).
THEOREM PoolGivesMemoryBack == Spec => []MemoryGivenBack
<1>1. IInv => MemoryGivenBack
  BY MemoryFollows DEF IInv
<1> QED BY <1>1, PoolInvariant, PTL
=============================================================================
