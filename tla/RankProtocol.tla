---------------------------- MODULE RankProtocol ----------------------------
(***************************************************************************)
(* The ranks of one resident worker group and the collectives they meet    *)
(* in: the command broadcast of entrypoints/server/worker.py, then, for    *)
(* each request, the checkpoints of nodes/control.py, the stage errors of  *)
(* parallel/stage_policy.py, the window commands of sp_dispatch.py, the    *)
(* commit of commit_sync.py and the barriers at the end.                   *)
(*                                                                         *)
(* A rank works towards a place and then waits there until every rank      *)
(* waits in a collective of the same process group.  Work can fail: in     *)
(* the same way on every rank that does it, when the request is bad, or on *)
(* one rank alone.  What the work computes is left out (ObjectChain).      *)
(***************************************************************************)
EXTENDS Naturals, Sequences, FiniteSets

CONSTANTS
    Ranks,          \* the ranks of the group, 0 is the owner and the writer
    Modes,          \* subset of AllModes
    Plans,          \* window plans: sequences over {"run", "skip"}
    MaxRequests,    \* bound: commands RUN that are dispatched
    MaxFaults       \* bound: failures of one rank alone

\* "replicated": no sequence-parallel contract, every rank runs the windows.
\* "commit_sync": an active contract in a preloading mode; the writer's patch
\* is broadcast.  "writer_owned": an active contract in the streaming mode;
\* only the writer plans windows and the peers follow its commands.
AllModes == {"replicated", "commit_sync", "writer_owned"}

ASSUME RankAssumption ==
    /\ 0 \in Ranks /\ Ranks \subseteq Nat /\ IsFiniteSet(Ranks)
    /\ Modes \subseteq AllModes
    /\ Plans \subseteq Seq({"run", "skip"})
    /\ MaxRequests \in Nat /\ MaxFaults \in Nat

VARIABLES
    mode, exact,    \* the contract, and whether masks are scanned for uint8 caches
    request,        \* [plan, bad, warmup] of the request being served
    order,          \* the command the owner broadcasts
    place, ready,   \* per rank: the next collective, and whether it waits there
    win,            \* per rank: the window being processed, from 1
    warm,           \* per rank: in the warm-up pass of the request
    error,          \* per rank: the error it takes into the collective
    flag,           \* per rank: the cancellation it read before a checkpoint
    header,         \* [code, window] of the window command the writer broadcasts
    command_dispatched,
    requested,      \* the owner's cancellation token
    pending,        \* per rank: the window of pending_window_reclaim, 0 if none
    fatal,          \* per rank: _fatal_error is set
    served, faults, \* counters of the bounds
    struck          \* history: fatal failures and those no boundary carries

vars == <<mode, exact, request, order, place, ready, win, warm, error, flag,
          header, command_dispatched, requested, pending, fatal, served, faults,
          struck>>

\* The window commands that _validate_command accepts.
Commands ==
    [code : {"RUN", "SKIP"}, window : Nat \ {0}] \cup [code : {"END", "ERROR"}, window : {0}]

Writer == 0
Peers == Ranks \ {Writer}

-----------------------------------------------------------------------------
(***************************************************************************)
(* Places.                                                                 *)
(***************************************************************************)

Checkpoints == {"start", "scan", "skip_ckpt", "denoise_step", "window_ckpt",
                "finalize_start", "prepublish"}

\* synchronize_stage_error: after a stage, a reclaim, a window and at the end.
ErrorBoundaries == {"metadata_error", "header_error", "skip_boundary", "reclaim",
                    "encode_stage", "denoise_stage", "commit_setup", "commit_stage",
                    "window_boundary", "end_boundary"}

\* Broadcasts and gathers of the group that moves the data.
DataPlaces == {"metadata", "header", "commit_header", "commit_patch", "commit_alloc",
               "commit_payload"}

DefaultPlaces == {"command", "barrier", "peaks", "destroy"}

Places == Checkpoints \cup ErrorBoundaries \cup DataPlaces \cup DefaultPlaces \cup {"gone"}

\* The process group a collective runs on.  "destroy" is the barrier of
\* destroy_runtime_distributed; behind it the process exits.
GroupOf(p) ==
    IF p \in Checkpoints \cup ErrorBoundaries THEN "control"
    ELSE IF p \in DataPlaces THEN "data"
    ELSE IF p \in DefaultPlaces THEN "default" ELSE "none"

\* The context of the request is prepared and its windows are planned by r.
PlansWindows(r) == mode # "writer_owned" \/ r = Writer

\* finalize_output is called with the arguments of the service, except in a
\* warm-up pass, whose checkpoints return at once; the real pass then starts
\* without meeting anybody.
Finalization(r) == IF warm[r] THEN "start" ELSE "finalize_start"

\* Where the loop over windows goes for r: a command first, if there are any.
LoopHead(r, w) ==
    IF mode = "writer_owned" THEN "header"
    ELSE IF w = Len(request.plan) THEN Finalization(r)
    ELSE IF request.plan[w + 1] = "skip" THEN "skip_boundary" ELSE "reclaim"

\* Mutant: in every mode only the writer scans.
Mut_AfterContext(r) ==
    IF exact /\ r = Writer /\ mode # "commit_sync" THEN "scan" ELSE LoopHead(r, 0)

\* The masks of exact caches are scanned where a streamed source is opened.
AfterContext(r) ==
    IF exact /\ PlansWindows(r) /\ mode # "commit_sync" THEN "scan" ELSE LoopHead(r, 0)

\* The writer reads the metadata of the video and broadcasts it; an error in
\* its header takes all ranks to a boundary of their own.
AfterMetadata(r) == IF header.code = "ERROR" THEN "metadata_error" ELSE AfterContext(r)

\* Where a window command takes those who have decoded it.
AfterCommand ==
    [RUN |-> "reclaim", SKIP |-> "skip_boundary",
     END |-> "end_boundary", ERROR |-> "header_error"][header.code]

\* The stages of a window.  The stages around the denoising loop are alike
\* and "encode_stage" stands for them; the loop has a checkpoint per step.
StageOrder ==
    [reclaim |-> "encode_stage", encode_stage |-> "denoise_step",
     denoise_step |-> "denoise_stage", denoise_stage |-> "commit_setup",
     commit_stage |-> "window_boundary"]

\* The last stage synchronizes the patch, unless the writer alone commits it.
CommitOrder ==
    [commit_setup |-> IF mode = "commit_sync" THEN "commit_header" ELSE "commit_stage",
     commit_header |-> "commit_patch", commit_patch |-> "commit_alloc",
     commit_alloc |-> "commit_payload", commit_payload |-> "commit_stage"]

\* The place after an undisturbed collective at the rank's place.
Following(r) ==
    LET p == place[r]
    IN  CASE p \in DOMAIN StageOrder  -> StageOrder[p]
          [] p \in DOMAIN CommitOrder -> CommitOrder[p]
          [] p = "start"    -> IF mode = "writer_owned" THEN "metadata" ELSE AfterContext(r)
          [] p = "metadata" -> AfterMetadata(r)
          [] p = "scan"     -> LoopHead(r, 0)
          [] p = "header"   -> AfterCommand
          [] p = "skip_boundary"   -> "skip_ckpt"
          [] p = "window_boundary" -> "window_ckpt"
          [] p \in {"skip_ckpt", "window_ckpt"} -> LoopHead(r, win[r] + 1)
          [] p = "end_boundary"    -> Finalization(r)
          [] p = "finalize_start"  -> "prepublish"
          [] p = "prepublish"      -> "barrier"
          [] p = "barrier"         -> "peaks"
          [] p = "peaks"           -> "command"

-----------------------------------------------------------------------------
(***************************************************************************)
(* Which work towards a place is done by whom, and what becomes of its     *)
(* failure: it is carried into the collective, or it escapes.              *)
(***************************************************************************)

Carried(r, p) ==
    \/ p \in {"reclaim", "encode_stage", "denoise_stage", "commit_setup",
              "commit_alloc", "commit_stage", "end_boundary"}
    \/ p \in {"metadata", "header", "commit_header"} /\ r = Writer
    \/ p \in {"skip_boundary", "window_boundary"} /\ PlansWindows(r)

\* The first command comes after the decoders, the encoder and the caches of
\* the request, which the writer sets up outside the handler of its runtime.
PreparesContext(r) == r = Writer /\ win[r] = 0

Escapes(r, p) ==
    \/ p \in {"start", "encode_stage", "window_boundary", "barrier"}
    \/ p \in {"scan", "skip_boundary", "reclaim", "finalize_start"} /\ PlansWindows(r)
       /\ (p = "skip_boundary" => mode # "writer_owned")
    \/ p = "prepublish" /\ r = Writer
    \/ p = "header" /\ PreparesContext(r)

\* The body of the denoising loop fails before the next checkpoint: the stage
\* ends and the rank goes to its boundary while others are in the loop.
LeavesLoop(p) == p = "denoise_step"

\* Where the data of a request can be at fault.
FragilePlaces ==
    {p \in Places : LeavesLoop(p) \/ \E r \in Ranks : Carried(r, p) \/ Escapes(r, p)}

Kinds == {"plain", "fatal"}

\* A single failure, or one that the request causes wherever its data is used.
\* A bad request fails with an ordinary error.
Fails(r, p, kind) ==
    \/ faults < MaxFaults /\ faults' = faults + 1
    \/ request.bad = p /\ kind = "plain" /\ UNCHANGED faults

Strike(r, how, kind) ==
    struck' = struck \cup {[place |-> place[r], rank |-> r, how |-> how, kind |-> kind]}

\* _is_fatal_worker_error looks at the rank's own error only, so a fatal one
\* retires this rank alone although a boundary carries the failure.
StrikeIfFatal(r, kind) ==
    IF kind = "fatal" THEN Strike(r, "carried", kind) ELSE UNCHANGED struck

-----------------------------------------------------------------------------
(***************************************************************************)
(* Leaving a request.                                                      *)
(***************************************************************************)

\* Where the writer's runtime runs; what it fails to prepare towards a command
\* is carried by the command.
InRuntime(p) == p \in {"skip_boundary", "skip_ckpt", "reclaim", "encode_stage",
                       "commit_stage", "window_boundary", "window_ckpt", "end_boundary"}

\* Mutant: whether a command is under way is not looked at.
Mut_Catches(r) ==
    /\ mode = "writer_owned" /\ r = Writer /\ InRuntime(place[r])

\* The handler around the writer's runtime tells the peers, unless a command
\* is under way.
Catches(r) ==
    /\ mode = "writer_owned" /\ r = Writer
    /\ InRuntime(place[r]) /\ ~command_dispatched

\* Where an exception of kind k takes rank r: to a last ERROR command, out of
\* the peer loop or the service when it is fatal, or to the next command.
RaisedTo(r, k) ==
    IF Catches(r) THEN "header" ELSE IF k = "fatal" THEN "destroy" ELSE "command"

Raise(S, kind) ==
    /\ place' = [r \in Ranks |-> IF r \in S THEN RaisedTo(r, kind[r]) ELSE place[r]]
    /\ ready' = [r \in Ranks |-> IF r \in S THEN Catches(r) ELSE ready[r]]
    /\ error' = [r \in Ranks |-> IF r \in S /\ ~Catches(r) THEN "none"
                                 ELSE IF r \in S THEN kind[r] ELSE error[r]]
    /\ fatal' = [r \in Ranks |-> fatal[r] \/ (r \in S /\ ~Catches(r) /\ kind[r] = "fatal")]
    /\ pending' = [r \in Ranks |-> IF r \in S /\ ~Catches(r) THEN 0 ELSE pending[r]]
    /\ header' = IF Writer \in S /\ Catches(Writer) THEN [code |-> "ERROR", window |-> 0] ELSE header
    /\ requested' = (requested /\ ~(Writer \in S /\ ~Catches(Writer)))
    /\ UNCHANGED <<mode, exact, request, order, win, warm, flag, command_dispatched, served>>

-----------------------------------------------------------------------------
(***************************************************************************)
(* Work of one rank.                                                       *)
(***************************************************************************)

Working(r, p) == place[r] = p /\ ~ready[r]

\* The owner, with the scheduler's next task or none.
CommandsRun ==
    /\ Working(Writer, "command") /\ served < MaxRequests
    /\ \E plan \in Plans, bad \in FragilePlaces \cup {"nothing"}, w \in BOOLEAN :
         request' = [plan |-> plan, bad |-> bad, warmup |-> w]
    /\ order' = "run" /\ served' = served + 1
    /\ ready' = [ready EXCEPT ![Writer] = TRUE]
    /\ UNCHANGED <<mode, exact, place, win, warm, error, flag, header, command_dispatched,
                   requested, pending, fatal, faults, struck>>

\* heartbeat while the queue is empty, and close when the service stops.
CommandsOther ==
    /\ Working(Writer, "command")
    /\ \E kind \in {"heartbeat", "shutdown"} : order' = kind
    /\ ready' = [ready EXCEPT ![Writer] = TRUE]
    /\ UNCHANGED <<mode, exact, request, place, win, warm, error, flag, header,
                   command_dispatched, requested, pending, fatal, served, faults, struck>>

\* The command the writer prepares at the head of its loop.
NextCommand ==
    IF win[Writer] = Len(request.plan) THEN [code |-> "END", window |-> 0]
    ELSE [code |-> IF request.plan[win[Writer] + 1] = "skip" THEN "SKIP" ELSE "RUN",
          window |-> win[Writer] + 1]

\* Mutants: only the end drops a finished window; the key of the window before.
Mut_PendingKept(r) ==
    IF place[r] = "end_boundary" THEN 0
    ELSE IF place[r] = "window_boundary" THEN win[r] + 1 ELSE pending[r]

\* What the work leaves behind: a finished window is handed over to the next
\* one, which reclaims it before it loads its own frames.
PendingAfterWork(r) ==
    IF place[r] \in {"reclaim", "end_boundary"} THEN 0
    ELSE IF place[r] = "window_boundary" THEN win[r] + 1 ELSE pending[r]

\* The work succeeds and the rank enters the collective.
Arrives(r) ==
    /\ ~ready[r] /\ place[r] # "gone" /\ (r = Writer => place[r] # "command")
    /\ request.bad = place[r] =>
         ~Carried(r, place[r]) /\ ~Escapes(r, place[r]) /\ ~LeavesLoop(place[r])
    /\ ready' = [ready EXCEPT ![r] = TRUE]
    /\ flag' = [flag EXCEPT ![r] = r = Writer /\ requested]
    /\ pending' = [pending EXCEPT ![r] = PendingAfterWork(r)]
    /\ IF r = Writer /\ place[r] = "header"
       THEN header' = NextCommand /\ command_dispatched' = TRUE
       ELSE IF r = Writer /\ place[r] = "metadata"
            THEN header' = [code |-> "END", window |-> 0] /\ UNCHANGED command_dispatched
            ELSE UNCHANGED <<header, command_dispatched>>
    /\ UNCHANGED <<mode, exact, request, order, place, win, warm, error, requested,
                   fatal, served, faults, struck>>

\* The work fails where the next collective carries the failure.
FailsCarried(r, kind) ==
    /\ ~ready[r] /\ Carried(r, place[r])
    /\ Fails(r, place[r], kind)
    /\ ready' = [ready EXCEPT ![r] = TRUE]
    /\ error' = [error EXCEPT ![r] = kind]
    /\ header' = IF place[r] \in {"header", "metadata"} THEN [code |-> "ERROR", window |-> 0]
                 ELSE header
    /\ StrikeIfFatal(r, kind)
    /\ UNCHANGED <<mode, exact, request, order, place, win, warm, flag, command_dispatched,
                   requested, pending, fatal, served>>

\* ... inside the denoising loop: the rank goes to the boundary of the stage.
FailsInLoop(r, kind) ==
    /\ ~ready[r] /\ LeavesLoop(place[r])
    /\ Fails(r, place[r], kind)
    /\ Strike(r, "loop", kind)
    /\ place' = [place EXCEPT ![r] = "denoise_stage"]
    /\ ready' = [ready EXCEPT ![r] = TRUE]
    /\ error' = [error EXCEPT ![r] = kind]
    /\ UNCHANGED <<mode, exact, request, order, win, warm, flag, header, command_dispatched,
                   requested, pending, fatal, served>>

\* ... or outside every boundary.
FailsOutside(r, kind) ==
    /\ ~ready[r] /\ Escapes(r, place[r])
    /\ Fails(r, place[r], kind)
    /\ Strike(r, "outside", kind)
    /\ Raise({r}, [q \in Ranks |-> kind])

\* A DELETE sets the token while the owner executes a request.
Cancels ==
    /\ place[Writer] \notin {"command", "destroy", "gone"} /\ ~requested
    /\ requested' = TRUE
    /\ UNCHANGED <<mode, exact, request, order, place, ready, win, warm, error, flag, header,
                   command_dispatched, pending, fatal, served, faults, struck>>

-----------------------------------------------------------------------------
(***************************************************************************)
(* Collectives: every rank waits at the same place p.                      *)
(***************************************************************************)

AllAt(p) == \A r \in Ranks : place[r] = p /\ ready[r]

\* All ranks go on to work towards the places that follow.
Proceed ==
    /\ place' = [r \in Ranks |-> Following(r)]
    /\ ready' = [r \in Ranks |-> Following(r) \in {"metadata_error", "header_error"}]

Rest == <<mode, exact, request, order, served, faults>>

\* _broadcast of a command, and _execute_run or the end of the peer loop.
MeetCommand ==
    /\ AllAt("command")
    /\ place' = [r \in Ranks |-> [run |-> "start", heartbeat |-> "command",
                                  shutdown |-> "destroy"][order]]
    /\ ready' = [r \in Ranks |-> FALSE]
    /\ win' = [r \in Ranks |-> 0]
    /\ warm' = [r \in Ranks |-> request.warmup]
    /\ command_dispatched' = FALSE /\ requested' = FALSE /\ struck' = {}
    /\ UNCHANGED <<Rest, error, flag, header, pending, fatal>>

\* Where service_checkpoint raises on every rank; inside the denoising stage
\* the executor catches it and takes it to the boundary of the stage.
CancelledAt(p) ==
    IF LeavesLoop(p)
    THEN /\ place' = [r \in Ranks |-> "denoise_stage"]
         /\ error' = [r \in Ranks |-> "plain"]
         /\ UNCHANGED <<Rest, ready, win, warm, flag, header, command_dispatched,
                        requested, pending, fatal>>
    ELSE Raise(Ranks, [r \in Ranks |-> "plain"]) /\ UNCHANGED faults

\* complete_boundary comes after the checkpoint of the window.
DispatchedAfter(p) == command_dispatched /\ p \notin {"skip_ckpt", "window_ckpt"}

\* Passes are counted in windows; the second pass starts over.
WindowAfter(r) ==
    IF place[r] \in {"skip_ckpt", "window_ckpt"} THEN win[r] + 1 ELSE win[r]

MeetCheckpoint ==
    /\ \E p \in Checkpoints :
         /\ AllAt(p)
         /\ IF \E r \in Ranks : flag[r]
            THEN CancelledAt(p)
            ELSE /\ Proceed
                 /\ command_dispatched' = DispatchedAfter(p)
                 /\ win' = [r \in Ranks |-> IF Following(r) = "start" THEN 0 ELSE WindowAfter(r)]
                 /\ warm' = [r \in Ranks |-> warm[r] /\ Following(r) # "start"]
                 /\ UNCHANGED <<Rest, error, flag, header, requested, pending, fatal>>
    /\ UNCHANGED struck

\* The error a rank leaves an all-reduce with: its own, or that of a peer.
Resulting(r) == IF error[r] = "none" THEN "plain" ELSE error[r]

\* synchronize_stage_error: one failure is a failure everywhere.
MeetBoundary ==
    /\ \E p \in ErrorBoundaries :
         /\ AllAt(p)
         /\ IF \A r \in Ranks : error[r] = "none"
            THEN /\ Proceed
                 /\ win' = [r \in Ranks |-> IF Following(r) = "start" THEN 0 ELSE win[r]]
                 /\ warm' = [r \in Ranks |-> warm[r] /\ Following(r) # "start"]
                 /\ UNCHANGED <<Rest, error, flag, header, command_dispatched, requested,
                                pending, fatal>>
            ELSE IF p = "commit_setup"
            THEN /\ place' = [r \in Ranks |-> "commit_stage"]
                 /\ error' = [r \in Ranks |-> Resulting(r)]
                 /\ UNCHANGED <<Rest, ready, win, warm, flag, header, command_dispatched,
                                requested, pending, fatal>>
            ELSE Raise(Ranks, [r \in Ranks |-> Resulting(r)]) /\ UNCHANGED faults
    /\ UNCHANGED struck

\* Broadcasts of a header, and the gathers of the commit, whose errors the
\* executor takes to the boundary of the stage.
MeetData ==
    /\ \E p \in DataPlaces :
         /\ AllAt(p)
         /\ IF p \in {"commit_header", "commit_alloc"} /\ \E r \in Ranks : error[r] # "none"
            THEN /\ place' = [r \in Ranks |-> "commit_stage"]
                 /\ error' = [r \in Ranks |-> Resulting(r)]
                 /\ UNCHANGED <<ready, win>>
            ELSE /\ Proceed
                 /\ win' = [r \in Ranks |-> IF p = "header" /\ r \in Peers /\ header.window > 0
                                            THEN header.window - 1 ELSE win[r]]
                 /\ UNCHANGED error
    /\ UNCHANGED <<Rest, warm, flag, header, command_dispatched, requested, pending, fatal, struck>>

\* The barrier of the session and the reduction of the peaks.
MeetEnd ==
    /\ \E p \in {"barrier", "peaks"} : AllAt(p)
    /\ Proceed
    /\ pending' = [r \in Ranks |-> 0]
    /\ requested' = (requested /\ place[Writer] # "peaks")
    /\ UNCHANGED <<Rest, win, warm, error, flag, header, command_dispatched, fatal, struck>>

\* destroy_runtime_distributed.
MeetDestroy ==
    /\ AllAt("destroy")
    /\ place' = [r \in Ranks |-> "gone"]
    /\ UNCHANGED <<Rest, ready, win, warm, error, flag, header, command_dispatched, requested,
                   pending, fatal, struck>>

Init ==
    /\ mode \in Modes /\ exact \in BOOLEAN
    /\ request = [plan |-> <<>>, bad |-> "nothing", warmup |-> FALSE] /\ order = "heartbeat"
    /\ place = [r \in Ranks |-> "command"] /\ ready = [r \in Ranks |-> FALSE]
    /\ win = [r \in Ranks |-> 0] /\ warm = [r \in Ranks |-> FALSE]
    /\ error = [r \in Ranks |-> "none"] /\ flag = [r \in Ranks |-> FALSE]
    /\ header = [code |-> "END", window |-> 0] /\ command_dispatched = FALSE
    /\ requested = FALSE /\ pending = [r \in Ranks |-> 0]
    /\ fatal = [r \in Ranks |-> FALSE]
    /\ served = 0 /\ faults = 0 /\ struck = {}

Work ==
    \E r \in Ranks :
        \/ Arrives(r)
        \/ \E kind \in Kinds : FailsCarried(r, kind) \/ FailsInLoop(r, kind) \/ FailsOutside(r, kind)

Meet == MeetCommand \/ MeetCheckpoint \/ MeetBoundary \/ MeetData \/ MeetEnd \/ MeetDestroy

Next == CommandsRun \/ CommandsOther \/ Cancels \/ Work \/ Meet

Spec == Init /\ [][Next]_vars

-----------------------------------------------------------------------------
(***************************************************************************)
(* What the collectives promise.                                           *)
(***************************************************************************)

\* Type correctness of the ranks' positions and of what they exchange.
RankTypeOK ==
    /\ mode \in AllModes /\ exact \in BOOLEAN
    /\ request \in [plan : Plans \cup {<<>>}, bad : Places \cup {"nothing"}, warmup : BOOLEAN]
    /\ order \in {"run", "heartbeat", "shutdown"}
    /\ place \in [Ranks -> Places] /\ ready \in [Ranks -> BOOLEAN]
    /\ win \in [Ranks -> Nat] /\ warm \in [Ranks -> BOOLEAN]
    /\ error \in [Ranks -> Kinds \cup {"none"}] /\ flag \in [Ranks -> BOOLEAN]
    /\ header \in Commands
    /\ command_dispatched \in BOOLEAN /\ requested \in BOOLEAN
    /\ pending \in [Ranks -> Nat] /\ fatal \in [Ranks -> BOOLEAN]
    /\ served \in 0..MaxRequests /\ faults \in 0..MaxFaults

\* Some rank, and not every rank, has failed outside a boundary, inside the
\* denoising loop or fatally; or only the writer scans masks for checkpoints.
Exposed ==
    \/ \E s \in struck, r \in Ranks : [s EXCEPT !.rank = r] \notin struck
    \/ exact /\ mode = "writer_owned"

\* Ranks that wait, wait in the same collective: whatever windows are run or
\* skipped, whenever the request is cancelled, whichever pass it is, and
\* whichever rank fails where a boundary carries the failure.
Aligned ==
    Exposed \/ \A r, s \in Ranks : ready[r] /\ ready[s] => place[r] = place[s]

\* The ranks compute the same window of the same pass, although the peers of
\* a writer-owned runtime know it from the writer's commands only.
SameWindow ==
    Exposed \/ \A r, s \in Ranks :
        ready[r] /\ ready[s] /\ place[r] \in ErrorBoundaries \cup {"denoise_step"} =>
            win[r] = win[s] /\ warm[r] = warm[s]

\* The tensors of a finished window are gone before the next one is loaded,
\* on the writer and on the peers, also across skipped windows.
OneWindowResident ==
    \A r \in Ranks :
        place[r] \in {"encode_stage", "denoise_step", "denoise_stage", "commit_setup",
                      "commit_header", "commit_patch", "commit_alloc", "commit_payload", "commit_stage"}
            => pending[r] = 0

\* A rank that gives up the group for a fatal error of its own leaves nobody
\* who could be told in another collective than the command broadcast: no
\* other rank is inside a request, unless something else has separated them.
RetiredOutsideRequests ==
    \A r \in Ranks : fatal[r] /\ (\A s \in struck : s.how = "carried") /\ ~(exact /\ mode = "writer_owned") =>
        \A q \in Ranks : place[q] \in {"command", "destroy", "gone"}

\* The ranks of a request stay together: same collective, same window, and no
\* rank abandons the others within a request.
RanksTogether == RankTypeOK /\ Aligned /\ SameWindow /\ RetiredOutsideRequests

-----------------------------------------------------------------------------
(***************************************************************************)
(* Liveness.  Work ends, and a collective all ranks have entered returns;  *)
(* commands and cancellations need not come.                               *)
(***************************************************************************)

FairSpec ==
    /\ Spec
    /\ WF_vars(Meet)
    /\ \A r \in Ranks : WF_vars(Arrives(r) \/ \E kind \in Kinds :
           FailsCarried(r, kind) \/ FailsInLoop(r, kind) \/ FailsOutside(r, kind))

\* A request that has begun ends on every rank, in success, failure or
\* cancellation, unless a failure has separated the ranks.
EveryRankReturns ==
    \A r \in Ranks :
        (place[r] \notin {"command", "destroy", "gone"}) ~>
            (place[r] \in {"command", "destroy", "gone"} \/ Exposed)
=============================================================================
