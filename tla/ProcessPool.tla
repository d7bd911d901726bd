----------------------------- MODULE ProcessPool -----------------------------
(***************************************************************************)
(* DiTProcessPool and DiTProcessWindow of pipelines/runtime/dit_executor:  *)
(* the owner of a request drives one process per device through a pipe     *)
(* each, and the processes compute together through collectives.           *)
(*                                                                         *)
(* A call sends its command to the ranks one by one and waits for rank 0   *)
(* to answer.  Any failure of a call closes the pool for good.  A window   *)
(* of the video is a reset, a number of predictions of which only the      *)
(* first carries the conditions of the window, a report and another reset. *)
(*                                                                         *)
(* Every process may fail with a message or die without one at any time.   *)
(***************************************************************************)
EXTENDS Integers, Sequences

CONSTANTS
    World,       \* number of ranks
    Steps,       \* predictions of one window
    MaxWindows,  \* windows the owner runs at most
    Transports   \* values of "the boundary is CUDA IPC"

ASSUME PoolAssumption ==
    /\ World \in Nat \ {0} /\ Steps \in Nat \ {0} /\ MaxWindows \in Nat
    /\ Transports \subseteq BOOLEAN

Ranks == 0..(World - 1)

VARIABLES
    cudaIpc,     \* boundary_transport
    owner,       \* program counter of the owner
    turn,        \* the rank its loop is at
    force,       \* the pool is being closed by force
    closed,      \* pool.closed
    phase,       \* where the owner is in its window
    window,      \* number of the window
    steps,       \* DiTProcessWindow.steps
    call,        \* the command of the current call and its number
    answer,      \* what the call received
    inbox,       \* what the owner has sent to each rank
    outbox,      \* what each rank has sent to the owner
    at,          \* program counter of each rank
    job,         \* the message it works on
    log,         \* the collectives it has entered
    conditions,  \* runner.static: the window they belong to, 0 for none
    taken,       \* runner.cache_steps
    resident,    \* rank 0 has its weights on the device
    exported     \* the call whose output rank 0 keeps alive, 0 for none

windowVars == <<phase, window, steps>>
ownerVars  == <<owner, turn, force, closed, call, answer>>
pipeVars   == <<inbox, outbox>>
runnerVars == <<conditions, taken, resident, exported>>
rankVars   == <<at, job, log, runnerVars>>
vars == <<cudaIpc, windowVars, ownerVars, pipeVars, rankVars>>

\* A command as the owner issues it.  Only rank 0 is sent the packet.
Command(kind, number, w, s) == [kind |-> kind, call |-> number, window |-> w, step |-> s]

Bare(command) == Command(command.kind, command.call, 0, 0)

NoCommand == Command("none", 0, 0, 0)

Init ==
    /\ cudaIpc \in Transports
    /\ owner = "starting" /\ turn = 0 /\ force = FALSE /\ closed = FALSE
    /\ phase = "outside" /\ window = 0 /\ steps = 0
    /\ call = NoCommand /\ answer = NoCommand
    /\ inbox = [r \in Ranks |-> <<>>] /\ outbox = [r \in Ranks |-> <<>>]
    /\ at = [r \in Ranks |-> "unborn"]
    /\ job = [r \in Ranks |-> NoCommand]
    /\ log = [r \in Ranks |-> <<>>]
    /\ conditions = [r \in Ranks |-> 0] /\ taken = [r \in Ranks |-> 0]
    /\ resident = FALSE /\ exported = 0

-----------------------------------------------------------------------------
(***************************************************************************)
(* The owner: what it does on the way of a call, and when a call raises.   *)
(***************************************************************************)

\* The loop over the ranks goes on, or the owner does what follows it.
NextTurn(current, after) ==
    IF turn < World - 1
    THEN turn' = turn + 1 /\ owner' = current
    ELSE turn' = 0 /\ owner' = after

\* Every exception of a call, and of __init__, ends in close(force=True).
Raises ==
    /\ closed' = TRUE /\ force' = TRUE
    /\ owner' = "closing" /\ turn' = 0
    /\ UNCHANGED <<call, answer>>

Gone(r) == at[r] = "gone"

\* __init__ starts one process after the other.
StartsRank ==
    /\ owner = "starting"
    /\ at' = [at EXCEPT ![turn] = "loading"]
    /\ NextTurn("starting", "readying")
    /\ UNCHANGED <<force, closed, call, answer, windowVars, pipeVars, job, log, runnerVars>>

StartFails ==
    /\ owner = "starting"
    /\ Raises
    /\ UNCHANGED <<windowVars, pipeVars, rankVars>>

\* It then waits for the ranks in order; the messages of later ranks stay in
\* their pipes.
RanksReady ==
    /\ owner = "readying" /\ outbox[turn] # <<>>
    /\ outbox' = [outbox EXCEPT ![turn] = Tail(@)]
    /\ IF Head(outbox[turn]).kind = "ready"
       THEN NextTurn("readying", "idle") /\ UNCHANGED <<force, closed, call, answer>>
       ELSE Raises
    /\ UNCHANGED <<windowVars, inbox, rankVars>>

\* Bug seeded to test the checks: only rank 0 is watched.
Mut_NoticesDead ==
    /\ owner \in {"readying", "receiving"} /\ Gone(0)
    /\ Raises
    /\ UNCHANGED <<windowVars, pipeVars, rankVars>>

\* _receive finds a process that has ended.
NoticesDead ==
    /\ owner \in {"readying", "receiving"} /\ \E r \in Ranks : Gone(r)
    /\ Raises
    /\ UNCHANGED <<windowVars, pipeVars, rankVars>>

\* _receive finds a message in the pipe of a peer: only failures are sent there.
NoticesPeerMessage ==
    /\ owner = "receiving" /\ \E r \in Ranks \ {0} : outbox[r] # <<>>
    /\ Raises
    /\ UNCHANGED <<windowVars, pipeVars, rankVars>>

TimesOut ==
    /\ owner \in {"readying", "receiving"}
    /\ Raises
    /\ UNCHANGED <<windowVars, pipeVars, rankVars>>

\* A call begins.
Calls(kind) ==
    /\ owner = "idle" /\ ~closed
    /\ call' = Command(kind, call.call + 1, window', steps')
    /\ owner' = "sending" /\ turn' = 0
    /\ UNCHANGED <<force, closed, answer, pipeVars, rankVars>>

Sends ==
    /\ owner = "sending" /\ ~Gone(turn)
    /\ inbox' = [inbox EXCEPT ![turn] = Append(@, IF turn = 0 THEN call ELSE Bare(call))]
    /\ NextTurn("sending", "receiving")
    /\ UNCHANGED <<force, closed, call, answer, windowVars, outbox, rankVars>>

\* Bug seeded to test the checks: a command that cannot be sent leaves the pool
\* open, and the ranks that were sent it are not told.
Mut_SendFails ==
    /\ owner = "sending" /\ at[turn] \in {"leaving", "gone"}
    /\ owner' = "idle"
    /\ phase' = (IF phase = "inside" THEN "inside" ELSE "outside")
    /\ UNCHANGED <<turn, force, closed, call, answer, window, steps, pipeVars, rankVars>>

\* The other end of the pipe is closed.
SendFails ==
    /\ owner = "sending" /\ at[turn] \in {"leaving", "gone"}
    /\ Raises
    /\ UNCHANGED <<windowVars, pipeVars, rankVars>>

Receives ==
    /\ owner = "receiving" /\ outbox[0] # <<>>
    /\ outbox' = [outbox EXCEPT ![0] = Tail(@)]
    /\ IF Head(outbox[0]).kind = "error"
       THEN Raises
       ELSE /\ answer' = Head(outbox[0])
            /\ owner' = "copying"
            /\ UNCHANGED <<turn, force, closed, call>>
    /\ UNCHANGED <<windowVars, inbox, rankVars>>

\* With CUDA IPC the inputs are checked before they are sent, and the output is
\* copied out of the memory of rank 0: both may fail.
BoundaryFails ==
    /\ cudaIpc /\ call.kind = "predict"
    /\ owner = "copying" \/ (owner = "sending" /\ turn = 0)
    /\ Raises
    /\ UNCHANGED <<windowVars, pipeVars, rankVars>>

\* The call returns to the window.
Returns ==
    /\ owner = "copying"
    /\ owner' = "idle"
    /\ steps' = (IF call.kind = "predict" THEN steps + 1 ELSE steps)
    /\ phase' = (CASE phase = "entering" -> "inside"
                   [] phase = "leaving" -> "outside"
                   [] OTHER -> IF call.kind = "report" THEN "reported" ELSE "inside")
    /\ UNCHANGED <<turn, force, closed, call, answer, window, pipeVars, rankVars>>

-----------------------------------------------------------------------------
(***************************************************************************)
(* A window.                                                               *)
(***************************************************************************)

EntersWindow ==
    /\ phase = "outside" /\ window < MaxWindows
    /\ window' = window + 1 /\ steps' = 0 /\ phase' = "entering"
    /\ Calls("reset")

Predicts ==
    /\ phase = "inside" /\ steps < Steps
    /\ UNCHANGED windowVars
    /\ Calls("predict")

Reports ==
    /\ phase = "inside" /\ steps = Steps
    /\ UNCHANGED windowVars
    /\ Calls("report")

\* __exit__, after the report or because the window failed or was cancelled.
LeavesWindow ==
    /\ phase \in {"inside", "reported"}
    /\ phase' = "leaving" /\ UNCHANGED <<window, steps>>
    /\ Calls("reset")

-----------------------------------------------------------------------------
(***************************************************************************)
(* close.                                                                  *)
(***************************************************************************)

\* The stage is closed.
StageCloses ==
    /\ owner = "idle" /\ phase = "outside" /\ ~closed
    /\ closed' = TRUE
    /\ owner' = "stopping" /\ turn' = 0
    /\ UNCHANGED <<force, call, answer, windowVars, pipeVars, rankVars>>

SendsClose ==
    /\ owner = "stopping" /\ ~Gone(turn)
    /\ inbox' = [inbox EXCEPT ![turn] = Append(@, Command("close", 0, 0, 0))]
    /\ NextTurn("stopping", "closing")
    /\ UNCHANGED <<force, closed, call, answer, windowVars, outbox, rankVars>>

SendCloseFails ==
    /\ owner = "stopping" /\ at[turn] \in {"leaving", "gone"}
    /\ Raises
    /\ UNCHANGED <<windowVars, pipeVars, rankVars>>

\* SIGTERM ends the processes, except those that hold out until they are killed.
Terminates ==
    /\ owner = "closing"
    /\ IF force
       THEN \E hit \in SUBSET {r \in Ranks : at[r] # "unborn"} :
              at' = [r \in Ranks |-> IF r \in hit THEN "gone" ELSE at[r]]
       ELSE UNCHANGED at
    /\ owner' = "joining" /\ turn' = 0
    /\ UNCHANGED <<force, closed, call, answer, windowVars, pipeVars, job, log, runnerVars>>

\* join times out.
Kills ==
    /\ owner = "joining" /\ at[turn] \notin {"unborn", "gone"}
    /\ at' = [at EXCEPT ![turn] = "gone"]
    /\ UNCHANGED <<ownerVars, windowVars, pipeVars, job, log, runnerVars>>

Joins ==
    /\ owner = "joining" /\ at[turn] \in {"unborn", "gone"}
    /\ NextTurn("joining", "closed")
    /\ phase' = (IF owner' = "closed" THEN "outside" ELSE phase)
    /\ UNCHANGED <<force, closed, call, answer, window, steps, pipeVars, rankVars>>

-----------------------------------------------------------------------------
(***************************************************************************)
(* A rank.                                                                 *)
(***************************************************************************)

Goes(r, place) == at' = [at EXCEPT ![r] = place]

Tells(r, message) == outbox' = [outbox EXCEPT ![r] = Append(@, message)]

\* The r-th rank enters a collective.
Enters(r, collective) == log' = [log EXCEPT ![r] = Append(@, collective)]

\* The ranks that have entered the collective r is waiting in.
Present(r) == {s \in Ranks : Len(log[s]) >= Len(log[r])}

\* Bug seeded to test the checks: the output is dropped as soon as it is sent.
Mut_Answers(r) ==
    /\ Tells(r, job[r])
    /\ UNCHANGED exported

\* Rank 0 answers; a prediction sent through CUDA IPC stays its own.
Answers(r) ==
    /\ Tells(r, job[r])
    /\ exported' = (IF cudaIpc /\ job[r].kind = "predict" THEN job[r].call ELSE exported)

Loads(r) ==
    /\ at[r] = "loading" /\ \A s \in Ranks : at[s] # "unborn"
    /\ Tells(r, Command("ready", 0, 0, 0))
    /\ Goes(r, "waiting")
    /\ UNCHANGED <<inbox, job, log, runnerVars>>

\* Takes the next command and goes to its first collective; reset clears the
\* runner first, predict brings the weights of rank 0 to the device.
Takes(r) ==
    /\ at[r] = "waiting" /\ inbox[r] # <<>>
    /\ LET message == Head(inbox[r]) IN
         /\ inbox' = [inbox EXCEPT ![r] = Tail(@)]
         /\ job' = [job EXCEPT ![r] = message]
         /\ exported' = (IF r = 0 THEN 0 ELSE exported)
         /\ IF message.kind = "reset"
            THEN /\ conditions' = [conditions EXCEPT ![r] = 0]
                 /\ taken' = [taken EXCEPT ![r] = 0]
            ELSE UNCHANGED <<conditions, taken>>
         /\ resident' = (IF r = 0 /\ message.kind \in {"reset", "predict"}
                         THEN message.kind = "predict"
                         ELSE resident)
         /\ IF message.kind = "close"
            THEN Goes(r, "leaving") /\ UNCHANGED log
            ELSE Goes(r, "joined") /\ Enters(r, message)
    /\ UNCHANGED outbox

\* The barrier of reset, the gathering of the reports.
Synchronizes(r) ==
    /\ at[r] = "joined" /\ job[r].kind \in {"reset", "report"}
    /\ Present(r) = Ranks
    /\ IF r = 0 THEN Answers(r) ELSE UNCHANGED <<outbox, exported>>
    /\ Goes(r, "waiting")
    /\ UNCHANGED <<inbox, job, log, conditions, taken, resident>>

\* The packet that rank 0 broadcasts in the collective r has entered.
Packet(r) == log[0][Len(log[r])]

\* The packet arrives.  The first one of a window resets the runner and brings
\* the window's conditions.
GetsPacket(r) ==
    /\ at[r] = "joined" /\ job[r].kind = "predict" /\ 0 \in Present(r)
    /\ IF Packet(r).step = 0
       THEN /\ conditions' = [conditions EXCEPT ![r] = Packet(r).window]
            /\ taken' = [taken EXCEPT ![r] = 0]
       ELSE UNCHANGED <<conditions, taken>>
    /\ Goes(r, "computing")
    /\ UNCHANGED <<pipeVars, job, log, resident, exported>>

\* The forward pass; what is left is the gathering of the output at rank 0.
\* The runner refuses a step without conditions.
Computes(r) ==
    /\ at[r] = "computing" /\ conditions[r] # 0
    /\ taken' = [taken EXCEPT ![r] = @ + 1]
    /\ Enters(r, Command("gather", job[r].call, 0, 0))
    /\ Goes(r, "gathering")
    /\ UNCHANGED <<pipeVars, job, conditions, resident, exported>>

\* A peer leaves its share behind, rank 0 waits for all of them.
Gathers(r) ==
    /\ at[r] = "gathering" /\ (r = 0 => Present(r) = Ranks)
    /\ IF r = 0 THEN Answers(r) ELSE UNCHANGED <<outbox, exported>>
    /\ Goes(r, "waiting")
    /\ UNCHANGED <<inbox, job, log, conditions, taken, resident>>

\* An exception is sent to the owner.
Fails(r) ==
    /\ at[r] \in {"loading", "joined", "computing", "gathering"}
    /\ Tells(r, Command("error", 0, 0, 0))
    /\ Goes(r, "leaving")
    /\ UNCHANGED <<inbox, job, log, runnerVars>>

\* The process ends, by itself or not.
Ends(r) ==
    /\ at[r] \notin {"unborn", "gone"}
    /\ Goes(r, "gone")
    /\ UNCHANGED <<pipeVars, job, log, runnerVars>>

-----------------------------------------------------------------------------
OwnerSteps ==
    \/ StartsRank \/ RanksReady \/ NoticesDead \/ NoticesPeerMessage
    \/ Sends \/ SendFails \/ Receives \/ Returns
    \/ SendsClose \/ SendCloseFails \/ Terminates \/ Kills \/ Joins

OwnerChoices ==
    \/ StartFails \/ TimesOut \/ BoundaryFails
    \/ EntersWindow \/ Predicts \/ Reports \/ LeavesWindow \/ StageCloses

RankSteps(r) ==
    /\ \/ Loads(r) \/ Takes(r) \/ Synchronizes(r)
       \/ GetsPacket(r) \/ Computes(r) \/ Gathers(r)
    /\ UNCHANGED <<ownerVars, windowVars>>

RankFaults(r) == (Fails(r) \/ Ends(r)) /\ UNCHANGED <<ownerVars, windowVars>>

Done == owner = "closed" /\ UNCHANGED vars

Step ==
    \/ OwnerSteps \/ OwnerChoices
    \/ \E r \in Ranks : RankSteps(r) \/ RankFaults(r)

Next == (Step /\ UNCHANGED cudaIpc) \/ Done

Spec == Init /\ [][Next]_vars
-----------------------------------------------------------------------------
(***************************************************************************)
(* What a denoising window may rely on when its predictions are computed   *)
(* by other processes.                                                     *)
(***************************************************************************)
Kinds == {"none", "reset", "predict", "report", "close", "gather", "ready", "error"}

Commands == [kind : Kinds, call : Nat, window : 0..MaxWindows, step : 0..Steps]

\* The values the state may take; no rank is ever more than one command behind.
PoolTypeOK ==
    /\ cudaIpc \in BOOLEAN /\ turn \in Ranks
    /\ owner \in {"starting", "readying", "idle", "sending", "receiving", "copying",
                  "stopping", "closing", "joining", "closed"}
    /\ force \in BOOLEAN /\ closed \in BOOLEAN
    /\ phase \in {"outside", "entering", "inside", "reported", "leaving"}
    /\ window \in 0..MaxWindows /\ steps \in 0..Steps
    /\ call \in Commands /\ answer \in Commands
    /\ \A r \in Ranks :
         /\ inbox[r] \in Seq(Commands) /\ Len(inbox[r]) <= 1
         /\ outbox[r] \in Seq(Commands)
         /\ at[r] \in {"unborn", "loading", "waiting", "joined", "computing",
                       "gathering", "leaving", "gone"}
         /\ job[r] \in Commands /\ log[r] \in Seq(Commands)
         /\ conditions[r] \in 0..MaxWindows /\ taken[r] \in 0..Steps
    /\ resident \in BOOLEAN /\ exported \in Nat

\* The answer a call receives is the one to its own command: no late answer of
\* an earlier call is ever taken for it.
AnswerBelongs == owner = "copying" => answer = call

\* The ranks meet in the same collectives in the same order, for the same call,
\* although each of them reads its commands from a pipe of its own.
RanksAgree ==
    \A r, s \in Ranks : \A k \in DOMAIN log[r] \cap DOMAIN log[s] :
        Bare(log[r][k]) = Bare(log[s][k])

\* While the pool is open every rank computes with the conditions of the
\* owner's current window, at the owner's current step.
OwnConditions ==
    \A r \in Ranks :
        at[r] = "computing" /\ ~closed => conditions[r] = window /\ taken[r] = steps

\* Between two windows, however the last one ended, no rank keeps anything of
\* it, and rank 0 has given up the device memory it shares with the owner.
ParkedBetweenWindows ==
    owner = "idle" /\ phase = "outside" =>
        ~resident /\ \A r \in Ranks : conditions[r] = 0

\* As long as the owner copies an output out of the memory of rank 0, rank 0
\* keeps it, unless it has died.
ExportHeld ==
    owner = "copying" /\ cudaIpc /\ call.kind = "predict" /\ at[0] # "gone" =>
        exported = call.call

\* A pool that has been closed has left no process behind.
ClosedLeavesNone == owner = "closed" => \A r \in Ranks : at[r] \in {"unborn", "gone"}

\* A prediction is computed by all ranks for the same call, with the window
\* and the step of the owner, and is taken for that call by the owner.
CallsMatched == PoolTypeOK /\ AnswerBelongs /\ RanksAgree /\ OwnConditions

\* Processes and shared device memory live exactly as long as needed: an
\* output while it is copied, a window's tensors no longer than the window,
\* the processes no longer than the pool.
MemoryGivenBack == ParkedBetweenWindows /\ ExportHeld /\ ClosedLeavesNone

-----------------------------------------------------------------------------
(***************************************************************************)
(* Fairness: the owner's loops and the processes run.  No fault and no     *)
(* timeout of a call has to happen.                                        *)
(***************************************************************************)
FairSpec ==
    /\ Spec
    /\ WF_vars(OwnerSteps /\ UNCHANGED cudaIpc)
    /\ \A r \in Ranks : WF_vars(RankSteps(r) /\ UNCHANGED cudaIpc)

\* Every call and every close returns, without its timeout: the death of any
\* rank is noticed even when the others wait for it in a collective.
EveryCallReturns ==
    (owner \notin {"idle", "closed"}) ~> (owner \in {"idle", "closed"})
=============================================================================
