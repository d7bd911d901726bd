-------------------------- MODULE ParallelSession --------------------------
(***************************************************************************)
(* The life of one job on all ranks: the process groups are set up, the    *)
(* VAE engine executes one plan over them, and the groups are taken down,  *)
(* whatever has happened in between (the try/finally of serve.main and of  *)
(* erase_eraserdit.main).                                                  *)
(***************************************************************************)
EXTENDS VaeEngine

sessionVars == <<runtimeVars, engineVars, faults>>

Init == RuntimeInit /\ faults = 0 /\ EngineInit

Idle(r) == outcome[r].kind /= "running"

(* destroy_runtime_distributed is in the finally branch: Stops happens     *)
(* when the work of the rank is over, successfully or not.                 *)
Sets(r) == RuntimeStep(r) /\ UNCHANGED engineVars
Stops(r) == Idle(r) /\ DestroyBegins(r) /\ UNCHANGED engineVars
StopFails(r) == Idle(r) /\ DeviceFails(r) /\ UNCHANGED engineVars
BootErrors(r) == BootFails(r) /\ UNCHANGED engineVars
Works(r) == EngineStep(r) /\ UNCHANGED runtimeVars

Next == \E r \in Ranks : Sets(r) \/ Stops(r) \/ StopFails(r) \/ BootErrors(r) \/ Works(r)

Spec == Init /\ [][Next]_sessionVars

(* As long as some rank can go on, one of them does; a rank that waits for *)
(* one that is gone, or for a tile or an all_gather that will not come,    *)
(* gets an error in the end, by its connection or by the timeout of the    *)
(* group.                                                                  *)
Fairness == WF_sessionVars(\E r \in Ranks : Sets(r) \/ Stops(r) \/ Works(r))
FairSpec == Spec /\ Fairness

-----------------------------------------------------------------------------
(* What the set-up of the groups and the engine owe their callers.        *)

(* Types: every rank is at a stage, in a script position and with tiles it *)
(* can have; contributions are made one at a time (VAEParallelEngine,      *)
(* RuntimeDistributedContext).                                             *)
SessionTypeOK ==
    /\ RuntimeTypeOK
    /\ \A r \in Ranks :
          /\ agreed[r] \in Plans \cup {NotAPlan}
          /\ pc[r] \in DOMAIN Scripts[agreed[r]]
          /\ waiting[r] \in BOOLEAN /\ sending[r] \in BOOLEAN
          /\ Len(log[r]) \in {pc[r] - 1, pc[r]}
          /\ outcome[r].kind \in {"unused", "running", "returned", "raised", "lost", "escaped"}
    /\ \A e \in Ranks \X Ranks : Len(chan[e]) <= 1

(* A rank whose set-up has failed or which has closed leaves no process    *)
(* group of its own behind and no published context, whichever step of the *)
(* set-up or of the take-down has failed; a default group somebody else    *)
(* has made stays (initialize_runtime_distributed, destroy_...).           *)
NothingLeaks ==
    \A r \in Ranks : stage[r] \in Gone =>
        /\ alive[r] = IF job.preexisting THEN {<<"default">>} ELSE {}
        /\ ~parallel[r] /\ ~cpuGroup[r] /\ ~context[r]

(* The ranks enter the same collectives in the same order: set-up steps of *)
(* the world, and the error exchanges of the engine (tasks_for_round and   *)
(* synchronize_phase_error on every rank, whatever its role).              *)
CollectivesMatch ==
    \A r, q \in Ranks :
        /\ \A i \in DOMAIN log[r] \cap DOMAIN log[q] : log[r][i].phase = log[q][i].phase
        /\ \A i \in DOMAIN entered[r] \cap DOMAIN entered[q] :
              i <= Len(BootOrders[job]) => entered[r][i] = entered[q][i]

(* The result of a task as one rank alone would have computed it.          *)
Reference(p, i) ==
    PadTensor(Executed(p, i, PadTensor(Content(p, i), p.tasks[i].padin)), p.tasks[i].padout)

(* When execute returns, the owner has merged each task once, with the     *)
(* tile the rank of that task computed from that task's own input, free of *)
(* the padding other tasks of the round needed, and no tile is under way.  *)
MergedOnce ==
    outcome[Owner].kind = "returned" =>
        LET p == agreed[Owner]
        IN /\ Len(merged) = Len(p.tasks)
           /\ \A i \in DOMAIN p.tasks : \E k \in DOMAIN merged : merged[k] = <<i, Reference(p, i)>>
           /\ \A e \in Ranks \X Ranks : chan[e] = <<>>

(* A rank that never came up, left execute by an error nobody catches, or  *)
(* has reported one.                                                       *)
Troubled(x) == \/ stage[x] = "failed" \/ outcome[x].kind = "escaped"
               \/ \E i \in DOMAIN log[x] : log[x][i].bad

(* All ranks end execute the same way: they return together, or raise for  *)
(* the same phase and blame the same ranks, namely those where something   *)
(* went wrong, a transfer that timed out included.  Only a rank that never *)
(* came up or fails outside every try, or an all_gather that times out     *)
(* before the transfer it waits for, makes a difference; even then no rank *)
(* returns where another has raised, or is lost where nothing went wrong.  *)
AllOrNone ==
    \A r, q \in Ranks :
        /\ {outcome[r].kind, outcome[q].kind} \subseteq {"returned", "raised"}
              => outcome[r] = outcome[q]
        /\ outcome[r].kind = "returned" => outcome[q].kind \notin {"lost", "escaped"}
        /\ outcome[r].kind = "raised" =>
              \/ outcome[r].ranks = {x \in Ranks : \E i \in DOMAIN log[x] : log[x][i].bad}
              \/ \E x, y \in Ranks : given[x] /= given[y]
        /\ outcome[r].kind = "lost" => \E x \in Ranks : Troubled(x)

(* One execution is one event: all ranks see the same collectives and the  *)
(* same end, and an end without error means the result of one device.      *)
RanksEndAlike == SessionTypeOK /\ CollectivesMatch /\ MergedOnce /\ AllOrNone

(* Every rank gets out of its set-up, its execution and its take-down: no  *)
(* rank waits for ever for one that will not come.  Up to MaxFaults of     *)
(* these may fail: a step of the set-up or of the take-down, a body, the   *)
(* broadcast or one end of a transfer, an allocation outside every try.    *)
SessionEnds == <>(\A r \in Ranks : stage[r] \in Gone)
============================================================================
