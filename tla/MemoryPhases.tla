---------------------------- MODULE MemoryPhases ----------------------------
(***************************************************************************)
(* Which large component is on the device, and when: the phase controller  *)
(* of a request (memory/policies/memory_phase_controller.py), the wrapper  *)
(* of the stages (component_offload.py), the adapter that outlives the     *)
(* requests (memory/adapters/sglang_memory_adapter.py) and the VAE leases  *)
(* (memory/backends/vae_residency.py), around the layerwise transformer of *)
(* LayerOffload.  Any step may fail; the service then starts the next      *)
(* request with a new controller and the same adapter.                     *)
(***************************************************************************)
EXTENDS LayerOffload

CONSTANTS MaxRequests,  \* bound: requests served by one adapter
          MaxWindows    \* bound: windows of a request

ASSUME PhasesAssumption == MaxRequests \in Nat /\ MaxWindows \in Nat \ {0}

VARIABLES ctl,    \* the MemoryPhaseController of the request
          adp,    \* the adapter: active component, closed; ghosts: a release
                  \* failed (dirty), the transformer was released once (used),
                  \* the record of an acquire failed (stuck)
          vae,    \* tensors of the VAE and the lease records
          text,   \* FSDP state of the text encoder
          req     \* the driver: request, window, next phase, outcome

phaseVars == <<ctl, adp, vae, text, req>>
vars == <<offloadVars, phaseVars>>

Phases == <<"text_encode", "vae_encode", "denoise", "vae_decode", "commit">>
Order(p) == CHOOSE k \in DOMAIN Phases : Phases[k] = p
ComponentOf == [text_encode |-> "text_encoder", vae_encode |-> "vae",
                denoise |-> "transformer", vae_decode |-> "vae", commit |-> "none"]

Tensors == {"encoder", "decoder", "shared"}     \* two parameters and one buffer
IsBuffer(t) == t = "shared"

----------------------------------------------------------------------------
(* VAEPhaseResidency and the plain Module.to of the "full" mode.           *)

(* acquire selects by scope; "full" moves the whole module. *)
Selected(mode, phase) ==
    IF mode = "full" THEN Tensors
    ELSE {"shared", IF phase = "vae_encode" THEN "encoder" ELSE "decoder"}

OnDevice(v) == {t \in Tensors : v.loc[t] = "gpu"}

(* release: a leased tensor returns to its CPU backing, and its device     *)
(* value is copied there unless it is a parameter whose version did not    *)
(* change; in the other modes, and for a tensor that is not the leased one *)
(* any more, the device value itself goes back.                            *)
CopiedBack(v, t) ==
    \/ v.mode # "cached" \/ t \notin v.lease \/ t \in v.replaced
    \/ IsBuffer(t) \/ t \in v.changed

Mut_VaeRelease(v, moved) ==
    [v EXCEPT !.loc = [t \in Tensors |-> IF t \in moved \cap v.lease THEN "cpu" ELSE @[t]],
              !.lease = {}, !.changed = {}, !.replaced = {}]

(* Whatever of the model is still on the device - a replaced buffer, the   *)
(* leftovers of a failed release - is moved as well.  moved is how far a   *)
(* failing release came.                                                   *)
VaeRelease(v, moved) ==
    [v EXCEPT !.loc = [t \in Tensors |-> IF t \in moved THEN "cpu" ELSE @[t]],
              !.lost = @ \cup {t \in moved \cap (v.changed \cup v.replaced) : ~CopiedBack(v, t)},
              !.lease = {}, !.changed = {}, !.replaced = {}]

VaeUpload(v, phase) ==
    LET on == Selected(v.mode, phase)
    IN  [v EXCEPT !.loc = [t \in Tensors |-> IF t \in on THEN "gpu" ELSE @[t]],
                  !.lease = IF v.mode = "full" THEN {} ELSE on]

(* A leased acquire refuses a tensor that is not on the CPU. *)
VaeRefuses(v, phase) == v.mode # "full" /\ OnDevice(v) \cap Selected(v.mode, phase) # {}

----------------------------------------------------------------------------
(* MemoryPhaseController and adapter. *)

NewController == [phase |-> "none", acquired |-> FALSE, last |-> [w \in 1 .. MaxWindows |-> 0]]
Fail(why) == req' = [req EXCEPT !.st = "failed", !.why = why]

(* enter refuses a second phase and an order that regresses; the adapter  *)
(* refuses a second component.                                             *)
EnterRefused(p) ==
    \/ ctl.phase # "none"
    \/ Order(p) < ctl.last[req.win]
    \/ p # "commit" /\ (adp.closed \/ adp.active # "none")

Entered(p) ==
    /\ ctl' = [ctl EXCEPT !.phase = p, !.acquired = p # "commit",
                          !.last[req.win] = Order(p)]
    /\ adp' = [adp EXCEPT !.active = ComponentOf[p]]
    /\ req' = [req EXCEPT !.st = "inside"]

(* The wrapper enters the phase: the transformer prefetches its first     *)
(* blocks, the VAE is uploaded, FSDP moves the text encoder by itself.     *)
EnterPhase ==
    LET p == Phases[req.next] IN
    /\ req.st = "between"
    /\ ~(ComponentOf[p] = "vae" /\ VaeRefuses(vae, p))
    /\ IF EnterRefused(p)
       THEN Fail("refused") /\ UNCHANGED <<ctl, adp, dev, vae, text>>
       ELSE /\ Entered(p)
            /\ dev' = IF p = "denoise" THEN Prepare(dev) ELSE dev
            /\ vae' = IF ComponentOf[p] = "vae" THEN VaeUpload(vae, p) ELSE vae
            /\ text' = IF p = "text_encode" THEN "forward" ELSE text
    /\ UNCHANGED <<setup, host, faults>>

(* The acquire fails: a tensor the last release left behind, or a fault in *)
(* the transfer.  The adapter releases the component and stays free; a     *)
(* fault in the record at the very end leaves it taken, for good.          *)
AcquireFails ==
    LET p == Phases[req.next]
        refuses == ComponentOf[p] = "vae" /\ VaeRefuses(vae, p)
        taken == [adp EXCEPT !.active = ComponentOf[p], !.stuck = TRUE]
    IN
    /\ req.st = "between"
    /\ p # "commit"
    /\ ~EnterRefused(p)
    /\ \/ refuses /\ UNCHANGED <<faults, adp>>
       \/ /\ faults < MaxFaults /\ faults' = faults + 1
          /\ adp' = adp \/ (~refuses /\ adp' = taken)
    /\ vae' = IF ComponentOf[p] = "vae" THEN VaeRelease(vae, Tensors) ELSE vae
    /\ dev' = IF p = "denoise" THEN ReleaseAll(Prepare(dev)) ELSE dev
    /\ Fail("acquire")
    /\ UNCHANGED <<setup, host, ctl, text>>

(* The forward of a phase other than the denoising one is one step; it may *)
(* write VAE tensors in place, replace a buffer, or raise.                 *)
VaeWrites ==
    /\ req.st = "inside"
    /\ ComponentOf[ctl.phase] = "vae"
    /\ \E t \in OnDevice(vae) :
         \/ vae' = [vae EXCEPT !.changed = @ \cup {t}]
         \/ IsBuffer(t) /\ vae' = [vae EXCEPT !.replaced = @ \cup {t}]
    /\ UNCHANGED <<offloadVars, ctl, adp, text, req>>

ForwardDone ==
    /\ req.st = "inside"
    /\ \/ ctl.phase # "denoise"
       \/ host.at = "idle" /\ host.forwards > 0
    /\ req' = [req EXCEPT !.st = "leaving"]
    /\ text' = IF ctl.phase = "text_encode" THEN "sharded" ELSE text
    /\ UNCHANGED <<offloadVars, ctl, adp, vae>>

ForwardRaises ==
    /\ req.st = "inside"
    /\ \/ ctl.phase # "denoise" /\ faults < MaxFaults /\ faults' = faults + 1
       \/ ctl.phase = "denoise" /\ host.at = "failed" /\ UNCHANGED faults
    /\ req' = [req EXCEPT !.st = "leaving", !.why = "forward"]
    /\ UNCHANGED <<setup, dev, host, ctl, adp, vae, text>>

(* The finally of the wrapper: exit releases the component.  For the      *)
(* transformer everything is dropped before the host waits for the device. *)
BeginExit ==
    /\ req.st = "leaving"
    /\ dev' = IF ctl.phase = "denoise" THEN ReleaseAll(dev) ELSE dev
    /\ host' = Idle
    /\ req' = [req EXCEPT !.st = "releasing"]
    /\ UNCHANGED <<setup, faults, ctl, adp, vae, text>>

Left(r) ==
    IF r.why # "none" THEN [r EXCEPT !.st = "failed"]
    ELSE IF r.next < Len(Phases) THEN [r EXCEPT !.st = "between", !.next = @ + 1]
    ELSE IF r.win < MaxWindows THEN [r EXCEPT !.st = "between", !.next = 1, !.win = @ + 1]
    ELSE [r EXCEPT !.st = "done"]

ExitPhase ==
    /\ req.st = "releasing"
    /\ ctl.phase = "denoise" => Drained
    /\ vae' = IF ComponentOf[ctl.phase] = "vae" THEN VaeRelease(vae, Tensors) ELSE vae
    /\ text' = IF ctl.phase = "text_encode" THEN "sharded" ELSE text
    /\ adp' = [adp EXCEPT !.active = "none", !.used = @ \/ ctl.phase = "denoise"]
    /\ ctl' = [ctl EXCEPT !.phase = "none", !.acquired = FALSE]
    /\ req' = Left(req)
    /\ UNCHANGED offloadVars

(* A release that raises: the adapter forgets the component all the same,  *)
(* the controller keeps its phase.  The VAE may be left half moved.        *)
ReleaseFails ==
    /\ req.st = "releasing"
    /\ ctl.acquired
    /\ faults < MaxFaults
    /\ faults' = faults + 1
    /\ IF ComponentOf[ctl.phase] = "vae"
       THEN \E moved \in SUBSET OnDevice(vae) : vae' = VaeRelease(vae, moved)
       ELSE vae' = vae
    /\ \E t \in {text, "sharded"} : text' = t
    /\ adp' = [adp EXCEPT !.active = "none", !.dirty = TRUE,
                          !.used = @ \/ ctl.phase = "denoise"]
    /\ Fail("release")
    /\ UNCHANGED <<setup, dev, host, ctl>>

(* The next request: a new runtime context, hence a new controller. *)
NextRequest ==
    /\ req.st \in {"done", "failed"}
    /\ req.no < MaxRequests
    /\ ctl' = NewController
    /\ req' = [no |-> req.no + 1, win |-> 1, next |-> 1, st |-> "between", why |-> "none"]
    /\ UNCHANGED <<offloadVars, adp, vae, text>>

(* shutdown of the adapter: the blocks of the transformer are dropped. *)
Shutdown ==
    /\ req.st \in {"done", "failed"}
    /\ ~adp.closed
    /\ adp' = [adp EXCEPT !.closed = TRUE, !.active = "none"]
    /\ dev' = ReleaseAll(dev)
    /\ req' = [req EXCEPT !.no = MaxRequests]
    /\ UNCHANGED <<setup, host, faults, ctl, vae, text>>

Init ==
    /\ OffloadInit
    /\ ctl = NewController
    /\ adp = [active |-> "none", closed |-> FALSE, dirty |-> FALSE, used |-> FALSE,
             stuck |-> FALSE]
    /\ vae = [mode |-> setup.vae, loc |-> [t \in Tensors |-> "cpu"], lease |-> {},
              changed |-> {}, replaced |-> {}, lost |-> {}]
    /\ text = "sharded"
    /\ req = [no |-> 1, win |-> 1, next |-> 1, st |-> "between", why |-> "none"]

Denoise ==
    /\ req.st = "inside"
    /\ ctl.phase = "denoise"
    /\ Forward
    /\ UNCHANGED phaseVars

Device == Streams /\ UNCHANGED phaseVars

(* The adapter was shut down: nothing more happens. *)
Ended == adp.closed /\ dev.copyq = <<>> /\ dev.compq = <<>> /\ UNCHANGED vars

Next ==
    \/ EnterPhase \/ AcquireFails \/ VaeWrites \/ ForwardDone
    \/ ForwardRaises \/ BeginExit \/ ExitPhase \/ ReleaseFails \/ NextRequest
    \/ Shutdown \/ Denoise \/ Device \/ Ended

Spec == Init /\ [][Next]_vars

-----------------------------------------------------------------------------
(* What the residency of the large components promises.                    *)

(* The shape of every variable. *)
MemoryTypeOK ==
    /\ setup \in Setups
    /\ dev.content \in Seq({-1} \cup Layers)
    /\ dev.buf \in [Layers -> {NoBuf} \cup DOMAIN dev.content]
    /\ host.at \in {"idle", "pre", "sync", "run", "warm", "failed"}
    /\ ctl.phase \in {"none"} \cup {Phases[k] : k \in DOMAIN Phases}
    /\ adp.active \in {"none", "vae", "transformer", "text_encoder"}
    /\ vae.loc \in [Tensors -> {"cpu", "gpu"}]
    /\ text \in {"sharded", "forward"}
    /\ req.st \in {"between", "inside", "leaving", "releasing", "done", "failed"}

(* Kernels of a block that may start now find that block's weights in the  *)
(* buffer they read, and no copy that may start now writes that buffer     *)
(* under them (prefetch_layer's wait_stream, the hooks' wait_event).       *)
WeightsInPlace ==
    Ready(dev.compq) =>
        LET op == Head(dev.compq)
        IN  /\ op.buf # NoBuf
            /\ dev.content[op.buf] = op.layer
            /\ Ready(dev.copyq) => Head(dev.copyq).buf # op.buf

(* The prefetch bound: at most two prefetch batches of blocks are resident *)
(* in the wraparound mode, one batch and the running block inside a plan,  *)
(* the first batch until the first request denoises, and none between the  *)
(* phases after that.                                                      *)
BlocksBounded ==
    LET most == IF ctl.phase # "denoise" THEN IF adp.used THEN 0 ELSE PrefetchSize
                ELSE IF host.bounded THEN PrefetchSize + 1 ELSE 2 * PrefetchSize
    IN  req.st \in {"between", "inside"} => Cardinality(Resident(dev)) <= most

(* Between two phases nothing large stays on the device, also after a      *)
(* failed acquire or forward; only a release that itself failed may leave  *)
(* VAE tensors behind, or the text encoder unsharded.                      *)
OneComponentAtATime ==
    req.st = "between" /\ ~adp.dirty => OnDevice(vae) = {} /\ text = "sharded"

(* After a failed lease every VAE tensor is back on the CPU: a pipeline    *)
(* that lost one release recovers at the next request.                     *)
FailedLeaseHeals ==
    req.why = "acquire" /\ req.st = "failed" /\ req.next \in {2, 4} => OnDevice(vae) = {}

(* An update of a VAE tensor made on the device - tracked by its version,  *)
(* of a buffer, or by replacing the buffer - survives its return to the    *)
(* CPU (release copies back whatever may have changed).                    *)
NoUpdateLost == vae.lost = {}

(* No request is refused because of what an earlier one left behind: the   *)
(* adapter forgets its component even when releasing it raises, and phases *)
(* of a window never regress.  Only a failed record of an acquire takes    *)
(* the adapter for good (_record, after active_component_name is set).     *)
NeverRefused == req.why = "refused" => adp.stuck

(* Layerwise offload never runs a block on other weights than its own, and *)
(* keeps no more blocks on the device than it promises.                    *)
LayersResident == MemoryTypeOK /\ WeightsInPlace /\ BlocksBounded

(* The phases hand the device on empty, whatever has failed in them but a  *)
(* release, and the next request is served unless the adapter is stuck.    *)
PhasesHeal == OneComponentAtATime /\ FailedLeaseHeals /\ NoUpdateLost /\ NeverRefused
=============================================================================
