---------------------------- MODULE MemoryProofs ----------------------------
(***************************************************************************)
(* The phases of any number of requests over one adapter, with windows,    *)
(* depths, prefetch sizes and failures in any number: what a phase leaves  *)
(* behind, and that the layerwise offload never runs a block on other      *)
(* weights than its own.                                                   *)
(***************************************************************************)
EXTENDS MemoryPhases, FiniteSetTheorems, TLAPS

WF == INSTANCE WellFoundedInduction

-----------------------------------------------------------------------------
(***************************************************************************)
(* The invariant.                                                          *)
(***************************************************************************)

Between == {"between", "done", "failed"}
Within == {"inside", "leaving", "releasing"}

\* Where the driver is in the phases of its window, and the controller with it.
DriverOK ==
  /\ req.st \in Between \cup Within
  /\ req.next \in 1..5 /\ req.win \in 1..MaxWindows /\ req.no \in Int
  /\ req.why \in {"none", "acquire", "forward", "release", "refused"}
  /\ req.why = "refused" => adp.stuck
  /\ req.st = "between" => req.why = "none"
  /\ DOMAIN req = {"no", "win", "next", "st", "why"}

ControllerOK ==
  /\ DOMAIN ctl = {"phase", "acquired", "last"} /\ DOMAIN ctl.last = 1..MaxWindows
  /\ \A w \in 1..MaxWindows : ctl.last[w] \in 0..5
  /\ req.st = "between" =>
       /\ ctl.phase = "none" /\ ctl.last[req.win] < req.next
       /\ \A w \in 1..MaxWindows : w > req.win => ctl.last[w] = 0
  /\ req.st \in Within =>
       /\ ctl.phase = Phases[req.next] /\ ctl.last[req.win] = req.next
       /\ \A w \in 1..MaxWindows : w > req.win => ctl.last[w] = 0

\* The adapter holds a component only inside a phase, and once closed serves no request.
AdapterOK ==
  /\ DOMAIN adp = {"active", "closed", "dirty", "stuck", "used"}
  /\ req.st \in Between /\ ~adp.stuck => adp.active = "none"
  /\ adp.closed => req.st \in {"done", "failed"} /\ req.no >= MaxRequests

\* Outside the phases of a component nothing of it is on the device, unless a release failed.
DeviceOK ==
  /\ DOMAIN vae = {"mode", "loc", "lease", "changed", "replaced", "lost"}
  /\ DOMAIN vae.loc = Tensors
  /\ vae.lost = {}
  /\ ~adp.dirty =>
       /\ ~(req.st \in Within /\ req.next \in {2, 4}) => OnDevice(vae) = {}
       /\ ~(req.st \in Within /\ req.next = 1) => text = "sharded"
  /\ FailedLeaseHeals

MInv == DriverOK /\ ControllerOK /\ AdapterOK /\ DeviceOK

-----------------------------------------------------------------------------
(***************************************************************************)
(* The phases and the operations on the VAE.                               *)
(***************************************************************************)

\* The five phases in their order, and the component each needs.
LEMMA PhaseTable ==
  ASSUME NEW k \in 1..5
  PROVE  /\ Len(Phases) = 5 /\ Order(Phases[k]) = k
         /\ Phases[k] # "none" /\ (Phases[k] = "commit" <=> k = 5)
         /\ (ComponentOf[Phases[k]] = "vae" <=> k \in {2, 4})
         /\ (Phases[k] = "text_encode" <=> k = 1) /\ (Phases[k] = "denoise" <=> k = 3)
         /\ ComponentOf[Phases[k]] \in {"none", "vae", "transformer", "text_encoder"}
<1>1. DOMAIN Phases = 1..5 /\ Len(Phases) = 5
  BY DEF Phases
<1>2. /\ Phases[1] = "text_encode" /\ Phases[2] = "vae_encode" /\ Phases[3] = "denoise"
      /\ Phases[4] = "vae_decode" /\ Phases[5] = "commit"
  BY DEF Phases
<1>3. k = 1 \/ k = 2 \/ k = 3 \/ k = 4 \/ k = 5
  OBVIOUS
<1>4. \A j \in 1..5 : Phases[j] = Phases[k] => j = k
  <2> SUFFICES ASSUME NEW j \in 1..5, Phases[j] = Phases[k] PROVE j = k
    OBVIOUS
  <2>1. j = 1 \/ j = 2 \/ j = 3 \/ j = 4 \/ j = 5
    OBVIOUS
  <2> QED BY <1>2, <1>3, <2>1
<1>5. Order(Phases[k]) = k
  BY <1>1, <1>4 DEF Order
<1> QED BY <1>1, <1>2, <1>3, <1>5 DEF ComponentOf

\* A release loses no update: what it leaves out was not changed.
LEMMA ReleaseKeepsUpdates ==
  ASSUME DeviceOK, NEW moved
  PROVE  /\ VaeRelease(vae, moved).lost = {}
         /\ DOMAIN VaeRelease(vae, moved) = {"mode", "loc", "lease", "changed", "replaced", "lost"}
         /\ DOMAIN VaeRelease(vae, moved).loc = Tensors
         /\ Tensors \subseteq moved => OnDevice(VaeRelease(vae, moved)) = {}
<1> DEFINE w == VaeRelease(vae, moved)
<1>1. DOMAIN vae = {"mode", "loc", "lease", "changed", "replaced", "lost"} /\ vae.lost = {}
  BY DEF DeviceOK
<1>2. w.lost = {} \cup {t \in moved \cap (vae.changed \cup vae.replaced) : ~CopiedBack(vae, t)}
  BY <1>1 DEF VaeRelease
<1>3. \A t \in vae.changed \cup vae.replaced : CopiedBack(vae, t)
  BY DEF CopiedBack
<1>4. w.loc = [t \in Tensors |-> IF t \in moved THEN "cpu" ELSE vae.loc[t]]
  BY <1>1 DEF VaeRelease
<1>5. DOMAIN w = {"mode", "loc", "lease", "changed", "replaced", "lost"}
  BY <1>1 DEF VaeRelease
<1>6. Tensors \subseteq moved => OnDevice(w) = {}
  <2> HIDE DEF w
  <2> QED BY <1>4 DEF OnDevice
<1> QED BY <1>2, <1>3, <1>4, <1>5, <1>6

\* An upload loses no update and leaves the shape of the state alone.
LEMMA UploadFields ==
  ASSUME DeviceOK, NEW p
  PROVE  /\ VaeUpload(vae, p).lost = {}
         /\ DOMAIN VaeUpload(vae, p) = {"mode", "loc", "lease", "changed", "replaced", "lost"}
         /\ DOMAIN VaeUpload(vae, p).loc = Tensors
BY DEF DeviceOK, VaeUpload

-----------------------------------------------------------------------------
(***************************************************************************)
(* One lemma per step.                                                     *)
(***************************************************************************)

\* A phase is entered in order and with the adapter free, so that it is never refused,
\* unless the adapter is stuck.
LEMMA NothingRefused ==
  ASSUME MInv, req.st = "between", ~adp.stuck
  PROVE  ~EnterRefused(Phases[req.next])
<1>1. req.next \in 1..5 /\ req.win \in 1..MaxWindows /\ MaxWindows \in Nat
  BY PhasesAssumption DEF MInv, DriverOK
<1>2. Order(Phases[req.next]) = req.next
  BY <1>1, PhaseTable
<1>3. ctl.phase = "none" /\ ctl.last[req.win] < req.next /\ ctl.last[req.win] \in 0..5
  BY <1>1 DEF MInv, ControllerOK
<1>4. ~adp.closed /\ adp.active = "none"
  BY DEF MInv, AdapterOK, Between
<1> QED BY <1>1, <1>2, <1>3, <1>4 DEF EnterRefused

\* A phase is entered in order, and its component comes to the device.
LEMMA EnteredHeals == MInv /\ EnterPhase /\ ~EnterRefused(Phases[req.next]) => MInv'
<1> SUFFICES ASSUME MInv, EnterPhase, ~EnterRefused(Phases[req.next]) PROVE MInv'
  OBVIOUS
<1> DEFINE p == Phases[req.next]
<1>1. req.st = "between" /\ Entered(p)
  BY DEF EnterPhase
<1>2. /\ vae' = IF ComponentOf[p] = "vae" THEN VaeUpload(vae, p) ELSE vae
      /\ text' = IF p = "text_encode" THEN "forward" ELSE text
  BY DEF EnterPhase
<1>3. /\ req.next \in 1..5 /\ req.win \in 1..MaxWindows /\ MaxWindows \in Nat /\ req.no \in Int
      /\ req.why = "none" /\ DOMAIN req = {"no", "win", "next", "st", "why"}
  BY <1>1, PhasesAssumption DEF MInv, DriverOK
<1>4. /\ Order(p) = req.next /\ p # "none"
      /\ (ComponentOf[p] = "vae" <=> req.next \in {2, 4}) /\ (p = "text_encode" <=> req.next = 1)
  BY <1>3, PhaseTable
<1>5. /\ req'.st = "inside" /\ req'.next = req.next /\ req'.win = req.win /\ req'.no = req.no
      /\ req'.why = req.why /\ DOMAIN req' = {"no", "win", "next", "st", "why"}
  BY <1>1, <1>3 DEF Entered
<1>6. DriverOK'
  BY <1>3, <1>5 DEF DriverOK, Between, Within
<1>7. ControllerOK'
  <2>1. /\ DOMAIN ctl = {"phase", "acquired", "last"} /\ DOMAIN ctl.last = 1..MaxWindows
        /\ \A w \in 1..MaxWindows : ctl.last[w] \in 0..5
        /\ \A w \in 1..MaxWindows : w > req.win => ctl.last[w] = 0
    BY <1>1 DEF MInv, ControllerOK
  <2>2. /\ DOMAIN ctl' = {"phase", "acquired", "last"} /\ ctl'.phase = p
        /\ ctl'.last = [ctl.last EXCEPT ![req.win] = req.next]
    BY <1>1, <1>4, <2>1 DEF Entered
  <2>3. /\ DOMAIN ctl'.last = 1..MaxWindows /\ ctl'.last[req.win] = req.next
        /\ \A w \in 1..MaxWindows : w # req.win => ctl'.last[w] = ctl.last[w]
    BY <1>3, <2>1, <2>2
  <2>4. \A w \in 1..MaxWindows : ctl'.last[w] \in 0..5
    BY <1>3, <2>1, <2>3
  <2> HIDE DEF p
  <2> QED BY <1>3, <1>5, <2>1, <2>2, <2>3, <2>4 DEF ControllerOK, p, Within
<1>8. AdapterOK'
  BY <1>1, <1>5 DEF MInv, AdapterOK, Entered, Between
<1>9. DeviceOK'
  <2>1. DeviceOK /\ adp'.dirty = adp.dirty
    BY <1>1 DEF MInv, AdapterOK, Entered
  <2>2. /\ DOMAIN vae' = {"mode", "loc", "lease", "changed", "replaced", "lost"}
        /\ DOMAIN vae'.loc = Tensors /\ vae'.lost = {}
    BY <1>2, <2>1, UploadFields DEF DeviceOK
  <2>3. req.next \notin {2, 4} => OnDevice(vae)' = OnDevice(vae)
    BY <1>2, <1>4
  <2> HIDE DEF p
  <2> QED BY <1>1, <1>2, <1>4, <1>5, <2>1, <2>2, <2>3 DEF DeviceOK, FailedLeaseHeals, Within
<1> QED BY <1>6, <1>7, <1>8, <1>9 DEF MInv

\* A stuck adapter refuses the next phase and changes nothing.
LEMMA RefusedHeals == MInv /\ EnterPhase /\ EnterRefused(Phases[req.next]) => MInv'
<1> SUFFICES ASSUME MInv, EnterPhase, EnterRefused(Phases[req.next]) PROVE MInv'
  OBVIOUS
<1>1. /\ req.st = "between" /\ req' = [req EXCEPT !.st = "failed", !.why = "refused"]
      /\ UNCHANGED <<ctl, adp, vae, text>>
  BY DEF EnterPhase, Fail
<1>2. adp.stuck
  BY <1>1, NothingRefused
<1>3. /\ req'.st = "failed" /\ req'.why = "refused" /\ req'.next = req.next
      /\ req'.win = req.win /\ req'.no = req.no /\ DOMAIN req' = DOMAIN req
  BY <1>1 DEF MInv, DriverOK
<1>4. DriverOK' /\ ControllerOK' /\ AdapterOK'
  BY <1>1, <1>2, <1>3 DEF MInv, DriverOK, ControllerOK, AdapterOK, Between, Within
<1>5. DeviceOK'
  BY <1>1, <1>3 DEF MInv, DeviceOK, FailedLeaseHeals, OnDevice, Between, Within
<1> QED BY <1>4, <1>5 DEF MInv

\* A failed acquisition takes off the device again what has come there.
LEMMA AcquireFailsHeals == MInv /\ AcquireFails => MInv'
<1> SUFFICES ASSUME MInv, AcquireFails PROVE MInv'
  OBVIOUS
<1> DEFINE p == Phases[req.next]
<1>1. /\ req.st = "between" /\ req' = [req EXCEPT !.st = "failed", !.why = "acquire"]
      /\ UNCHANGED <<ctl, text>>
      /\ \/ adp' = adp
         \/ adp' = [adp EXCEPT !.active = ComponentOf[p], !.stuck = TRUE]
      /\ vae' = IF ComponentOf[p] = "vae" THEN VaeRelease(vae, Tensors) ELSE vae
  BY DEF AcquireFails, Fail
<1>2. /\ req.next \in 1..5 /\ req.win \in 1..MaxWindows /\ req.no \in Int
      /\ DOMAIN req = {"no", "win", "next", "st", "why"}
  BY DEF MInv, DriverOK
<1>7. /\ DOMAIN adp' = DOMAIN adp /\ adp'.closed = adp.closed /\ adp'.dirty = adp.dirty
      /\ adp' = adp \/ adp'.stuck
  BY <1>1 DEF MInv, AdapterOK
<1>3. /\ req'.st = "failed" /\ req'.next = req.next /\ req'.win = req.win /\ req'.no = req.no
      /\ req'.why = "acquire" /\ DOMAIN req' = {"no", "win", "next", "st", "why"}
  BY <1>1, <1>2
<1>4. DriverOK'
  BY <1>2, <1>3 DEF DriverOK, Between
<1>5. ControllerOK' /\ AdapterOK'
  BY <1>1, <1>3, <1>7 DEF MInv, ControllerOK, AdapterOK, Between, Within
<1>6. DeviceOK'
  <2>1. ComponentOf[p] = "vae" <=> req.next \in {2, 4}
    BY <1>2, PhaseTable
  <2>2. /\ DOMAIN vae' = {"mode", "loc", "lease", "changed", "replaced", "lost"}
        /\ DOMAIN vae'.loc = Tensors /\ vae'.lost = {}
        /\ req.next \in {2, 4} => OnDevice(vae') = {}
        /\ req.next \notin {2, 4} => vae' = vae
    BY <1>1, <2>1, ReleaseKeepsUpdates DEF MInv, DeviceOK
  <2>3. OnDevice(vae)' = OnDevice(vae')
    BY DEF OnDevice
  <2>4. ~adp.dirty => OnDevice(vae) = {} /\ text = "sharded"
    BY <1>1 DEF MInv, DeviceOK, Within
  <2> QED BY <1>1, <1>3, <1>7, <2>2, <2>3, <2>4 DEF DeviceOK, FailedLeaseHeals, Within
<1> QED BY <1>4, <1>5, <1>6 DEF MInv

\* What a phase writes is copied back by the release that ends it.
LEMMA VaeWritesHeals == MInv /\ VaeWrites => MInv'
<1> SUFFICES ASSUME MInv, VaeWrites PROVE MInv'
  OBVIOUS
<1>1. /\ UNCHANGED <<ctl, adp, text, req>>
      /\ \E t : \/ vae' = [vae EXCEPT !.changed = @ \cup {t}]
                \/ vae' = [vae EXCEPT !.replaced = @ \cup {t}]
  BY DEF VaeWrites
<1>2. /\ DOMAIN vae = {"mode", "loc", "lease", "changed", "replaced", "lost"}
  BY DEF MInv, DeviceOK
<1>3. DOMAIN vae' = DOMAIN vae /\ vae'.loc = vae.loc /\ vae'.lost = vae.lost
  BY <1>1, <1>2
<1>4. OnDevice(vae)' = OnDevice(vae)
  BY <1>3 DEF OnDevice
<1>5. DeviceOK'
  BY <1>1, <1>2, <1>3, <1>4 DEF MInv, DeviceOK, FailedLeaseHeals
<1> QED BY <1>1, <1>5 DEF MInv, DriverOK, ControllerOK, AdapterOK

\* What leaves everything but the driver's place inside its phase alone.
LEMMA InsideHeals ==
  ASSUME MInv, req.st \in Within, UNCHANGED <<ctl, adp, vae>>,
         text' = text \/ (req.next = 1 /\ text' = "sharded"),
         req'.st \in Within, req'.next = req.next, req'.win = req.win, req'.no = req.no,
         req'.why \in {req.why, "forward"}, DOMAIN req' = DOMAIN req
  PROVE  MInv'
<1>1. DriverOK'
  BY DEF MInv, DriverOK, Within
<1>2. ControllerOK' /\ AdapterOK'
  BY DEF MInv, ControllerOK, AdapterOK, Between, Within
<1>3. DeviceOK'
  BY DEF MInv, DeviceOK, FailedLeaseHeals, Within, OnDevice
<1> QED BY <1>1, <1>2, <1>3 DEF MInv

\* The end of a forward pass only moves the driver.
LEMMA ForwardDoneHeals == MInv /\ ForwardDone => MInv'
<1> SUFFICES ASSUME MInv, ForwardDone PROVE MInv'
  OBVIOUS
<1>1. /\ req.st = "inside" /\ req' = [req EXCEPT !.st = "leaving"] /\ UNCHANGED <<ctl, adp, vae>>
      /\ text' = IF ctl.phase = "text_encode" THEN "sharded" ELSE text
  BY DEF ForwardDone
<1>2. req.next \in 1..5 /\ ctl.phase = Phases[req.next] /\ DOMAIN req = {"no", "win", "next", "st", "why"}
  BY <1>1 DEF MInv, DriverOK, ControllerOK, Within
<1>3. ctl.phase = "text_encode" <=> req.next = 1
  BY <1>2, PhaseTable
<1> QED BY <1>1, <1>2, <1>3, InsideHeals DEF Within

\* An exception in a phase only moves the driver.
LEMMA ForwardRaisesHeals == MInv /\ ForwardRaises => MInv'
<1> SUFFICES ASSUME MInv, ForwardRaises PROVE MInv'
  OBVIOUS
<1>1. /\ req.st = "inside" /\ req' = [req EXCEPT !.st = "leaving", !.why = "forward"]
      /\ UNCHANGED <<ctl, adp, vae, text>>
  BY DEF ForwardRaises
<1>2. DOMAIN req = {"no", "win", "next", "st", "why"}
  BY DEF MInv, DriverOK
<1> QED BY <1>1, <1>2, InsideHeals DEF Within

\* The exit of a phase starts from wherever the phase has ended.
LEMMA BeginExitHeals == MInv /\ BeginExit => MInv'
<1> SUFFICES ASSUME MInv, BeginExit PROVE MInv'
  OBVIOUS
<1>1. /\ req.st = "leaving" /\ req' = [req EXCEPT !.st = "releasing"]
      /\ UNCHANGED <<ctl, adp, vae, text>>
  BY DEF BeginExit
<1>2. DOMAIN req = {"no", "win", "next", "st", "why"}
  BY DEF MInv, DriverOK
<1> QED BY <1>1, <1>2, InsideHeals DEF Within

\* The exit of a phase takes its component off the device.
LEMMA ExitPhaseHeals == MInv /\ ExitPhase => MInv'
<1> SUFFICES ASSUME MInv, ExitPhase PROVE MInv'
  OBVIOUS
<1>1. /\ req.st = "releasing" /\ req' = Left(req)
      /\ vae' = IF ComponentOf[ctl.phase] = "vae" THEN VaeRelease(vae, Tensors) ELSE vae
      /\ text' = IF ctl.phase = "text_encode" THEN "sharded" ELSE text
      /\ adp' = [adp EXCEPT !.active = "none", !.used = @ \/ ctl.phase = "denoise"]
      /\ ctl' = [ctl EXCEPT !.phase = "none", !.acquired = FALSE]
  BY DEF ExitPhase
<1>2. /\ req.next \in 1..5 /\ req.win \in 1..MaxWindows /\ MaxWindows \in Nat /\ req.no \in Int
      /\ DOMAIN req = {"no", "win", "next", "st", "why"}
      /\ req.why \in {"none", "acquire", "forward", "release", "refused"}
  BY PhasesAssumption DEF MInv, DriverOK
<1>3. /\ DOMAIN req' = DOMAIN req /\ req'.no = req.no /\ req'.why = req.why
      /\ \/ req'.st \in {"failed", "done"} /\ req'.next = req.next /\ req'.win = req.win
         \/ /\ req'.st = "between" /\ req.why = "none"
            /\ \/ req.next < 5 /\ req'.next = req.next + 1 /\ req'.win = req.win
               \/ req.win < MaxWindows /\ req'.next = 1 /\ req'.win = req.win + 1
  <2>1. Len(Phases) = 5
    BY <1>2, PhaseTable
  <2>2. CASE req.why # "none"
    <3>1. req' = [req EXCEPT !.st = "failed"]
      BY <1>1, <2>2 DEF Left
    <3> QED BY <1>2, <3>1
  <2>3. CASE req.why = "none" /\ req.next < 5
    <3>1. req' = [req EXCEPT !.st = "between", !.next = @ + 1]
      BY <1>1, <2>1, <2>3 DEF Left
    <3> QED BY <1>2, <2>3, <3>1
  <2>4. CASE req.why = "none" /\ ~(req.next < 5) /\ req.win < MaxWindows
    <3>1. req' = [req EXCEPT !.st = "between", !.next = 1, !.win = @ + 1]
      BY <1>1, <2>1, <2>4 DEF Left
    <3> QED BY <1>2, <2>4, <3>1
  <2>5. CASE req.why = "none" /\ ~(req.next < 5) /\ ~(req.win < MaxWindows)
    <3>1. req' = [req EXCEPT !.st = "done"]
      BY <1>1, <2>1, <2>5 DEF Left
    <3> QED BY <1>2, <3>1
  <2> QED BY <2>2, <2>3, <2>4, <2>5
<1>4. /\ DOMAIN ctl = {"phase", "acquired", "last"} /\ DOMAIN ctl.last = 1..MaxWindows
      /\ \A w \in 1..MaxWindows : ctl.last[w] \in 0..5
      /\ ctl.phase = Phases[req.next] /\ ctl.last[req.win] = req.next
      /\ \A w \in 1..MaxWindows : w > req.win => ctl.last[w] = 0
  BY <1>1 DEF MInv, ControllerOK, Within
<1>10. adp'.stuck = adp.stuck /\ (req.why = "refused" => adp.stuck)
  BY <1>1 DEF MInv, AdapterOK, DriverOK
<1>5. DriverOK'
  BY <1>2, <1>3, <1>10 DEF DriverOK, Between
<1>6. ControllerOK'
  <2>1. DOMAIN ctl' = {"phase", "acquired", "last"} /\ ctl'.phase = "none" /\ ctl'.last = ctl.last
    BY <1>1, <1>4
  <2>2. req'.st = "between" =>
          /\ ctl.last[req'.win] < req'.next
          /\ \A w \in 1..MaxWindows : w > req'.win => ctl.last[w] = 0
    BY <1>2, <1>3, <1>4
  <2>3. req'.st \notin Within
    BY <1>3 DEF Within
  <2> QED BY <1>4, <2>1, <2>2, <2>3 DEF ControllerOK
<1>7. adp'.active = "none" /\ adp'.closed = adp.closed /\ adp'.dirty = adp.dirty /\ DOMAIN adp' = DOMAIN adp
  BY <1>1 DEF MInv, AdapterOK
<1>8. AdapterOK'
  BY <1>1, <1>3, <1>7 DEF MInv, AdapterOK
<1>9. DeviceOK'
  <2>1. /\ ComponentOf[ctl.phase] = "vae" <=> req.next \in {2, 4}
        /\ ctl.phase = "text_encode" <=> req.next = 1
    BY <1>2, <1>4, PhaseTable
  <2>2. /\ DOMAIN vae' = {"mode", "loc", "lease", "changed", "replaced", "lost"}
        /\ DOMAIN vae'.loc = Tensors /\ vae'.lost = {}
        /\ req.next \in {2, 4} => OnDevice(vae') = {}
        /\ req.next \notin {2, 4} => vae' = vae
    BY <1>1, <2>1, ReleaseKeepsUpdates DEF MInv, DeviceOK
  <2>3. OnDevice(vae)' = OnDevice(vae')
    BY DEF OnDevice
  <2>4. ~adp.dirty => OnDevice(vae') = {} /\ text' = "sharded"
    BY <1>1, <2>1, <2>2 DEF MInv, DeviceOK
  <2>5. req'.st \notin Within /\ (req'.st = "failed" /\ req'.next \in {2, 4} => OnDevice(vae') = {})
    BY <1>3, <2>2 DEF Within
  <2> QED BY <1>7, <2>2, <2>3, <2>4, <2>5 DEF DeviceOK, FailedLeaseHeals
<1> QED BY <1>5, <1>6, <1>8, <1>9 DEF MInv

\* A failed release marks the adapter, so that the next use starts from the host.
LEMMA ReleaseFailsHeals == MInv /\ ReleaseFails => MInv'
<1> SUFFICES ASSUME MInv, ReleaseFails PROVE MInv'
  OBVIOUS
<1>1. /\ req.st = "releasing" /\ req' = [req EXCEPT !.st = "failed", !.why = "release"]
      /\ adp' = [adp EXCEPT !.active = "none", !.dirty = TRUE, !.used = @ \/ ctl.phase = "denoise"]
      /\ UNCHANGED ctl
      /\ vae' = vae \/ \E moved : vae' = VaeRelease(vae, moved)
  BY DEF ReleaseFails, Fail
<1>2. DOMAIN req = {"no", "win", "next", "st", "why"} /\ DOMAIN adp = {"active", "closed", "dirty", "stuck", "used"}
  BY DEF MInv, DriverOK, AdapterOK
<1>3. /\ req'.st = "failed" /\ req'.why = "release" /\ req'.next = req.next /\ req'.win = req.win
      /\ req'.no = req.no /\ DOMAIN req' = DOMAIN req
      /\ adp'.active = "none" /\ adp'.dirty = TRUE /\ adp'.closed = adp.closed /\ DOMAIN adp' = DOMAIN adp
  BY <1>1, <1>2
<1>4. DriverOK' /\ ControllerOK' /\ AdapterOK'
  BY <1>1, <1>3 DEF MInv, DriverOK, ControllerOK, AdapterOK, Between, Within
<1>5. DeviceOK'
  <2>1. /\ DOMAIN vae' = {"mode", "loc", "lease", "changed", "replaced", "lost"}
        /\ DOMAIN vae'.loc = Tensors /\ vae'.lost = {}
    BY <1>1, ReleaseKeepsUpdates DEF MInv, DeviceOK
  <2> QED BY <1>3, <2>1 DEF DeviceOK, FailedLeaseHeals
<1> QED BY <1>4, <1>5 DEF MInv

\* A new request finds the adapter free.
LEMMA NextRequestHeals == MInv /\ NextRequest => MInv'
<1> SUFFICES ASSUME MInv, NextRequest PROVE MInv'
  OBVIOUS
<1>1. /\ req.st \in {"done", "failed"} /\ req.no < MaxRequests /\ ctl' = NewController
      /\ req' = [no |-> req.no + 1, win |-> 1, next |-> 1, st |-> "between", why |-> "none"]
      /\ UNCHANGED <<adp, vae, text>>
  BY DEF NextRequest
<1>2. req.no \in Int /\ MaxRequests \in Nat /\ MaxWindows \in Nat \ {0}
  BY PhasesAssumption DEF MInv, DriverOK
<1>3. DriverOK' /\ ControllerOK'
  BY <1>1, <1>2 DEF DriverOK, ControllerOK, NewController, Between, Within
<1>4. AdapterOK' /\ DeviceOK'
  BY <1>1, <1>2 DEF MInv, AdapterOK, DeviceOK, FailedLeaseHeals, OnDevice, Between, Within
<1> QED BY <1>3, <1>4 DEF MInv

\* No request follows the shutdown of the adapter.
LEMMA ShutdownHeals == MInv /\ Shutdown => MInv'
<1> SUFFICES ASSUME MInv, Shutdown PROVE MInv'
  OBVIOUS
<1>1. /\ req.st \in {"done", "failed"} /\ req' = [req EXCEPT !.no = MaxRequests]
      /\ adp' = [adp EXCEPT !.closed = TRUE, !.active = "none"] /\ UNCHANGED <<ctl, vae, text>>
  BY DEF Shutdown
<1>2. /\ MaxRequests \in Nat
      /\ DOMAIN req = {"no", "win", "next", "st", "why"} /\ DOMAIN adp = {"active", "closed", "dirty", "stuck", "used"}
  BY PhasesAssumption DEF MInv, DriverOK, AdapterOK
<1>3. /\ req'.no = MaxRequests /\ req'.st = req.st /\ req'.next = req.next /\ req'.win = req.win
      /\ req'.why = req.why /\ DOMAIN req' = DOMAIN req
      /\ adp'.closed /\ adp'.active = "none" /\ adp'.dirty = adp.dirty /\ DOMAIN adp' = DOMAIN adp
  BY <1>1, <1>2
<1>4. DriverOK' /\ ControllerOK' /\ AdapterOK'
  BY <1>1, <1>2, <1>3 DEF MInv, DriverOK, ControllerOK, AdapterOK, Between, Within
<1>5. DeviceOK'
  BY <1>1, <1>3 DEF MInv, DeviceOK, FailedLeaseHeals, OnDevice, Between, Within
<1> QED BY <1>4, <1>5 DEF MInv

-----------------------------------------------------------------------------
\* The invariant of the phases holds at the start.
LEMMA PhasesBegin == Init => MInv
<1> SUFFICES ASSUME Init PROVE MInv
  OBVIOUS
<1>1. MaxWindows \in Nat \ {0}
  BY PhasesAssumption
<1>2. /\ ctl = NewController
      /\ adp = [active |-> "none", closed |-> FALSE, dirty |-> FALSE, used |-> FALSE,
              stuck |-> FALSE]
      /\ vae = [mode |-> setup.vae, loc |-> [t \in Tensors |-> "cpu"], lease |-> {},
                changed |-> {}, replaced |-> {}, lost |-> {}]
      /\ text = "sharded"
      /\ req = [no |-> 1, win |-> 1, next |-> 1, st |-> "between", why |-> "none"]
  BY DEF Init
<1>3. DriverOK /\ ControllerOK /\ AdapterOK
  BY <1>1, <1>2 DEF DriverOK, ControllerOK, AdapterOK, NewController, Between, Within
<1>4. DeviceOK
  BY <1>2 DEF DeviceOK, FailedLeaseHeals, OnDevice
<1> QED BY <1>3, <1>4 DEF MInv

\* Every step keeps the invariant of the phases.
LEMMA PhasesGoOn == MInv /\ [Next]_vars => MInv'
<1> SUFFICES ASSUME MInv, [Next]_vars PROVE MInv'
  OBVIOUS
<1>1. CASE UNCHANGED phaseVars
  BY <1>1 DEF phaseVars, MInv, DriverOK, ControllerOK, AdapterOK, DeviceOK, FailedLeaseHeals, OnDevice
<1>2. CASE Denoise \/ Device \/ Ended \/ UNCHANGED vars
  BY <1>1, <1>2 DEF Denoise, Device, Ended, vars
<1> QED BY <1>2, EnteredHeals, RefusedHeals, AcquireFailsHeals, VaeWritesHeals, ForwardDoneHeals,
           ForwardRaisesHeals, BeginExitHeals, ExitPhaseHeals, ReleaseFailsHeals,
           NextRequestHeals, ShutdownHeals DEF Next

\* The phases hand the device on empty and the adapter free: after a window, a failed
\* acquire or a failed forward nothing large stays on the device, no update of the VAE is
\* lost, and no request is refused because of what an earlier one left behind, unless an
\* acquire failed in its last act, its record.
THEOREM PhasesAlwaysHeal == Spec => []PhasesHeal
<1>1. MInv => PhasesHeal
  <2> SUFFICES ASSUME MInv PROVE PhasesHeal
    OBVIOUS
  <2>1. OneComponentAtATime
    BY DEF MInv, DeviceOK, OneComponentAtATime, Within
  <2>2. FailedLeaseHeals /\ NoUpdateLost /\ NeverRefused
    BY DEF MInv, DeviceOK, DriverOK, NoUpdateLost, NeverRefused
  <2> QED BY <2>1, <2>2 DEF PhasesHeal
<1> QED BY PhasesBegin, PhasesGoOn, <1>1, PTL DEF Spec

-----------------------------------------------------------------------------
(***************************************************************************)
(* The layerwise offload: its invariant.                                   *)
(***************************************************************************)

\* The pending work of a stream.
Op == [layer : Layers, buf : Nat, after : Nat]

\* Where the weights of block i that buffer b is to hold come from: the buffer, or a pending copy.
Arrives(d, i, b, x) ==
  /\ x \in 0..Len(d.copyq)
  /\ x = 0 => d.content[b] = i
  /\ x > 0 => d.copyq[x].layer = i /\ d.copyq[x].buf = b

\* Once the first a copies are done, the buffer of the resident block i holds its weights, and
\* no copy behind them writes it.
Owned(d, i, a) ==
  \E x \in 0..a :
    /\ Arrives(d, i, d.buf[i], x)
    /\ \A y \in DOMAIN d.copyq : y > x => d.copyq[y].buf # d.buf[i]

\* When computation j starts, the copies it waits for have brought the weights it reads; a later
\* copy into the same buffer waits for the computation.
Fed(d, j) ==
  \E x \in 0..d.compq[j].after :
    /\ Arrives(d, d.compq[j].layer, d.compq[j].buf, x)
    /\ \A y \in DOMAIN d.copyq :
         y > x /\ d.copyq[y].buf = d.compq[j].buf => d.copyq[y].after >= j

\* The shape of the device.
ShapeOK(d) ==
  /\ DOMAIN d = {"buf", "content", "recorded", "held", "copyq", "compq", "compWait"}
  /\ d.content \in Seq({-1} \cup Layers)
  /\ d.buf \in [Layers -> 0..Len(d.content)]
  /\ d.copyq \in Seq(Op) /\ d.compq \in Seq(Op) /\ d.compWait \in Nat
  /\ \A k \in DOMAIN d.copyq : d.copyq[k].buf \in 1..Len(d.content)
  /\ \A k \in DOMAIN d.compq : d.compq[k].buf \in 1..Len(d.content)

\* Every block has a buffer of its own that holds its weights or is about to, and every pending
\* computation will find what it reads.
WellFed(d) ==
  /\ ShapeOK(d)
  /\ \A i, k \in Resident(d) : d.buf[i] = d.buf[k] => i = k
  /\ \A i \in Resident(d) : Owned(d, i, Len(d.copyq))
  /\ \A j \in DOMAIN d.compq : Fed(d, j)

\* The blocks of the positions lo to hi - 1 of an order that starts again after the last
\* block, and the start of the batch of a block.
Window(lo, hi) == {m % setup.layers : m \in lo .. hi - 1}
Base(i) == i - (i % PrefetchSize)
FirstBlocks == 0 .. PrefetchSize - 1

\* The block whose turn it is in the wraparound mode, and how far the device has been filled.
Turn(h) == h.pos - 1
Reach(h) ==
  IF h.at \in {"run", "failed"} THEN Base(Turn(h)) + 2 * PrefetchSize
  ELSE IF h.pos = 1 THEN 2 * PrefetchSize ELSE Base(Turn(h) - 1) + 2 * PrefetchSize

\* The shape of the host's place in a forward pass.
HostType(h) ==
  /\ DOMAIN h = {"at", "plan", "bounded", "pos", "forwards"}
  /\ h.at \in {"idle", "pre", "sync", "run", "warm", "failed"}
  /\ h.plan \in Seq(Layers) /\ h.bounded \in BOOLEAN
  /\ h.at \notin {"idle", "warm"} =>
       /\ h.pos \in DOMAIN h.plan
       /\ ~h.bounded => h.plan = AllLayers
       /\ h.bounded => h.at # "sync"
  /\ h.at \in {"idle", "warm"} => ~h.bounded
  /\ h.at = "sync" => h.pos = 1

\* Which blocks are there at each place: in the wraparound mode all from the one whose turn
\* it is to the end of the batches in flight, in a plan only those it has asked for.
Fits(d, h) ==
  LET R == Resident(d) IN
  /\ h.at = "idle" => R \subseteq Window(0, 2 * PrefetchSize)
  /\ h.at = "warm" => R = {}
  /\ h.at \notin {"idle", "warm"} /\ h.bounded =>
       R \subseteq {h.plan[m] : m \in h.pos .. Min({Len(h.plan), h.pos + PrefetchSize})}
  /\ h.at \notin {"idle", "warm"} /\ ~h.bounded => R \subseteq Window(Turn(h), Reach(h))
  /\ ~h.bounded /\ (h.at = "run" \/ (h.at = "pre" /\ h.pos > 1)) =>
       \A i \in Layers : Turn(h) <= i /\ i < Reach(h) => i \in R
  /\ h.at = "sync" => FirstBlocks \subseteq R
  /\ h.at = "run" => h.plan[h.pos] \in R /\ Owned(d, h.plan[h.pos], d.compWait)

\* Outside the denoising phase the host rests, with at most the first batch on the device.
Denoising == req.st \in {"inside", "leaving"} /\ ctl.phase = "denoise"
ResidencyOK ==
  /\ HostType(host)
  /\ req.st = "inside" /\ ctl.phase = "denoise" => Fits(dev, host)
  /\ ~Denoising =>
       /\ host = Idle
       /\ Resident(dev) \subseteq FirstBlocks
       /\ adp.used \/ (req.st = "releasing" /\ ctl.phase = "denoise") => Resident(dev) = {}

\* The variables the offload shares with the phases.
TypesOK ==
  /\ setup \in Setups
  /\ ctl.phase \in {"none"} \cup {Phases[k] : k \in DOMAIN Phases}
  /\ adp.active \in {"none", "vae", "transformer", "text_encoder"}
  /\ vae.loc \in [Tensors -> {"cpu", "gpu"}]
  /\ text \in {"sharded", "forward"}

\* The invariant.
LInv == TypesOK /\ WellFed(dev) /\ ResidencyOK

-----------------------------------------------------------------------------
(***************************************************************************)
(* Numbers, sequences and the fields of the device.                        *)
(***************************************************************************)

\* The larger of two numbers.
LEMMA MaxOf ==
  ASSUME NEW a \in Int, NEW b \in Int
  PROVE  Max({a, b}) \in {a, b} /\ Max({a, b}) >= a /\ Max({a, b}) >= b
<1>1. \E x \in {a, b} : \A y \in {a, b} : x >= y
  OBVIOUS
<1> QED BY <1>1 DEF Max

\* What is in a set and not below any other of it is the largest.
LEMMA GreatestIs ==
  ASSUME NEW S, S \subseteq Int, NEW x \in S, \A y \in S : y <= x
  PROVE  Max(S) = x
<1>1. \E m \in S : \A y \in S : m >= y
  <2>1. \A y \in S : x >= y
    OBVIOUS
  <2> QED BY <2>1
<1>2. Max(S) \in S /\ \A y \in S : Max(S) >= y
  BY <1>1 DEF Max
<1>3. Max(S) >= x /\ Max(S) <= x /\ Max(S) \in Int /\ x \in Int
  BY <1>2
<1> QED BY <1>3

\* The smaller of two numbers.
LEMMA MinOf ==
  ASSUME NEW a \in Int, NEW b \in Int
  PROVE  Min({a, b}) = IF a <= b THEN a ELSE b
<1>1. \E x \in {a, b} : \A y \in {a, b} : x <= y
  OBVIOUS
<1> QED BY <1>1 DEF Min

\* A set of natural numbers has a least one.
LEMMA LeastNumber ==
  ASSUME NEW T, T \subseteq Nat, T # {}
  PROVE  \E n \in T : \A m \in T : n <= m
<1> DEFINE R == WF!OpToRel(<, Nat)
<1>1. WF!IsWellFoundedOn(R, Nat)
  BY WF!NatLessThanWellFounded
<1>2. \A a, b \in Nat : a < b => <<a, b>> \in R
  BY DEF WF!OpToRel
<1> HIDE DEF R
<1>3. PICK x \in T : \A y \in T : ~(<<y, x>> \in R)
  BY <1>1, WF!WFMin
<1>4. ASSUME NEW m \in T PROVE x <= m
  <2>1. x \in Nat /\ m \in Nat /\ ~(m < x)
    BY <1>2, <1>3
  <2> QED BY <2>1
<1> QED BY <1>4

\* Induction, over the numbers for which something holds.
LEMMA SetInduction ==
  ASSUME NEW S, 0 \in S, \A n \in Nat : n \in S => n + 1 \in S
  PROVE  \A n \in Nat : n \in S
<1> SUFFICES ASSUME NEW k \in Nat, k \notin S PROVE FALSE
  OBVIOUS
<1> DEFINE T == {n \in Nat : n \notin S}
<1>1. PICK n \in T : \A m \in T : n <= m
  <2>1. T \subseteq Nat /\ T # {}
    OBVIOUS
  <2> HIDE DEF T
  <2> QED BY <2>1, LeastNumber
<1>2. n # 0 /\ n - 1 \in Nat /\ n - 1 \in S
  BY <1>1
<1> QED BY <1>1, <1>2

\* One more entry at the end of a sequence.
LEMMA AppendFacts ==
  ASSUME NEW S, NEW s \in Seq(S), NEW e \in S
  PROVE  /\ Append(s, e) \in Seq(S) /\ Len(s) \in Nat /\ Len(Append(s, e)) = Len(s) + 1
         /\ DOMAIN s = 1..Len(s) /\ DOMAIN Append(s, e) = 1..(Len(s) + 1)
         /\ Append(s, e)[Len(s) + 1] = e
         /\ \A k \in 1..Len(s) : Append(s, e)[k] = s[k]
OBVIOUS

\* A sequence without its first entry.
LEMMA TailFacts ==
  ASSUME NEW S, NEW s \in Seq(S), s # <<>>
  PROVE  /\ Tail(s) \in Seq(S) /\ Len(s) \in Nat /\ Len(s) >= 1 /\ Len(Tail(s)) = Len(s) - 1
         /\ DOMAIN s = 1..Len(s) /\ DOMAIN Tail(s) = 1..(Len(s) - 1)
         /\ Head(s) = s[1] /\ Head(s) \in S
         /\ \A k \in 1..(Len(s) - 1) : Tail(s)[k] = s[k + 1]
OBVIOUS

\* A part of a sequence.
LEMMA PartFacts ==
  ASSUME NEW S, NEW s \in Seq(S), NEW a \in Int, NEW b \in Int, 0 < a, b <= Len(s), a <= b + 1
  PROVE  /\ SubSeq(s, a, b) \in Seq(S) /\ Len(SubSeq(s, a, b)) = b - a + 1
         /\ \A k \in 1..(b - a + 1) : SubSeq(s, a, b)[k] = s[a + k - 1]
<1>1. Len(s) \in Nat /\ \A k \in a..b : s[k] \in S
  OBVIOUS
<1> QED BY <1>1

\* The depth of the transformer and the size of a batch.
LEMMA Sizes ==
  ASSUME setup \in Setups
  PROVE  /\ setup.layers \in Nat \ {0} /\ setup.prefetch \in Nat \ {0}
         /\ PrefetchSize \in Nat \ {0} /\ PrefetchSize <= setup.layers
         /\ Layers \subseteq Nat /\ NoBuf = 0
BY SetupsAssumption DEF PrefetchSize, Layers, NoBuf

\* The fields of a well-shaped device.
LEMMA ShapeFacts ==
  ASSUME NEW d, ShapeOK(d)
  PROVE  /\ Len(d.content) \in Nat /\ DOMAIN d.content = 1..Len(d.content)
         /\ Len(d.copyq) \in Nat /\ DOMAIN d.copyq = 1..Len(d.copyq)
         /\ Len(d.compq) \in Nat /\ DOMAIN d.compq = 1..Len(d.compq)
         /\ \A k \in 1..Len(d.copyq) : d.copyq[k] \in Op /\ d.copyq[k].after \in Nat /\ d.copyq[k].layer \in Layers
         /\ \A k \in 1..Len(d.compq) : d.compq[k] \in Op /\ d.compq[k].after \in Nat /\ d.compq[k].layer \in Layers
         /\ \A i \in Layers : d.buf[i] \in 0..Len(d.content)
         /\ Resident(d) \subseteq Layers
<1>1. /\ d.content \in Seq({-1} \cup Layers) /\ d.copyq \in Seq(Op) /\ d.compq \in Seq(Op)
      /\ d.buf \in [Layers -> 0..Len(d.content)]
  BY DEF ShapeOK
<1>2. ASSUME NEW q \in Seq(Op)
      PROVE  /\ Len(q) \in Nat /\ DOMAIN q = 1..Len(q)
             /\ \A k \in 1..Len(q) : q[k] \in Op /\ q[k].after \in Nat /\ q[k].layer \in Layers
  <2>1. Len(q) \in Nat /\ DOMAIN q = 1..Len(q) /\ \A k \in 1..Len(q) : q[k] \in Op
    OBVIOUS
  <2> QED BY <2>1 DEF Op
<1>3. Len(d.content) \in Nat /\ DOMAIN d.content = 1..Len(d.content)
  BY <1>1
<1> QED BY <1>1, <1>2, <1>3 DEF Resident

\* A new buffer, or one that no block uses.
LEMMA AllocatedFacts ==
  ASSUME NEW d, ShapeOK(d)
  PROVE  /\ ShapeOK(Allocated(d))
         /\ NextBuf(d) \in 1..Len(Allocated(d).content)
         /\ \A i \in Layers : d.buf[i] # NextBuf(d)
         /\ Len(d.content) <= Len(Allocated(d).content)
         /\ \A b \in 1..Len(d.content) : Allocated(d).content[b] = d.content[b]
         /\ Allocated(d).buf = d.buf /\ Allocated(d).copyq = d.copyq
         /\ Allocated(d).compq = d.compq /\ Allocated(d).compWait = d.compWait
<1> DEFINE e == Allocated(d)
           n == Len(d.content)
<1>1. n \in Nat /\ DOMAIN d.content = 1..n /\ \A i \in Layers : d.buf[i] \in 0..n
  BY ShapeFacts
<1>2. CASE FreeBufs(d) # {}
  <2>1. e = d /\ NextBuf(d) \in FreeBufs(d)
    BY <1>2 DEF Allocated, NextBuf
  <2> QED BY <1>1, <2>1 DEF FreeBufs
<1>3. CASE FreeBufs(d) = {}
  <2>1. NextBuf(d) = n + 1 /\ e = [d EXCEPT !.content = Append(@, -1), !.held = Append(@, 0)]
    BY <1>3 DEF Allocated, NextBuf
  <2>2. DOMAIN d = {"buf", "content", "recorded", "held", "copyq", "compq", "compWait"}
    BY DEF ShapeOK
  <2>3. /\ e.content = Append(d.content, -1) /\ e.held = Append(d.held, 0)
        /\ e.buf = d.buf /\ e.copyq = d.copyq /\ e.compq = d.compq /\ e.compWait = d.compWait
        /\ DOMAIN e = DOMAIN d
    BY <2>1, <2>2
  <2> HIDE DEF e
  <2>4. /\ e.content \in Seq({-1} \cup Layers) /\ Len(e.content) = n + 1
        /\ \A b \in 1..n : e.content[b] = d.content[b]
    BY <2>3, AppendFacts DEF ShapeOK
  <2>6. ShapeOK(e)
    <3>1. e.buf \in [Layers -> 0..Len(e.content)]
      BY <1>1, <2>3, <2>4 DEF ShapeOK
    <3>2. 1..n \subseteq 1..Len(e.content)
      BY <1>1, <2>4
    <3> QED BY <1>1, <2>2, <2>3, <2>4, <3>1, <3>2 DEF ShapeOK
  <2>7. n + 1 \in 1..Len(e.content) /\ \A i \in Layers : d.buf[i] # n + 1
    BY <1>1, <2>4
  <2> QED BY <1>1, <2>1, <2>3, <2>4, <2>6, <2>7 DEF e
<1> QED BY <1>2, <1>3

\* What a prefetch of a block that is not on the device changes.
LEMMA PrefetchFields ==
  ASSUME NEW d, ShapeOK(d), NEW i \in Layers, i \notin Resident(d)
  PROVE  LET e == Prefetch(d, i) IN
         \E b \in Nat \ {0} :
           /\ ShapeOK(e) /\ \A k \in Layers : d.buf[k] # b
           /\ e.buf[i] = b /\ \A k \in Layers : k # i => e.buf[k] = d.buf[k]
           /\ e.copyq = Append(d.copyq, [layer |-> i, buf |-> b, after |-> Len(d.compq)])
           /\ e.compq = d.compq /\ e.compWait = d.compWait
           /\ Len(d.content) <= Len(e.content)
           /\ \A c \in 1..Len(d.content) : e.content[c] = d.content[c]
<1> DEFINE a == Allocated(d)
           b == NextBuf(d)
           op == [layer |-> i, buf |-> b, after |-> Len(d.compq)]
           e == Prefetch(d, i)
<1>1. /\ ShapeOK(a) /\ b \in 1..Len(a.content) /\ \A k \in Layers : d.buf[k] # b
      /\ Len(d.content) <= Len(a.content) /\ \A c \in 1..Len(d.content) : a.content[c] = d.content[c]
      /\ a.buf = d.buf /\ a.copyq = d.copyq /\ a.compq = d.compq /\ a.compWait = d.compWait
  BY AllocatedFacts
<1>2. e = [a EXCEPT !.buf[i] = b, !.recorded = @ \ {b}, !.copyq = Append(@, op)]
  BY DEF Prefetch
<1> HIDE DEF a, b
<1>3. /\ DOMAIN a = {"buf", "content", "recorded", "held", "copyq", "compq", "compWait"}
      /\ a.buf \in [Layers -> 0..Len(a.content)] /\ a.copyq \in Seq(Op)
      /\ Len(a.content) \in Nat /\ Len(d.compq) \in Nat
  BY <1>1, ShapeFacts DEF ShapeOK
<1>4. /\ e.buf = [a.buf EXCEPT ![i] = b] /\ e.copyq = Append(a.copyq, op)
      /\ e.content = a.content /\ e.held = a.held /\ e.compq = a.compq /\ e.compWait = a.compWait
      /\ DOMAIN e = DOMAIN a
  BY <1>2, <1>3
<1> HIDE DEF e
<1>5. op \in Op
  BY <1>1, <1>3 DEF Op
<1>6. e.copyq \in Seq(Op) /\ \A k \in DOMAIN e.copyq : e.copyq[k].buf \in 1..Len(a.content)
  <2>1. /\ Append(a.copyq, op) \in Seq(Op) /\ Len(a.copyq) \in Nat
        /\ DOMAIN Append(a.copyq, op) = 1..(Len(a.copyq) + 1)
        /\ Append(a.copyq, op)[Len(a.copyq) + 1] = op
        /\ \A k \in 1..Len(a.copyq) : Append(a.copyq, op)[k] = a.copyq[k]
    BY <1>3, <1>5, AppendFacts
  <2>2. \A k \in 1..Len(a.copyq) : a.copyq[k].buf \in 1..Len(a.content)
    BY <1>1, <2>1, ShapeFacts DEF ShapeOK
  <2>3. op.buf \in 1..Len(a.content)
    BY <1>1
  <2> HIDE DEF op
  <2> QED BY <1>4, <2>1, <2>2, <2>3
<1>7. e.buf \in [Layers -> 0..Len(a.content)] /\ e.buf[i] = b /\ \A k \in Layers : k # i => e.buf[k] = d.buf[k]
  BY <1>1, <1>3, <1>4
<1>8. ShapeOK(e)
  BY <1>1, <1>3, <1>4, <1>6, <1>7 DEF ShapeOK
<1>9. b \in Nat \ {0}
  BY <1>1, <1>3
<1> QED BY <1>1, <1>4, <1>7, <1>8, <1>9, SMTT(60) DEF e

-----------------------------------------------------------------------------
(***************************************************************************)
(* What every operation of the device keeps.                               *)
(***************************************************************************)

\* The blocks that are there stay, and so does what a use of them has waited for.
Keeps(d, e) ==
  \A k \in Resident(d) : k \in Resident(e) /\ \A a \in Nat : Owned(d, k, a) => Owned(e, k, a)

\* A prefetch brings one block, behind the computation issued so far.
LEMMA PrefetchWell ==
  ASSUME NEW d, WellFed(d), NEW i \in Layers, setup \in Setups
  PROVE  LET e == Prefetch(d, i) IN
         /\ WellFed(e) /\ Resident(e) = Resident(d) \cup {i}
         /\ Keeps(d, e) /\ e.compWait = d.compWait /\ e.compq = d.compq
<1> DEFINE e == Prefetch(d, i)
<1>1. CASE i \in Resident(d)
  BY <1>1 DEF Prefetch, Keeps
<1>2. CASE i \notin Resident(d)
  <2>1. ShapeOK(d)
    BY DEF WellFed
  <2>2. PICK b \in Nat \ {0} :
           /\ ShapeOK(e) /\ \A k \in Layers : d.buf[k] # b
           /\ e.buf[i] = b /\ \A k \in Layers : k # i => e.buf[k] = d.buf[k]
           /\ e.copyq = Append(d.copyq, [layer |-> i, buf |-> b, after |-> Len(d.compq)])
           /\ e.compq = d.compq /\ e.compWait = d.compWait
           /\ Len(d.content) <= Len(e.content)
           /\ \A c \in 1..Len(d.content) : e.content[c] = d.content[c]
    BY <1>2, <2>1, PrefetchFields
  <2> DEFINE n == Len(d.copyq)
  <2>3. /\ n \in Nat /\ DOMAIN d.copyq = 1..n /\ Len(d.compq) \in Nat /\ DOMAIN d.compq = 1..Len(d.compq)
        /\ Len(d.content) \in Nat /\ \A k \in Layers : d.buf[k] \in 0..Len(d.content)
        /\ \A k \in 1..Len(d.compq) : d.compq[k].buf \in 1..Len(d.content) /\ d.compq[k].after \in Nat
    BY <2>1, ShapeFacts DEF ShapeOK
  <2>4. /\ Len(e.copyq) = n + 1 /\ DOMAIN e.copyq = 1..(n + 1)
        /\ e.copyq[n + 1].layer = i /\ e.copyq[n + 1].buf = b /\ e.copyq[n + 1].after = Len(d.compq)
        /\ \A k \in 1..n : e.copyq[k] = d.copyq[k]
    <3> DEFINE op == [layer |-> i, buf |-> b, after |-> Len(d.compq)]
    <3>1. op \in Op /\ d.copyq \in Seq(Op)
      BY <2>1, <2>3 DEF Op, ShapeOK
    <3>2. op.layer = i /\ op.buf = b /\ op.after = Len(d.compq)
      OBVIOUS
    <3> HIDE DEF op
    <3>3. e.copyq = Append(d.copyq, op)
      BY <2>2 DEF op
    <3> HIDE DEF e
    <3> QED BY <2>3, <3>1, <3>2, <3>3, AppendFacts
  <2> HIDE DEF e
  <2>5. Resident(e) = Resident(d) \cup {i}
    BY <2>2 DEF Resident, NoBuf
  <2>6. ASSUME NEW l, NEW c \in 1..Len(d.content), NEW x, Arrives(d, l, c, x)
        PROVE  Arrives(e, l, c, x)
    BY <2>2, <2>3, <2>4, <2>6, SMTT(60) DEF Arrives
  <2>7. Keeps(d, e)
    <3> SUFFICES ASSUME NEW k \in Resident(d), NEW a \in Nat, Owned(d, k, a) PROVE Owned(e, k, a)
      BY <2>5 DEF Keeps
    <3>1. k \in Layers /\ k # i /\ e.buf[k] = d.buf[k] /\ d.buf[k] \in 1..Len(d.content) /\ d.buf[k] # b
      BY <1>2, <2>2, <2>3 DEF Resident, NoBuf
    <3>2. PICK x \in 0..a : Arrives(d, k, d.buf[k], x) /\ \A y \in DOMAIN d.copyq : y > x => d.copyq[y].buf # d.buf[k]
      BY DEF Owned
    <3>3. Arrives(e, k, e.buf[k], x)
      BY <2>6, <3>1, <3>2
    <3>4. \A y \in DOMAIN e.copyq : y > x => e.copyq[y].buf # e.buf[k]
      <4> TAKE y \in DOMAIN e.copyq
      <4>1. y \in 1..n \/ y = n + 1
        BY <2>3, <2>4
      <4> QED BY <2>2, <2>3, <2>4, <3>1, <3>2, <4>1
    <3> QED BY <3>3, <3>4 DEF Owned
  <2>8. \A k, m \in Resident(e) : e.buf[k] = e.buf[m] => k = m
    BY <2>2, <2>5 DEF WellFed, Resident
  <2>9. \A k \in Resident(e) : Owned(e, k, Len(e.copyq))
    <3> TAKE k \in Resident(e)
    <3>1. CASE k = i
      <4>1. Arrives(e, i, e.buf[i], n + 1)
        BY <2>2, <2>3, <2>4 DEF Arrives
      <4>2. n + 1 \in 0..Len(e.copyq) /\ \A y \in DOMAIN e.copyq : ~(y > n + 1)
        BY <2>3, <2>4
      <4> QED BY <3>1, <4>1, <4>2 DEF Owned
    <3>2. CASE k \in Resident(d)
      <4>1. Owned(e, k, n)
        BY <2>3, <2>7, <3>2 DEF Keeps, WellFed
      <4>2. 0..n \subseteq 0..Len(e.copyq)
        BY <2>3, <2>4
      <4> QED BY <4>1, <4>2 DEF Owned
    <3> QED BY <2>5, <3>1, <3>2
  <2>10. \A j \in DOMAIN e.compq : Fed(e, j)
    <3> TAKE j \in DOMAIN e.compq
    <3>1. j \in 1..Len(d.compq) /\ Fed(d, j) /\ e.compq = d.compq /\ d.compq[j].buf \in 1..Len(d.content)
      BY <2>2, <2>3 DEF WellFed
    <3>2. PICK x \in 0..d.compq[j].after :
            /\ Arrives(d, d.compq[j].layer, d.compq[j].buf, x)
            /\ \A y \in DOMAIN d.copyq :
                 y > x /\ d.copyq[y].buf = d.compq[j].buf => d.copyq[y].after >= j
      BY <3>1 DEF Fed
    <3>3. Arrives(e, e.compq[j].layer, e.compq[j].buf, x)
      BY <2>6, <3>1, <3>2
    <3>4. \A y \in DOMAIN e.copyq : y > x /\ e.copyq[y].buf = e.compq[j].buf => e.copyq[y].after >= j
      <4> TAKE y \in DOMAIN e.copyq
      <4>1. y \in 1..n \/ y = n + 1
        BY <2>3, <2>4
      <4>2. CASE y \in 1..n
        <5>1. y \in DOMAIN d.copyq /\ e.copyq[y] = d.copyq[y] /\ e.compq[j] = d.compq[j]
          BY <2>3, <2>4, <3>1, <4>2
        <5> QED BY <3>2, <5>1
      <4>3. CASE y = n + 1
        <5>1. e.copyq[y].after = Len(d.compq) /\ j <= Len(d.compq)
          BY <2>3, <2>4, <3>1, <4>3
        <5> QED BY <2>3, <3>1, <5>1
      <4> QED BY <4>1, <4>2, <4>3
    <3> QED BY <3>1, <3>2, <3>3, <3>4 DEF Fed
  <2> QED BY <2>2, <2>5, <2>7, <2>8, <2>9, <2>10 DEF WellFed, e
<1> QED BY <1>1, <1>2

\* The prefetches of a batch follow one another.
LEMMA PrefetchesOneByOne ==
  ASSUME NEW d, NEW s, NEW n \in Nat
  PROVE  \E f : f = [k \in 0..n |-> IF k = 0 THEN d ELSE Prefetch(f[k - 1], s[k])]
<1> DEFINE Rule(f, m) == f = [k \in 0..m |-> IF k = 0 THEN d ELSE Prefetch(f[k - 1], s[k])]
           Exists == {m \in Nat : \E f : Rule(f, m)}
<1>1. 0 \in Exists
  <2> DEFINE f == [k \in 0..0 |-> d]
  <2>1. Rule(f, 0)
    OBVIOUS
  <2> QED BY <2>1
<1>2. ASSUME NEW m \in Nat, m \in Exists PROVE m + 1 \in Exists
  <2>1. PICK f : Rule(f, m)
    BY <1>2
  <2> DEFINE g == [k \in 0..(m + 1) |-> IF k <= m THEN f[k] ELSE Prefetch(f[m], s[m + 1])]
             h == [k \in 0..(m + 1) |-> IF k = 0 THEN d ELSE Prefetch(g[k - 1], s[k])]
  <2>2. ASSUME NEW k \in 0..(m + 1) PROVE g[k] = h[k]
    <3>1. CASE k = 0
      <4>1. f[0] = d
        BY <2>1
      <4> QED BY <3>1, <4>1
    <3>2. CASE k # 0 /\ k <= m
      <4>1. k \in 0..m /\ k - 1 \in 0..(m + 1) /\ k - 1 <= m
        BY <3>2
      <4>2. f[k] = Prefetch(f[k - 1], s[k])
        BY <2>1, <3>2, <4>1
      <4> QED BY <3>2, <4>1, <4>2
    <3>3. CASE k = m + 1
      <4>1. k - 1 = m /\ m \in 0..(m + 1) /\ ~(k <= m) /\ k # 0 /\ m <= m
        BY <3>3
      <4>2. g[m] = f[m] /\ g[k] = Prefetch(f[m], s[m + 1])
        BY <4>1
      <4>3. h[k] = Prefetch(g[m], s[m + 1])
        BY <3>3, <4>1
      <4> QED BY <4>2, <4>3
    <3> QED BY <3>1, <3>2, <3>3
  <2>3. g = h
    BY <2>2
  <2>4. Rule(g, m + 1)
    BY <2>3
  <2> HIDE DEF g
  <2> QED BY <2>4
<1> HIDE DEF Exists
<1>3. n \in Exists
  BY <1>1, <1>2, SetInduction
<1> QED BY <1>3 DEF Exists

\* A batch brings its blocks and takes none away.
LEMMA PrefetchAllWell ==
  ASSUME NEW d, WellFed(d), NEW s \in Seq(Layers), setup \in Setups
  PROVE  LET e == PrefetchAll(d, s) IN
         /\ WellFed(e) /\ Resident(e) = Resident(d) \cup {s[k] : k \in 1..Len(s)}
         /\ Keeps(d, e) /\ e.compWait = d.compWait /\ e.compq = d.compq
<1> DEFINE n == Len(s)
           Rule(f) == f = [k \in 0..n |-> IF k = 0 THEN d ELSE Prefetch(f[k - 1], s[k])]
           after == CHOOSE f : Rule(f)
<1>1. n \in Nat /\ \A k \in 1..n : s[k] \in Layers
  OBVIOUS
<1>2. Rule(after)
  BY <1>1, PrefetchesOneByOne
<1>3. PrefetchAll(d, s) = after[n]
  BY DEF PrefetchAll
<1> HIDE DEF after
<1> DEFINE Good == {m \in Nat : m <= n =>
                      /\ WellFed(after[m]) /\ Resident(after[m]) = Resident(d) \cup {s[k] : k \in 1..m}
                      /\ Keeps(d, after[m]) /\ after[m].compWait = d.compWait /\ after[m].compq = d.compq}
<1>4. 0 \in Good
  <2>1. after[0] = d
    BY <1>1, <1>2
  <2> QED BY <2>1 DEF Keeps
<1>5. ASSUME NEW m \in Nat, m \in Good PROVE m + 1 \in Good
  <2> SUFFICES ASSUME m + 1 <= n
      PROVE /\ WellFed(after[m + 1]) /\ Resident(after[m + 1]) = Resident(d) \cup {s[k] : k \in 1..(m + 1)}
            /\ Keeps(d, after[m + 1]) /\ after[m + 1].compWait = d.compWait
            /\ after[m + 1].compq = d.compq
    OBVIOUS
  <2>1. m + 1 \in 0..n /\ m + 1 \in 1..n /\ m + 1 # 0 /\ (m + 1) - 1 = m /\ s[m + 1] \in Layers
    BY <1>1
  <2>2. after[m + 1] = Prefetch(after[m], s[m + 1])
    BY <1>2, <2>1
  <2>3. /\ WellFed(after[m]) /\ Resident(after[m]) = Resident(d) \cup {s[k] : k \in 1..m}
        /\ Keeps(d, after[m]) /\ after[m].compWait = d.compWait /\ after[m].compq = d.compq
    BY <1>1, <1>5
  <2> DEFINE e == after[m + 1]
             c == after[m]
  <2> HIDE DEF c, Good
  <2>4. /\ WellFed(e) /\ Resident(e) = Resident(c) \cup {s[m + 1]}
        /\ Keeps(c, e) /\ e.compWait = c.compWait /\ e.compq = c.compq
    BY SMTT(30), <2>1, <2>2, <2>3, PrefetchWell DEF c
  <2> HIDE DEF e
  <2>5. Keeps(d, e)
    BY <2>3, <2>4 DEF Keeps, c
  <2>6. {s[k] : k \in 1..(m + 1)} = {s[k] : k \in 1..m} \cup {s[m + 1]}
    <3>1. \A k \in 1..(m + 1) : k \in 1..m \/ k = m + 1
      OBVIOUS
    <3>2. 1..m \subseteq 1..(m + 1) /\ m + 1 \in 1..(m + 1)
      OBVIOUS
    <3> QED BY <3>1, <3>2
  <2> QED BY <2>3, <2>4, <2>5, <2>6 DEF e, c
<1> HIDE DEF Good
<1>6. n \in Good
  BY <1>1, <1>4, <1>5, SetInduction
<1> QED BY <1>3, <1>6 DEF Good

\* What drops blocks, or only waits or marks, leaves every other block its weights.
LEMMA DroppedWell ==
  ASSUME NEW d, WellFed(d), NEW e, DOMAIN e = DOMAIN d,
         e.buf \in [Layers -> 0..Len(d.content)],
         \A k \in Layers : e.buf[k] \in {NoBuf, d.buf[k]},
         e.content = d.content, e.copyq = d.copyq, e.compq = d.compq, e.compWait \in Nat
  PROVE  /\ WellFed(e) /\ Resident(e) \subseteq Resident(d)
         /\ \A k \in Resident(e) : \A a \in Nat : Owned(d, k, a) => Owned(e, k, a)
<1>1. ShapeOK(d) /\ Len(d.copyq) \in Nat
  BY ShapeFacts DEF WellFed
<1>2. ShapeOK(e)
  BY <1>1 DEF ShapeOK
<1>3. \A k \in Resident(e) : k \in Resident(d) /\ e.buf[k] = d.buf[k]
  BY DEF Resident, NoBuf
<1>4. \A k \in Resident(e) : \A a \in Nat : Owned(d, k, a) => Owned(e, k, a)
  BY <1>3 DEF Owned, Arrives
<1>5. \A j \in DOMAIN e.compq : Fed(e, j)
  BY DEF WellFed, Fed, Arrives
<1> QED BY <1>1, <1>2, <1>3, <1>4, <1>5 DEF WellFed

\* Waiting for the event of a block is waiting for its weights.
LEMMA WaitEventWell ==
  ASSUME NEW d, WellFed(d), NEW i \in Resident(d), setup \in Setups
  PROVE  LET e == WaitEvent(d, i) IN
         WellFed(e) /\ Resident(e) = Resident(d) /\ Owned(e, i, e.compWait)
<1> DEFINE at == {k \in DOMAIN d.copyq : d.copyq[k].layer = i /\ d.copyq[k].buf = d.buf[i]}
           c == CopiesUpTo(d, i)
           w == Max({d.compWait, c})
           e == WaitEvent(d, i)
<1>1. ShapeOK(d) /\ Len(d.copyq) \in Nat /\ DOMAIN d.copyq = 1..Len(d.copyq) /\ d.compWait \in Nat
  BY ShapeFacts DEF WellFed, ShapeOK
<1>2. PICK x \in 0..Len(d.copyq) :
        /\ Arrives(d, i, d.buf[i], x)
        /\ \A y \in DOMAIN d.copyq : y > x => d.copyq[y].buf # d.buf[i]
  BY DEF WellFed, Owned
<1>3. c = x
  <2>1. CASE x = 0
    <3>1. at = {}
      BY <1>1, <1>2, <2>1
    <3> QED BY <2>1, <3>1 DEF CopiesUpTo
  <2>2. CASE x > 0
    <3>1. x \in at /\ \A y \in at : y \in Int /\ y <= x
      BY <1>1, <1>2, <2>2 DEF Arrives
    <3>2. c = IF at = {} THEN 0 ELSE Max(at)
      BY DEF CopiesUpTo
    <3> HIDE DEF at, c
    <3>3. Max(at) = x
      BY <3>1, GreatestIs
    <3> QED BY <3>1, <3>2, <3>3
  <2> QED BY <1>1, <2>1, <2>2
<1>4. w \in Nat /\ w >= x
  <2> HIDE DEF c
  <2>1. c \in Int /\ d.compWait \in Int /\ x \in Int
    BY <1>1, <1>3
  <2>2. w \in {d.compWait, c} /\ w >= d.compWait /\ w >= c
    BY <2>1, MaxOf
  <2> HIDE DEF w
  <2> QED BY <1>1, <1>3, <2>1, <2>2
<1>5. /\ e.compWait = w /\ DOMAIN e = DOMAIN d /\ e.buf = d.buf /\ e.content = d.content
      /\ e.copyq = d.copyq /\ e.compq = d.compq
  BY <1>1 DEF WaitEvent, ShapeOK
<1> HIDE DEF e, w
<1>6. Owned(e, i, w)
  <2>1. x \in 0..w
    BY <1>1, <1>4
  <2> QED BY <1>2, <1>5, <2>1 DEF Owned, Arrives
<1>7. WellFed(e) /\ Resident(e) = Resident(d)
  <2>1. d.buf \in [Layers -> 0..Len(d.content)]
    BY <1>1 DEF ShapeOK
  <2> QED BY <1>4, <1>5, <2>1, DroppedWell DEF Resident
<1> QED BY <1>5, <1>6, <1>7 DEF e

\* Waiting for all copies is waiting for the weights of every block.
LEMMA WaitCopiesWell ==
  ASSUME NEW d, WellFed(d)
  PROVE  LET e == WaitCopies(d) IN
         /\ WellFed(e) /\ Resident(e) = Resident(d)
         /\ \A k \in Resident(e) : Owned(e, k, e.compWait)
<1> DEFINE e == WaitCopies(d)
<1>1. ShapeOK(d) /\ Len(d.copyq) \in Nat /\ d.buf \in [Layers -> 0..Len(d.content)]
  BY ShapeFacts DEF WellFed, ShapeOK
<1>2. /\ e.compWait = Len(d.copyq) /\ DOMAIN e = DOMAIN d /\ e.buf = d.buf /\ e.content = d.content
      /\ e.copyq = d.copyq /\ e.compq = d.compq
  BY <1>1 DEF WaitCopies, ShapeOK
<1> HIDE DEF e
<1>3. WellFed(e) /\ Resident(e) = Resident(d)
  BY <1>1, <1>2, DroppedWell DEF Resident
<1> QED BY <1>2, <1>3 DEF WellFed, e

\* Marking a buffer changes no weights.
LEMMA RecordWell ==
  ASSUME NEW d, WellFed(d), NEW i
  PROVE  LET e == RecordStream(d, i) IN
         /\ WellFed(e) /\ Resident(e) = Resident(d) /\ e.compWait = d.compWait
         /\ Keeps(d, e)
<1> DEFINE e == RecordStream(d, i)
<1>1. ShapeOK(d) /\ d.buf \in [Layers -> 0..Len(d.content)] /\ d.compWait \in Nat
  BY DEF WellFed, ShapeOK
<1>2. /\ e.compWait = d.compWait /\ DOMAIN e = DOMAIN d /\ e.buf = d.buf /\ e.content = d.content
      /\ e.copyq = d.copyq /\ e.compq = d.compq
  BY <1>1 DEF RecordStream, ShapeOK
<1> HIDE DEF e
<1>3. /\ WellFed(e) /\ Resident(e) = Resident(d)
      /\ \A k \in Resident(e) : \A a \in Nat : Owned(d, k, a) => Owned(e, k, a)
  BY <1>1, <1>2, DroppedWell DEF Resident
<1> QED BY <1>2, <1>3 DEF Keeps, e

\* A release takes one block away.
LEMMA ReleaseWell ==
  ASSUME NEW d, WellFed(d), NEW i \in Layers
  PROVE  LET e == Release(d, i) IN
         WellFed(e) /\ Resident(e) = Resident(d) \ {i}
<1> DEFINE e == Release(d, i)
<1>1. ShapeOK(d) /\ d.buf \in [Layers -> 0..Len(d.content)] /\ d.compWait \in Nat /\ Len(d.content) \in Nat
  BY ShapeFacts DEF WellFed, ShapeOK
<1>2. CASE d.buf[i] = NoBuf
  BY <1>2 DEF Release, Resident
<1>3. CASE d.buf[i] # NoBuf
  <2>1. /\ e.compWait = d.compWait /\ DOMAIN e = DOMAIN d /\ e.buf = [d.buf EXCEPT ![i] = NoBuf]
        /\ e.content = d.content /\ e.copyq = d.copyq /\ e.compq = d.compq
    BY <1>1, <1>3 DEF Release, ShapeOK
  <2> HIDE DEF e
  <2>2. /\ e.buf \in [Layers -> 0..Len(d.content)] /\ e.buf[i] = NoBuf
        /\ \A k \in Layers : k # i => e.buf[k] = d.buf[k]
    BY <1>1, <2>1 DEF NoBuf
  <2>3. WellFed(e)
    BY <1>1, <2>1, <2>2, DroppedWell
  <2>4. Resident(e) = Resident(d) \ {i}
    BY <2>2 DEF Resident
  <2> QED BY <2>3, <2>4 DEF e
<1> QED BY <1>2, <1>3

\* Releasing everything takes every block away.
LEMMA ReleaseAllWell ==
  ASSUME NEW d, WellFed(d)
  PROVE  WellFed(ReleaseAll(d)) /\ Resident(ReleaseAll(d)) = {}
<1> DEFINE e == ReleaseAll(d)
<1>1. ShapeOK(d) /\ Len(d.content) \in Nat /\ Len(d.copyq) \in Nat
  BY ShapeFacts DEF WellFed
<1>2. /\ e.compWait = Len(d.copyq) /\ DOMAIN e = DOMAIN d /\ e.buf = [i \in Layers |-> NoBuf]
      /\ e.content = d.content /\ e.copyq = d.copyq /\ e.compq = d.compq
  BY <1>1 DEF ReleaseAll, WaitCopies, ShapeOK
<1> HIDE DEF e
<1>3. e.buf \in [Layers -> 0..Len(d.content)] /\ \A k \in Layers : e.buf[k] = NoBuf
  BY <1>1, <1>2 DEF NoBuf
<1>4. WellFed(e)
  BY <1>1, <1>2, <1>3, DroppedWell
<1>5. Resident(e) = {}
  BY <1>3 DEF Resident
<1> QED BY <1>4, <1>5 DEF e

\* A block whose weights have been waited for may compute.
LEMMA LaunchWell ==
  ASSUME NEW d, WellFed(d), NEW i \in Resident(d), Owned(d, i, d.compWait)
  PROVE  WellFed(Launch(d, i)) /\ Resident(Launch(d, i)) = Resident(d)
<1> DEFINE op == [layer |-> i, buf |-> d.buf[i], after |-> d.compWait]
           e == Launch(d, i)
           n == Len(d.compq)
<1>1. /\ ShapeOK(d) /\ n \in Nat /\ DOMAIN d.compq = 1..n
      /\ Len(d.content) \in Nat /\ i \in Layers /\ d.buf[i] \in 1..Len(d.content)
      /\ d.compWait \in Nat /\ d.compq \in Seq(Op)
      /\ \A k \in 1..n : d.compq[k].buf \in 1..Len(d.content)
  BY ShapeFacts DEF WellFed, ShapeOK, Resident, NoBuf
<1>2. op \in Op /\ op.layer = i /\ op.buf = d.buf[i] /\ op.after = d.compWait
  BY <1>1 DEF Op
<1>3. /\ e.compWait = 0 /\ DOMAIN e = DOMAIN d /\ e.buf = d.buf /\ e.content = d.content
      /\ e.copyq = d.copyq /\ e.compq = Append(d.compq, op)
  BY <1>1 DEF Launch, ShapeOK
<1> HIDE DEF e, op
<1>4. /\ e.compq \in Seq(Op) /\ DOMAIN e.compq = 1..(n + 1) /\ e.compq[n + 1] = op
      /\ \A k \in 1..n : e.compq[k] = d.compq[k]
  BY <1>1, <1>2, <1>3, AppendFacts
<1>5. ShapeOK(e)
  <2>1. \A k \in DOMAIN e.compq : e.compq[k].buf \in 1..Len(d.content)
    <3> TAKE k \in DOMAIN e.compq
    <3>1. k \in 1..n \/ k = n + 1
      BY <1>1, <1>4
    <3> QED BY <1>1, <1>2, <1>4, <3>1
  <2> QED BY <1>1, <1>3, <1>4, <2>1 DEF ShapeOK
<1>6. Resident(e) = Resident(d)
  BY <1>3 DEF Resident
<1>7. \A k \in Resident(e) : Owned(e, k, Len(e.copyq))
  BY <1>3, <1>6 DEF WellFed, Owned, Arrives
<1>8. \A j \in DOMAIN e.compq : Fed(e, j)
  <2> TAKE j \in DOMAIN e.compq
  <2>1. CASE j \in 1..n
    <3>1. Fed(d, j) /\ e.compq[j] = d.compq[j]
      BY <1>1, <1>4, <2>1 DEF WellFed
    <3> QED BY <1>3, <3>1 DEF Fed, Arrives
  <2>2. CASE j = n + 1
    <3>1. PICK x \in 0..d.compWait :
            /\ Arrives(d, i, d.buf[i], x)
            /\ \A y \in DOMAIN d.copyq : y > x => d.copyq[y].buf # d.buf[i]
      BY DEF Owned
    <3>2. e.compq[j].layer = i /\ e.compq[j].buf = d.buf[i] /\ e.compq[j].after = d.compWait
      BY <1>2, <1>4, <2>2
    <3> QED BY <1>3, <3>1, <3>2 DEF Fed, Arrives
  <2> QED BY <1>1, <1>4, <2>1, <2>2
<1> QED BY <1>3, <1>5, <1>6, <1>7, <1>8 DEF WellFed, e

\* An operation of the other stream is done.
LEMMA CloserFacts ==
  ASSUME NEW q \in Seq(Op)
  PROVE  /\ Closer(q) \in Seq(Op) /\ Len(Closer(q)) = Len(q) /\ DOMAIN Closer(q) = DOMAIN q
         /\ \A k \in DOMAIN q : /\ Closer(q)[k].layer = q[k].layer /\ Closer(q)[k].buf = q[k].buf
                                /\ Closer(q)[k].after = Less(q[k].after)
<1>1. Len(q) \in Nat /\ DOMAIN q = 1..Len(q) /\ \A k \in 1..Len(q) : q[k] \in Op
  OBVIOUS
<1>2. \A k \in 1..Len(q) : /\ Closer(q)[k] \in Op
                           /\ Closer(q)[k].layer = q[k].layer /\ Closer(q)[k].buf = q[k].buf
                           /\ Closer(q)[k].after = Less(q[k].after)
  <2> TAKE k \in 1..Len(q)
  <2>1. Closer(q)[k] = [q[k] EXCEPT !.after = Less(@)]
    BY <1>1 DEF Closer
  <2> QED BY SMTT(30), <1>1, <2>1 DEF Op, Less
<1>3. Closer(q) = [k \in 1..Len(q) |-> Closer(q)[k]]
  BY <1>1 DEF Closer
<1>4. Closer(q) \in Seq(Op) /\ Len(Closer(q)) = Len(q)
  BY <1>1, <1>2, <1>3
<1> QED BY <1>1, <1>2, <1>4

\* The device at rest holds nothing.
LEMMA EmptyWell ==
  /\ WellFed(EmptyDevice) /\ Resident(EmptyDevice) = {} /\ EmptyDevice.compWait = 0
  /\ EmptyDevice.copyq = <<>>
<1> DEFINE e == EmptyDevice
<1>1. /\ e.content = <<>> /\ e.copyq = <<>> /\ e.compq = <<>> /\ e.compWait = 0
      /\ e.buf = [i \in Layers |-> NoBuf]
      /\ DOMAIN e = {"buf", "content", "recorded", "held", "copyq", "compq", "compWait"}
  BY DEF EmptyDevice
<1> HIDE DEF e
<1>2. Len(e.content) = 0 /\ DOMAIN e.copyq = {} /\ DOMAIN e.compq = {}
  BY <1>1
<1>3. e.buf \in [Layers -> 0..0]
  BY <1>1 DEF NoBuf
<1>4. e.content \in Seq({-1} \cup Layers) /\ e.copyq \in Seq(Op) /\ e.compq \in Seq(Op)
  BY <1>1
<1>5. ShapeOK(e)
  BY <1>1, <1>2, <1>3, <1>4 DEF ShapeOK
<1>6. Resident(e) = {}
  BY <1>1 DEF Resident
<1> QED BY <1>1, <1>2, <1>5, <1>6 DEF WellFed, e

\* Forgetting what the free buffers hold takes no block away.
LEMMA SettledWell ==
  ASSUME NEW d, WellFed(d)
  PROVE  LET e == Settled(d) IN
         /\ WellFed(e) /\ Resident(e) = Resident(d) /\ Keeps(d, e) /\ e.compWait = d.compWait
<1>1. CASE d.copyq = <<>> /\ d.compq = <<>> /\ d.compWait = 0 /\ Resident(d) = {}
  <2>1. Settled(d) = EmptyDevice
    BY <1>1 DEF Settled
  <2> QED BY <1>1, <2>1, EmptyWell DEF Keeps
<1>2. CASE ~(d.copyq = <<>> /\ d.compq = <<>> /\ d.compWait = 0 /\ Resident(d) = {})
  <2>1. Settled(d) = d
    BY <1>2 DEF Settled
  <2> QED BY <2>1 DEF Keeps
<1> QED BY <1>1, <1>2

\* A copy that starts fills a buffer nothing pending reads any more, and what waited for
\* it finds it there.
LEMMA CopyWell ==
  ASSUME NEW d, WellFed(d), Ready(d.copyq)
  PROVE  LET e == [d EXCEPT !.content[Head(d.copyq).buf] = Head(d.copyq).layer,
                            !.copyq = Tail(@), !.compq = Closer(@), !.compWait = Less(@)]
         IN  /\ WellFed(e) /\ Resident(e) = Resident(d) /\ e.compWait = Less(d.compWait)
             /\ \A k \in Resident(d) : \A a \in Nat : Owned(d, k, a) => Owned(e, k, Less(a))
<1> DEFINE h == Head(d.copyq)
           n == Len(d.copyq)
           e == [d EXCEPT !.content[h.buf] = h.layer,
                          !.copyq = Tail(@), !.compq = Closer(@), !.compWait = Less(@)]
<1>1. /\ DOMAIN d = {"buf", "content", "recorded", "held", "copyq", "compq", "compWait"}
      /\ d.content \in Seq({-1} \cup Layers) /\ d.copyq \in Seq(Op) /\ d.compq \in Seq(Op)
      /\ d.compWait \in Nat /\ d.copyq # <<>>
      /\ Len(d.content) \in Nat /\ DOMAIN d.content = 1..Len(d.content)
      /\ \A k \in Layers : d.buf[k] \in 0..Len(d.content)
      /\ d.buf \in [Layers -> 0..Len(d.content)]
      /\ \A k \in DOMAIN d.copyq : d.copyq[k].buf \in 1..Len(d.content)
      /\ \A k \in DOMAIN d.compq : d.compq[k].buf \in 1..Len(d.content)
      /\ ShapeOK(d)
  BY ShapeFacts DEF WellFed, ShapeOK, Ready
<1>2. /\ n \in Nat /\ n >= 1 /\ DOMAIN d.copyq = 1..n /\ h = d.copyq[1]
      /\ Tail(d.copyq) \in Seq(Op) /\ Len(Tail(d.copyq)) = n - 1 /\ DOMAIN Tail(d.copyq) = 1..(n - 1)
      /\ \A k \in 1..(n - 1) : Tail(d.copyq)[k] = d.copyq[k + 1]
  BY <1>1, TailFacts
<1>3. /\ h.layer \in Layers /\ h.buf \in 1..Len(d.content) /\ h.after = 0
      /\ \A k \in 1..n : d.copyq[k].after \in Nat
      /\ \A k \in DOMAIN d.compq : d.compq[k].after \in Nat /\ k \in Nat /\ k >= 1
  <2>1. /\ DOMAIN d.compq = 1..Len(d.compq) /\ Len(d.compq) \in Nat
        /\ \A k \in 1..n : d.copyq[k].after \in Nat /\ d.copyq[k].layer \in Layers
        /\ \A k \in 1..Len(d.compq) : d.compq[k].after \in Nat
    BY <1>1, ShapeFacts
  <2>2. h.after = 0
    BY DEF Ready
  <2>3. 1 \in 1..n
    BY <1>2
  <2>4. h.layer \in Layers /\ h.buf \in 1..Len(d.content)
    BY <1>1, <1>2, <2>1, <2>3
  <2> HIDE DEF h
  <2> QED BY <2>1, <2>2, <2>4
<1>4. /\ e.content = [d.content EXCEPT ![h.buf] = h.layer] /\ e.copyq = Tail(d.copyq)
      /\ e.compq = Closer(d.compq) /\ e.compWait = Less(d.compWait) /\ e.buf = d.buf
      /\ DOMAIN e = DOMAIN d
  BY <1>1
<1> HIDE DEF e, h
<1>5. /\ e.content \in Seq({-1} \cup Layers) /\ Len(e.content) = Len(d.content)
      /\ e.content[h.buf] = h.layer
      /\ \A b \in 1..Len(d.content) : b # h.buf => e.content[b] = d.content[b]
  <2>1. e.content = [b \in 1..Len(d.content) |-> IF b = h.buf THEN h.layer ELSE d.content[b]]
    BY <1>1, <1>4
  <2>2. \A b \in 1..Len(d.content) : d.content[b] \in {-1} \cup Layers
    BY <1>1
  <2>3. \A b \in 1..Len(d.content) : (IF b = h.buf THEN h.layer ELSE d.content[b]) \in {-1} \cup Layers
    BY <1>3, <2>2
  <2> QED BY <1>1, <1>3, <2>1, <2>3
<1>6. /\ e.compq \in Seq(Op) /\ DOMAIN e.compq = DOMAIN d.compq
      /\ \A k \in DOMAIN d.compq :
           /\ e.compq[k].layer = d.compq[k].layer /\ e.compq[k].buf = d.compq[k].buf
           /\ e.compq[k].after = Less(d.compq[k].after)
  BY <1>1, <1>4, CloserFacts
<1>7. ShapeOK(e)
  <2>1. \A k \in DOMAIN e.copyq : e.copyq[k].buf \in 1..Len(e.content)
    BY SMTT(30), <1>1, <1>2, <1>4, <1>5
  <2>2. \A k \in DOMAIN e.compq : e.compq[k].buf \in 1..Len(e.content)
    BY <1>1, <1>5, <1>6
  <2>3. e.compWait \in Nat
    BY <1>1, <1>4 DEF Less
  <2> QED BY <1>1, <1>2, <1>4, <1>5, <1>6, <2>1, <2>2, <2>3 DEF ShapeOK
<1>8. Resident(e) = Resident(d)
  BY <1>4 DEF Resident
\* Where weights come from moves one copy nearer, unless the copy overwrites them.
<1>9. ASSUME NEW i, NEW b \in 1..Len(d.content), NEW x, Arrives(d, i, b, x), x = 0 => h.buf # b
      PROVE  Arrives(e, i, b, Less(x))
  <2>1. x \in 0..n
    BY <1>9 DEF Arrives
  <2>2. CASE x = 0
    BY <1>2, <1>4, <1>5, <1>9, <2>2 DEF Arrives, Less
  <2>3. CASE x = 1
    BY <1>2, <1>4, <1>5, <1>9, <2>3 DEF Arrives, Less
  <2>4. CASE x > 1
    <3>1. Less(x) = x - 1 /\ x - 1 \in 1..(n - 1) /\ x - 1 > 0
      BY <1>2, <2>1, <2>4 DEF Less
    <3>2. e.copyq[x - 1] = d.copyq[x] /\ Len(e.copyq) = n - 1
      BY <1>2, <1>4, <2>1, <3>1
    <3> QED BY <1>2, <1>9, <2>4, <3>1, <3>2 DEF Arrives
  <2> QED BY <1>2, <2>1, <2>2, <2>3, <2>4
<1>10. ASSUME NEW k \in Resident(d), NEW a \in Nat, Owned(d, k, a) PROVE Owned(e, k, Less(a))
  <2>1. PICK x \in 0..a :
          /\ Arrives(d, k, d.buf[k], x)
          /\ \A y \in DOMAIN d.copyq : y > x => d.copyq[y].buf # d.buf[k]
    BY <1>10 DEF Owned
  <2>2. x = 0 => h.buf # d.buf[k]
    BY <1>2, <2>1
  <2>3. d.buf[k] \in 1..Len(d.content)
    BY <1>1 DEF Resident, NoBuf
  <2>4. Arrives(e, k, e.buf[k], Less(x))
    BY <1>4, <1>9, <2>1, <2>2, <2>3
  <2>5. \A y \in DOMAIN e.copyq : y > Less(x) => e.copyq[y].buf # e.buf[k]
    <3> SUFFICES ASSUME NEW y \in 1..(n - 1), y > Less(x) PROVE d.copyq[y + 1].buf # d.buf[k]
      BY <1>2, <1>4
    <3>1. y + 1 \in DOMAIN d.copyq /\ y + 1 > x
      BY <1>2 DEF Less
    <3> QED BY <2>1, <3>1
  <2>6. Less(x) \in 0..Less(a)
    BY DEF Less
  <2> QED BY <2>4, <2>5, <2>6 DEF Owned
<1>11. \A k \in Resident(e) : Owned(e, k, Len(e.copyq))
  <2> TAKE k \in Resident(e)
  <2>1. Owned(d, k, n) /\ k \in Resident(d)
    BY <1>8 DEF WellFed
  <2>2. Less(n) = Len(e.copyq)
    BY <1>2, <1>4 DEF Less
  <2> QED BY <1>2, <1>10, <2>1, <2>2
<1>12. \A j \in DOMAIN e.compq : Fed(e, j)
  <2> TAKE j \in DOMAIN e.compq
  <2>1. /\ j \in DOMAIN d.compq /\ Fed(d, j) /\ d.compq[j].buf \in 1..Len(d.content)
        /\ d.compq[j].after \in Nat /\ j \in Nat /\ j >= 1
    BY <1>1, <1>3, <1>6 DEF WellFed
  <2>2. PICK x \in 0..d.compq[j].after :
          /\ Arrives(d, d.compq[j].layer, d.compq[j].buf, x)
          /\ \A y \in DOMAIN d.copyq :
               y > x /\ d.copyq[y].buf = d.compq[j].buf => d.copyq[y].after >= j
    BY <2>1 DEF Fed
  <2>3. x = 0 => h.buf # d.compq[j].buf
    BY <1>2, <1>3, <2>1, <2>2
  <2>4. Arrives(e, e.compq[j].layer, e.compq[j].buf, Less(x))
    BY <1>6, <1>9, <2>1, <2>2, <2>3
  <2>5. \A y \in DOMAIN e.copyq :
          y > Less(x) /\ e.copyq[y].buf = e.compq[j].buf => e.copyq[y].after >= j
    <3>0. /\ DOMAIN e.copyq = 1..(n - 1) /\ e.compq[j].buf = d.compq[j].buf
          /\ \A y \in 1..(n - 1) : e.copyq[y] = d.copyq[y + 1]
      BY <1>2, <1>4, <1>6, <2>1
    <3> SUFFICES ASSUME NEW y \in 1..(n - 1), y > Less(x), d.copyq[y + 1].buf = d.compq[j].buf
        PROVE  d.copyq[y + 1].after >= j
      BY <3>0
    <3>1. y + 1 \in DOMAIN d.copyq /\ y + 1 > x
      BY <1>2, <2>1 DEF Less
    <3> QED BY <2>2, <3>1
  <2>6. Less(x) \in 0..e.compq[j].after
    BY <1>6, <2>1, SMTT(60) DEF Less
  <2> QED BY <2>4, <2>5, <2>6 DEF Fed
<1> QED BY <1>4, <1>7, <1>8, <1>10, <1>11, <1>12 DEF WellFed, e, h

\* A computation that ends lets the copies behind it come nearer.
LEMMA ComputeWell ==
  ASSUME NEW d, WellFed(d), Ready(d.compq)
  PROVE  LET e == [d EXCEPT !.compq = Tail(@), !.copyq = Closer(@),
                            !.held = [b \in DOMAIN @ |-> Less(@[b])]]
         IN  /\ WellFed(e) /\ Resident(e) = Resident(d) /\ Keeps(d, e) /\ e.compWait = d.compWait
<1> DEFINE n == Len(d.compq)
           e == [d EXCEPT !.compq = Tail(@), !.copyq = Closer(@),
                          !.held = [b \in DOMAIN @ |-> Less(@[b])]]
<1>1. /\ DOMAIN d = {"buf", "content", "recorded", "held", "copyq", "compq", "compWait"}
      /\ d.copyq \in Seq(Op) /\ d.compq \in Seq(Op) /\ d.compq # <<>>
      /\ \A k \in DOMAIN d.copyq : d.copyq[k].buf \in 1..Len(d.content)
      /\ \A k \in DOMAIN d.compq : d.compq[k].buf \in 1..Len(d.content)
      /\ ShapeOK(d)
  BY DEF WellFed, ShapeOK, Ready
<1>2. /\ n \in Nat /\ n >= 1 /\ DOMAIN d.compq = 1..n
      /\ Tail(d.compq) \in Seq(Op) /\ DOMAIN Tail(d.compq) = 1..(n - 1)
      /\ \A k \in 1..(n - 1) : Tail(d.compq)[k] = d.compq[k + 1]
  BY <1>1, TailFacts
<1>3. /\ e.compq = Tail(d.compq) /\ e.copyq = Closer(d.copyq) /\ e.compWait = d.compWait
      /\ e.buf = d.buf /\ e.content = d.content /\ DOMAIN e = DOMAIN d
  BY <1>1
<1> HIDE DEF e
<1>4. /\ e.copyq \in Seq(Op) /\ Len(e.copyq) = Len(d.copyq) /\ DOMAIN e.copyq = DOMAIN d.copyq
      /\ \A k \in DOMAIN d.copyq :
           /\ e.copyq[k].layer = d.copyq[k].layer /\ e.copyq[k].buf = d.copyq[k].buf
           /\ e.copyq[k].after = Less(d.copyq[k].after)
      /\ DOMAIN d.copyq = 1..Len(d.copyq) /\ Len(d.copyq) \in Nat
      /\ \A k \in DOMAIN d.copyq : d.copyq[k].after \in Nat
  BY <1>1, <1>3, CloserFacts, ShapeFacts
<1>5. ShapeOK(e)
  <2>1. \A k \in DOMAIN e.copyq : e.copyq[k].buf \in 1..Len(e.content)
    BY <1>1, <1>3, <1>4
  <2>2. \A k \in DOMAIN e.compq : e.compq[k].buf \in 1..Len(e.content)
    BY <1>1, <1>2, <1>3
  <2> QED BY <1>1, <1>2, <1>3, <1>4, <2>1, <2>2 DEF ShapeOK
<1>6. Resident(e) = Resident(d)
  BY <1>3 DEF Resident
<1>7. \A i, b, x : Arrives(d, i, b, x) => Arrives(e, i, b, x)
  BY <1>3, <1>4 DEF Arrives
<1>8. Keeps(d, e)
  <2> SUFFICES ASSUME NEW k \in Resident(d), NEW a \in Nat, Owned(d, k, a) PROVE Owned(e, k, a)
    BY <1>6 DEF Keeps
  <2> QED BY <1>3, <1>4, <1>7 DEF Owned
<1>9. \A k \in Resident(e) : Owned(e, k, Len(e.copyq))
  BY <1>4, <1>6, <1>8 DEF WellFed, Keeps
<1>10. \A j \in DOMAIN e.compq : Fed(e, j)
  <2> TAKE j \in DOMAIN e.compq
  <2>1. j \in 1..(n - 1) /\ j + 1 \in DOMAIN d.compq /\ e.compq[j] = d.compq[j + 1]
    BY <1>2, <1>3
  <2>2. PICK x \in 0..d.compq[j + 1].after :
          /\ Arrives(d, d.compq[j + 1].layer, d.compq[j + 1].buf, x)
          /\ \A y \in DOMAIN d.copyq :
               y > x /\ d.copyq[y].buf = d.compq[j + 1].buf => d.copyq[y].after >= j + 1
    BY <2>1 DEF WellFed, Fed
  <2>3. \A y \in DOMAIN e.copyq :
          y > x /\ e.copyq[y].buf = e.compq[j].buf => e.copyq[y].after >= j
    <3> SUFFICES ASSUME NEW y \in DOMAIN d.copyq, y > x, d.copyq[y].buf = d.compq[j + 1].buf
        PROVE  Less(d.copyq[y].after) >= j
      BY <1>4, <2>1
    <3>1. d.copyq[y].after \in Nat /\ d.copyq[y].after >= j + 1
      BY <1>4, <2>2
    <3> QED BY <2>1, <3>1 DEF Less
  <2> QED BY <1>7, <2>1, <2>2, <2>3 DEF Fed
<1> QED BY <1>3, <1>5, <1>6, <1>8, <1>9, <1>10 DEF WellFed, e

-----------------------------------------------------------------------------
(***************************************************************************)
(* Batches of blocks and windows of the order.                             *)
(***************************************************************************)

\* Division by the size of a batch, or by the depth.
LEMMA Remainder ==
  ASSUME NEW p \in Nat \ {0}, NEW i \in Nat
  PROVE  /\ i % p \in 0..(p - 1) /\ i % p <= i
         /\ i < p => i % p = i
         /\ (i + p) % p = i % p
         /\ i % p = p - 1 => (i + 1) % p = 0
         /\ i % p < p - 1 => (i + 1) % p = (i % p) + 1
<1> DEFINE q == i \div p
           r == i % p
<1>1. q \in Int /\ r \in 0..(p - 1) /\ i = p * q + r
  OBVIOUS
<1>2. ASSUME NEW j \in Int, NEW t \in Int, NEW s \in 0..(p - 1), j = p * t + s
      PROVE  j % p = s
  BY <1>2
<1> HIDE DEF q, r
<1>3. i < p => r = i
  <2> SUFFICES ASSUME i < p PROVE r = i
    OBVIOUS
  <2>1. i = p * 0 + i /\ i \in 0..(p - 1)
    OBVIOUS
  <2> QED BY <1>2, <2>1 DEF r
<1>4. (i + p) % p = r
  <2>1. i + p = p * (q + 1) + r
    BY <1>1
  <2> QED BY <1>1, <1>2, <2>1
<1>5. r = p - 1 => (i + 1) % p = 0
  <2> SUFFICES ASSUME r = p - 1 PROVE (i + 1) % p = 0
    OBVIOUS
  <2>1. i + 1 = p * (q + 1) + 0
    BY <1>1
  <2> QED BY <1>1, <1>2, <2>1
<1>6. r < p - 1 => (i + 1) % p = r + 1
  <2> SUFFICES ASSUME r < p - 1 PROVE (i + 1) % p = r + 1
    OBVIOUS
  <2>1. i + 1 = p * q + (r + 1) /\ r + 1 \in 0..(p - 1)
    BY <1>1
  <2> QED BY <1>1, <1>2, <2>1
<1>7. r <= i
  BY <1>1, <1>3
<1> QED BY <1>1, <1>3, <1>4, <1>5, <1>6, <1>7 DEF r

\* No more blocks than places they come from.
LEMMA ImageBound ==
  ASSUME NEW n \in Nat, NEW f, f = [k \in 1..n |-> f[k]],
         NEW R, \A x \in R : \E k \in 1..n : f[k] = x
  PROVE  Cardinality(R) <= n
<1> DEFINE T == {f[k] : k \in 1..n}
<1>1. f \in Surjection(1..n, T)
  <2>1. f \in [1..n -> T]
    OBVIOUS
  <2>2. \A t \in T : \E k \in 1..n : f[k] = t
    OBVIOUS
  <2> HIDE DEF T
  <2> QED BY <2>1, <2>2 DEF Surjection
<1>2. R \subseteq T
  OBVIOUS
<1> HIDE DEF T
<1>3. ExistsSurjection(1..n, T)
  BY <1>1 DEF ExistsSurjection
<1>4. IsFiniteSet(T) /\ Cardinality(T) <= n
  BY <1>3, FS_NatSurjection, FS_SurjCardinalityBound
<1>5. Cardinality(R) <= Cardinality(T) /\ Cardinality(R) \in Nat /\ Cardinality(T) \in Nat
  BY <1>2, <1>4, FS_Subset, FS_CardinalityType
<1> QED BY <1>4, <1>5

\* What is in a window.
LEMMA WindowIs ==
  ASSUME NEW lo \in Int, NEW hi \in Int
  PROVE  /\ \A m \in lo .. hi - 1 : m % setup.layers \in Window(lo, hi)
         /\ \A x \in Window(lo, hi) : \E m \in lo .. hi - 1 : x = m % setup.layers
BY DEF Window

\* A window has no more blocks than its width.
LEMMA WindowBound ==
  ASSUME NEW lo \in Nat, NEW hi \in Nat, lo <= hi, NEW R, R \subseteq Window(lo, hi)
  PROVE  Cardinality(R) <= hi - lo
<1> DEFINE f == [k \in 1..(hi - lo) |-> (lo + k - 1) % setup.layers]
<1>1. ASSUME NEW x \in R PROVE \E k \in 1..(hi - lo) : f[k] = x
  <2>1. PICK m \in lo .. hi - 1 : x = m % setup.layers
    BY DEF Window
  <2>2. m - lo + 1 \in 1..(hi - lo) /\ lo + (m - lo + 1) - 1 = m
    OBVIOUS
  <2>3. f[m - lo + 1] = m % setup.layers
    BY <2>2
  <2> QED BY <2>1, <2>2, <2>3
<1>2. f = [k \in 1..(hi - lo) |-> f[k]]
  OBVIOUS
<1> HIDE DEF f
<1>3. hi - lo \in Nat
  OBVIOUS
<1> QED BY <1>1, <1>2, <1>3, ImageBound

\* A window within one that is as wide or wider.
LEMMA WindowWithin ==
  ASSUME NEW lo \in Int, NEW hi \in Int, NEW low \in Int, NEW high \in Int, low <= lo, hi <= high
  PROVE  Window(lo, hi) \subseteq Window(low, high)
<1>1. lo .. hi - 1 \subseteq low .. high - 1
  OBVIOUS
<1> QED BY <1>1 DEF Window

\* A block is itself in every window that starts at or before it and reaches beyond it.
LEMMA WindowHolds ==
  ASSUME setup \in Setups, NEW i \in Layers, NEW lo \in Int, NEW hi \in Int, lo <= i, i < hi
  PROVE  i \in Window(lo, hi)
<1>1. setup.layers \in Nat \ {0} /\ i \in Nat /\ i < setup.layers /\ i \in lo .. hi - 1
  BY Sizes DEF Layers
<1>2. i % setup.layers = i
  BY <1>1, Remainder
<1> QED BY <1>1, <1>2 DEF Window

\* The first batch.
LEMMA FirstBatch ==
  ASSUME setup \in Setups
  PROVE  LET s == SubSeq(AllLayers, 1, PrefetchSize) IN
         s \in Seq(Layers) /\ {s[k] : k \in 1..Len(s)} = FirstBlocks
<1>1. setup.layers \in Nat \ {0} /\ PrefetchSize \in Nat \ {0} /\ PrefetchSize <= setup.layers
  BY Sizes
<1> DEFINE s == SubSeq(AllLayers, 1, PrefetchSize)
<1>2. AllLayers \in Seq(Layers) /\ Len(AllLayers) = setup.layers
      /\ \A k \in 1..setup.layers : AllLayers[k] = k - 1
  <2>1. \A k \in 1..setup.layers : k - 1 \in Layers
    BY <1>1 DEF Layers
  <2> QED BY <1>1, <2>1 DEF AllLayers
<1> HIDE DEF PrefetchSize
<1>3. s \in Seq(Layers) /\ Len(s) = PrefetchSize /\ \A k \in 1..PrefetchSize : s[k] = k - 1
  BY <1>1, <1>2
<1> HIDE DEF s
<1>4. {s[k] : k \in 1..Len(s)} = FirstBlocks
  <2>1. \A x \in FirstBlocks : x + 1 \in 1..Len(s) /\ s[x + 1] = x
    BY <1>1, <1>3 DEF FirstBlocks
  <2>2. \A k \in 1..Len(s) : s[k] \in FirstBlocks
    BY <1>1, <1>3 DEF FirstBlocks
  <2> QED BY <2>1, <2>2
<1> QED BY <1>3, <1>4 DEF s

\* The batch ahead of a block is the window behind the next one.
LEMMA AheadBatch ==
  ASSUME setup \in Setups, NEW i \in Layers
  PROVE  LET s == Ahead(i) IN
         /\ s \in Seq(Layers)
         /\ {s[k] : k \in 1..Len(s)} = Window(i + PrefetchSize, i + 2 * PrefetchSize)
<1>1. setup.layers \in Nat \ {0} /\ PrefetchSize \in Nat \ {0} /\ i \in Nat
  BY Sizes
<1> DEFINE s == Ahead(i)
<1> HIDE DEF PrefetchSize
<1>2. \A k \in 1..PrefetchSize : (i + PrefetchSize + k - 1) % setup.layers \in Layers
  <2> TAKE k \in 1..PrefetchSize
  <2>1. i + PrefetchSize + k - 1 \in Nat
    BY <1>1
  <2>2. (i + PrefetchSize + k - 1) % setup.layers \in 0..(setup.layers - 1)
    BY <1>1, <2>1, Remainder
  <2> QED BY <2>2 DEF Layers
<1>3. /\ s \in Seq(Layers) /\ Len(s) = PrefetchSize
      /\ \A k \in 1..PrefetchSize : s[k] = (i + PrefetchSize + k - 1) % setup.layers
  BY <1>1, <1>2 DEF Ahead
<1> HIDE DEF s
<1> DEFINE lo == i + PrefetchSize
           hi == i + 2 * PrefetchSize
           w == Window(lo, hi)
<1>4. /\ lo \in Int /\ hi \in Int /\ hi - lo = PrefetchSize /\ PrefetchSize \in Int
      /\ \A k \in 1..PrefetchSize : s[k] = (lo + k - 1) % setup.layers
  BY <1>1, <1>3
<1> HIDE DEF lo, hi
<1>5. /\ \A m \in lo .. hi - 1 : m % setup.layers \in w
      /\ \A x \in w : \E m \in lo .. hi - 1 : x = m % setup.layers
  BY <1>4, WindowIs
<1> HIDE DEF w
<1>6. \A k \in 1..Len(s) : s[k] \in w
  <2> TAKE k \in 1..Len(s)
  <2>1. lo + k - 1 \in lo .. hi - 1 /\ s[k] = (lo + k - 1) % setup.layers
    BY <1>3, <1>4
  <2> QED BY <1>5, <2>1
<1>7. \A x \in w : \E k \in 1..Len(s) : s[k] = x
  <2> TAKE x \in w
  <2>1. PICK m \in lo .. hi - 1 : x = m % setup.layers
    BY <1>5
  <2>2. m - lo + 1 \in 1..Len(s) /\ lo + (m - lo + 1) - 1 = m
    BY <1>3, <1>4
  <2>3. s[m - lo + 1] = m % setup.layers
    BY <1>3, <1>4, <2>2
  <2> QED BY <2>1, <2>2, <2>3
<1>8. {s[k] : k \in 1..Len(s)} = w
  BY <1>6, <1>7
<1> QED BY <1>3, <1>8 DEF s, w, lo, hi

\* The first blocks are brought ahead of a request.
LEMMA PrepareWell ==
  ASSUME NEW d, WellFed(d), setup \in Setups
  PROVE  LET e == Prepare(d) IN
         /\ WellFed(e) /\ Resident(e) = Resident(d) \cup FirstBlocks
         /\ Keeps(d, e) /\ e.compWait = d.compWait /\ e.compq = d.compq
BY FirstBatch, PrefetchAllWell DEF Prepare

\* A block lent for the warm-up computes on its own weights.
LEMMA BorrowWell ==
  ASSUME NEW d, WellFed(d), NEW i \in Layers, setup \in Setups
  PROVE  WellFed(BorrowBlock(d, i))
<1> DEFINE a == Prefetch(d, i)
           b == WaitEvent(a, i)
           c == RecordStream(b, i)
           e == Launch(c, i)
<1>1. WellFed(a) /\ i \in Resident(a)
  BY PrefetchWell
<1> HIDE DEF a
<1>2. WellFed(b) /\ Resident(b) = Resident(a) /\ Owned(b, i, b.compWait) /\ b.compWait \in Nat
  <2>1. WellFed(b) /\ Resident(b) = Resident(a) /\ Owned(b, i, b.compWait)
    BY <1>1, WaitEventWell
  <2> HIDE DEF b
  <2> QED BY <2>1 DEF WellFed, ShapeOK
<1> HIDE DEF b
<1>3. WellFed(c) /\ Resident(c) = Resident(b) /\ Owned(c, i, c.compWait)
  <2>1. WellFed(c) /\ Resident(c) = Resident(b) /\ c.compWait = b.compWait /\ Keeps(b, c)
    BY <1>2, RecordWell
  <2> HIDE DEF c
  <2> QED BY <1>1, <1>2, <2>1 DEF Keeps
<1> HIDE DEF c
<1>4. WellFed(e)
  BY <1>1, <1>2, <1>3, LaunchWell
<1> HIDE DEF e
<1>5. WellFed(Release(e, i))
  BY <1>4, ReleaseWell
<1> QED BY <1>5 DEF BorrowBlock, a, b, c, e

\* The blocks are lent one after the other.
LEMMA BorrowsOneByOne ==
  ASSUME NEW d, NEW n \in Nat
  PROVE  \E f : f = [k \in 0..n |-> IF k = 0 THEN d ELSE BorrowBlock(f[k - 1], k - 1)]
<1> DEFINE Rule(f, m) == f = [k \in 0..m |-> IF k = 0 THEN d ELSE BorrowBlock(f[k - 1], k - 1)]
           Exists == {m \in Nat : \E f : Rule(f, m)}
<1>1. 0 \in Exists
  <2> DEFINE f == [k \in 0..0 |-> d]
  <2>1. Rule(f, 0)
    OBVIOUS
  <2> QED BY <2>1
<1>2. ASSUME NEW m \in Nat, m \in Exists PROVE m + 1 \in Exists
  <2>1. PICK f : Rule(f, m)
    BY <1>2
  <2> DEFINE g == [k \in 0..(m + 1) |-> IF k <= m THEN f[k] ELSE BorrowBlock(f[m], m)]
             h == [k \in 0..(m + 1) |-> IF k = 0 THEN d ELSE BorrowBlock(g[k - 1], k - 1)]
  <2>2. ASSUME NEW k \in 0..(m + 1) PROVE g[k] = h[k]
    <3>1. CASE k = 0
      <4>1. f[0] = d
        BY <2>1
      <4> QED BY <3>1, <4>1
    <3>2. CASE k # 0 /\ k <= m
      <4>1. k \in 0..m /\ k - 1 \in 0..(m + 1) /\ k - 1 <= m
        BY <3>2
      <4>2. f[k] = BorrowBlock(f[k - 1], k - 1)
        BY <2>1, <3>2, <4>1
      <4> QED BY <3>2, <4>1, <4>2
    <3>3. CASE k = m + 1
      <4>1. k - 1 = m /\ m \in 0..(m + 1) /\ ~(k <= m) /\ k # 0 /\ m <= m
        BY <3>3
      <4>2. g[m] = f[m] /\ g[k] = BorrowBlock(f[m], m)
        BY <4>1
      <4>3. h[k] = BorrowBlock(g[m], m)
        BY <3>3, <4>1
      <4> QED BY <4>2, <4>3
    <3> QED BY <3>1, <3>2, <3>3
  <2>3. g = h
    BY <2>2
  <2>4. Rule(g, m + 1)
    BY <2>3
  <2> HIDE DEF g
  <2> QED BY <2>4
<1> HIDE DEF Exists
<1>3. n \in Exists
  BY <1>1, <1>2, SetInduction
<1> QED BY <1>3 DEF Exists

\* The warm-up keeps every block on its own weights.
LEMMA BorrowAllWell ==
  ASSUME NEW d, WellFed(d), setup \in Setups
  PROVE  WellFed(BorrowAll(d))
<1> DEFINE n == setup.layers
           Rule(f) == f = [k \in 0..n |-> IF k = 0 THEN d ELSE BorrowBlock(f[k - 1], k - 1)]
           after == CHOOSE f : Rule(f)
<1>1. n \in Nat /\ \A k \in 1..n : k - 1 \in Layers
  BY Sizes DEF Layers
<1>2. Rule(after)
  BY <1>1, BorrowsOneByOne
<1>3. BorrowAll(d) = after[n]
  BY DEF BorrowAll
<1> HIDE DEF after
<1> DEFINE Good == {m \in Nat : m <= n => WellFed(after[m])}
<1>4. 0 \in Good
  <2>1. after[0] = d
    BY <1>1, <1>2
  <2> QED BY <2>1
<1>5. ASSUME NEW m \in Nat, m \in Good PROVE m + 1 \in Good
  <2> SUFFICES ASSUME m + 1 <= n PROVE WellFed(after[m + 1])
    OBVIOUS
  <2>1. m + 1 \in 0..n /\ m + 1 \in 1..n /\ m + 1 # 0 /\ (m + 1) - 1 = m /\ m \in Layers
    BY <1>1
  <2>2. after[m + 1] = BorrowBlock(after[m], m)
    BY <1>2, <2>1
  <2>3. WellFed(after[m])
    BY <1>1, <1>5
  <2> QED BY <2>1, <2>2, <2>3, BorrowWell
<1> HIDE DEF Good
<1>6. n \in Good
  BY <1>1, <1>4, <1>5, SetInduction
<1> QED BY <1>1, <1>3, <1>6 DEF Good

\* The service starts with the first blocks on the device.
LEMMA InitializedWell ==
  ASSUME setup \in Setups
  PROVE  WellFed(Initialized) /\ Resident(Initialized) = FirstBlocks
<1> DEFINE d == Prepare(EmptyDevice)
           owner(b) == IF \E i \in Layers : d.buf[i] = b
                       THEN CHOOSE i \in Layers : d.buf[i] = b ELSE -1
           e == Initialized
<1>1. WellFed(d) /\ Resident(d) = FirstBlocks /\ d.compWait = 0 /\ d.compq = <<>>
  <2>1. EmptyDevice.compq = <<>>
    BY DEF EmptyDevice
  <2> QED BY <2>1, EmptyWell, PrepareWell
<1>2. e = [d EXCEPT !.copyq = <<>>, !.content = [b \in DOMAIN @ |-> owner(b)]]
  BY DEF Initialized
<1> HIDE DEF d
<1>3. /\ DOMAIN d = {"buf", "content", "recorded", "held", "copyq", "compq", "compWait"}
      /\ d.buf \in [Layers -> 0..Len(d.content)] /\ Len(d.content) \in Nat
      /\ DOMAIN d.content = 1..Len(d.content)
  BY <1>1, ShapeFacts DEF WellFed, ShapeOK
<1>4. /\ e.copyq = <<>> /\ e.content = [b \in 1..Len(d.content) |-> owner(b)] /\ e.buf = d.buf
      /\ e.compq = <<>> /\ e.compWait = 0 /\ DOMAIN e = DOMAIN d
  BY <1>1, <1>2, <1>3
<1> HIDE DEF e
<1>5. \A b : owner(b) \in {-1} \cup Layers
  OBVIOUS
<1>6. \A i \in Resident(d) : d.buf[i] \in 1..Len(d.content) /\ owner(d.buf[i]) = i
  <2> TAKE i \in Resident(d)
  <2>1. i \in Layers /\ d.buf[i] \in 1..Len(d.content)
    BY <1>3 DEF Resident, NoBuf
  <2>2. \A k \in Layers : d.buf[k] = d.buf[i] => k = i
    <3> TAKE k \in Layers
    <3> HAVE d.buf[k] = d.buf[i]
    <3>1. k \in Resident(d)
      BY DEF Resident
    <3> QED BY <1>1, <3>1 DEF WellFed
  <2> QED BY <2>1, <2>2
<1>7. e.content \in Seq({-1} \cup Layers) /\ Len(e.content) = Len(d.content)
  <2> HIDE DEF owner
  <2> DEFINE g == e.content
  <2>1. g = [b \in 1..Len(d.content) |-> g[b]] /\ \A b \in 1..Len(d.content) : g[b] \in {-1} \cup Layers
    BY <1>4, <1>5
  <2> HIDE DEF g
  <2>2. g \in Seq({-1} \cup Layers) /\ Len(g) = Len(d.content)
    BY <1>3, <2>1
  <2> QED BY <2>2 DEF g
<1>8. \A i \in Resident(d) : e.content[e.buf[i]] = i
  <2> HIDE DEF owner
  <2> QED BY <1>4, <1>6
<1>9. Len(e.copyq) = 0 /\ DOMAIN e.copyq = {} /\ DOMAIN e.compq = {} /\ e.copyq \in Seq(Op) /\ e.compq \in Seq(Op)
  BY <1>4
<1>10. Resident(e) = Resident(d)
  BY <1>4 DEF Resident
<1>11. ShapeOK(e)
  BY <1>3, <1>4, <1>7, <1>9 DEF ShapeOK
<1>12. \A i, k \in Resident(e) : e.buf[i] = e.buf[k] => i = k
  BY <1>1, <1>4, <1>10 DEF WellFed
<1>13. \A i \in Resident(e) : Owned(e, i, Len(e.copyq))
  <2> TAKE i \in Resident(e)
  <2>1. Arrives(e, i, e.buf[i], 0)
    BY <1>8, <1>9, <1>10 DEF Arrives
  <2> QED BY <1>9, <2>1 DEF Owned
<1> QED BY <1>1, <1>9, <1>10, <1>11, <1>12, <1>13 DEF WellFed, e

\* Before a block of a plan runs, it is on the device and waited for, and the next ones
\* of the plan are on their way.
LEMMA PlanPreHookWell ==
  ASSUME NEW d, WellFed(d), setup \in Setups, NEW plan \in Seq(Layers), NEW pos \in DOMAIN plan
  PROVE  LET e == PlanPreHook(d, plan, pos)
         IN  /\ WellFed(e) /\ plan[pos] \in Resident(e) /\ Owned(e, plan[pos], e.compWait)
             /\ Resident(e) = Resident(d)
                  \cup {plan[m] : m \in pos .. Min({Len(plan), pos + PrefetchSize})}
<1> DEFINE i == plan[pos]
           last == Min({pos + PrefetchSize, Len(plan)})
           s == SubSeq(plan, pos + 1, last)
           a == Prefetch(d, i)
           b == WaitEvent(a, i)
           c == RecordStream(b, i)
           e == PrefetchAll(c, s)
<1>1. i \in Layers /\ Len(plan) \in Nat /\ pos \in 1..Len(plan) /\ PrefetchSize \in Nat \ {0}
  BY Sizes
<1>2. last = Min({Len(plan), pos + PrefetchSize}) /\ last \in pos..Len(plan)
  <2>1. last = IF pos + PrefetchSize <= Len(plan) THEN pos + PrefetchSize ELSE Len(plan)
    BY <1>1, MinOf
  <2>2. {pos + PrefetchSize, Len(plan)} = {Len(plan), pos + PrefetchSize}
    OBVIOUS
  <2>3. last = Min({Len(plan), pos + PrefetchSize})
    BY <2>2
  <2> HIDE DEF last
  <2> QED BY <1>1, <2>1, <2>3
<1> HIDE DEF last
<1>3. s \in Seq(Layers) /\ {s[k] : k \in 1..Len(s)} = {plan[m] : m \in pos + 1 .. last}
  <2>0. /\ pos + 1 \in Int /\ last \in Int /\ 0 < pos + 1 /\ last <= Len(plan) /\ pos + 1 <= last + 1
        /\ last - (pos + 1) + 1 = last - pos /\ last - pos \in Nat /\ pos \in Nat
        /\ \A k \in 1..(last - pos) : (pos + 1) + k - 1 = pos + k
    BY <1>1, <1>2
  <2>1. s \in Seq(Layers) /\ Len(s) = last - pos /\ \A k \in 1..(last - pos) : s[k] = plan[pos + k]
    BY SMTT(30), <2>0, PartFacts
  <2> HIDE DEF s
  <2>2. \A k \in 1..Len(s) : s[k] = plan[pos + k] /\ pos + k \in pos + 1 .. last
    BY SMTT(30), <2>0, <2>1
  <2>3. \A m \in pos + 1 .. last : m - pos \in 1..Len(s) /\ s[m - pos] = plan[m]
    <3> TAKE m \in pos + 1 .. last
    <3>1. m - pos \in 1..(last - pos) /\ pos + (m - pos) = m
      BY <2>0
    <3> QED BY <2>1, <3>1
  <2> QED BY SMTT(30), <2>1, <2>2, <2>3
<1> HIDE DEF s
<1>4. WellFed(a) /\ Resident(a) = Resident(d) \cup {i}
  BY <1>1, PrefetchWell
<1> HIDE DEF a
<1>5. WellFed(b) /\ Resident(b) = Resident(a) /\ Owned(b, i, b.compWait)
  BY <1>4, WaitEventWell
<1> HIDE DEF b
<1>6. /\ WellFed(c) /\ Resident(c) = Resident(b) /\ c.compWait = b.compWait /\ Keeps(b, c)
  BY <1>5, RecordWell
<1> HIDE DEF c
<1>7. /\ WellFed(e) /\ Resident(e) = Resident(c) \cup {s[k] : k \in 1..Len(s)}
      /\ Keeps(c, e) /\ e.compWait = c.compWait
  BY <1>3, <1>6, PrefetchAllWell
<1> HIDE DEF e
<1>8. b.compWait \in Nat
  BY <1>5 DEF WellFed, ShapeOK
<1>9. Owned(e, i, e.compWait)
  BY <1>4, <1>5, <1>6, <1>7, <1>8 DEF Keeps
<1>10. {plan[m] : m \in pos .. last} = {i} \cup {plan[m] : m \in pos + 1 .. last}
  <2>1. \A m \in pos .. last : m = pos \/ m \in pos + 1 .. last
    BY <1>1, <1>2
  <2>2. pos + 1 .. last \subseteq pos .. last /\ pos \in pos .. last
    BY <1>1, <1>2
  <2> QED BY <2>1, <2>2
<1>11. Resident(e) = Resident(d) \cup {plan[m] : m \in pos .. last}
  BY <1>3, <1>4, <1>5, <1>6, <1>7, <1>10
<1>12. e = PlanPreHook(d, plan, pos)
  BY DEF PlanPreHook, a, b, c, e, s, last
<1>13. /\ WellFed(e) /\ i \in Resident(e) /\ Owned(e, i, e.compWait)
       /\ Resident(e) = Resident(d) \cup {plan[m] : m \in pos .. last}
  BY <1>4, <1>5, <1>6, <1>7, <1>9, <1>11
<1> QED BY <1>2, <1>12, <1>13

\* Before a block of the wraparound mode runs, the copies of it are waited for and, at the
\* start of a batch, the next batch is on its way.
LEMMA WrapPreHookWell ==
  ASSUME NEW d, WellFed(d), setup \in Setups, NEW i \in Resident(d)
  PROVE  LET e == WrapPreHook(d, i)
         IN  /\ WellFed(e) /\ i \in Resident(e) /\ Owned(e, i, e.compWait)
             /\ Resident(e) = Resident(d) \cup
                  (IF i % PrefetchSize = 0 THEN Window(i + PrefetchSize, i + 2 * PrefetchSize) ELSE {})
<1> DEFINE b == WaitEvent(d, i)
           e == WrapPreHook(d, i)
<1>1. i \in Layers
  BY DEF Resident
<1>2. WellFed(b) /\ Resident(b) = Resident(d) /\ Owned(b, i, b.compWait)
  BY WaitEventWell
<1>3. e = IF i % PrefetchSize = 0 THEN PrefetchAll(b, Ahead(i)) ELSE b
  BY DEF WrapPreHook
<1> HIDE DEF b, e
<1>4. CASE i % PrefetchSize = 0
  <2>1. /\ Ahead(i) \in Seq(Layers)
        /\ {Ahead(i)[k] : k \in 1..Len(Ahead(i))} = Window(i + PrefetchSize, i + 2 * PrefetchSize)
    BY <1>1, AheadBatch
  <2>2. /\ WellFed(e) /\ Resident(e) = Resident(b) \cup Window(i + PrefetchSize, i + 2 * PrefetchSize)
        /\ Keeps(b, e) /\ e.compWait = b.compWait
    BY <1>2, <1>3, <1>4, <2>1, PrefetchAllWell
  <2>3. b.compWait \in Nat
    BY <1>2 DEF WellFed, ShapeOK
  <2>4. Owned(e, i, e.compWait) /\ i \in Resident(e)
    BY <1>2, <2>2, <2>3 DEF Keeps
  <2> QED BY <1>2, <1>4, <2>2, <2>4 DEF e
<1>5. CASE i % PrefetchSize # 0
  <2>1. e = b
    BY <1>3, <1>5
  <2> QED BY <1>2, <1>5, <2>1 DEF e
<1> QED BY <1>4, <1>5

\* Where a batch starts.
LEMMA BaseFacts ==
  ASSUME setup \in Setups, NEW i \in Nat
  PROVE  /\ Base(i) \in Nat /\ Base(i) <= i /\ i < Base(i) + PrefetchSize
         /\ i % PrefetchSize = 0 => Base(i) = i
         /\ (i + 1) % PrefetchSize = 0 => Base(i) = i + 1 - PrefetchSize
         /\ (i + 1) % PrefetchSize # 0 => Base(i + 1) = Base(i)
<1> DEFINE p == PrefetchSize
<1>1. p \in Nat \ {0}
  BY Sizes
<1> HIDE DEF p
<1>2. /\ i % p \in 0..(p - 1) /\ i % p <= i
      /\ i % p = p - 1 => (i + 1) % p = 0
      /\ i % p < p - 1 => (i + 1) % p = (i % p) + 1
  BY <1>1, Remainder
<1>3. Base(i) = i - (i % p) /\ Base(i + 1) = (i + 1) - ((i + 1) % p)
  BY DEF Base, p
<1> DEFINE r == i % p
           t == (i + 1) % p
<1> HIDE DEF r, t
<1>4. /\ r \in 0..(p - 1) /\ r <= i /\ (r = p - 1 => t = 0) /\ (r < p - 1 => t = r + 1)
      /\ Base(i) = i - r /\ Base(i + 1) = (i + 1) - t
  BY <1>2, <1>3 DEF r, t
<1>5. /\ Base(i) \in Nat /\ Base(i) <= i /\ i < Base(i) + p
      /\ r = 0 => Base(i) = i
      /\ t = 0 => Base(i) = i + 1 - p
      /\ t # 0 => Base(i + 1) = Base(i)
  BY <1>1, <1>4
<1> QED BY <1>5 DEF r, t, p

\* The order of the wraparound mode.
LEMMA AllLayersFacts ==
  ASSUME setup \in Setups
  PROVE  /\ AllLayers \in Seq(Layers) /\ Len(AllLayers) = setup.layers
         /\ DOMAIN AllLayers = 1..setup.layers
         /\ \A k \in 1..setup.layers : AllLayers[k] = k - 1 /\ k - 1 \in Layers
<1>1. setup.layers \in Nat \ {0}
  BY Sizes
<1>2. \A k \in 1..setup.layers : k - 1 \in Layers
  BY <1>1 DEF Layers
<1> QED BY <1>1, <1>2 DEF AllLayers

\* What is resident says all about a place but the copies waited for.
LEMMA FitsOnBlocks ==
  ASSUME NEW d, NEW e, NEW h, Fits(d, h), Resident(e) = Resident(d),
         h.at = "run" => Owned(e, h.plan[h.pos], e.compWait)
  PROVE  Fits(e, h)
BY DEF Fits

\* Behind the block that has run.
LEMMA WindowBehind ==
  ASSUME setup \in Setups, NEW i \in Layers, NEW hi \in Int
  PROVE  Window(i, hi) \ {i} \subseteq Window(i + 1, hi)
<1>1. setup.layers \in Nat \ {0} /\ i \in Nat /\ i < setup.layers
  BY Sizes DEF Layers
<1>2. i % setup.layers = i
  BY <1>1, Remainder
<1>3. \A m \in i .. hi - 1 : m = i \/ m \in i + 1 .. hi - 1
  BY <1>1
<1> QED BY <1>2, <1>3 DEF Window

\* After the last block the order starts again.
LEMMA WindowTurns ==
  ASSUME setup \in Setups, NEW w \in Int
  PROVE  Window(setup.layers, setup.layers + w) \subseteq Window(0, w)
<1>1. setup.layers \in Nat \ {0}
  BY Sizes
<1> DEFINE hi == setup.layers + w
<1> SUFFICES ASSUME NEW x \in Window(setup.layers, hi) PROVE x \in Window(0, w)
  OBVIOUS
<1>0. setup.layers \in Int /\ hi \in Int /\ hi = setup.layers + w
  BY <1>1
<1> HIDE DEF hi
<1>2. PICK m \in setup.layers .. hi - 1 : x = m % setup.layers
  BY <1>0, WindowIs
<1>3. m - setup.layers \in 0 .. w - 1 /\ m - setup.layers \in Nat /\ (m - setup.layers) + setup.layers = m
  BY <1>0, <1>1
<1>4. ((m - setup.layers) + setup.layers) % setup.layers = (m - setup.layers) % setup.layers
  BY <1>1, <1>3, Remainder
<1>5. (m - setup.layers) % setup.layers \in Window(0, w)
  BY <1>3, WindowIs
<1> QED BY <1>2, <1>3, <1>4, <1>5

-----------------------------------------------------------------------------
\* A forward pass begins where the last one has left the device.
LEMMA BeginForwardFits ==
  ASSUME setup \in Setups, WellFed(dev), HostType(host), Fits(dev, host), BeginForward
  PROVE  WellFed(dev') /\ HostType(host') /\ Fits(dev', host')
<1>1. /\ host.at = "idle" /\ DOMAIN host = {"at", "plan", "bounded", "pos", "forwards"}
      /\ Resident(dev) \subseteq Window(0, 2 * PrefetchSize)
  BY DEF BeginForward, HostType, Fits
<1>2. setup.layers \in Nat \ {0} /\ PrefetchSize \in Nat \ {0}
  BY Sizes
<1>3. CASE /\ host' = [host EXCEPT !.at = "pre", !.plan = AllLayers, !.bounded = FALSE,
                                   !.pos = 1, !.forwards = @ + 1]
           /\ dev' = dev
  <2>1. /\ host'.at = "pre" /\ host'.plan = AllLayers /\ host'.bounded = FALSE /\ host'.pos = 1
        /\ DOMAIN host' = {"at", "plan", "bounded", "pos", "forwards"}
    BY <1>1, <1>3
  <2>2. AllLayers \in Seq(Layers) /\ 1 \in DOMAIN AllLayers
    BY <1>2, AllLayersFacts
  <2>3. HostType(host')
    BY <2>1, <2>2 DEF HostType
  <2>4. Turn(host') = 0 /\ Reach(host') = 2 * PrefetchSize
    BY <2>1 DEF Turn, Reach
  <2>5. Fits(dev', host')
    BY <1>1, <1>3, <2>1, <2>4 DEF Fits
  <2> QED BY <1>3, <2>3, <2>5
<1>4. CASE \E first, last \in Layers :
             /\ first <= last
             /\ host' = [host EXCEPT !.at = "pre", !.bounded = TRUE, !.pos = 1,
                                     !.plan = SubSeq(AllLayers, first + 1, last + 1),
                                     !.forwards = @ + 1]
             /\ dev' = ReleaseAll(dev)
  <2>1. PICK first \in Layers, last \in Layers :
             /\ first <= last
             /\ host' = [host EXCEPT !.at = "pre", !.bounded = TRUE, !.pos = 1,
                                     !.plan = SubSeq(AllLayers, first + 1, last + 1),
                                     !.forwards = @ + 1]
             /\ dev' = ReleaseAll(dev)
    BY <1>4
  <2> DEFINE s == SubSeq(AllLayers, first + 1, last + 1)
  <2>2. /\ host'.at = "pre" /\ host'.plan = s /\ host'.bounded = TRUE /\ host'.pos = 1
        /\ DOMAIN host' = {"at", "plan", "bounded", "pos", "forwards"}
    BY <1>1, <2>1
  <2>3. s \in Seq(Layers) /\ 1 \in DOMAIN s
    <3>1. /\ AllLayers \in Seq(Layers) /\ Len(AllLayers) = setup.layers
          /\ first \in Nat /\ last \in Nat /\ last + 1 <= setup.layers
      BY <1>2, AllLayersFacts DEF Layers
    <3>2. s \in Seq(Layers) /\ Len(s) = (last + 1) - (first + 1) + 1
      BY <2>1, <3>1, PartFacts
    <3> HIDE DEF s
    <3> QED BY <2>1, <3>1, <3>2
  <2> HIDE DEF s
  <2>4. HostType(host')
    BY <2>2, <2>3 DEF HostType
  <2>5. WellFed(dev') /\ Resident(dev') = {}
    BY <2>1, ReleaseAllWell
  <2>6. Fits(dev', host')
    BY <2>2, <2>5 DEF Fits
  <2> QED BY <2>4, <2>5, <2>6
<1> QED BY <1>3, <1>4 DEF BeginForward

\* The wraparound mode before a block of which the batches in flight are there.
LEMMA WrapFits ==
  ASSUME setup \in Setups, NEW d, WellFed(d), HostType(host), host.at \in {"pre", "sync"}, ~host.bounded,
         Resident(d) \subseteq Window(Turn(host), Reach(host)),
         host.pos = 1 => FirstBlocks \subseteq Resident(d),
         host.pos > 1 => \A i \in Layers : Turn(host) <= i /\ i < Reach(host) => i \in Resident(d),
         dev' = WrapPreHook(d, Block), host' = [host EXCEPT !.at = "run"]
  PROVE  WellFed(dev') /\ HostType(host') /\ Fits(dev', host')
<1> DEFINE i == Turn(host)
           p == PrefetchSize
           l == setup.layers
<1>1. l \in Nat \ {0} /\ p \in Nat \ {0} /\ p <= l
  BY Sizes
<1>2. /\ host.plan = AllLayers /\ host.pos \in 1..l /\ Block = i /\ i \in Layers /\ i \in Nat /\ i < l
      /\ host.pos = i + 1
  <2>1. host.plan = AllLayers /\ host.pos \in 1..l
    BY AllLayersFacts DEF HostType
  <2>2. Block = host.pos - 1 /\ host.pos - 1 \in Layers
    BY <2>1, AllLayersFacts DEF Block
  <2> QED BY <1>1, <2>1, <2>2 DEF Turn
<1>3. /\ host'.at = "run" /\ host'.plan = host.plan /\ host'.bounded = FALSE /\ host'.pos = host.pos
      /\ DOMAIN host' = DOMAIN host
  BY DEF HostType
<1>4. HostType(host')
  BY <1>3 DEF HostType
<1>5. Turn(host') = i /\ Reach(host') = Base(i) + 2 * p
  BY <1>3 DEF Turn, Reach
<1>6. Reach(host) = IF i = 0 THEN 2 * p ELSE Base(i - 1) + 2 * p
  BY <1>2 DEF Reach, Turn
<1>7. Base(i) \in Nat /\ Base(i) <= i /\ i < Base(i) + p /\ (i % p = 0 => Base(i) = i)
  BY <1>2, BaseFacts
<1>8. i > 0 => /\ i - 1 \in Nat /\ Base(i - 1) \in Nat /\ i - 1 < Base(i - 1) + p
               /\ (i % p = 0 => Base(i - 1) = i - p) /\ (i % p # 0 => Base(i) = Base(i - 1))
  <2> SUFFICES ASSUME i > 0 PROVE /\ i - 1 \in Nat /\ Base(i - 1) \in Nat /\ i - 1 < Base(i - 1) + p
                                  /\ (i % p = 0 => Base(i - 1) = i - p)
                                  /\ (i % p # 0 => Base(i) = Base(i - 1))
    OBVIOUS
  <2>1. i - 1 \in Nat /\ (i - 1) + 1 = i
    BY <1>2
  <2>2. PICK j \in Nat : j = i - 1 /\ j + 1 = i
    BY <2>1
  <2>3. /\ Base(j) \in Nat /\ j < Base(j) + PrefetchSize
        /\ (j + 1) % PrefetchSize = 0 => Base(j) = j + 1 - PrefetchSize
        /\ (j + 1) % PrefetchSize # 0 => Base(j + 1) = Base(j)
    BY BaseFacts
  <2>4. p \in Int /\ j + 1 - p = i - p
    BY <1>1, <2>2
  <2> HIDE DEF i
  <2>5. /\ Base(i - 1) \in Nat /\ i - 1 < Base(i - 1) + p
        /\ i % p = 0 => Base(i - 1) = j + 1 - p
        /\ i % p # 0 => Base(i) = Base(i - 1)
    <3> HIDE DEF Base
    <3>1. i - 1 = j /\ i = j + 1
      BY <1>2, <2>2
    <3> QED BY <2>3, <3>1, Zenon
  <2> QED BY <2>1, <2>4, <2>5
\* A batch begins with block 0.
<1>9. i = 0 => i % p = 0
  <2>1. 0 % p = 0
    BY <1>1, Remainder
  <2> QED BY <2>1
\* All blocks from this one to the end of the batch before the one to come are there.
<1>10. \A k \in Layers : i <= k /\ k < (IF i % p = 0 THEN i + p ELSE Base(i) + 2 * p) => k \in Resident(d)
  <2> TAKE k \in Layers
  <2> HAVE i <= k /\ k < (IF i % p = 0 THEN i + p ELSE Base(i) + 2 * p)
  <2>1. CASE i = 0
    <3>1. k \in FirstBlocks
      BY <1>1, <1>9, <2>1 DEF FirstBlocks, Layers
    <3> QED BY <1>2, <2>1, <3>1
  <2>2. CASE i > 0
    <3>1. k < Reach(host)
      BY <1>1, <1>2, <1>6, <1>7, <1>8, <2>2 DEF Layers
    <3> QED BY <1>2, <2>2, <3>1
  <2> QED BY <1>2, <2>1, <2>2
<1>11. i \in Resident(d)
  BY <1>1, <1>2, <1>7, <1>10
<1>12. /\ WellFed(dev') /\ i \in Resident(dev') /\ Owned(dev', i, dev'.compWait)
       /\ Resident(dev') = Resident(d) \cup (IF i % p = 0 THEN Window(i + p, i + 2 * p) ELSE {})
  BY <1>2, <1>11, WrapPreHookWell
<1>13. Resident(dev') \subseteq Window(i, Base(i) + 2 * p)
  <2>1. CASE i % p = 0
    <3>1. Window(i + p, i + 2 * p) \subseteq Window(i, Base(i) + 2 * p)
      BY <1>1, <1>2, <1>7, <2>1, WindowWithin
    <3>2. Reach(host) \in Int /\ Reach(host) <= Base(i) + 2 * p
      BY <1>1, <1>2, <1>6, <1>7, <1>8, <2>1
    <3>3. Window(i, Reach(host)) \subseteq Window(i, Base(i) + 2 * p)
      BY <1>1, <1>2, <1>7, <3>2, WindowWithin
    <3> QED BY <1>12, <2>1, <3>1, <3>3
  <2>2. CASE i % p # 0
    <3>1. Reach(host) = Base(i) + 2 * p
      BY <1>2, <1>6, <1>8, <1>9, <2>2
    <3> QED BY <1>12, <2>2, <3>1
  <2> QED BY <2>1, <2>2
<1>14. \A k \in Layers : i <= k /\ k < Base(i) + 2 * p => k \in Resident(dev')
  <2> TAKE k \in Layers
  <2> HAVE i <= k /\ k < Base(i) + 2 * p
  <2>1. CASE i % p = 0 /\ k >= i + p
    <3>1. k \in Window(i + p, i + 2 * p)
      BY <1>1, <1>2, <1>7, <2>1, WindowHolds
    <3> QED BY <1>12, <2>1, <3>1
  <2>2. CASE ~(i % p = 0 /\ k >= i + p)
    <3>1. k \in Nat
      BY Sizes
    <3>2. k \in Resident(d)
      BY <1>1, <1>2, <1>10, <2>2, <3>1
    <3> QED BY <1>12, <3>2
  <2> QED BY <2>1, <2>2
<1>15. host'.plan[host'.pos] = i
  BY <1>2, <1>3 DEF Block
<1>16. Fits(dev', host')
  <2> HIDE DEF i, p
  <2> QED BY <1>3, <1>5, <1>12, <1>13, <1>14, <1>15 DEF Fits, p
<1> QED BY <1>4, <1>12, <1>16

\* The first batch is within the two that the wraparound mode may hold.
LEMMA FirstBlocksAhead ==
  ASSUME setup \in Setups
  PROVE  FirstBlocks \subseteq Window(0, 2 * PrefetchSize) /\ FirstBlocks \subseteq Layers
<1>1. setup.layers \in Nat \ {0} /\ PrefetchSize \in Nat \ {0} /\ PrefetchSize <= setup.layers
  BY Sizes
<1> DEFINE p == PrefetchSize
           hi == 2 * p
<1>2. p \in Nat \ {0} /\ hi \in Int /\ p < hi
  BY <1>1
<1> HIDE DEF hi
<1>3. \A x \in FirstBlocks : x \in Layers /\ 0 <= x /\ x < hi
  BY <1>1, <1>2 DEF FirstBlocks, Layers
<1>4. \A x \in FirstBlocks : x \in Window(0, hi)
  BY <1>2, <1>3, WindowHolds
<1> QED BY <1>3, <1>4 DEF hi

\* The pre-hook brings what its block and the next ones need.
LEMMA PreHookFits ==
  ASSUME setup \in Setups, WellFed(dev), HostType(host), Fits(dev, host), PreHook
  PROVE  WellFed(dev') /\ HostType(host') /\ Fits(dev', host')
<1>1. /\ host.at = "pre" /\ DOMAIN host = {"at", "plan", "bounded", "pos", "forwards"}
      /\ host.plan \in Seq(Layers) /\ host.bounded \in BOOLEAN /\ host.pos \in DOMAIN host.plan
      /\ ~host.bounded => host.plan = AllLayers
  BY DEF PreHook, HostType
<1>2. CASE host.bounded
  <2>1. dev' = PlanPreHook(dev, host.plan, host.pos) /\ host' = [host EXCEPT !.at = "run"]
    BY <1>2 DEF PreHook
  <2>2. /\ host'.at = "run" /\ host'.plan = host.plan /\ host'.bounded = host.bounded /\ host'.pos = host.pos
        /\ DOMAIN host' = DOMAIN host
    BY <1>1, <2>1
  <2>3. HostType(host')
    BY <1>1, <2>2, <1>2 DEF HostType
  <2> DEFINE W == {host.plan[m] : m \in host.pos .. Min({Len(host.plan), host.pos + PrefetchSize})}
  <2>4. /\ WellFed(dev') /\ host.plan[host.pos] \in Resident(dev') /\ Owned(dev', host.plan[host.pos], dev'.compWait)
        /\ Resident(dev') = Resident(dev) \cup W
    <3>1. PICK d, plan, pos : d = dev /\ plan = host.plan /\ pos = host.pos
      OBVIOUS
    <3>2. WellFed(d) /\ plan \in Seq(Layers) /\ pos \in DOMAIN plan /\ dev' = PlanPreHook(d, plan, pos)
      BY <1>1, <2>1, <3>1
    <3>3. /\ WellFed(dev') /\ plan[pos] \in Resident(dev') /\ Owned(dev', plan[pos], dev'.compWait)
          /\ Resident(dev') = Resident(d)
               \cup {plan[m] : m \in pos .. Min({Len(plan), pos + PrefetchSize})}
      BY <3>2, PlanPreHookWell
    <3> QED BY <3>1, <3>3
  <2>5. Resident(dev) \subseteq W
    BY <1>1, <1>2 DEF Fits
  <2>6. Fits(dev', host')
    BY <1>2, <2>2, <2>4, <2>5 DEF Fits
  <2> QED BY <2>3, <2>4, <2>6
<1>3. CASE ~host.bounded
  <2>1. host.plan = AllLayers /\ host.pos \in 1..setup.layers /\ setup.layers \in Nat
        /\ Block = host.pos - 1 /\ (Block = 0 <=> host.pos = 1)
    <3>1. setup.layers \in Nat /\ host.plan = AllLayers /\ host.pos \in 1..setup.layers
      BY <1>1, <1>3, AllLayersFacts, Sizes
    <3>2. Block = host.pos - 1
      BY <3>1, AllLayersFacts DEF Block
    <3> QED BY <3>1, <3>2
  <2>2. Resident(dev) \subseteq Window(Turn(host), Reach(host))
    BY <1>1, <1>3 DEF Fits
  <2>3. host.pos > 1 => \A i \in Layers : Turn(host) <= i /\ i < Reach(host) => i \in Resident(dev)
    BY <1>1, <1>3 DEF Fits
  <2>4. /\ WellFed(Prepare(dev)) /\ Resident(Prepare(dev)) = Resident(dev) \cup FirstBlocks
    BY PrepareWell
  <2>5. CASE Block = 0 /\ Prepare(dev) # dev
    <3>1. dev' = Prepare(dev) /\ host' = [host EXCEPT !.at = "sync"]
      BY <1>3, <2>5 DEF PreHook
    <3>2. /\ host'.at = "sync" /\ host'.plan = host.plan /\ host'.bounded = FALSE /\ host'.pos = 1
          /\ DOMAIN host' = DOMAIN host
      BY <1>1, <1>3, <2>1, <2>5, <3>1
    <3>3. HostType(host')
      BY <1>1, <2>1, <2>5, <3>2 DEF HostType
    <3>4. Turn(host') = Turn(host) /\ Reach(host') = Reach(host) /\ Turn(host) = 0 /\ Reach(host) = 2 * PrefetchSize
      BY <1>1, <2>1, <2>5, <3>2 DEF Turn, Reach
    <3>5. Resident(dev') \subseteq Window(Turn(host'), Reach(host')) /\ FirstBlocks \subseteq Resident(dev')
      BY <2>2, <2>4, <3>1, <3>4, FirstBlocksAhead
    <3>6. Fits(dev', host')
      BY <3>2, <3>5 DEF Fits
    <3> QED BY <2>4, <3>1, <3>3, <3>6
  <2>6. CASE Block = 0 /\ Prepare(dev) = dev
    <3>1. dev' = WrapPreHook(WaitCopies(dev), Block) /\ host' = [host EXCEPT !.at = "run"]
      BY <1>3, <2>6 DEF PreHook
    <3>2. FirstBlocks \subseteq Resident(dev)
      BY <2>4, <2>6
    <3>3. PICK d : d = WaitCopies(dev)
      OBVIOUS
    <3>4. WellFed(d) /\ Resident(d) = Resident(dev)
      BY <3>3, WaitCopiesWell
    <3> QED BY <1>1, <1>3, <2>2, <2>3, <3>1, <3>2, <3>3, <3>4, WrapFits
  <2>7. CASE Block # 0
    <3>1. dev' = WrapPreHook(dev, Block) /\ host' = [host EXCEPT !.at = "run"]
      BY <1>3, <2>7 DEF PreHook
    <3>2. host.pos # 1
      BY <2>1, <2>7
    <3> QED BY <1>1, <1>3, <2>2, <2>3, <3>1, <3>2, WrapFits
  <2> QED BY <2>5, <2>6, <2>7
<1> QED BY <1>1, <1>2, <1>3

\* Block 0 goes on when the first blocks have arrived.
LEMMA PrepareDoneFits ==
  ASSUME setup \in Setups, WellFed(dev), HostType(host), Fits(dev, host), PrepareDone
  PROVE  WellFed(dev') /\ HostType(host') /\ Fits(dev', host')
<1>1. /\ host.at = "sync" /\ dev' = WrapPreHook(WaitCopies(dev), Block)
      /\ host' = [host EXCEPT !.at = "run"]
  BY DEF PrepareDone
<1>2. ~host.bounded /\ host.pos = 1
  BY <1>1 DEF HostType
<1>3. Resident(dev) \subseteq Window(Turn(host), Reach(host)) /\ FirstBlocks \subseteq Resident(dev)
  BY <1>1, <1>2 DEF Fits
<1>4. PICK d : d = WaitCopies(dev)
  OBVIOUS
<1>5. WellFed(d) /\ Resident(d) = Resident(dev)
  BY <1>4, WaitCopiesWell
<1>6. ~(host.pos > 1)
  BY <1>2
<1> QED BY <1>1, <1>2, <1>3, <1>4, <1>5, <1>6, WrapFits

\* A block runs on its own weights; then it is dropped, and the plan with its last block.
LEMMA RunBlockFits ==
  ASSUME setup \in Setups, WellFed(dev), HostType(host), Fits(dev, host), RunBlock
  PROVE  WellFed(dev') /\ HostType(host') /\ Fits(dev', host')
<1> DEFINE ran == Release(Launch(dev, Block), Block)
<1>1. /\ host.at = "run" /\ DOMAIN host = {"at", "plan", "bounded", "pos", "forwards"}
      /\ host.plan \in Seq(Layers) /\ host.bounded \in BOOLEAN /\ host.pos \in 1..Len(host.plan)
      /\ Len(host.plan) \in Nat /\ (~host.bounded => host.plan = AllLayers)
  BY DEF RunBlock, HostType
<1>2. /\ dev' = IF host.pos = Len(host.plan) THEN EndOf(ran, host) ELSE ran
      /\ host' = IF host.pos = Len(host.plan) THEN [Idle EXCEPT !.forwards = host.forwards]
                 ELSE [host EXCEPT !.at = "pre", !.pos = @ + 1]
  BY DEF RunBlock
<1>3. Block \in Resident(dev) /\ Block \in Layers /\ Owned(dev, Block, dev.compWait)
  BY <1>1 DEF Fits, Block
<1>4. WellFed(ran) /\ Resident(ran) = Resident(dev) \ {Block}
  <2>1. PICK d : d = Launch(dev, Block)
    OBVIOUS
  <2>2. WellFed(d) /\ Resident(d) = Resident(dev)
    BY <1>3, <2>1, LaunchWell
  <2> QED BY <1>3, <2>1, <2>2, ReleaseWell
<1> HIDE DEF ran
<1>5. setup.layers \in Nat \ {0} /\ PrefetchSize \in Nat \ {0}
  BY Sizes
\* In the wraparound mode the blocks from the next one to the end of the batches are there.
<1>6. ASSUME ~host.bounded
      PROVE  /\ Block = Turn(host) /\ host.pos = Turn(host) + 1 /\ Turn(host) \in Layers /\ Turn(host) \in Nat
             /\ Len(host.plan) = setup.layers
             /\ Base(Turn(host)) \in Nat /\ Base(Turn(host)) <= Turn(host)
             /\ Resident(ran) \subseteq Window(host.pos, Base(Turn(host)) + 2 * PrefetchSize)
             /\ \A i \in Layers : Turn(host) < i /\ i < Base(Turn(host)) + 2 * PrefetchSize => i \in Resident(ran)
  <2>1. /\ host.plan = AllLayers /\ host.pos \in 1..setup.layers /\ Len(host.plan) = setup.layers
        /\ Block = host.pos - 1 /\ host.pos - 1 \in Layers
    BY <1>1, <1>6, AllLayersFacts DEF Block
  <2>2. Block = Turn(host) /\ host.pos = Turn(host) + 1 /\ Turn(host) \in Layers /\ Turn(host) \in Nat
    BY <1>5, <2>1 DEF Turn
  <2>3. Reach(host) = Base(Turn(host)) + 2 * PrefetchSize
    BY <1>1 DEF Reach
  <2>4. Base(Turn(host)) \in Nat /\ Base(Turn(host)) <= Turn(host)
    BY <2>2, BaseFacts
  <2>5. Resident(dev) \subseteq Window(Turn(host), Reach(host))
    BY <1>1, <1>6 DEF Fits
  <2>6. \A i \in Layers : Turn(host) <= i /\ i < Reach(host) => i \in Resident(dev)
    BY <1>1, <1>6 DEF Fits
  <2>7. Reach(host) \in Int
    BY <1>5, <2>3, <2>4
  <2>8. Window(Turn(host), Reach(host)) \ {Turn(host)} \subseteq Window(Turn(host) + 1, Reach(host))
    BY <2>2, <2>7, WindowBehind
  <2>9. Resident(ran) \subseteq Window(host.pos, Reach(host))
    BY <1>4, <2>2, <2>5, <2>8
  <2>10. \A i \in Layers : Turn(host) < i /\ i < Reach(host) => i \in Resident(ran)
    <3> TAKE i \in Layers
    <3> HAVE Turn(host) < i /\ i < Reach(host)
    <3>1. i \in Nat
      BY Sizes
    <3>2. Turn(host) <= i /\ i # Turn(host)
      BY <2>2, <3>1
    <3> QED BY <1>4, <2>2, <2>6, <3>2
  <2> QED BY <2>1, <2>2, <2>3, <2>4, <2>9, <2>10
<1>7. CASE host.pos # Len(host.plan)
  <2>1. /\ dev' = ran
        /\ host'.at = "pre" /\ host'.plan = host.plan /\ host'.bounded = host.bounded
        /\ host'.pos = host.pos + 1 /\ DOMAIN host' = DOMAIN host
    BY <1>1, <1>2, <1>7
  <2>2. host'.pos \in 1..Len(host.plan) /\ host'.pos > 1
    BY <1>1, <1>7, <2>1
  <2>3. HostType(host')
    BY <1>1, <2>1, <2>2 DEF HostType
  <2>4. CASE host.bounded
    <3> DEFINE last == Min({Len(host.plan), host.pos + PrefetchSize})
               next == Min({Len(host.plan), host'.pos + PrefetchSize})
    <3>1. /\ last = IF Len(host.plan) <= host.pos + PrefetchSize THEN Len(host.plan) ELSE host.pos + PrefetchSize
          /\ next = IF Len(host.plan) <= host'.pos + PrefetchSize THEN Len(host.plan) ELSE host'.pos + PrefetchSize
      BY <1>1, <1>5, <2>2, MinOf, SMTT(60)
    <3> HIDE DEF last, next
    <3>2. \A m \in host.pos .. last : m = host.pos \/ m \in host'.pos .. next
      BY <1>1, <1>5, <2>1, <3>1
    <3>3. Resident(dev) \subseteq {host.plan[m] : m \in host.pos .. last}
      BY <1>1, <2>4 DEF Fits, last
    <3>4. Resident(ran) \subseteq {host.plan[m] : m \in host'.pos .. next}
      BY <1>4, <3>2, <3>3 DEF Block
    <3> QED BY <1>4, <2>1, <2>3, <2>4, <3>4 DEF Fits, next
  <2>5. CASE ~host.bounded
    <3>1. /\ Turn(host') = host.pos /\ Reach(host') = Base(Turn(host)) + 2 * PrefetchSize
      <4>1. Turn(host') = host.pos /\ Turn(host') - 1 = Turn(host)
        BY <1>1, <2>1 DEF Turn
      <4> QED BY <2>1, <2>2, <4>1 DEF Reach
    <3>2. Resident(dev') \subseteq Window(Turn(host'), Reach(host'))
      BY <1>6, <2>1, <2>5, <3>1
    <3>3. \A i \in Layers : Turn(host') <= i /\ i < Reach(host') => i \in Resident(dev')
      <4> TAKE i \in Layers
      <4> HAVE Turn(host') <= i /\ i < Reach(host')
      <4>1. i \in Nat
        BY Sizes
      <4>2. Turn(host) < i
        BY <1>6, <2>5, <3>1, <4>1
      <4> QED BY <1>6, <2>1, <2>5, <3>1, <4>2
    <3>4. Fits(dev', host')
      BY <2>1, <2>2, <2>5, <3>2, <3>3 DEF Fits
    <3> QED BY <1>4, <2>1, <2>3, <3>4
  <2> QED BY <1>1, <2>4, <2>5
<1>8. CASE host.pos = Len(host.plan)
  <2>1. dev' = EndOf(ran, host) /\ host' = [Idle EXCEPT !.forwards = host.forwards]
    BY <1>2, <1>8
  <2>2. /\ host'.at = "idle" /\ host'.plan = <<>> /\ host'.bounded = FALSE /\ host'.pos = 0
        /\ DOMAIN host' = {"at", "plan", "bounded", "pos", "forwards"}
    BY <2>1 DEF Idle
  <2>3. HostType(host')
    <3>1. host'.plan \in Seq(Layers)
      BY <2>2
    <3>2. host'.bounded \in BOOLEAN
      BY <2>2, Zenon
    <3> QED BY <2>2, <3>1, <3>2 DEF HostType
  <2>4. WellFed(dev') /\ Resident(dev') \subseteq Window(0, 2 * PrefetchSize)
    <3>1. CASE host.bounded
      BY <1>4, <2>1, <3>1, ReleaseAllWell DEF EndOf
    <3>2. CASE ~host.bounded
      <4>1. dev' = ran
        BY <2>1, <3>2 DEF EndOf
      <4> DEFINE w == 2 * PrefetchSize
                 reach == Base(Turn(host)) + w
                 most == setup.layers + w
      <4>2. w \in Int /\ reach \in Int /\ most \in Int /\ reach <= most /\ host.pos = setup.layers
        BY <1>5, <1>6, <1>8, <3>2 DEF Layers
      <4>3. Resident(ran) \subseteq Window(setup.layers, reach)
        BY <1>6, <3>2, <4>2
      <4>4. setup.layers \in Int /\ setup.layers <= setup.layers
        BY <1>5
      <4> HIDE DEF w, reach
      <4>5. Window(setup.layers, reach) \subseteq Window(setup.layers, most)
        <5> HIDE DEF most
        <5> QED BY <4>2, <4>4, WindowWithin
      <4>6. Window(setup.layers, most) \subseteq Window(0, w)
        BY <4>2, WindowTurns
      <4> QED BY <1>4, <4>1, <4>3, <4>5, <4>6 DEF w
    <3> QED BY <1>1, <3>1, <3>2
  <2>5. Fits(dev', host')
    BY <2>2, <2>4 DEF Fits
  <2> QED BY <2>3, <2>4, <2>5
<1> QED BY <1>7, <1>8

\* A block that raises leaves the device as it was, a plan drops everything.
LEMMA BlockFailsFits ==
  ASSUME setup \in Setups, WellFed(dev), HostType(host), Fits(dev, host), BlockFails
  PROVE  WellFed(dev') /\ HostType(host') /\ Fits(dev', host')
<1> DEFINE d == Launch(dev, Block)
<1>1. /\ host.at = "run" /\ host' = [host EXCEPT !.at = "failed"] /\ dev' = EndOf(d, host)
      /\ DOMAIN host = {"at", "plan", "bounded", "pos", "forwards"}
  BY DEF BlockFails, HostType
<1>2. /\ host'.at = "failed" /\ host'.plan = host.plan /\ host'.bounded = host.bounded /\ host'.pos = host.pos
      /\ DOMAIN host' = DOMAIN host
  BY <1>1
<1>3. HostType(host')
  BY <1>1, <1>2 DEF HostType
<1>4. Block \in Resident(dev) /\ Owned(dev, Block, dev.compWait)
  BY <1>1 DEF Fits, Block
<1>5. WellFed(d) /\ Resident(d) = Resident(dev)
  BY <1>4, LaunchWell
<1> HIDE DEF d
<1>6. CASE host.bounded
  <2>1. WellFed(dev') /\ Resident(dev') = {}
    BY <1>1, <1>5, <1>6, ReleaseAllWell DEF EndOf
  <2>2. Fits(dev', host')
    BY <1>2, <1>6, <2>1 DEF Fits
  <2> QED BY <1>3, <2>1, <2>2
<1>7. CASE ~host.bounded
  <2>1. WellFed(dev') /\ Resident(dev') = Resident(dev)
    BY <1>1, <1>5, <1>7 DEF EndOf
  <2>2. Resident(dev) \subseteq Window(Turn(host), Reach(host))
    BY <1>1, <1>7 DEF Fits
  <2>3. Turn(host') = Turn(host) /\ Reach(host') = Reach(host)
    BY <1>1, <1>2 DEF Turn, Reach
  <2>4. Fits(dev', host')
    BY <1>2, <1>7, <2>1, <2>2, <2>3 DEF Fits
  <2> QED BY <1>3, <2>1, <2>4
<1> QED BY <1>6, <1>7

\* The warm-up leaves nothing on the device.
LEMMA WarmBlocksFits ==
  ASSUME setup \in Setups, WellFed(dev), HostType(host), Fits(dev, host), WarmBlocks
  PROVE  WellFed(dev') /\ HostType(host') /\ Fits(dev', host')
<1>1. host.at = "idle" /\ dev' = ReleaseAll(BorrowAll(dev)) /\ host' = [host EXCEPT !.at = "warm"]
  BY DEF WarmBlocks
<1>2. WellFed(dev') /\ Resident(dev') = {}
  BY <1>1, BorrowAllWell, ReleaseAllWell
<1>3. /\ host'.at = "warm" /\ host'.plan = host.plan /\ host'.bounded = host.bounded /\ host'.pos = host.pos
      /\ DOMAIN host' = DOMAIN host
  BY <1>1 DEF HostType
<1>4. HostType(host')
  BY <1>1, <1>3 DEF HostType
<1>5. Fits(dev', host')
  BY <1>2, <1>3 DEF Fits
<1> QED BY <1>2, <1>4, <1>5

\* After the warm-up the host is where it was.
LEMMA WarmDoneFits ==
  ASSUME setup \in Setups, WellFed(dev), HostType(host), Fits(dev, host), WarmDone
  PROVE  WellFed(dev') /\ HostType(host') /\ Fits(dev', host')
<1>1. host.at = "warm" /\ dev' = dev /\ host' = [host EXCEPT !.at = "idle"]
  BY DEF WarmDone
<1>2. /\ host'.at = "idle" /\ host'.plan = host.plan /\ host'.bounded = host.bounded /\ host'.pos = host.pos
      /\ DOMAIN host' = DOMAIN host
  BY <1>1 DEF HostType
<1>3. HostType(host')
  BY <1>1, <1>2 DEF HostType
<1>4. Resident(dev) = {}
  BY <1>1 DEF Fits
<1>5. Fits(dev', host')
  BY <1>1, <1>2, <1>4 DEF Fits
<1> QED BY <1>1, <1>3, <1>5

-----------------------------------------------------------------------------
\* The streams do their work without the host.
LEMMA StreamsFit ==
  ASSUME setup \in Setups, WellFed(dev), Streams
  PROVE  /\ WellFed(dev') /\ Resident(dev') = Resident(dev) /\ UNCHANGED <<setup, host, faults>>
         /\ Fits(dev, host) => Fits(dev', host)
<1>1. dev.compWait \in Nat
  BY DEF WellFed, ShapeOK
<1>2. ASSUME NEW d, WellFed(d), Resident(d) = Resident(dev), dev' = Settled(d), d.compWait \in Nat,
             \A k \in Resident(dev) : Owned(dev, k, dev.compWait) => Owned(d, k, d.compWait)
      PROVE  /\ WellFed(dev') /\ Resident(dev') = Resident(dev)
             /\ Fits(dev, host) => Fits(dev', host)
  <2>1. WellFed(dev') /\ Resident(dev') = Resident(d) /\ Keeps(d, dev') /\ dev'.compWait = d.compWait
    BY <1>2, SettledWell
  <2>2. \A k \in Resident(dev) : Owned(dev, k, dev.compWait) => Owned(dev', k, dev'.compWait)
    BY <1>2, <2>1 DEF Keeps
  <2>3. ASSUME Fits(dev, host), host.at = "run" PROVE Owned(dev', host.plan[host.pos], dev'.compWait)
    BY <2>2, <2>3 DEF Fits
  <2> QED BY <1>2, <2>1, <2>3, FitsOnBlocks
<1>3. CASE CopyStep
  <2>1. PICK d : d = [dev EXCEPT !.content[Head(dev.copyq).buf] = Head(dev.copyq).layer,
                                 !.copyq = Tail(@), !.compq = Closer(@), !.compWait = Less(@)]
    OBVIOUS
  <2>2. Ready(dev.copyq) /\ dev' = Settled(d) /\ UNCHANGED <<setup, host, faults>>
    BY <1>3, <2>1 DEF CopyStep
  <2>3. /\ WellFed(d) /\ Resident(d) = Resident(dev) /\ d.compWait = Less(dev.compWait)
        /\ \A k \in Resident(dev) : \A a \in Nat : Owned(dev, k, a) => Owned(d, k, Less(a))
    BY <2>1, <2>2, CopyWell
  <2>4. d.compWait \in Nat
    BY <2>3 DEF WellFed, ShapeOK
  <2> QED BY <1>1, <1>2, <2>2, <2>3, <2>4
<1>4. CASE ComputeStep
  <2>1. PICK d : d = [dev EXCEPT !.compq = Tail(@), !.copyq = Closer(@),
                                 !.held = [b \in DOMAIN @ |-> Less(@[b])]]
    OBVIOUS
  <2>2. Ready(dev.compq) /\ dev' = Settled(d) /\ UNCHANGED <<setup, host, faults>>
    BY <1>4, <2>1 DEF ComputeStep
  <2>3. WellFed(d) /\ Resident(d) = Resident(dev) /\ Keeps(dev, d) /\ d.compWait = dev.compWait
    BY <2>1, <2>2, ComputeWell
  <2>4. \A k \in Resident(dev) : Owned(dev, k, dev.compWait) => Owned(d, k, d.compWait)
    BY <1>1, <2>3 DEF Keeps
  <2> QED BY <1>1, <1>2, <2>2, <2>3, <2>4
<1> QED BY <1>3, <1>4 DEF Streams

\* Every step of a forward pass.
LEMMA ForwardFits ==
  ASSUME setup \in Setups, WellFed(dev), HostType(host), Fits(dev, host), Forward
  PROVE  WellFed(dev') /\ HostType(host') /\ Fits(dev', host')
BY BeginForwardFits, PreHookFits, PrepareDoneFits, RunBlockFits, BlockFailsFits, WarmBlocksFits,
   WarmDoneFits DEF Forward

-----------------------------------------------------------------------------
\* What is said of a device or a place in the next state is said with the same setup.
LEMMA SameSetup ==
  ASSUME UNCHANGED setup
  PROVE  /\ WellFed(dev)' <=> WellFed(dev')
         /\ HostType(host)' <=> HostType(host')
         /\ Fits(dev, host)' <=> Fits(dev', host')
         /\ Resident(dev)' = Resident(dev') /\ FirstBlocks' = FirstBlocks /\ Idle' = Idle
<1>1. /\ Layers' = Layers /\ Op' = Op /\ PrefetchSize' = PrefetchSize /\ AllLayers' = AllLayers
      /\ FirstBlocks' = FirstBlocks /\ Idle' = Idle
  BY DEF Layers, Op, PrefetchSize, AllLayers, FirstBlocks, Idle
<1>2. Resident(dev)' = Resident(dev')
  BY <1>1 DEF Resident, NoBuf
<1>3. WellFed(dev)' <=> WellFed(dev')
  <2>1. ShapeOK(dev)' <=> ShapeOK(dev')
    BY <1>1 DEF ShapeOK
  <2>2. /\ \A i, a : Owned(dev', i, a) <=> Owned(dev, i, a)'
        /\ \A j : Fed(dev, j)' <=> Fed(dev', j)
    BY DEF Owned, Fed, Arrives
  <2> QED BY <1>2, <2>1, <2>2 DEF WellFed
<1>4. HostType(host)' <=> HostType(host')
  BY <1>1 DEF HostType
<1>5. Fits(dev, host)' <=> Fits(dev', host')
  BY <1>1, <1>2 DEF Fits, Owned, Arrives, Window, Turn, Reach, Base
<1> QED BY <1>1, <1>2, <1>3, <1>4, <1>5

\* What a step has to leave behind it.
LEMMA ResidencyGoesOn ==
  ASSUME UNCHANGED setup, WellFed(dev'), HostType(host'),
         req'.st = "inside" /\ ctl'.phase = "denoise" => Fits(dev', host'),
         req'.st \notin {"inside", "leaving"} \/ ctl'.phase # "denoise" =>
           /\ host' = Idle
           /\ Resident(dev') \subseteq FirstBlocks
           /\ adp'.used \/ (req'.st = "releasing" /\ ctl'.phase = "denoise") => Resident(dev') = {}
  PROVE  WellFed(dev)' /\ ResidencyOK'
<1>1. /\ WellFed(dev)' /\ HostType(host)' /\ (Fits(dev', host') => Fits(dev, host)')
      /\ Resident(dev)' = Resident(dev') /\ FirstBlocks' = FirstBlocks /\ Idle' = Idle
  BY SameSetup
<1> QED BY <1>1 DEF ResidencyOK, Denoising

\* A device and a host at rest stay as they are outside the denoising phase.
LEMMA RestGoesOn ==
  ASSUME WellFed(dev), ResidencyOK, ~Denoising, UNCHANGED <<setup, dev, host>>,
         ctl'.phase # "denoise" \/ req'.st \notin {"inside", "leaving", "releasing"},
         adp'.used => adp.used \/ (req.st = "releasing" /\ ctl.phase = "denoise")
  PROVE  WellFed(dev)' /\ ResidencyOK'
<1>1. /\ HostType(host) /\ host = Idle /\ Resident(dev) \subseteq FirstBlocks
      /\ adp.used \/ (req.st = "releasing" /\ ctl.phase = "denoise") => Resident(dev) = {}
  BY DEF ResidencyOK
<1> QED BY <1>1, ResidencyGoesOn

\* The transformer enters its phase with its first blocks on the way.
LEMMA EnterPhaseResides == LInv /\ MInv /\ EnterPhase => WellFed(dev)' /\ ResidencyOK'
<1> DEFINE p == Phases[req.next]
<1>7. ASSUME LInv, MInv, EnterPhase, EnterRefused(p) PROVE WellFed(dev)' /\ ResidencyOK'
  <2>1. /\ req.st = "between" /\ req' = [req EXCEPT !.st = "failed", !.why = "refused"]
        /\ UNCHANGED <<setup, dev, host, ctl, adp>>
    BY <1>7 DEF EnterPhase, Fail
  <2>2. req'.st = "failed" /\ WellFed(dev) /\ ResidencyOK /\ ~Denoising
    BY <1>7, <2>1 DEF MInv, DriverOK, LInv, Denoising
  <2> QED BY <2>1, <2>2, RestGoesOn
<1> SUFFICES ASSUME LInv, MInv, EnterPhase, ~EnterRefused(p) PROVE WellFed(dev)' /\ ResidencyOK'
  BY <1>7
<1>1. /\ req.st = "between" /\ Entered(p) /\ UNCHANGED <<setup, host, faults>>
      /\ dev' = IF p = "denoise" THEN Prepare(dev) ELSE dev
  BY DEF EnterPhase
<1>2. /\ DOMAIN ctl = {"phase", "acquired", "last"} /\ DOMAIN adp = {"active", "closed", "dirty", "stuck", "used"}
      /\ DOMAIN req = {"no", "win", "next", "st", "why"}
  BY DEF MInv, ControllerOK, AdapterOK, DriverOK
<1>3. ctl'.phase = p /\ req'.st = "inside" /\ adp'.used = adp.used
  BY <1>1, <1>2 DEF Entered
<1>4. /\ setup \in Setups /\ WellFed(dev) /\ ResidencyOK /\ ~Denoising
      /\ HostType(host) /\ host = Idle /\ Resident(dev) \subseteq FirstBlocks
  BY <1>1 DEF LInv, TypesOK, ResidencyOK, Denoising
<1> HIDE DEF p
<1>5. CASE p = "denoise"
  <2>1. dev' = Prepare(dev) /\ host' = Idle
    BY <1>1, <1>4, <1>5
  <2>2. WellFed(dev') /\ Resident(dev') = Resident(dev) \cup FirstBlocks
    BY <1>4, <2>1, PrepareWell
  <2>3. Resident(dev') \subseteq Window(0, 2 * PrefetchSize)
    BY <1>4, <2>2, FirstBlocksAhead
  <2>4. Idle.at = "idle" /\ Idle.bounded = FALSE
    BY DEF Idle
  <2>5. Fits(dev', host')
    BY <2>1, <2>3, <2>4 DEF Fits
  <2> QED BY <1>1, <1>3, <1>4, <1>5, <2>1, <2>2, <2>5, ResidencyGoesOn
<1>6. CASE p # "denoise"
  BY <1>1, <1>3, <1>4, <1>6, RestGoesOn
<1> QED BY <1>5, <1>6

\* A failed acquisition drops the blocks that were on the way.
LEMMA AcquireFailsResides == LInv /\ MInv /\ AcquireFails => WellFed(dev)' /\ ResidencyOK'
<1> SUFFICES ASSUME LInv, MInv, AcquireFails PROVE WellFed(dev)' /\ ResidencyOK'
  OBVIOUS
<1> DEFINE p == Phases[req.next]
<1>1. /\ req.st = "between" /\ req' = [req EXCEPT !.st = "failed", !.why = "acquire"]
      /\ UNCHANGED <<setup, host, ctl>>
      /\ \/ adp' = adp
         \/ adp' = [adp EXCEPT !.active = ComponentOf[p], !.stuck = TRUE]
      /\ dev' = IF p = "denoise" THEN ReleaseAll(Prepare(dev)) ELSE dev
  BY DEF AcquireFails, Fail
<1>2. req'.st = "failed" /\ adp'.used = adp.used
  BY <1>1 DEF MInv, DriverOK, AdapterOK
<1>3. /\ setup \in Setups /\ WellFed(dev) /\ ResidencyOK /\ ~Denoising /\ HostType(host) /\ host = Idle
  BY <1>1 DEF LInv, TypesOK, ResidencyOK, Denoising
<1> HIDE DEF p
<1>4. CASE p = "denoise"
  <2>1. PICK d : d = Prepare(dev)
    OBVIOUS
  <2>2. WellFed(d) /\ dev' = ReleaseAll(d)
    BY <1>1, <1>3, <1>4, <2>1, PrepareWell
  <2>3. WellFed(dev') /\ Resident(dev') = {}
    BY <2>2, ReleaseAllWell
  <2> QED BY <1>1, <1>2, <1>3, <2>3, ResidencyGoesOn
<1>5. CASE p # "denoise"
  BY <1>1, <1>2, <1>3, <1>5, RestGoesOn
<1> QED BY <1>4, <1>5

\* The forward pass of a phase ends with the host wherever it is.
LEMMA ForwardEndsResides ==
  ASSUME LInv, MInv, ForwardDone \/ ForwardRaises
  PROVE  WellFed(dev)' /\ ResidencyOK'
<1>1. /\ req.st = "inside" /\ DOMAIN req = {"no", "win", "next", "st", "why"}
      /\ UNCHANGED <<setup, dev, host, ctl, adp>>
      /\ \/ req' = [req EXCEPT !.st = "leaving"]
         \/ req' = [req EXCEPT !.st = "leaving", !.why = "forward"]
  BY DEF ForwardDone, ForwardRaises, offloadVars, MInv, DriverOK
<1>2. req'.st = "leaving"
  BY <1>1
<1>3. WellFed(dev) /\ ResidencyOK /\ HostType(host)
  BY DEF LInv, ResidencyOK
<1>4. CASE ctl.phase = "denoise"
  BY <1>1, <1>2, <1>3, <1>4, ResidencyGoesOn
<1>5. CASE ctl.phase # "denoise"
  BY <1>1, <1>2, <1>3, <1>5, RestGoesOn DEF Denoising
<1> QED BY <1>4, <1>5

\* The host at rest.
LEMMA IdleType == HostType(Idle)
<1>1. /\ Idle.at = "idle" /\ Idle.plan = <<>> /\ Idle.bounded = FALSE
      /\ DOMAIN Idle = {"at", "plan", "bounded", "pos", "forwards"}
  BY DEF Idle
<1>2. Idle.plan \in Seq(Layers)
  BY <1>1
<1>3. Idle.bounded \in BOOLEAN
  BY <1>1, Zenon
<1> QED BY <1>1, <1>2, <1>3 DEF HostType

\* There are only so many blocks.
LEMMA ResidentFinite ==
  ASSUME setup \in Setups
  PROVE  IsFiniteSet(Resident(dev))
<1>1. setup.layers - 1 \in Int
  BY Sizes
<1>2. IsFiniteSet(Layers)
  BY <1>1, FS_Interval DEF Layers
<1> QED BY <1>2, FS_Subset DEF Resident

\* The exit drops every block before it waits for the device.
LEMMA BeginExitResides == LInv /\ MInv /\ BeginExit => WellFed(dev)' /\ ResidencyOK'
<1> SUFFICES ASSUME LInv, MInv, BeginExit PROVE WellFed(dev)' /\ ResidencyOK'
  OBVIOUS
<1>1. /\ req.st = "leaving" /\ req' = [req EXCEPT !.st = "releasing"] /\ host' = Idle
      /\ UNCHANGED <<setup, ctl, adp>> /\ DOMAIN req = {"no", "win", "next", "st", "why"}
      /\ dev' = IF ctl.phase = "denoise" THEN ReleaseAll(dev) ELSE dev
  BY DEF BeginExit, MInv, DriverOK
<1>2. req'.st = "releasing"
  BY <1>1
<1>3. WellFed(dev) /\ ResidencyOK
  BY DEF LInv
<1>4. HostType(Idle)
  BY IdleType
<1>5. CASE ctl.phase = "denoise"
  <2>1. WellFed(dev') /\ Resident(dev') = {}
    BY <1>1, <1>3, <1>5, ReleaseAllWell
  <2> QED BY <1>1, <1>2, <1>4, <2>1, ResidencyGoesOn
<1>6. CASE ctl.phase # "denoise"
  BY <1>1, <1>2, <1>3, <1>6, RestGoesOn DEF Denoising, ResidencyOK
<1> QED BY <1>5, <1>6

\* After the phase of the transformer none of it is left, even if the release fails.
LEMMA PhaseEndsResides ==
  ASSUME LInv, MInv, ExitPhase \/ ReleaseFails
  PROVE  WellFed(dev)' /\ ResidencyOK'
<1>1. /\ req.st = "releasing" /\ DOMAIN req = {"no", "win", "next", "st", "why"}
      /\ DOMAIN adp = {"active", "closed", "dirty", "stuck", "used"}
      /\ UNCHANGED <<setup, dev, host>>
      /\ \/ req' = [req EXCEPT !.st = "failed", !.why = "release"]
         \/ req' = Left(req)
      /\ \/ adp' = [adp EXCEPT !.active = "none", !.used = @ \/ ctl.phase = "denoise"]
         \/ adp' = [adp EXCEPT !.active = "none", !.dirty = TRUE,
                               !.used = @ \/ ctl.phase = "denoise"]
  BY DEF ExitPhase, ReleaseFails, Fail, offloadVars, MInv, DriverOK, AdapterOK
<1>2. req'.st \in {"failed", "between", "done"}
  BY <1>1 DEF Left
<1>3. adp'.used = (adp.used \/ ctl.phase = "denoise")
  BY <1>1
<1>4. WellFed(dev) /\ ResidencyOK /\ ~Denoising
  BY <1>1 DEF LInv, Denoising
<1> QED BY <1>1, <1>2, <1>3, <1>4, RestGoesOn

\* Between the requests the device rests, and a shutdown empties it.
LEMMA RequestEndsResides ==
  ASSUME LInv, MInv, NextRequest \/ Shutdown
  PROVE  WellFed(dev)' /\ ResidencyOK'
<1>1. /\ req.st \in {"done", "failed"} /\ UNCHANGED <<setup, host>>
      /\ DOMAIN req = {"no", "win", "next", "st", "why"} /\ DOMAIN adp = {"active", "closed", "dirty", "stuck", "used"}
  BY DEF NextRequest, Shutdown, offloadVars, MInv, DriverOK, AdapterOK
<1>2. WellFed(dev) /\ ResidencyOK /\ ~Denoising /\ HostType(host) /\ host = Idle
  BY <1>1 DEF LInv, ResidencyOK, Denoising
<1>3. CASE NextRequest
  <2>1. req'.st = "between" /\ UNCHANGED <<dev, adp>>
    BY <1>3 DEF NextRequest, offloadVars
  <2> QED BY <1>1, <1>2, <2>1, RestGoesOn
<1>4. CASE Shutdown
  <2>1. req' = [req EXCEPT !.no = MaxRequests] /\ dev' = ReleaseAll(dev)
    BY <1>4 DEF Shutdown
  <2>2. req'.st = req.st
    BY <1>1, <2>1
  <2>3. WellFed(dev') /\ Resident(dev') = {}
    BY <1>2, <2>1, ReleaseAllWell
  <2> QED BY <1>1, <1>2, <2>2, <2>3, ResidencyGoesOn
<1> QED BY <1>3, <1>4

\* The transformer at work, on the host and on the device.
LEMMA WorkResides ==
  ASSUME LInv, Denoise \/ Device
  PROVE  WellFed(dev)' /\ ResidencyOK'
<1>1. setup \in Setups /\ WellFed(dev) /\ ResidencyOK /\ HostType(host)
  BY DEF LInv, TypesOK, ResidencyOK
<1>2. CASE Denoise
  <2>1. req.st = "inside" /\ ctl.phase = "denoise" /\ Forward /\ UNCHANGED <<ctl, adp, req>>
    BY <1>2 DEF Denoise, phaseVars
  <2>2. UNCHANGED setup
    BY <2>1 DEF Forward, BeginForward, PreHook, PrepareDone, RunBlock, BlockFails, WarmBlocks, WarmDone
  <2>3. Fits(dev, host)
    BY <1>1, <2>1 DEF ResidencyOK
  <2>4. WellFed(dev') /\ HostType(host') /\ Fits(dev', host')
    BY <1>1, <2>1, <2>3, ForwardFits
  <2> QED BY <2>1, <2>2, <2>4, ResidencyGoesOn
<1>3. CASE Device
  <2>1. Streams /\ UNCHANGED <<ctl, adp, req>>
    BY <1>3 DEF Device, phaseVars
  <2>2. /\ WellFed(dev') /\ Resident(dev') = Resident(dev) /\ UNCHANGED <<setup, host>>
        /\ Fits(dev, host) => Fits(dev', host')
    BY <1>1, <2>1, StreamsFit
  <2> QED BY <1>1, <2>1, <2>2, ResidencyGoesOn DEF ResidencyOK, Denoising
<1> QED BY <1>2, <1>3

\* Nothing of the residency changes.
LEMMA StillResides ==
  ASSUME LInv, VaeWrites \/ Ended \/ UNCHANGED vars
  PROVE  WellFed(dev)' /\ ResidencyOK'
<1>1. UNCHANGED <<setup, dev, host, ctl, adp, req>>
  BY DEF VaeWrites, Ended, vars, offloadVars, phaseVars
<1> QED BY <1>1, ResidencyGoesOn DEF LInv, ResidencyOK, Denoising

\* What the variables of the phases may be.
LEMMA TypesKept == TypesOK /\ MInv /\ [Next]_vars => TypesOK'
<1> SUFFICES ASSUME TypesOK, MInv, [Next]_vars PROVE TypesOK'
  OBVIOUS
<1>1. /\ req.next \in 1..5
      /\ DOMAIN ctl = {"phase", "acquired", "last"} /\ DOMAIN adp = {"active", "closed", "dirty", "stuck", "used"}
      /\ DOMAIN vae = {"mode", "loc", "lease", "changed", "replaced", "lost"}
      /\ vae.loc \in [Tensors -> {"cpu", "gpu"}]
  BY DEF MInv, DriverOK, ControllerOK, AdapterOK, DeviceOK, TypesOK
<1> DEFINE p == Phases[req.next]
<1>2. /\ p \in {Phases[k] : k \in DOMAIN Phases}
      /\ ComponentOf[p] \in {"none", "vae", "transformer", "text_encoder"}
  <2>1. DOMAIN Phases = 1..5
    BY DEF Phases
  <2> QED BY <1>1, <2>1, PhaseTable
<1>3. UNCHANGED setup
  BY DEF Next, EnterPhase, AcquireFails, VaeWrites, ForwardDone, ForwardRaises, BeginExit, ExitPhase,
         ReleaseFails, NextRequest, Shutdown, Denoise, Device, Ended, Forward, Streams, BeginForward,
         PreHook, PrepareDone, RunBlock, BlockFails, WarmBlocks, WarmDone, CopyStep, ComputeStep,
         vars, offloadVars
<1>4. ctl' = ctl \/ ctl'.phase = "none" \/ (EnterPhase /\ ctl'.phase = p)
  <2>1. CASE EnterPhase
    BY <1>1, <2>1 DEF EnterPhase, Entered
  <2>2. CASE ExitPhase
    BY <1>1, <2>2 DEF ExitPhase
  <2>3. CASE NextRequest
    BY <2>3 DEF NextRequest, NewController
  <2>4. CASE ~(EnterPhase \/ ExitPhase \/ NextRequest)
    BY <2>4 DEF Next, AcquireFails, VaeWrites, ForwardDone, ForwardRaises, BeginExit,
         ReleaseFails, Shutdown, Denoise, Device, Ended, vars, phaseVars
  <2> QED BY <2>1, <2>2, <2>3, <2>4
<1>5. adp'.active \in {adp.active, "none", ComponentOf[p]}
  BY <1>1 DEF Next, EnterPhase, Entered, AcquireFails, VaeWrites, ForwardDone, ForwardRaises, BeginExit,
       ExitPhase, ReleaseFails, NextRequest, Shutdown, Denoise, Device, Ended, vars, phaseVars
<1>6. vae'.loc \in [Tensors -> {"cpu", "gpu"}]
  <2>1. \A moved : VaeRelease(vae, moved).loc \in [Tensors -> {"cpu", "gpu"}]
    BY <1>1 DEF VaeRelease
  <2>2. \A phase : VaeUpload(vae, phase).loc \in [Tensors -> {"cpu", "gpu"}]
    BY <1>1 DEF VaeUpload
  <2>3. VaeWrites => vae'.loc = vae.loc
    BY <1>1 DEF VaeWrites
  <2>4. \/ vae' = vae \/ VaeWrites \/ (\E moved : vae' = VaeRelease(vae, moved))
        \/ \E phase : vae' = VaeUpload(vae, phase)
    BY DEF Next, EnterPhase, AcquireFails, ForwardDone, ForwardRaises, BeginExit,
       ExitPhase, ReleaseFails, NextRequest, Shutdown, Denoise, Device, Ended, vars, phaseVars
  <2> QED BY <1>1, <2>1, <2>2, <2>3, <2>4
<1>7. text' \in {text, "sharded", "forward"}
  BY DEF Next, EnterPhase, AcquireFails, VaeWrites, ForwardDone, ForwardRaises, BeginExit,
       ExitPhase, ReleaseFails, NextRequest, Shutdown, Denoise, Device, Ended, vars, phaseVars
<1> HIDE DEF p
<1> QED BY <1>2, <1>3, <1>4, <1>5, <1>6, <1>7 DEF TypesOK

\* The service starts with the first blocks on the device and the host at rest.
LEMMA ResidencyBegins == Init => LInv
<1> SUFFICES ASSUME Init PROVE LInv
  OBVIOUS
<1>1. /\ setup \in Setups /\ dev = Initialized /\ host = Idle
      /\ ctl = NewController
      /\ adp = [active |-> "none", closed |-> FALSE, dirty |-> FALSE, used |-> FALSE,
              stuck |-> FALSE]
      /\ vae = [mode |-> setup.vae, loc |-> [t \in Tensors |-> "cpu"], lease |-> {},
                changed |-> {}, replaced |-> {}, lost |-> {}]
      /\ text = "sharded"
      /\ req = [no |-> 1, win |-> 1, next |-> 1, st |-> "between", why |-> "none"]
  BY DEF Init, OffloadInit
<1>2. TypesOK
  BY <1>1 DEF TypesOK, NewController
<1>3. WellFed(dev) /\ Resident(dev) = FirstBlocks
  BY <1>1, InitializedWell
<1>4. HostType(host)
  BY <1>1, IdleType
<1>5. ~adp.used /\ req.st = "between"
  BY <1>1
<1> QED BY <1>1, <1>2, <1>3, <1>4, <1>5 DEF LInv, ResidencyOK, Denoising

\* Every step keeps the residency.
LEMMA ResidencyKept == LInv /\ MInv /\ [Next]_vars => LInv'
<1> SUFFICES ASSUME LInv, MInv, [Next]_vars PROVE LInv'
  OBVIOUS
<1>1. TypesOK'
  BY TypesKept DEF LInv
<1>2. WellFed(dev)' /\ ResidencyOK'
  BY EnterPhaseResides, AcquireFailsResides, ForwardEndsResides, BeginExitResides, PhaseEndsResides,
     RequestEndsResides, WorkResides, StillResides DEF Next
<1> QED BY <1>1, <1>2 DEF LInv

-----------------------------------------------------------------------------
\* Kernels that may start find their weights, which no copy that may start overwrites.
LEMMA WeightsStay == WellFed(dev) => WeightsInPlace
<1> SUFFICES ASSUME WellFed(dev), Ready(dev.compq)
             PROVE  LET op == Head(dev.compq)
                    IN  /\ op.buf # NoBuf /\ dev.content[op.buf] = op.layer
                        /\ Ready(dev.copyq) => Head(dev.copyq).buf # op.buf
  BY DEF WeightsInPlace
<1> DEFINE op == dev.compq[1]
<1>1. /\ dev.compq \in Seq(Op) /\ dev.copyq \in Seq(Op) /\ dev.compq # <<>>
      /\ \A k \in DOMAIN dev.compq : dev.compq[k].buf \in 1..Len(dev.content)
  BY DEF WellFed, ShapeOK, Ready
<1>2. 1 \in DOMAIN dev.compq /\ Head(dev.compq) = op /\ op.after = 0
  BY <1>1 DEF Ready
<1>3. op.buf # NoBuf
  BY <1>1, <1>2 DEF NoBuf
<1>4. PICK x \in 0..op.after :
        /\ Arrives(dev, op.layer, op.buf, x)
        /\ \A y \in DOMAIN dev.copyq : y > x /\ dev.copyq[y].buf = op.buf => dev.copyq[y].after >= 1
  BY <1>2 DEF WellFed, Fed
<1>5. x = 0 /\ dev.content[op.buf] = op.layer
  BY <1>2, <1>4 DEF Arrives
<1>6. ASSUME Ready(dev.copyq) PROVE Head(dev.copyq).buf # op.buf
  <2>1. 1 \in DOMAIN dev.copyq /\ Head(dev.copyq) = dev.copyq[1] /\ dev.copyq[1].after = 0
    BY <1>1, <1>6 DEF Ready
  <2> HIDE DEF op
  <2> QED BY <1>4, <1>5, <2>1
<1> QED BY <1>2, <1>3, <1>5, <1>6

\* The blocks that are resident in a phase, or between two, are bounded by the batches.
LEMMA BlocksStayBounded == LInv /\ MInv => BlocksBounded
<1> SUFFICES ASSUME LInv, MInv, req.st \in {"between", "inside"}
             PROVE  LET most == IF ctl.phase # "denoise" THEN IF adp.used THEN 0 ELSE PrefetchSize
                                ELSE IF host.bounded THEN PrefetchSize + 1 ELSE 2 * PrefetchSize
                    IN  Cardinality(Resident(dev)) <= most
  BY DEF BlocksBounded
<1> DEFINE p == PrefetchSize
<1>1. setup \in Setups /\ ResidencyOK /\ HostType(host) /\ p \in Nat \ {0}
  BY Sizes DEF LInv, TypesOK, ResidencyOK
<1> HIDE DEF p
<1>2. CASE ctl.phase # "denoise"
  <2>1. Resident(dev) \subseteq FirstBlocks /\ (adp.used => Resident(dev) = {})
    BY <1>1, <1>2 DEF ResidencyOK, Denoising
  <2>2. Cardinality(Resident(dev)) <= p
    <3> DEFINE f == [k \in 1..p |-> k - 1]
    <3>1. ASSUME NEW x \in Resident(dev) PROVE \E k \in 1..p : f[k] = x
      <4>1. x + 1 \in 1..p /\ f[x + 1] = x
        BY <1>1, <2>1 DEF FirstBlocks, p
      <4> QED BY <4>1
    <3>2. f = [k \in 1..p |-> f[k]]
      OBVIOUS
    <3> HIDE DEF f
    <3> QED BY <1>1, <3>1, <3>2, ImageBound
  <2>3. adp.used => Cardinality(Resident(dev)) = 0
    BY <2>1, FS_EmptySet
  <2> QED BY <1>2, <2>2, <2>3 DEF p
<1>3. CASE ctl.phase = "denoise"
  <2>1. req.st = "inside" /\ Fits(dev, host)
    BY <1>1, <1>3 DEF MInv, ControllerOK, ResidencyOK
  <2>2. CASE host.at \in {"idle", "warm"}
    <3>1. ~host.bounded
      BY <1>1, <2>2 DEF HostType
    <3>2. Resident(dev) \subseteq Window(0, 2 * p)
      BY <2>1, <2>2 DEF Fits, p
    <3>3. Cardinality(Resident(dev)) <= 2 * p - 0
      BY <1>1, <3>2, WindowBound
    <3> QED BY <1>1, <1>3, <3>1, <3>3 DEF p
  <2>3. CASE host.at \notin {"idle", "warm"} /\ host.bounded
    <3>1. /\ Resident(dev) \subseteq {host.plan[m] : m \in host.pos .. Min({Len(host.plan), host.pos + p})}
          /\ host.pos \in Nat /\ Len(host.plan) \in Nat
      <4>1. host.plan \in Seq(Layers) /\ host.pos \in DOMAIN host.plan
        BY <1>1, <2>3 DEF HostType
      <4>2. Resident(dev) \subseteq {host.plan[m] : m \in host.pos .. Min({Len(host.plan), host.pos + p})}
        BY <2>1, <2>3 DEF Fits, p
      <4>3. host.pos \in Nat /\ Len(host.plan) \in Nat
        BY <4>1
      <4> QED BY <4>2, <4>3
    <3> DEFINE f == [k \in 1..(p + 1) |-> host.plan[host.pos + k - 1]]
               last == Min({Len(host.plan), host.pos + p})
    <3>2. last <= host.pos + p /\ last \in Int
      <4>1. host.pos + p \in Int /\ Len(host.plan) \in Int
        BY <1>1, <3>1
      <4>2. last = IF Len(host.plan) <= host.pos + p THEN Len(host.plan) ELSE host.pos + p
        BY <4>1, MinOf
      <4> HIDE DEF last
      <4> QED BY <4>1, <4>2
    <3> HIDE DEF last
    <3>3. ASSUME NEW x \in Resident(dev) PROVE \E k \in 1..(p + 1) : f[k] = x
      <4>1. PICK m \in host.pos .. last : x = host.plan[m]
        BY <3>1 DEF last
      <4>2. m - host.pos + 1 \in 1..(p + 1) /\ host.pos + (m - host.pos + 1) - 1 = m
        BY <1>1, <3>1, <3>2
      <4>3. f[m - host.pos + 1] = host.plan[m]
        BY <4>2
      <4> QED BY <4>1, <4>2, <4>3
    <3>4. f = [k \in 1..(p + 1) |-> f[k]]
      OBVIOUS
    <3>5. p + 1 \in Nat
      BY <1>1
    <3> HIDE DEF f
    <3>6. Cardinality(Resident(dev)) <= p + 1
      BY <3>3, <3>4, <3>5, ImageBound
    <3> QED BY <1>3, <2>3, <3>6 DEF p
  <2>4. CASE host.at \notin {"idle", "warm"} /\ ~host.bounded
    <3>1. Resident(dev) \subseteq Window(Turn(host), Reach(host))
      BY <2>1, <2>4 DEF Fits
    <3>2. host.plan = AllLayers /\ host.pos \in Nat \ {0} /\ Turn(host) \in Nat /\ Turn(host) = host.pos - 1
      BY <1>1, <2>4, AllLayersFacts, Sizes DEF HostType, Turn
    <3>3. Reach(host) \in Nat /\ Turn(host) <= Reach(host) /\ Reach(host) - Turn(host) <= 2 * p
      <4>1. CASE host.at \in {"run", "failed"}
        <5>1. Reach(host) = Base(Turn(host)) + 2 * p
          BY <4>1 DEF Reach, p
        <5>2. Base(Turn(host)) \in Nat /\ Base(Turn(host)) <= Turn(host) /\ Turn(host) < Base(Turn(host)) + p
          BY <1>1, <3>2, BaseFacts DEF p
        <5> QED BY <1>1, <3>2, <5>1, <5>2
      <4>2. CASE host.at \notin {"run", "failed"} /\ host.pos = 1
        <5>1. Reach(host) = 2 * p
          BY <4>2 DEF Reach, p
        <5> QED BY <1>1, <3>2, <4>2, <5>1
      <4>3. CASE host.at \notin {"run", "failed"} /\ host.pos # 1
        <5>1. PICK j \in Nat : j = Turn(host) - 1
          BY <3>2, <4>3
        <5>2. Reach(host) = Base(j) + 2 * p
          BY <4>3, <5>1 DEF Reach, p
        <5>3. Base(j) \in Nat /\ Base(j) <= j /\ j < Base(j) + p
          BY <1>1, BaseFacts DEF p
        <5> QED BY <1>1, <3>2, <5>1, <5>2, <5>3
      <4> QED BY <4>1, <4>2, <4>3
    <3>4. Cardinality(Resident(dev)) <= Reach(host) - Turn(host)
      BY <3>1, <3>2, <3>3, WindowBound
    <3>5. Cardinality(Resident(dev)) <= 2 * p
      <4>1. IsFiniteSet(Resident(dev)) => Cardinality(Resident(dev)) \in Nat
        BY FS_CardinalityType
      <4>2. IsFiniteSet(Resident(dev))
        BY <1>1, ResidentFinite
      <4> QED BY <1>1, <3>2, <3>3, <3>4, <4>1, <4>2
    <3> QED BY <1>3, <2>4, <3>5 DEF p
  <2> QED BY <2>2, <2>3, <2>4
<1> QED BY <1>2, <1>3

\* The layerwise offload of any depth, prefetch size and number of forward passes never
\* runs a block on other weights than its own, whatever the streams do first, and keeps no
\* more blocks on the device than two batches, or one and the running block in a plan.
THEOREM LayersAlwaysResident == Spec => []LayersResident
<1>1. LInv /\ MInv => LayersResident
  <2> SUFFICES ASSUME LInv, MInv PROVE LayersResident
    OBVIOUS
  <2>1. MemoryTypeOK
    <3>1. TypesOK /\ ShapeOK(dev) /\ HostType(host)
      BY DEF LInv, WellFed, ResidencyOK
    <3>2. dev.content \in Seq({-1} \cup Layers) /\ dev.buf \in [Layers -> {NoBuf} \cup DOMAIN dev.content]
      <4>1. 0..Len(dev.content) = {NoBuf} \cup DOMAIN dev.content
        BY <3>1, ShapeFacts DEF NoBuf
      <4> QED BY <3>1, <4>1 DEF ShapeOK
    <3>3. req.st \in {"between", "inside", "leaving", "releasing", "done", "failed"}
      BY DEF MInv, DriverOK, Between, Within
    <3> QED BY <3>1, <3>2, <3>3 DEF MemoryTypeOK, TypesOK, HostType
  <2>2. WeightsInPlace
    BY WeightsStay DEF LInv
  <2>3. BlocksBounded
    BY BlocksStayBounded
  <2> QED BY <2>1, <2>2, <2>3 DEF LayersResident
<1> QED BY PhasesBegin, PhasesGoOn, ResidencyBegins, ResidencyKept, <1>1, PTL DEF Spec

=============================================================================
