---------------------------- MODULE LayerOffload ----------------------------
(***************************************************************************)
(* The layerwise offload of the transformer (memory/backends/              *)
(* layerwise_offload.py): block weights live on the CPU, a copy stream     *)
(* brings them to the device ahead of the compute stream, hooks around     *)
(* every block prefetch the blocks to come and release the block that ran. *)
(*                                                                         *)
(* The host only ISSUES work: the two CUDA streams (external) run it later *)
(* and in an order only waits constrain.  A stream is the queue of its     *)
(* pending operations; an operation's `after` counts how many pending      *)
(* operations of the other stream must finish before it may run.  A device *)
(* buffer that the host drops goes back to the allocator at once and the   *)
(* next prefetch may overwrite it, whatever the compute stream still reads.*)
(***************************************************************************)
EXTENDS Integers, Sequences, FiniteSets, FiniteSetsExt

CONSTANTS Setups,       \* [layers, prefetch, vae]: depth, prefetch size, VAE mode
          MaxForwards,  \* bound: forwards of the transformer in one phase
          MaxFaults     \* bound: failing steps in one behaviour

ASSUME SetupsAssumption ==
    Setups \subseteq [layers : Nat \ {0}, prefetch : Nat \ {0},
                      vae : {"full", "split", "cached"}]
ASSUME OffloadBounds == MaxForwards \in Nat /\ MaxFaults \in Nat

VARIABLES setup,   \* the settings of this pipeline
          dev,     \* buffers, streams and events of the device
          host,    \* where the forward pass of the transformer is
          faults   \* failing steps so far

offloadVars == <<setup, dev, host, faults>>

Layers == 0 .. setup.layers - 1
NoBuf == 0
PrefetchSize == IF setup.prefetch < setup.layers THEN setup.prefetch ELSE setup.layers
Less(n) == IF n = 0 THEN 0 ELSE n - 1

Resident(d) == {i \in Layers : d.buf[i] # NoBuf}

----------------------------------------------------------------------------
(* The device. *)

EmptyDevice ==
    [buf |-> [i \in Layers |-> NoBuf],  \* what target.data of a block points to
     content |-> <<>>,                  \* the block whose weights each buffer holds
     recorded |-> {},                   \* buffers record_stream marked
     held |-> <<>>,                     \* computes a dropped marked buffer waits for
     copyq |-> <<>>, compq |-> <<>>,    \* pending work of the two streams
     compWait |-> 0]                    \* copies the next compute must wait for

(* The allocator, external, gives a dropped buffer out again before it     *)
(* takes a new one; which of them is its own affair.                       *)
FreeBufs(d) == {b \in DOMAIN d.content : d.held[b] = 0 /\ \A i \in Layers : d.buf[i] # b}
NextBuf(d) == IF FreeBufs(d) = {} THEN Len(d.content) + 1 ELSE CHOOSE b \in FreeBufs(d) : TRUE
Allocated(d) ==
    IF FreeBufs(d) # {} THEN d
    ELSE [d EXCEPT !.content = Append(@, -1), !.held = Append(@, 0)]

Mut_Prefetch(d, i) ==
    IF i \in Resident(d) THEN d
    ELSE LET b == NextBuf(d)
         IN  [Allocated(d) EXCEPT !.buf[i] = b,
                                  !.recorded = @ \ {b},
                                  !.copyq = Append(@, [layer |-> i, buf |-> b, after |-> 0])]

(* prefetch_layer: nothing if the block is already there; otherwise the   *)
(* copy stream first waits for the compute issued so far, then copies.    *)
Prefetch(d, i) ==
    IF i \in Resident(d) THEN d
    ELSE LET b == NextBuf(d)
         IN  [Allocated(d) EXCEPT !.buf[i] = b,
                                  !.recorded = @ \ {b},
                                  !.copyq = Append(@, [layer |-> i, buf |-> b,
                                                       after |-> Len(d.compq)])]

PrefetchAll(d, layers) ==
    LET after[n \in 0 .. Len(layers)] ==
            IF n = 0 THEN d ELSE Prefetch(after[n - 1], layers[n])
    IN  after[Len(layers)]

(* current_stream.wait_event(_prefetch_events[i]); the event of a block is *)
(* kept exactly as long as the block is resident.                          *)
CopiesUpTo(d, i) ==
    LET at == {k \in DOMAIN d.copyq : d.copyq[k].layer = i /\ d.copyq[k].buf = d.buf[i]}
    IN  IF at = {} THEN 0 ELSE Max(at)
WaitEvent(d, i) == [d EXCEPT !.compWait = Max({@, CopiesUpTo(d, i)})]
WaitCopies(d) == [d EXCEPT !.compWait = Len(d.copyq)]
RecordStream(d, i) == [d EXCEPT !.recorded = @ \cup ({d.buf[i]} \ {NoBuf})]

(* release_layer: the event and the reference to the buffer go. *)
Release(d, i) ==
    LET b == d.buf[i]
    IN  IF b = NoBuf THEN d
        ELSE [d EXCEPT !.buf[i] = NoBuf,
                       !.held[b] = IF b \in d.recorded THEN Len(d.compq) ELSE 0]

(* release_all: compute waits for the copies, then every block is dropped. *)
ReleaseAll(d) ==
    [WaitCopies(d) EXCEPT
        !.buf = [i \in Layers |-> NoBuf],
        !.held = [b \in DOMAIN @ |->
                     IF \A i \in Layers : d.buf[i] # b THEN @[b]
                     ELSE IF b \in d.recorded THEN Len(d.compq) ELSE 0]]

(* The kernels of one block: they read the buffer its weights point to now. *)
Launch(d, i) ==
    [d EXCEPT !.compq = Append(@, [layer |-> i, buf |-> d.buf[i], after |-> d.compWait]),
              !.compWait = 0]

----------------------------------------------------------------------------
(* The streams, external: each runs its operations in order, an operation  *)
(* starts once the operations of the other stream it waits for are done.   *)

Ready(q) == q # <<>> /\ Head(q).after = 0
Closer(q) == [k \in DOMAIN q |-> [q[k] EXCEPT !.after = Less(@)]]

(* With nothing pending and nothing resident, what the free buffers hold   *)
(* matters to nobody.                                                      *)
Settled(d) ==
    IF d.copyq = <<>> /\ d.compq = <<>> /\ d.compWait = 0 /\ Resident(d) = {}
    THEN EmptyDevice ELSE d

CopyStep ==
    /\ Ready(dev.copyq)
    /\ dev' = Settled([dev EXCEPT !.content[Head(dev.copyq).buf] = Head(dev.copyq).layer,
                                  !.copyq = Tail(@),
                                  !.compq = Closer(@),
                                  !.compWait = Less(@)])
    /\ UNCHANGED <<setup, host, faults>>

ComputeStep ==
    /\ Ready(dev.compq)
    /\ dev' = Settled([dev EXCEPT !.compq = Tail(@),
                                  !.copyq = Closer(@),
                                  !.held = [b \in DOMAIN @ |-> Less(@[b])]])
    /\ UNCHANGED <<setup, host, faults>>

Drained == dev.compq = <<>> /\ dev.compWait = 0

----------------------------------------------------------------------------
(* The host: one forward pass at a time.  plan = <<>> is the wraparound    *)
(* mode over all blocks; otherwise the blocks of an execution plan.        *)

Idle == [at |-> "idle", plan |-> <<>>, bounded |-> FALSE, pos |-> 0, forwards |-> 0]

AllLayers == [k \in 1 .. setup.layers |-> k - 1]
Block == host.plan[host.pos]

(* The batch prefetch of the wraparound mode. *)
Ahead(i) == [k \in 1 .. PrefetchSize |-> (i + PrefetchSize + k - 1) % setup.layers]

(* prepare_for_next_req: the first blocks, without waiting for them. *)
Prepare(d) == PrefetchAll(d, SubSeq(AllLayers, 1, PrefetchSize))

(* A forward without a residual cache runs every block; with one, the     *)
(* blocks a cache decision asks for, each time inside an execution plan    *)
(* that drops what is resident first.  Plans are contiguous ranges: the    *)
(* probe of block 0, the front blocks, the rest.                           *)
BeginForward ==
    /\ host.at = "idle"
    /\ host.forwards < MaxForwards
    /\ \/ /\ host' = [host EXCEPT !.at = "pre", !.plan = AllLayers, !.bounded = FALSE,
                                  !.pos = 1, !.forwards = @ + 1]
          /\ dev' = dev
       \/ \E first, last \in Layers :
             /\ first <= last
             /\ host' = [host EXCEPT !.at = "pre", !.bounded = TRUE, !.pos = 1,
                                     !.plan = SubSeq(AllLayers, first + 1, last + 1),
                                     !.forwards = @ + 1]
             /\ dev' = ReleaseAll(dev)
    /\ UNCHANGED <<setup, faults>>

(* The pre-hook inside a plan: this block, then the next ones of the plan. *)
PlanPreHook(d, plan, pos) ==
    LET here == RecordStream(WaitEvent(Prefetch(d, plan[pos]), plan[pos]), plan[pos])
    IN  PrefetchAll(here, SubSeq(plan, pos + 1, Min({pos + PrefetchSize, Len(plan)})))

(* The pre-hook of the wraparound mode, after the blocking part of block 0. *)
WrapPreHook(d, i) ==
    LET here == WaitEvent(d, i)
    IN  IF i % PrefetchSize = 0 THEN PrefetchAll(here, Ahead(i)) ELSE here

PreHook ==
    /\ host.at = "pre"
    /\ IF host.bounded
       THEN /\ dev' = PlanPreHook(dev, host.plan, host.pos)
            /\ host' = [host EXCEPT !.at = "run"]
       ELSE IF Block = 0 /\ Prepare(dev) # dev
       THEN /\ dev' = Prepare(dev)
            /\ host' = [host EXCEPT !.at = "sync"]
       ELSE /\ dev' = WrapPreHook(IF Block = 0 THEN WaitCopies(dev) ELSE dev, Block)
            /\ host' = [host EXCEPT !.at = "run"]
    /\ UNCHANGED <<setup, faults>>

(* Block 0 of the wraparound mode copies with non_blocking=False: the host *)
(* continues when the copies it issued are done.                           *)
PrepareDone ==
    /\ host.at = "sync"
    /\ dev.copyq = <<>>
    /\ dev' = WrapPreHook(WaitCopies(dev), Block)
    /\ host' = [host EXCEPT !.at = "run"]
    /\ UNCHANGED <<setup, faults>>

EndOf(d, h) == IF h.bounded THEN ReleaseAll(d) ELSE d

(* The block runs and its post-hook releases it; after the last block the  *)
(* plan, if any, releases everything.                                      *)
RunBlock ==
    /\ host.at = "run"
    /\ LET ran == Release(Launch(dev, Block), Block)
           last == host.pos = Len(host.plan)
       IN  /\ dev' = IF last THEN EndOf(ran, host) ELSE ran
           /\ host' = IF last THEN [Idle EXCEPT !.forwards = host.forwards]
                              ELSE [host EXCEPT !.at = "pre", !.pos = @ + 1]
    /\ UNCHANGED <<setup, faults>>

(* A block raises: no post-hook runs, a plan still releases everything. *)
BlockFails ==
    /\ host.at = "run"
    /\ faults < MaxFaults
    /\ faults' = faults + 1
    /\ dev' = EndOf(Launch(dev, Block), host)
    /\ host' = [host EXCEPT !.at = "failed"]
    /\ UNCHANGED setup

(* prepare_block_compile borrows one block after the other (layer_residency) *)
(* to warm its feed-forward part, then releases everything.                *)
BorrowBlock(d, i) ==
    Release(Launch(RecordStream(WaitEvent(Prefetch(d, i), i), i), i), i)
BorrowAll(d) ==
    LET after[n \in 0 .. setup.layers] ==
            IF n = 0 THEN d ELSE BorrowBlock(after[n - 1], n - 1)
    IN  after[setup.layers]
WarmBlocks ==
    /\ host.at = "idle"
    /\ host.forwards = 0
    /\ dev' = ReleaseAll(BorrowAll(dev))
    /\ host' = [host EXCEPT !.at = "warm"]
    /\ UNCHANGED <<setup, faults>>
WarmDone ==
    /\ host.at = "warm"
    /\ Drained
    /\ host' = [host EXCEPT !.at = "idle"]
    /\ UNCHANGED <<setup, dev, faults>>

(* _initialize copies the weights to the CPU and leaves the first blocks   *)
(* loaded for the first request.                                           *)
Initialized ==
    LET d == Prepare(EmptyDevice)
    IN  [d EXCEPT !.copyq = <<>>,
                  !.content = [b \in DOMAIN @ |->
                                   IF \E i \in Layers : d.buf[i] = b
                                   THEN CHOOSE i \in Layers : d.buf[i] = b ELSE -1]]

OffloadInit ==
    /\ setup \in Setups
    /\ dev = Initialized
    /\ host = Idle
    /\ faults = 0

Streams == CopyStep \/ ComputeStep
Forward == BeginForward \/ PreHook \/ PrepareDone \/ RunBlock \/ BlockFails \/ WarmBlocks \/ WarmDone

=============================================================================
