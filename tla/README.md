# A TLA+ model of EraserDiT

EraserDiT removes objects from videos.  A request names a video, a mask video
and the objects to erase; the video is cut into overlapping windows, every
window goes through a diffusion transformer, and the results are spliced,
blended and encoded again.  It runs as a command-line program and as an HTTP
service that keeps the model resident on one or several GPUs.

The arithmetic of the program (weights, kernels, precision) is not what a model
checker can judge.  What it can judge is everything that decides *which* frames
are computed, *when* they are written, *who* may cancel what, what happens when
one of several threads, ranks or processes fails, and whether a computation that
is cut into pieces (sequence shards, tiles, rows, chunks) is the computation in
one piece.  That is what is modelled here.

## Inventory

| Component | State it keeps | Operations | Partners | What is hard |
|---|---|---|---|---|
| `entrypoints/server` scheduler, task store, worker group | task records, queue, active task, watchdogs, cancellation token, fatal error, artifact directories | create, delete, run loop, watchdog, shutdown, retention | event loop, scheduler thread, watchdog threads, main thread, peer ranks, result storage | interleavings of four kinds of threads over two locks; cancellation against publication; failing collectives and file operations |
| `pipelines/runtime` windowed driver | per object: input, output and overlap cache, frontiers, next window; shared mask cache; next frame to write | prime, select, skip or run a window, forward, flush, evict, finish | readers, executor, writer | eviction against later needs, order of forwarding, tails and scene cuts, bounded memory |
| `utils/video_io` readers, caches, writer | frame caches, decoder and encoder processes, the writer's queue and thread | read, append, slice, pop, enqueue, close | ffmpeg processes, the driver | an encoder that dies while frames are queued; closing without losing the error |
| `pipelines/runtime/windowing`, `nodes/control.py`, `parallel/stage_policy.py`, `entrypoints/server/worker.py`: the ranks of a group | current command, pending error, cancellation flag, result of the last window | RUN, NOOP, SHUTDOWN; RUN/SKIP/END of a window; checkpoints, error boundaries, commit broadcast | all ranks of the worker group | every rank must reach the same collective, also after an error |
| `pipelines/runtime/dit_executor.py` process pool | worker processes, pipes, phase of a call | start, call, predict, close | child processes | timeouts, a child that dies, late answers |
| `models/adapters/eraserdit/mesh.py` device mesh | a thread per device, a barrier and shared slots per group, replicas | enter, submit, collect, abort, close | threads, residual caches | reuse of a slot, a thread that fails inside an exchange |
| `cache` | residuals, counters, decision of the step | begin step, decide, store, reuse, reset | ranks and devices (consensus) | ranks that decide differently; stale residuals |
| `memory` | residency of layers and components, phases, leases | prefetch, wait, release, enter and leave phases | CUDA streams, hooks, the driver | release of what is being copied; recovery after a failed phase |
| `parallel/runtime.py`, `distributed` | process groups, published contexts | initialise, warm up, destroy | torch.distributed | a failure between two groups; order of creation |
| `parallel/vae_parallel.py` | plan, tiles under way, error flags | execute a plan in rounds | owner and ranks of the VAE group | a rank that fails in the middle of a round; padding |
| `parallel/sequence_sharding.py`, `layers/attention`, `nccl_sequence.py`, `models/vaes` | none: results of arguments | partition, exchange, tile, gather | all ranks | unequal shards, seams, rounding |
| `pipelines/stages`, `utils/eraserdit_mask.py` | tail of the previous window, text caches | preprocess, encode, denoise, decode, commit | the windowed driver | frames, latents and masks are counted in different places |
| `config` | values | validate at start, advertise, admit, run | server, client | checks at four moments must agree |
| `loader`, `utils` (logging, timing, profiles) | values | load, format | | no protocol of their own |

`PROJECT.json` lists the same components with their sources and status, and
under `hazards` the places in the code where something can go wrong that a unit
test would hardly reach; the properties below are aimed at them.

## Modules

    TaskStore  <-  ServiceScheduler  <-  ServiceProperties  <-  MCServiceScheduler
                                          |   |
                        TaskContract  <---+   +--  ServiceProofs
    WindowPlan  <-  ObjectChain  <-  MCObjectChain
                                 <-  ChainProofs
    WindowPlan  <-  FrameStore  <-  MCFrameStore
    FrameSink  <-  VideoWriter
    FrameStore, VideoWriter  <-  FrameProofs
    ProcessPool  <-  PoolProofs
    RankProtocol  <-  MCRankProtocol
                  <-  RankProofs
    PeerMesh  <-  MCPeerMesh
              <-  MeshProofs
    LayerOffload  <-  MemoryPhases  <-  MCMemoryPhases
                                    <-  MemoryProofs
    GroupTopology  <-  GroupRuntime  \
                           VaePlan  -+-  VaeEngine  <-  ParallelSession  <-  MCParallelSession
                                                                         <-  SessionProofs
    Computations  <-  ComputationProperties  <-  MCComputations
       instances of: UspAttention, SequenceShards (both on TensorLayout), VaeNetwork,
       VaeTiles, VaePlan, GuidancePair (on GroupTopology and SequenceShards),
       Admission (on DiTTopology), WindowStages (on WindowPlan)

`A <- B` reads "B extends A", or has an instance of it (`TaskContract`,
`FrameSink`).  A `Mut_` definition before an operator is that operator with a
plausible bug; it takes the operator's place when a property is tested for whether
it would notice.

### The service

* `TaskStore` is `task.py` and `task_store.py`: the record of a task, its
  allowed transitions, and the operations of the table, each of which is one
  critical section of the table's lock and therefore one operator.
* `ServiceScheduler` has one action per critical section or per unlocked step
  of `scheduler.py`, `worker.py` (the owner rank), `storage.py` and the two
  routes of `video_api.py` that change state.  The variables keep the source's
  names (`queue`, `accepting`, `active`, `token`, ...); `sched`, `api`, `main`
  and `creating` are the program counters of the scheduler thread, of the event
  loop inside `cancel_or_purge`, of the main thread inside `shutdown`, and of
  each upload.  `unlisted` is a history variable.  `Faults` selects
  the environment: `"collective"` lets the process group break, `"filesystem"`
  lets removals and publications fail wherever they are made, also in the middle
  of a sweep (`SweepBreaks`) or of a drain (`DrainBreaks`), which then leaves the
  tasks behind the one it failed at QUEUED and in no queue.  Whether a failed run is
  fatal is decided by the text of its error, so `RunFailsFatally` needs no broken group.
* `TaskContract` is what a client may rely on: one small automaton per task.
  `ServiceProperties!Contract` is the refinement mapping: it projects a record
  to its stage and to the decision (cancel or commit) that has been taken.

### The object chain

`ObjectChain` is the rank that owns the video.  A frame is its index and the
set of objects already erased from it; a mask frame is the set of objects still
to be erased.  `BuildWindowSpecs` is the plan of `utils/windowing.py`, the
caches are sequences with a start index as in `utils/video_io.py`, and an
iteration of the driver's loop is one action: `PrimesSource`, `SkipsWindow`,
`RunsWindow` or `FindsNoneReady`, each including the forwarding to the next
object, the finalisation of the step, the flush, the eviction and the release of
the mask that the code performs before it looks for the next window.  Every
check that raises in the code is a disjunct of `CommitRefused` or `SkipRefused`,
so that "it never raises" is something TLC can refute.  The three modes are
preloading, streaming to a writer, and streaming with the result kept in memory.

### The video writer

`VideoWriter` is `SequentialVideoWriter` with its two callers.  Three parties
interleave: the driver (`driver`, its program counter, and `batch`, what it is
handing over), the writer's thread (`thread`, `asyncItem`) and the encoder, which may
die or refuse at any time.  `Depths` contains 0, the direct mode without a
thread.  Each `Queue.put`, `Queue.get`, write to the pipe and part of
`_wait_and_collect_stderr` that another party can observe is an action of its
own.  Blocks are numbers, an item is the interval of the blocks it holds.  Its names
differ from those of `FrameStore` (`asyncQueue` is the writer's queue, `piped` what has
gone through the pipe), since `FrameProofs` is about both modules.
`FrameSink` is the promise: frames are delivered in order, and the verdict
"saved" is given only when everything accepted has been delivered and the
encoder has finished the file.

### The process pool

`ProcessPool` is `DiTProcessPool`, `DiTProcessWindow` and the command loop of
the ranks.  The owner sends to one rank per step (`turn`), so that a failure in
the middle of a broadcast leaves a real state behind.  `log` is the sequence of
collectives a rank has entered; a collective completes according to what it is
(a barrier needs everybody, a broadcast needs rank 0, a gather needs everybody
at rank 0 only), which lets peers lag behind and run ahead as the real ones do.
`Fails` is an exception, which is reported through the pipe, `Ends` a process
that is killed or crashes and says nothing.

### Buffers of a streamed request

`ObjectChain` treats a frame as a value.  `FrameStore` puts it into a buffer that
several holders may see, because options of the runtime replace copies by
transfers of ownership: `borrow_head` generates the first window into the decoded
input itself (a loan), `uint8` caches are views where BF16 caches are new
tensors, a decoded chunk may be handed off whole, and the mask scan may give its
decoder and the frames it has already read to the request.  `store` is the heap
and the four caches, `hand` what the driver holds, `queue` and `item` what the
writer's thread has still to read, `written` what it has read.  The heap only
grows: a buffer is never used again for something else, and the memory a request
needs is what the caches refer to.  The actions follow `prepare` (the readers, the scan, the writer),
then per window `materializer.py`, `commit_ops.py` and `streaming.py`, then the
close of everything in `context.py`.  The writer's thread reads a buffer at an
arbitrary later moment.

### The ranks of a group

`RankProtocol` is the command loop of the resident ranks around the window
protocol of one request.  Each rank works towards a `place`, the next collective
of its control flow, and then waits there (`ready`); `Meet` lets all ranks
through when every one of them waits.  The places are those of the source: the
command broadcast, the checkpoints of `nodes/control.py`, the stage boundaries of
`parallel/stage_policy.py`, the window commands of `sp_dispatch.py`, the five
collectives of a synchronised commit, and the barriers at the end.  The three
modes are what `sp_contract` distinguishes: every rank plans for itself
(`replicated`), every rank plans and the writer's patch is broadcast
(`commit_sync`), only the writer plans (`writer_owned`).  Failures come in three
kinds: carried by a boundary to all ranks, inside the denoising loop, and outside
every boundary (`Escapes`; in `writer_owned` also while the writer sets up its
context before the first command).  The history variable `struck` records the last two, and
the fatal ones, which end the rank's process.  `Exposed`
says that one has struck some ranks and not others, or that the writer alone
scans masks for exact caches; from then on the ranks may wait in different
collectives until the process group's timeout, which is what a comment at
`worker.py:196` says of it, and the properties of the run say nothing more.

### The device mesh and the residual caches

`PeerMesh` is the other way to use several devices: one process, a thread per
device.  A device's forward is a sequence of exchanges over `PeerExchange`, a
barrier and slots, each of which is arrive, read, arrive again; a thread may
fail or time out at any of them, and the window's owner aborts every barrier,
joins the threads, and closes caches and replicas.  The residual caches
(TeaCache and Cache-DiT) run on every device inside that sequence: what a device
measures is arbitrary, what it does with it is the code's decision, taken
together over the same exchange.  A residual is the step that computed it.

### Memory

`LayerOffload` is the transformer whose blocks live on the CPU.  The host only
issues work; a copy stream and a compute stream are queues that run it later, in
an order that only waits on events constrain, and a buffer the host drops can be
overwritten by the next copy.  The allocator (external) gives out any buffer nothing
refers to, and takes a new one only if there is none.  `MemoryPhases` puts the phases of a window around
it: acquire a component, run the stage, release it, with the leases of the VAE in
its three residency modes and the recovery of an adapter that outlives a failed
request.  A fault of an acquire may strike in its last call, `_record`, after the
adapter has been marked as taken; `adp.stuck` remembers that.

### Process groups and the parallel VAE

`GroupTopology` says which ranks form which group, `GroupRuntime` how every rank
creates the groups one after another and destroys them, `VaePlan` what a plan of
tiles may be (with its wire format), and `VaeEngine` how all ranks execute one:
each walks through the same script of bodies, each body followed by an all_gather
of error flags, so that a rank that has failed still takes part.  Tiles travel
point to point, over a transport that may or may not buffer them.  One end of a
transfer, or of the broadcast of the plan, may fail before its part is done
(`TransferFails`: a buffer that cannot be allocated, a call or a wait that raises); it
goes on to the all_gather, and its partner waits in the transfer until the group's
timeout ends that wait with an error, too (`Deserted`, `TimesOut`).  What is allocated
outside every `try` lets a rank leave without a flag (`Escapes`, placed before the body of
the step); the others, who wait for it in a transfer or in the all_gather, get an
error from the transport (`LosesPeer`).  The owner of a broadcast does not wait for its
receivers.
`ParallelSession` composes the two in the order of `serve.main` and
`erase_eraserdit.main`, a `try ... finally` around the work.

### Computations

Much of the code computes a result and keeps nothing.  `Computations` has one
kind of job per such part; a behaviour is one call, and a property compares its
outcome with a definition that knows nothing of the pieces:

* `UspAttention`, the attention over Ulysses and ring ranks (unequal shards,
  head and sequence exchanges, chunked overlap, streaming softmax), and
  `SequenceShards`, the sharded attention layer with its padding and masks, both
  on the index arithmetic of `TensorLayout`.  A tensor element is its coordinates;
  attention is the set of keys a query has seen, each once.
* `VaeNetwork`, the VAE as receptive fields: an output is the set of the inputs
  it depends on, in one piece, in temporal chunks with causal caches, or split in
  height with halos.  `VaeTiles` is spatial and temporal tiling: the tiles that
  make up an output, their blend ramps, and the crop.
* `DiTTopology`, the order in which ranks warm up the transformer's groups, and
  `GuidancePair`, the two branches of guidance on two groups.
* `Admission`, the checks of a server's configuration when it is advertised, at
  start, with a request, and when the forward pass runs.
* `WindowStages`, the frames, latents, mask latents and the carried tail of
  successive windows, the schedule of noise levels, and the text caches.
* `VaePlan`, the plan's validation and its encoding for broadcast.

## Runs

| Run | Instance | What it shows |
|---|---|---|
| `service_safety` | 3 tasks, queue of 2, both storages, no faults (3.9 million states) | `QueueSound`, `SignalHitsRequestedTask`, `CancelCommitExclusive`, `FilesMatchOutcome` (a completed task has its result, an ended one leaves nothing else), `StartsInOrder`; `LimboOnlyByRace`: the thread dies, and a task stays unfinished, only in the race that `scheduler_survives` shows |
| `service_faults` | 2 tasks, queue of 2, both storages, breaking group and failing files, fair threads (1.0 million) | the service refines `TaskContract`; `ServiceEnds`: every accepted task ends while the thread lives, unless a shutdown that could not remove a file has left it behind (`Stranded`), and shutdown does not wait for ever |
| `scheduler_survives` | 1 task | *violation*: a DELETE between pop and start kills the scheduler thread |
| `chain_scenes` | 2 objects, 12 frames, window 3, overlap 2, nine scene lists, six visibilities, three modes | `ChainInOrder`, `FinishedIsWhole` (nothing truncated, objects erased where they are visible), `FailuresExplained` (the driver raises only on scene lists that explain it), `BoundedCaches`, `StepsMakeProgress` |
| `frame_store` | 9 frames, 3 windows of 4 with overlap 1, every combination of the options (37,000) | `InputsSound` (raw input is never overwritten through a shared buffer, the mask is the window's, the threshold is the whole mask's, evicted memory is free), `WrittenAsPlanned` (the late writer reads what the plan says, `ShownBy`), `RequestEnds` with every decoder closed |
| `video_writer` | depths 0, 1 and 2, 6 blocks in batches of 1 or 2, fair threads | `EncoderSound`, refinement of `FrameSink`, `CallsReturn` |
| `process_pool` | 3 ranks, 2 windows of 2 steps, both transports, faults everywhere, fair processes | `CallsMatched` (answers belong to calls, ranks agree on collectives, a window uses its own conditions), `MemoryGivenBack`, `EveryCallReturns` without the timeouts |
| `rank_protocol` | 2 ranks, 3 plans, 3 modes, 1 request, 1 failure (525,000) | `RanksTogether`, `OneWindowResident`, `EveryRankReturns` |
| `peer_mesh` | 2 to 4 devices, both caches and none, 1 failure (402,000) | `ExchangesPair`, `ReuseAgrees` (equal caches, bounded reuse, honest report), `WindowEnds` |
| `memory_phases` | depth 3 or 2, prefetch 1, 2 or 3, the three VAE modes, 2 requests, 1 failure (5.5 million) | `LayersResident` (a block computes with its own weights), `PhasesHeal` (one component at a time, no update lost, the next request is not refused unless the record of an acquire failed) |
| `parallel_session` | 4 ranks, 2 jobs, 2 plans of 2 rounds, 1 failure of a step of the set-up or take-down, of a body, of an end of a transfer or of an allocation (418,000) | `NothingLeaks`, `RanksEndAlike` (same collectives, tiles merged once, all succeed or none), `SessionEnds`: every rank gets out, by a timeout if need be |
| `computations` | 47,000 calls of every shape the code distinguishes | `AttentionIsPlain`, `VaeIsPlain`, `GroupsWork`, `AdmissionIsHonest`, `WindowsExact`, `TextBelongs` |

### Bounds and why they are enough

*Service.*  Two tasks are needed for everything that relates the running task to
another one (a token that outlives its task, a file that is removed for the
wrong one); the third gives a queue of two, so that a removal from the middle and
a full queue happen.  The run with faults has two tasks that may both be queued, so
that a drain can fail at the first and strand the second.  `MaxTerminalTasks = 1` makes retention act at once.  Task
identifiers are interchangeable, hence the symmetry in the safety run; the run
with liveness does without.  Deadlock is not checked there: a service that has
been shut down stops.

*Chain.*  Twelve frames with windows of three that overlap by two are ten windows
per object: first, middle and last ones, tails shorter than the overlap, scene
cuts inside and between windows, and a video four times the window, longer than
`BoundedCaches` allows a cache to be.  The second object is always one window
behind the first.

*Writer.*  Six blocks in batches of two fill a queue of two while a third item
is with the thread and a fourth in the driver's hand, so that a full queue meets
every kind of failure.

*Pool.*  Three ranks are needed for a command that reached rank 0 and not
rank 2; two windows for state that could cross from one to the next; two steps
for one with and one without conditions.

*Buffers.*  Three windows are the first (which may borrow), a middle one and a
tail.  A scan chunk of five frames ends inside a window, so that the frames handed
over to the request begin in the middle of one.

*Ranks.*  Two ranks are the writer and a peer; peers do not differ.  Plans of two
windows have a run and a skip in both orders.  One failure is what the code sets
out to survive; a second one is no different from the first seen later.

*Mesh.*  Four devices are two groups of two, which have barriers of their own and
a common owner.  Six steps hold a warm-up step, a run of reuses up to its limit
of two, a forced computation, and the guarded last step.

*Memory.*  The depths and prefetch sizes are one that divides, one that does not
and one larger than the model; two requests for what survives a failed one.

*Process groups.*  Four ranks form two groups of two in every dimension.  The
plan has more tasks than ranks in a round, tiles of unequal length, and slots
that are not in the order of the task numbers; a second plan is invalid.

*Computations.*  Lengths that do and do not divide by the degrees, degrees larger
than the input, single elements, and all combinations of modes.  Up to three
settings of a server's configuration are changed together.

For the service, the chain, the buffers, the writer, the pool, the ranks, the mesh, the memory
phases and the process groups the proofs lift these bounds from the safety
properties they state.

### Fairness

`FairSpec` assumes that threads are scheduled (weak fairness of the scheduler
thread's own steps, of the event loop inside a handler, of the main thread
inside `shutdown`, and of a watchdog that has found its task overdue), that the
condition's lock is granted to a thread that keeps asking for it (strong
fairness of the steps that need it; CPython's locks do not starve a waiter under
the loads the service has), and that a run of the pipeline, a finite loop over
windows, returns.  Clients, faults and timers need not act.

The writer's `FairSpec` has weak fairness of the driver inside a call, of the
writer's thread, and of an encoder whose input has ended; the request itself may
stop producing.  The pool's has weak fairness of the owner inside a call and of
the ranks' ordinary steps.  No fault and no timeout of a call is fair, so
`EveryCallReturns` does not rest on the five minutes `_receive` would wait; `Kills`
is part of the owner's steps because `join` has a timeout of its own.

In `RankProtocol` a collective everybody has entered returns and every rank's
work ends, by arriving or by failing; commands and cancellations need not come.
In `PeerMesh` the owner and every device's thread keep running.  In `FrameStore`
the driver and the writer's thread do.  In `ParallelSession` somebody who can go
on does; that a rank raises when a partner is gone, or when a tile or an all_gather will
not come, is an ordinary step there, because the transport or the group's timeout
reports it.  Nothing there times out as long as what it waits for may still come,
except an all_gather whose late rank is itself in a wait that only a timeout ends.  Failures are never
fair.  `LayerOffload`, `MemoryPhases` and `Computations` are checked for safety
only.

Deadlock is checked where a behaviour should always go on: the chain, the buffers,
the writer, the pool and the memory phases.  The others stop when the service or
the job is over, and a stop before that is what their liveness property excludes.

For the chain, "every request ends" is `StepsMakeProgress` (each iteration
finishes a window or loads frames, and undoes neither) together with the absence
of deadlock, which needs no fairness beyond the loop running.

## Proofs

TLC shows a property on an instance; TLAPS shows it for every value of the
constants, from the assumptions named in each section.  Every theorem rests on an
inductive invariant, and there is one lemma per action or per kind of step, with a
step for each part of the invariant that the action can disturb.

*The service.*  `ServiceProofs` holds for any set of tasks, any capacity and any
combination of faults, from `MaxTerminalAssumption` and `ServiceAssumption`: the
limits are positive and `NoTask` is not a task.

The properties are not inductive by themselves.  That a task is never both
cancelled and committed needs to know that a handler which is about to flag a
task has checked its status under a lock the scheduler thread does not hold, so
the invariant `IInv` says, besides the types,

* `RecordsOK`: an identifier that has not been submitted has a blank record, the
  two decisions exclude each other, and nothing queued is committed;
* `QueueOK`: what waits is registered, queued, not cancelled, listed once and
  not active, and there is room for it;
* `ApiOK` and `MainOK`: what the event loop and the main thread know in the
  middle of an operation, while the scheduler thread runs;
* `SchedOK`: what the scheduler thread's position says of the active task;
* `TokenOK`: the worker's token is the active task's and exists during its run
  only.

`TypeCorrect`, `CancelOrCommit`, `QueueIsSound` and `SignalIsAimed` follow.  The
refinement shows that each action moves each task's projection by at most one move
of `TaskContract` (`FieldMovesAreMoves` says which changes of a record's fields are
moves) and concludes `ServiceKeepsContract`.

How tasks *end* needs more of the scheduler's history than `IInv` keeps.  `OInv`
adds

* `OrderOK`: the queue is in the order of creation, and a queued task is in it, in
  the hand of a DELETE that holds the lock, or has just been popped, in which case
  it is older than all that wait; after a drain that failed (`Cleared`: nothing is
  taken any more and the queue is empty) a queued task may be nowhere;
* `ResultOK`: the thread works on the active task only before it completes, and a
  task that is being published cannot be taken away;
* `LeftoversOK`: a failed or cancelled task that the thread has done with has left
  no file, if files can be removed;
* `LimboOK`: without faults, and as long as no DELETE has met a task between queue
  and start, the thread lives and works on the only running task.

`FirstInFirstOut` and `CompletedTaskHasResult` hold with every fault,
`DiskTellsTheOutcome` when `"filesystem"` is not among `Faults`, and
`OnlyTheRaceLosesTasks` when `Faults = {}`: the same conditions under which the
properties are stated.

*The object chain.*  `ChainProofs` proves all five properties of `ObjectChain` for
any video, any scene lists (sequences of pairs of integers), any visibilities, any
number of objects and any window, from `ChainAssumption` alone.  It has four layers.

1. *Plans.*  `SpecsFit`: the windows of `BuildWindowSpecs` follow one another
   inside a scene, lie inside the video, and the last one ends with the last scene.
   Both recursive functions, of the scenes and of a scene's windows, are reasoned
   about by induction on numbers (`SetInduction`, from the well-foundedness of the
   natural numbers).
2. *One step.*  Lemmas about slices, extension and eviction of caches say what
   `Skip`, `Commit`, `FinalizeStep` and `MaybeFlush` do frame by frame.  They lead to two
   relations in which the rest is stated: `Did`, a step of the driver on one
   object, and `Settled`, a flush.  Every step of the program fails, loads frames,
   is a `Did` and a `Settled`, or ends the request (`StepKinds`).
3. *Invariants.*  `FInv` is that every frame is in its place: under its own index,
   alike in the output of an object and the input of the next, in order in the file,
   and in memory no less than the mode promises (`ModeOK`, until the request is
   finished).  `ChainAlwaysInOrder` and `StepsAlwaysProgress` follow.  `GInv` adds
   `PlaceOK`: the last window an object has finished determines how far its caches
   reach and which overlap it carries, so that a failing check can only be the
   consequence of the next window's position: `FailuresAlwaysExplained`.
4. *Erasure and memory.*  `EInv` follows an object `q` in a frame.  It is *due* at
   object `p` if an object up to `p` has executed a window that deals with the frame
   and whose crop box holds `q`, and no skipped window may have brought it back.
   Where it is due, it is erased in the caches of `p` and in the file (`EraseOK`); the
   mask no longer shows it only if somebody has erased it (`MaskOK`).  When every
   window has been handled, what `FinishedIsWhole` asks for is due.  `BInv` bounds
   memory: all caches begin where the file ends, an object without its input is
   short of less than one window, and the driver runs the last object that has its
   input, so that object `p` is at most `ObjectCount - p + 2` windows ahead of the file
   (`BoundOK`): `CachesStayBounded`.

*The buffers.*  `FrameProofs` proves `InputsAlwaysSound` (`Spec => []InputsSound`) and
`AlwaysWrittenAsPlanned` (`Spec => []WrittenAsPlanned`) for a video of any length, any
window longer than its overlap (what `build_window_specs` and the configuration demand),
any scan chunk and any requests, from `StoreAssumption`: any combination of the options,
any levels of the mask, any skipped windows, files of any length.  Both follow from
`StoreInv` (`StoreAlwaysSound`), which has to relate three things that move at different
times, the caches, the window's array and what the thread has not yet read:

* `PlaceInv`: where the driver is determines from which frame to which the caches reach,
  one window's `load_start` or first new frame (`LoadStart`, `DealStart`) to another's;
* `CacheInv`: each cache lies within the heap and shows what it should, as a relation
  between a frame's index and the frame: raw input, a mask that is binary from the next
  new frame on, the stable output as planned, the overlap as the last window shows it;
* `PendingInv`: the item under way and the one in the queue are a cache too, that
  continues what has been written;
* `OwnInv`: the buffers of the mask are the mask's alone, since `consume_window_mask`
  clears them in place;
* `HandInv`: the window's array is its own, or lent, and then the input has no other block;
* `ReaderInv` and `ThresholdInv`: both decoders are where the caches end, whether they
  replay a prefix or not, and the threshold is that of the frames scanned.

The argument is about aliasing: `Cached` survives any change of the heap outside the
buffers of the cache (`CachedStays`), so every lemma of an action names the buffers it
changes and why nobody else holds them.  `Evicted` is `pop_before` on any cache,
`CommitEnds` the end of a commit whichever options are set, `HandsOver` the transfer to the
writer.  The plan enters by `PlanFacts`: the windows of one scene join without a gap.
Generality found an error of the model's property: where an overlap is longer
than half a window, a window keeps frames that its predecessor had kept itself, so
`ShownBy` has to follow the predecessors and not only look at the last one.

*The writer.*  `FrameProofs` also shows that the writer implements `FrameSink` for every depth, any
number of blocks and any size of batches (`WriterAssumption`: they are natural
numbers and a batch is not empty).  The argument needs to know where every
accepted block is, so the invariant `WInv` says, besides the types,

* `DriverOK` and `ThreadOK`: what the driver and the thread hold continues what
  has been written or accepted, and neither writes to a pipe it knows is closed;
* `BacklogOK`: as long as nothing has failed, the items of the queue continue
  each other from where the thread is up to the last accepted block, and the
  sentinel is last;
* `CloseOK`: who may have closed the pipe, that a closed pipe is explained by an
  error, a cleanup or the close in progress, and how often the process has been
  collected.

With one lemma per action (`FlushBeginsKeeps`, ...) it is inductive.
`SavedMeansAll` is the heart of the refinement: when `close` lets a request pass,
the thread has returned, the queue is empty and no error is set, and `BacklogOK`
then says that everything has been written.  `FoundClosedIsFailure` covers a
writer somebody else has closed.  `WriterKeepsSink`, `ProcessCollectedOnce`,
`RequestLeavesNothing`, `BlocksInOrder` and `EncoderIsSound` follow.

*The ranks of a group.*  `RankProofs` proves `RanksStayTogether` (`Spec =>
[]RanksTogether`) and `WindowsAreReclaimed` (`Spec => []OneWindowResident`) for
any number of ranks, any plans and any number of failures, from `RankAssumption`.
`RanksTogether` is not inductive: it says where ranks wait and not how they came
there.  `IInv` adds

* `ErrorsOK`: a rank with an error waits for the collective that carries it, and
  the header of a broadcast says ERROR exactly if the writer has one;
* `DispatchOK`: a command is under way wherever the writer can raise, so that the
  handler which would tell the peers of a lost one never has anything to do
  (`NobodyCatches`);
* `WindowsOK`: every rank counts the same windows of the same pass;
* `StruckOK`: a rank fails at most once per request, and where that leaves it;
* `PlacesOK`: all ranks are at one place, except those that a failure on record
  has separated from it;
* `RetiredOK`, `PendingOK`: a retired rank is outside requests, and a window's
  tensors are gone before the work on the next one.

A rank's own work, the failures and the collectives each have a lemma per part.
For the collectives the parts follow from what all ranks then do together:
`ProceedKeeps` where they go on, `ShiftKeeps` where a boundary sends all of them
elsewhere, `RaiseAllKeeps` where all raise.  `UnexposedTogether` concludes: where
nobody is exposed, the failures on record have struck every rank at the same
place, and so nobody is away from it.

*The process pool.*  `PoolProofs` proves `PoolMatchesCalls` (`Spec =>
[]CallsMatched`) and `PoolGivesMemoryBack` (`Spec => []MemoryGivenBack`) for any
number of ranks, windows and predictions, with failures, deaths and timeouts
anywhere, from `PoolAssumption`.  `RanksAgree` compares whole histories, so its
invariant has to say how a history grows: for some length `base`, the collectives
before it are the same on all ranks, and those after it belong to the current call
(`LogsOK`).  A new call moves `base` (`CallsKeeps`), which is possible because the
owner has heard an answer and an answer means that every rank has entered every
collective of the call (`AnswersKeep`, `Full`).  Around it, `PlaceOK` says that a
rank works on the current call or, a peer only, still returns from the last
collective of the call before; `InboxOK` and `OutboxOK` that no pipe to a rank and
not the pipe of rank 0 ever holds two messages; `RunnerOK` what a rank keeps of the
window by how far it is; `OwnerOK` and `PhaseOK` what the owner knows at each point;
`ExportOK` that the shared output is still there.

*The device mesh.*  `MeshProofs` proves `ExchangesAlwaysPair` and `ReuseAlwaysAgrees`
for any number of devices, any plans and any number of failures, from
`PlansAssumption`, `CacheParamsAssumption` and the other assumptions of `PeerMesh`.
Its steps are sorted by what they do to the barriers (`StepKinds`).  Two threads of a
group are at most one half of an exchange apart (`PhasesOK`), which holds because a
barrier counts exactly those that wait at it (`BarrierOK`) and the owner submits one
branch of one step at a time (`OwnerOK`).  `LocalOK` is what a device's own cache may
look like; `SyncOK` relates the caches of two devices of a group: alike, or one is
exactly the decision ahead that the other is about to take.  `SlotsOK` says whose
values the slots hold, `FaultlessOK` that without a failure nothing is raised.  Since
`PhasesOK` and `SyncOK` need each other only one way, they are proved one after the
other and `MatchesNow` combines them.

*Memory.*  `MemoryProofs` proves two theorems.  `PhasesAlwaysHeal` (`Spec =>
[]PhasesHeal`) is for any number of requests and
windows, any prefetch sizes and any failures, from `PhasesAssumption`.  `MInv` says
where the driver and the controller are (`DriverOK`, `ControllerOK`), that the adapter
holds a component inside a phase only, unless it is stuck (`AdapterOK`), and that outside the phases of a
component nothing of it is on the device unless a release has failed (`DeviceOK`).

`LayersAlwaysResident` (`Spec => []LayersResident`) is for any depth, any prefetch size,
any number of forward passes and any order in which the two streams run what has been
issued, from `SetupsAssumption`.  `LayersResident` only speaks of the head of a queue;
its invariant `LInv` has to speak of everything that is pending.  `WellFed` says of the
device that no two blocks share a buffer, that the weights of a resident block are in
its buffer or in a pending copy that nothing behind it overwrites (`Owned`), and that a
pending computation waits for the copy of the weights it reads, while a later copy into
that buffer waits for the computation (`Fed`).  Every operation of the host and both
streams keep it (`PrefetchWell`, `LaunchWell`, `CopyWell`, ...); the step of a stream is
the difficult one, since it moves all positions by one.  That a computation is launched
on a block which is there and waited for depends on the place of the forward pass:
`Fits` says that in the wraparound mode at most the blocks from the one whose turn it is
to the end of the batches in flight are resident (`Window`, modulo the depth: behind the
last block come the first ones of the next pass), and once the first batch is waited for
all of those this pass still needs; inside a plan at most the next ones of the plan.  The bounds of `BlocksBounded` are the widths of these windows.
`ResidencyOK` adds that outside the denoising phase the host rests with at most the
first batch resident, and after the first such phase none.

*Process groups and the parallel VAE.*  `SessionProofs` holds for any number of ranks
(the planner admits two and four), any degrees that fit, any plans and any failures, from `JobsAssumption` and
`EngineAssumption`: the owner is a rank, and a plan is any value of the dataclass
`VAETaskPlan`, valid or not.  `GInv` is about the
groups: a rank enters the creations in the common order (`EnteredOK`), and every
communicator it has alive, but the default one it may have found, is recorded where
the destruction will find it (`RecordedOK`); `RanksLeaveNothing` follows.  `EInv` is
about the execution: how far a rank is and how many collectives it has entered
(`PlaceOK`), what it has contributed (`EntriesOK`), and that a rank goes on or ends only
as the contributions of all ranks decide (`MeetOK`).  `CollectivesAlwaysMatch` and
`AllRanksOrNone` follow, two of the four conjuncts of `RanksEndAlike`.

The other two, and with them `RanksAlwaysEndAlike` (`Spec => []RanksEndAlike`), speak of
the tiles and rest on `WholeInv`, which adds three parts.  `KInv` is what a rank knows of
the plan by how far it is: past the metadata it works by the owner's plan and no other.
That is `PlanSurvivesEncoding`: a valid plan, of any shapes and any number of tasks, is
the same plan after `encode_vae_task_plan` and `decode_vae_task_plan`.  It is proved
from the parts a list of numbers is put together from, each of which the decoder finds
behind the ones before it (`Holds`).  So all ranks run one script, and `ScriptFacts`
says of the script of any valid plan that each step has its place (a tile is
materialized right before it is scattered and gathered right before it is merged, to and
from the rank that has the task in this round) and that each task is merged once.
`DInv` is about the tiles.  A tile under way is the one of the step its sender is in, and
the receiver has not passed that step (`ChanOK`); a rank has received only what has
been sent (`WaitOK`), and one waits inside a send only where it has something to send
(`SendOK`); what has been sent stays under way until the receiver is done with its
step, with or without it (`HandedOK`).  As long as nobody has reported an error the tiles themselves are known
(`TilesKnown`): what the owner has prepared or received, the input a rank holds until
its execute, the output it holds after that, and that what has been merged is exactly the
tasks of the merges passed, each with the result of one device.  The last
part needs that padding a tile to the envelope of its round and cropping it again gives
the tile back, whatever the other tiles of the round (`CropsPadding`, `Envelopes`).
`LInv` is about loss: a rank is lost only where some rank is `Troubled`, that is, never came
up, has flagged an error or has left without a flag (`LosesTroubled`), so that no
all_gather fails by itself.

### Only model-checked

* Liveness and everything under fairness, which is out of the prover's reach.
* The computations: their statements are about what recursive operators compute
  for every input.

Induction on numbers is within reach, and is used above for recursive functions: the
set of the numbers for which something holds takes the place of the operator
that the library's induction theorems would want.

## Findings

`scheduler_survives` is the place where the code contradicts its documentation;
`PROJECT.json` quotes the line.  A task is popped from the queue under the lock
and marked running after the lock is released, outside the `try`; a DELETE in
between cancels it, and the transition to running then raises out of the
scheduler's loop.

### Observations

Met while modelling.  The models contain the behaviour where they contain the
code; a property that would be false for it says so by name (`LimboOnlyByRace`,
`FailuresExplained`, `Exposed`, `WindowRefusals`, `Stranded`, `adp.stuck`).

*Service.*

* A DELETE of a running task before the worker has installed its token is not
  delivered (`scheduler.py:122`, `worker.py:113`, `182`); the watchdog then blames
  the group (`scheduler.py:153`).
* `shutdown` raises `task_already_terminal` when the active task has just ended
  (`scheduler.py:390`, `serve.py:358`).
* A heartbeat on a broken process group ends the scheduler thread with
  `fatal_error` unset (`scheduler.py:185`, `worker.py:35`, `107`).
* A removal that fails while `shutdown` or a fatal error drains the queue
  (`scheduler.py:384`, `349`) comes after the queue has been cleared (`379`, `342`): the
  tasks behind it stay QUEUED and nobody looks at them again, and `shutdown` raises
  without waiting for the thread.  A removal that fails in a sweep
  (`task_store.py:257`, called at `scheduler.py:183`) ends the scheduler thread.
* Whether an error is fatal is read from its text (`worker.py:34-40`), so an ordinary
  failure with such a text ends the thread while the group is sound.
* A failure of one rank outside a boundary leaves the ranks in different
  collectives (`eraserdit_erase_pipeline.py:305`, `329`, `windowed.py:636`,
  `denoising.py:192`; in `writer_owned` the writer's set-up of its context,
  `context.py:472-557`); the comment at `worker.py:196` relies on the timeout.
* `sequence_parallel_contract` is not set by any shipped entry point, so
  `commit_sync` and `writer_owned` are reached by callers of the library only.

*Windows and frames.*

* A skipped window passes the preceding window's overlap through raw (stated by
  `tests/test_runtime_boundaries.py`).
* Scene lists that stop before the last frame truncate the output, or starve the
  second object, whose windows wait for frames the first never emits.
* Frames that scenes leave out stay in the caches until a window follows them, so
  the memory of a streamed request grows with the longest gap; `BoundedCaches` is
  about scenes that leave none out.
* The first window of a second scene, with an overlap, is always refused: "mask
  latent count ... does not cover" (`preprocess.py:129`).
* An `infer_len` that is not 8k+1 is accepted and raises in the first window; an
  overlap that is not 8k+1 shifts mask latents against frames.
* `_load_bbox_tracks` (`context.py:546`) fails after the readers and the writer
  were started and does not close them; `RequestEnds` exempts that path.
* The writer of the preloading mode is a local variable nobody closes on an error
  (`output.py:104`).
* A pool closed by a failure is not rebuilt (`dit_executor.py:267`).

*Parallel execution, memory, configuration.*

* `validate_nccl_dit` does not check that heads divide by the degree; it is
  refused in the forward pass (`nccl_sequence.py:51`).  Cache-DiT with layerwise
  offload is accepted with a request and refused there too
  (`memory/validation.py:31`).  Compilation of the FFN scope with caches is
  accepted although it is not advertised.
* An allocation or a transfer that fails at one end (`vae_parallel.py:405-441`,
  `513-546`) leaves the other end waiting until the timeout, since the flag is only
  shared after the transfers.  The buffers of a round and the flag itself
  (`vae_parallel.py:445`, `462`, `672`) are allocated outside every `try`: a rank
  that fails there flags nothing, and the others raise what the transport reports.
* `_record` after an acquire (`sglang_memory_adapter.py:134-137`) comes when the
  component is already marked as active.  If it raises, nothing clears the mark and
  every later phase is refused.
* `_initialize` of the offload leaves the first batch of blocks on the device
  until the first denoising, and the controller keeps its phase after a release
  that failed.
* `destroy_runtime_distributed` leaves `server_args.distributed_context` set.
* Without callers in the shipped program: the VAE engine, the parallel guidance
  engine, the sequence-parallel attention layer, several methods of the offload
  manager, `eraserdit_video2video.py`; and `_temporal_tiled_decode`, which drops
  the last frame (`eraserdit_vae.py:1541`) and is never enabled.

## What is not modelled

* Numerical work: weights, kernels, norms, quantisation, precision, colour
  correction, resampling and blending values.  The models keep which inputs an
  output depends on, in which order and with which share.
* Metrics, histories, progress reports, statistics and logging.
* The contents of HTTP requests and answers, byte ranges, the web page, the
  command lines of ffmpeg.
* `modeling_utils.py`, `hooks` and the cache-dit library, taken over from or
  belonging to other projects: modelled as far as this code uses them.
* Methods without callers (see above), except where they are a component's point
  (the VAE engine, guidance, sequence shards).
* The writer that the preloading mode creates locally, and the loss of a whole
  machine: a job that loses a rank ends, nothing is persisted to resume from.
* `loader` and the stateless part of `utils`, which have no protocol.

## Plan

Done: every component of the inventory that has a protocol, and theorems about all
of them but the computations.

Next, by importance:

1. several `FrameStore` objects in a chain, the second reading what the first
   forwards;
2. the service around a pool that has been closed by a failure.
