----------------------------- MODULE ObjectChain -----------------------------
(***************************************************************************)
(* The windowed runtime of pipelines/runtime on the rank that owns the     *)
(* video.  The video is cut into windows (utils/windowing.py); every       *)
(* object to erase has its own chain element, whose input is the output of *)
(* the element before it; the driver (drivers/windowed.py) always runs the *)
(* next window of the last object whose input reaches far enough.          *)
(*                                                                         *)
(* A frame is its index in the video and the set of objects that have been *)
(* erased from it; a mask frame is the set of objects still to be erased.  *)
(* The pixels, the tensors and the histories of events are left out.       *)
(***************************************************************************)
EXTENDS WindowPlan

CONSTANTS
    ObjectCount,    \* objects of the request, numbered from 1
    SceneLists,     \* the scene lists a request may give for an object
    Presences,      \* the sets of frames an object may be visible in
    Modes           \* how the runtime is used, see Requests

Objects == 1..ObjectCount

Frames == 0..(NumFrames - 1)

ASSUME ChainAssumption ==
    /\ ObjectCount \in Nat \ {0}
    /\ NumFrames \in Nat \ {0}
    /\ InferLen \in Nat
    /\ Overlap \in 0..(InferLen - 1)
    /\ SceneLists \subseteq Seq(Int \X Int)
    /\ Presences \subseteq SUBSET Frames
    /\ Modes \subseteq {"preload", "streaming", "logical"}

VARIABLES
    request,    \* what the client asked for; never changes
    chain,      \* the frame caches and frontiers of EraseRuntimeContext
    status      \* "running", or how the request has ended

vars == <<request, chain, status>>

-----------------------------------------------------------------------------
\* The plan of every object, built once per request.
Plans == [scenes \in SceneLists |-> BuildWindowSpecs(scenes)]

Specs(o) == Plans[request.scenes[o]]

StableEnd(w) == w.commit_end - w.overlap_right

\* infer_window_bbox finds nothing: the object's track is empty on the new
\* frames of the window.  Without a track the whole picture is the box.
NoBBox(o, w) ==
    /\ request.tracked
    /\ request.visible[o] \cap (w.deal_start..(w.commit_end - 1)) = {}

-----------------------------------------------------------------------------
(***************************************************************************)
(* Frame caches (utils/video_io.py).                                       *)
(***************************************************************************)

EmptyCache(start) == [start |-> start, frames |-> <<>>]

EndIndex(c) == c.start + Len(c.frames)

\* slice raises unless this holds.
CanSlice(c, a, b) == c.start <= a /\ a <= b /\ b <= EndIndex(c)

Slice(c, a, b) == SubSeq(c.frames, a - c.start + 1, b - c.start)

Extend(c, frames) == [c EXCEPT !.frames = @ \o frames]

\* Bug seeded to test the checks: the start index stays.
Mut_PopBefore(c, end) ==
    IF end <= c.start THEN c
    ELSE [start |-> c.start, frames |-> Slice(c, end, EndIndex(c))]

\* pop_before and discard_before.
PopBefore(c, end) ==
    IF end <= c.start THEN c
    ELSE [start |-> end, frames |-> Slice(c, end, EndIndex(c))]

SourceFrame(f) == [index |-> f, erased |-> {}]

\* The objects the mask video marks in frame f.
MaskFrame(f) == {o \in Objects : f \in request.visible[o]}

SourceFrames(a, b) == [i \in 1..(b - a) |-> SourceFrame(a + i - 1)]

MaskFrames(a, b) == [i \in 1..(b - a) |-> MaskFrame(a + i - 1)]

-----------------------------------------------------------------------------
(***************************************************************************)
(* One request.  In mode "preload" the whole video is decoded first; in    *)
(* "streaming" it is decoded as windows need it and written as it becomes  *)
(* final; in "logical" it is streamed but kept in memory, with no writer.  *)
(* covers[o] is what the crop box of object o contains besides o.          *)
(***************************************************************************)
Requests ==
    {r \in [scenes  : [Objects -> SceneLists],
            visible : [Objects -> Presences],
            covers  : [Objects -> {{}, {ObjectCount}}],
            tracked : BOOLEAN,
            mode    : Modes] : r.tracked \/ ObjectCount = 1}

Streaming == request.mode \in {"streaming", "logical"}

\* build_object_runtime_states; the input of object 1 is the source cache.
InitialChain(r) ==
    LET loaded == IF r.mode = "preload" THEN NumFrames ELSE 0
        masks  == [i \in 1..loaded |-> {o \in Objects : (i - 1) \in r.visible[o]}]
    IN  [input  |-> [o \in Objects |->
                       [start |-> 0, frames |-> IF o = 1 THEN SourceFrames(0, loaded) ELSE <<>>]],
         output |-> [o \in Objects |-> EmptyCache(0)],
         overlap |-> [o \in Objects |-> EmptyCache(0)],
         mask   |-> [start |-> 0, frames |-> masks],
         input_frontier |-> [o \in Objects |-> IF o = 1 THEN loaded ELSE 0],
         flush_frontier |-> [o \in Objects |-> 0],
         next   |-> [o \in Objects |-> 1],
         next_write |-> 0,
         written |-> <<>>]

Init ==
    /\ request \in Requests
    /\ chain = InitialChain(request)
    /\ status = "running"

Unfinished(ch, o) == ch.next[o] <= Len(Specs(o))

NextSpec(ch, o) == Specs(o)[ch.next[o]]

-----------------------------------------------------------------------------
(***************************************************************************)
(* Scheduling.                                                             *)
(***************************************************************************)

\* object_input_ready.
InputReady(ch, o) ==
    Unfinished(ch, o) /\ ch.input_frontier[o] >= NextSpec(ch, o).load_end

\* select_next_task goes through the objects from the last to the first.
Selected(ch, o) ==
    InputReady(ch, o) /\ \A p \in Objects : p > o => ~InputReady(ch, p)

NoneReady(ch) == \A o \in Objects : ~InputReady(ch, o)

\* prime_windowed_object_chain_inputs would load frames.
CanPrime(ch) ==
    /\ Streaming
    /\ Unfinished(ch, 1)
    /\ EndIndex(ch.input[1]) < NextSpec(ch, 1).load_end

\* ensure_window_cache_loaded: the source and the mask grow together.
Prime(ch) ==
    LET from == EndIndex(ch.input[1])
        to   == NextSpec(ch, 1).load_end
    IN  [ch EXCEPT !.input[1] = Extend(@, SourceFrames(from, to)),
                   !.mask = Extend(@, MaskFrames(from, to)),
                   !.input_frontier[1] = to]

PrimesSource ==
    /\ status = "running"
    /\ NoneReady(chain) /\ CanPrime(chain)
    /\ IF NextSpec(chain, 1).load_start < chain.input[1].start
       THEN status' = "raised" /\ UNCHANGED chain
       ELSE chain' = Prime(chain) /\ UNCHANGED status
    /\ UNCHANGED request

\* The readers return fewer frames than the metadata promised.
ReadersFallShort ==
    /\ status = "running"
    /\ NoneReady(chain) /\ CanPrime(chain)
    /\ status' = "reader_failed"
    /\ UNCHANGED <<request, chain>>

\* The driver finds windows left but no object to run.
FindsNoneReady ==
    /\ status = "running"
    /\ \E o \in Objects : Unfinished(chain, o)
    /\ NoneReady(chain) /\ ~CanPrime(chain)
    /\ status' = "no_ready_object"
    /\ UNCHANGED <<request, chain>>

-----------------------------------------------------------------------------
(***************************************************************************)
(* Committing a window (windowing/commit_ops.py).                          *)
(***************************************************************************)

\* The previous window left exactly the frames this one overlaps with.
OverlapCached(ch, o, w) ==
    /\ w.overlap_left > 0
    /\ ch.overlap[o].start = w.load_start
    /\ EndIndex(ch.overlap[o]) = w.load_start + w.overlap_left

\* Bug seeded to test the checks: the overlap is read from the raw input.
Mut_SourceOf(ch, o, w) == Slice(ch.input[o], w.load_start, w.load_end)

\* The frames the window is computed from.
SourceOf(ch, o, w) ==
    IF OverlapCached(ch, o, w)
    THEN ch.overlap[o].frames \o Slice(ch.input[o], w.load_start + w.overlap_left, w.load_end)
    ELSE Slice(ch.input[o], w.load_start, w.load_end)

\* What the crop box of object o contains.
Cropped(o) == IF request.tracked THEN {o} \cup request.covers[o] ELSE Objects

\* The executed window: on its new frames everything the mask marks inside
\* the crop box is erased, elsewhere the mask of the window is zero.
ModifiedOf(ch, o, w) ==
    [i \in 1..(w.load_end - w.load_start) |->
        LET f == w.load_start + i - 1
            s == SourceOf(ch, o, w)[i]
        IN  IF f \in w.deal_start..(w.commit_end - 1)
            THEN [s EXCEPT !.erased = @ \cup
                     (ch.mask.frames[f - ch.mask.start + 1] \cap Cropped(o))]
            ELSE s]

\* consume_window_mask clears the crop box on the window's new frames.
ConsumeMask(ch, o, w) ==
    [ch EXCEPT !.mask.frames =
        [i \in DOMAIN @ |->
            IF ch.mask.start + i - 1 \in w.deal_start..(w.commit_end - 1)
            THEN @[i] \ Cropped(o) ELSE @[i]]]

\* Bug seeded to test the checks: always the raw channel.
Mut_Forward(ch, o, a, b, channel) ==
    IF o = ObjectCount \/ b <= a THEN ch
    ELSE [ch EXCEPT !.input[o + 1] = Extend(@, Slice(ch.input[o], a, b)),
                    !.input_frontier[o + 1] = Max({@, b})]

\* forward_task_channel_range, called by the pop hooks of object o.
Forward(ch, o, a, b, channel) ==
    IF o = ObjectCount \/ b <= a THEN ch
    ELSE LET from == IF channel = "raw" THEN ch.input[o] ELSE ch.output[o]
         IN  [ch EXCEPT !.input[o + 1] = Extend(@, Slice(from, a, b)),
                        !.input_frontier[o + 1] = Max({@, b})]

\* Bug seeded to test the checks: the gap is not passed on.
Mut_PassGap(ch, o, w) == ch

\* append_passthrough_gap: frames between two scenes pass unchanged.
PassGap(ch, o, w) ==
    LET a == EndIndex(ch.output[o])
        b == Min({w.load_start, EndIndex(ch.input[o])})
    IN  IF b <= a THEN ch
        ELSE Forward([ch EXCEPT !.output[o] = Extend(@, Slice(ch.input[o], a, b))],
                     o, a, b, "raw")

\* The stable part of a window is appended to the output and forwarded.
Emit(ch, o, w, frames, channel) ==
    Forward([ch EXCEPT !.output[o] = Extend(@, frames)],
            o, w.load_start, StableEnd(w), channel)

\* The rest is kept for the next window to blend with.
KeepOverlap(ch, o, w, frames) ==
    [ch EXCEPT !.overlap[o] = [start |-> StableEnd(w), frames |-> frames],
               !.flush_frontier[o] = StableEnd(w)]

\* A check of the commit or of the forwarding fails.
CommitRefused(ch, o, w) ==
    \/ ~CanSlice(ch.input[o], IF OverlapCached(ch, o, w) THEN w.deal_start ELSE w.load_start,
                 w.load_end)
    \/ ~CanSlice(ch.mask, w.deal_start, w.commit_end)
    \/ EndIndex(ch.output[o]) > w.load_start
    \/ EndIndex(PassGap(ch, o, w).output[o]) # w.load_start
    \/ EndIndex(ch.output[o]) < w.load_start
         /\ ~CanSlice(ch.input[o], EndIndex(ch.output[o]), w.load_start)
    \/ o < ObjectCount /\ EndIndex(ch.input[o + 1]) # EndIndex(ch.output[o])

\* commit_window_to_object_output.
Commit(ch, o, w) ==
    LET modified == ModifiedOf(ch, o, w)
        offset   == StableEnd(w) - w.load_start
        emitted  == Emit(PassGap(ch, o, w), o, w, SubSeq(modified, 1, offset), "modified")
        kept     == SubSeq(modified, offset + 1, w.commit_end - w.load_start)
    IN  ConsumeMask(KeepOverlap(emitted, o, w, kept), o, w)

\* The checks of record_skipped_object_window.
SkipRefused(ch, o, w) ==
    \/ EndIndex(ch.output[o]) > w.load_start
    \/ EndIndex(PassGap(ch, o, w).output[o]) # w.load_start
    \/ ~CanSlice(ch.input[o], Min({EndIndex(ch.output[o]), w.load_start}), w.commit_end)
    \/ o < ObjectCount /\ EndIndex(ch.input[o + 1]) # EndIndex(ch.output[o])

\* record_skipped_object_window: everything from load_start on passes raw,
\* the overlap the previous window computed included.
Skip(ch, o, w) ==
    LET raw == Slice(ch.input[o], w.load_start, StableEnd(w))
    IN  KeepOverlap(Emit(PassGap(ch, o, w), o, w, raw, "raw"), o, w,
                    Slice(ch.input[o], StableEnd(w), w.commit_end))

\* finalize_object_window_step.
FinalizeStep(ch, o, w) ==
    LET moved == [ch EXCEPT !.next[o] = @ + 1]
    IN  IF ~Unfinished(moved, o)
        THEN [moved EXCEPT !.overlap[o] = EmptyCache(ch.flush_frontier[o])]
        ELSE IF NextSpec(moved, o).scene # w.scene
             THEN [moved EXCEPT !.overlap[o] = EmptyCache(NextSpec(moved, o).load_start)]
             ELSE moved

-----------------------------------------------------------------------------
(***************************************************************************)
(* Flushing and eviction (scheduler.py, io/streaming.py).                  *)
(***************************************************************************)

\* compute_tail_flush_end.
FlushEnd(ch) ==
    Max({ch.next_write,
         Min({ch.flush_frontier[ObjectCount], EndIndex(ch.output[ObjectCount])})})

\* How far a cache of object o may be evicted.
EvictTarget(ch, o, c, stable) ==
    IF Unfinished(ch, o)
    THEN Min({stable, NextSpec(ch, o).load_start, EndIndex(c)})
    ELSE Min({stable, EndIndex(c)})

\* evict_cache_before; the last object's output is the writer's business.
Evict(ch, stable) ==
    [ch EXCEPT
        !.input  = [o \in Objects |-> PopBefore(@[o], EvictTarget(ch, o, @[o], stable))],
        !.output = [o \in Objects |->
                      IF o = ObjectCount THEN @[o]
                      ELSE PopBefore(@[o], EvictTarget(ch, o, @[o], stable))]]

\* release_mask_frames.
ReleaseMask(ch, end) == [ch EXCEPT !.mask = PopBefore(@, Min({end, EndIndex(@)}))]

\* Bug seeded to test the checks: nothing is evicted.
Mut_FlushKeepsAll(ch, end) ==
    LET out == ch.output[ObjectCount]
    IN  [ch EXCEPT !.written = @ \o Slice(out, out.start, end),
                   !.output[ObjectCount] = PopBefore(out, end),
                   !.next_write = end]

\* flush_windowed_frames, past its early return.
FlushFrames(ch, end) ==
    LET out     == ch.output[ObjectCount]
        flushed == [ch EXCEPT !.written = @ \o Slice(out, out.start, end),
                              !.output[ObjectCount] = PopBefore(out, end),
                              !.next_write = end]
    IN  ReleaseMask(Evict(flushed, end), end)

\* maybe_flush_streaming_runtime.
MaybeFlush(ch) ==
    LET end == FlushEnd(ch)
    IN  CASE request.mode = "preload"   -> ch
          [] request.mode = "logical"   ->
                ReleaseMask(Evict([ch EXCEPT !.next_write = end], end), end)
          [] request.mode = "streaming" ->
                IF end <= ch.next_write THEN ch ELSE FlushFrames(ch, end)

-----------------------------------------------------------------------------
(***************************************************************************)
(* The driver's loop.                                                      *)
(***************************************************************************)

\* One window that has nothing to erase.
SkipsWindow(o) ==
    /\ status = "running"
    /\ Selected(chain, o)
    /\ LET w == NextSpec(chain, o)
       IN  /\ NoBBox(o, w)
           /\ IF SkipRefused(chain, o, w)
              THEN status' = "raised" /\ UNCHANGED chain
              ELSE /\ chain' = MaybeFlush(FinalizeStep(Skip(chain, o, w), o, w))
                   /\ UNCHANGED status
    /\ UNCHANGED request

\* One window that is executed and committed.
RunsWindow(o) ==
    /\ status = "running"
    /\ Selected(chain, o)
    /\ LET w == NextSpec(chain, o)
       IN  /\ ~NoBBox(o, w)
           /\ IF CommitRefused(chain, o, w)
              THEN status' = "raised" /\ UNCHANGED chain
              ELSE /\ chain' = MaybeFlush(FinalizeStep(Commit(chain, o, w), o, w))
                   /\ UNCHANGED status
    /\ UNCHANGED request

\* The executor fails, or a checkpoint finds the request cancelled.
StopsEarly ==
    /\ status = "running"
    /\ \E o \in Objects : InputReady(chain, o)
    /\ status' = "stopped"
    /\ UNCHANGED <<request, chain>>

\* All windows are done: what is left is flushed and the output closed or,
\* without a writer, taken from the last cache (finalize_output).
Finishes ==
    /\ status = "running"
    /\ \A o \in Objects : ~Unfinished(chain, o)
    /\ status' = "finished"
    /\ LET ch  == MaybeFlush(chain)
           out == ch.output[ObjectCount]
       IN  chain' = IF request.mode # "streaming"
                    THEN [ch EXCEPT !.written = Slice(out, out.start, EndIndex(out))]
                    ELSE IF EndIndex(out) <= ch.next_write THEN ch
                    ELSE FlushFrames(ch, EndIndex(out))
    /\ UNCHANGED request

\* The request is over.
Over ==
    /\ status # "running"
    /\ UNCHANGED vars

Driver ==
    \/ PrimesSource
    \/ FindsNoneReady
    \/ \E o \in Objects : SkipsWindow(o) \/ RunsWindow(o)
    \/ Finishes

Next == Driver \/ ReadersFallShort \/ StopsEarly \/ Over

Spec == Init /\ [][Next]_vars

-----------------------------------------------------------------------------
(***************************************************************************)
(* What the windowed runtime promises, on top of ObjectChain.              *)
(***************************************************************************)

FrameRecords == [index : Frames, erased : SUBSET Objects]

CacheOf(S) == [start : 0..NumFrames, frames : Seq(S)]

\* Type correctness of the request, the caches and the frontiers.
ChainTypeOK ==
    /\ request \in Requests
    /\ chain.input \in [Objects -> CacheOf(FrameRecords)]
    /\ chain.output \in [Objects -> CacheOf(FrameRecords)]
    /\ chain.overlap \in [Objects -> CacheOf(FrameRecords)]
    /\ chain.mask \in CacheOf(SUBSET Objects)
    /\ chain.input_frontier \in [Objects -> 0..NumFrames]
    /\ chain.flush_frontier \in [Objects -> 0..NumFrames]
    /\ chain.next \in [Objects -> Nat \ {0}]
    /\ chain.next_write \in 0..NumFrames
    /\ chain.written \in Seq(FrameRecords)
    /\ status \in {"running", "raised", "reader_failed", "no_ready_object",
                   "stopped", "finished"}

\* The i-th frame of a cache is the frame of the video the cache says it is.
Aligned(c) == \A i \in DOMAIN c.frames : c.frames[i].index = c.start + i - 1

\* Frames reach the writer exactly once and in the order of the video, and
\* no cache ever holds a frame under another frame's index, whatever is
\* skipped, blended, evicted or passed between scenes.
FramesInOrder ==
    /\ \A o \in Objects :
         Aligned(chain.input[o]) /\ Aligned(chain.output[o]) /\ Aligned(chain.overlap[o])
    /\ Aligned([start |-> 0, frames |-> chain.written])

Covered(o) == Specs(o)[Len(Specs(o))].commit_end

\* Scenes that do not follow one another: the later starts too early.
ScenesOverlap(o) ==
    \E k \in 2..Len(Specs(o)) :
        /\ Specs(o)[k].scene # Specs(o)[k - 1].scene
        /\ Specs(o)[k].load_start < Specs(o)[k - 1].commit_end

\* Whatever scenes a request gives, its failures have these causes only: the
\* driver starves behind an object whose scenes end before the video does,
\* and a check of the caches fails on scenes that overlap or go backwards.
FailuresExplained ==
    /\ status = "no_ready_object" =>
         \E o \in 1..(ObjectCount - 1) : Covered(o) < NumFrames
    /\ status = "raised" => \E o \in Objects : ScenesOverlap(o)

\* What one object has emitted is what the next one has received: the two
\* caches end at the same frame and agree wherever both still hold it,
\* although raw and modified ranges are forwarded from different caches.
ChainAgrees ==
    \A o \in 1..(ObjectCount - 1) :
        LET out == chain.output[o]
            in  == chain.input[o + 1]
        IN  /\ EndIndex(out) = EndIndex(in)
            /\ \A f \in Max({out.start, in.start})..(EndIndex(in) - 1) :
                 Slice(out, f, f + 1) = Slice(in, f, f + 1)

\* Frame f is in a window whose overlap a skipped window has overwritten with
\* raw frames; p is the object the windows belong to.
Reverted(p, f) ==
    \E k \in DOMAIN Specs(p) :
        LET w == Specs(p)[k]
        IN  NoBBox(p, w) /\ f \in w.load_start..(w.deal_start - 1)

InScene(o, f) ==
    \E k \in DOMAIN Specs(o) : f \in Specs(o)[k].deal_start..(Specs(o)[k].commit_end - 1)

\* A finished video has every object erased from every frame in which it is
\* visible inside a scene, also when another object's crop box consumed its
\* mask first; the only frames an erased object comes back in are those that
\* a skipped window passes through raw from its load start.
ErasedWhereVisible ==
    status = "finished" =>
        \A i \in DOMAIN chain.written : \A o \in Objects :
            LET f == chain.written[i].index
            IN  f \in request.visible[o] /\ InScene(o, f) =>
                    \/ o \in chain.written[i].erased
                    \/ \E p \in Objects : o \in Cropped(p) /\ Reverted(p, f)

\* A finished video ends where the last object's last scene ends, which is
\* the end of the source unless the request says otherwise: the windows at
\* the end of a scene, with less to their right, lose no frame.
NothingTruncated ==
    status = "finished" =>
        LET scenes == NormalizeScenes(request.scenes[ObjectCount])
            last   == scenes[Len(scenes)]
        IN  Len(chain.written) = last[1] + last[2]

\* The windows of o leave no frame of the video out.
WholeVideo(o) ==
    /\ Specs(o)[1].deal_start = 0 /\ Covered(o) = NumFrames
    /\ \A k \in 2..Len(Specs(o)) : Specs(o)[k].deal_start = Specs(o)[k - 1].commit_end

\* A streamed request keeps a number of frames in memory that depends on the
\* window length and the number of objects, never on the video's length,
\* unless scenes leave frames out: those wait for the next window.
BoundedCaches ==
    request.mode = "streaming" /\ (\A o \in Objects : WholeVideo(o)) =>
        /\ \A o \in Objects :
             /\ Len(chain.input[o].frames) <= (ObjectCount + 1) * InferLen
             /\ Len(chain.output[o].frames) <= (ObjectCount + 1) * InferLen
        /\ Len(chain.mask.frames) <= (ObjectCount + 1) * InferLen

\* Whatever the scenes and the mode, every frame is where the video has it,
\* in all caches and in the file.
ChainInOrder == ChainTypeOK /\ FramesInOrder /\ ChainAgrees

\* A request that reports success has delivered what was asked for.
FinishedIsWhole == ErasedWhereVisible /\ NothingTruncated

WindowsLeft(o) == Len(Specs(o)) + 1 - chain.next[o]

\* Every step of a running request finishes a window or loads frames, and
\* undoes neither, nor anything already written; with the absence of
\* deadlock, every request ends.
StepsMakeProgress ==
    [][ status' # "running" \/
        /\ \A o \in Objects : WindowsLeft(o)' <= WindowsLeft(o)
        /\ EndIndex(chain.input[1]) <= EndIndex(chain'.input[1])
        /\ SubSeq(chain'.written, 1, Len(chain.written)) = chain.written
        /\ \/ \E o \in Objects : WindowsLeft(o)' < WindowsLeft(o)
           \/ EndIndex(chain.input[1]) < EndIndex(chain'.input[1]) ]_vars
=============================================================================
