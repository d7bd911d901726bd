----------------------------- MODULE FrameStore -----------------------------
(***************************************************************************)
(* The buffers of a streamed request with one object: who holds which      *)
(* array while frames go from the decoders through the caches, one window  *)
(* at a time, to the writer's thread (utils/video_io.py, windowing/        *)
(* materializer.py, windowing/commit_ops.py, io/streaming.py).  ObjectChain*)
(* treats a frame as a value; here it lies in a buffer that several        *)
(* holders may see, because the options of the runtime replace copies by   *)
(* transfers of ownership and by one loan.                                 *)
(*                                                                         *)
(* A frame in a buffer is its index and what its pixels show: of a video   *)
(* frame the number of the window that generated it or 0, of a mask frame  *)
(* "soft", "binary" or "clear".                                            *)
(***************************************************************************)
EXTENDS WindowPlan

CONSTANTS
    Requests,       \* the options and the contents of a request
    ScanChunk       \* frames of a chunk of the mask scan, 16 in the code

(* RuntimeOptions and the files, by what the buffers depend on.            *)
RequestSet == [dtype : {"uint8", "bf16"}, borrow : BOOLEAN, copyOpt : BOOLEAN,
               handoff : BOOLEAN, scanReuse : BOOLEAN, inplace : BOOLEAN, whole : BOOLEAN,
               fuse : {"before", "after"}, levels : [1..NumFrames -> 0..255],
               skipped : SUBSET Nat, parallel : BOOLEAN, videoLength : Nat, maskLength : Nat]

ASSUME StoreAssumption ==
    /\ NumFrames \in Nat \ {0} /\ ScanChunk \in Nat \ {0}
    /\ InferLen \in Nat /\ Overlap \in 0..(InferLen - 1)
    /\ Requests \subseteq RequestSet

VARIABLES
    request,    \* never changes
    pc,         \* where the driver is
    store,      \* the heap and the frame caches
    readers,    \* the decoders: position in the file, prefix held, frames_read
    hand,       \* the frames the driver has in hand
    next,       \* the window to do
    threshold,  \* of the mask: the maximum the scan has found
    queue,      \* items of the writer's queue: sequences of views
    item,       \* blocks the writer's thread has still to write
    written,    \* what the encoder has received
    open        \* processes that have been started and not been collected

vars == <<request, pc, store, readers, hand, next, threshold, queue, item, written, open>>

QueueDepth == 1
Windows == BuildWindowSpecs(<<>>)
Spec1 == Windows[next]
StableEnd(w) == w.commit_end - w.overlap_right
Raw == 0
Uint8 == request.dtype = "uint8"
FramesOf(a, b, shows) == [i \in 1..(b - a) |-> [f |-> a + i - 1, shows |-> shows]]

-----------------------------------------------------------------------------
(* Arrays.  A view is a range of a buffer.                                 *)

Read(s, v) == SubSeq(s.heap[v.buf], v.at + 1, v.at + v.n)
Fresh(s) == Len(s.heap) + 1
Allocated(s, frames) == [s EXCEPT !.heap = Append(@, frames)]
WholeOf(s, b) == [buf |-> b, at |-> 0, n |-> Len(s.heap[b])]
Wrote(s, v, frames) ==
    [s EXCEPT !.heap[v.buf] = SubSeq(@, 1, v.at) \o frames
                                \o SubSeq(@, v.at + Len(frames) + 1, Len(@))]
Showing(frames, how) == [i \in DOMAIN frames |-> [frames[i] EXCEPT !.shows = how]]

(* ChunkedFrameCache and TensorFrameCache: a start index and chunks.       *)
NoFrames(start) == [start |-> start, chunks |-> <<>>]
ChunkStart(c, i) ==
    LET from[k \in 0..Len(c.chunks)] == IF k = 0 THEN c.start ELSE from[k - 1] + c.chunks[k].n
    IN from[i - 1]
EndIndex(c) == ChunkStart(c, Len(c.chunks) + 1)
Contents(s, c) ==
    LET upTo[i \in 0..Len(c.chunks)] ==
            IF i = 0 THEN <<>> ELSE upTo[i - 1] \o Read(s, c.chunks[i])
    IN upTo[Len(c.chunks)]
Slice(s, c, a, b) == SubSeq(Contents(s, c), a - c.start + 1, b - c.start)

(* append copies, append_owned takes the array as it is.                   *)
AppendOwned(s, name, v) ==
    IF v.n = 0 THEN s ELSE [s EXCEPT ![name].chunks = Append(@, v)]
AppendCopy(s, name, frames) ==
    IF frames = <<>> THEN s
    ELSE [Allocated(s, frames) EXCEPT
            ![name].chunks = Append(@, [buf |-> Fresh(s), at |-> 0, n |-> Len(frames)])]

(* pop_before_owned: whole chunks and a view of the beginning of the last. *)
Blocks(c, end) ==
    [i \in 1..Cardinality({i \in DOMAIN c.chunks : ChunkStart(c, i) < end}) |->
       [c.chunks[i] EXCEPT !.n = Min({@, end - ChunkStart(c, i)})]]

(* discard_before, and what pop_before leaves: of a chunk that is only     *)
(* partly removed the rest is copied.                                      *)
Rest(s, c, end) == Slice(s, c, end, ChunkStart(c, Len(Blocks(c, end)) + 1))
Later(c, end) == SubSeq(c.chunks, Len(Blocks(c, end)) + 1, Len(c.chunks))
Mut_PopBefore(s, name, end) ==
    LET c == s[name]
        rest == Len(Rest(s, c, end))
        last == c.chunks[Len(Blocks(c, end))]
        view == [last EXCEPT !.at = @ + last.n - rest, !.n = rest]
    IN IF end <= c.start THEN s
       ELSE [s EXCEPT ![name] = [start |-> end, chunks |->
               IF rest = 0 THEN Later(c, end) ELSE <<view>> \o Later(c, end)]]
PopBefore(s, name, end) ==
    LET c == s[name]
        rest == Rest(s, c, end)
        copy == [buf |-> Fresh(s), at |-> 0, n |-> Len(rest)]
    IN IF end <= c.start THEN s
       ELSE IF rest = <<>> THEN [s EXCEPT ![name] = [start |-> end, chunks |-> Later(c, end)]]
       ELSE [Allocated(s, rest) EXCEPT
               ![name] = [start |-> end, chunks |-> <<copy>> \o Later(c, end)]]

-----------------------------------------------------------------------------
(* Readers.  A decoder delivers the frames of its file in order; the file  *)
(* may be shorter than its metadata says.                                  *)

Reader == [at |-> 0, prefix |-> 0, offset |-> 0, frames_read |-> 0]
Level(f) == request.levels[f + 1]
Brightest(a, b) == Max({0} \cup {Level(f) : f \in a..(b - 1)})

(* read_frames of SequentialVideoReader, and of PrimedVideoReader, which   *)
(* replays a prefix of decoded frames first.                               *)
FromPrefix(r, n) == IF r.prefix = 0 THEN 0 ELSE Min({n, r.prefix - r.offset})
FallsShort(r, n, length) == r.at + n - FromPrefix(r, n) > length
ReadFrames(r, n, shows) ==
    LET count == FromPrefix(r, n)
    IN [frames |-> FramesOf(r.offset, r.offset + count, shows)
                     \o FramesOf(r.at, r.at + n - count, shows),
        reader |-> [at |-> r.at + n - count, offset |-> r.offset + count,
                    prefix |-> IF r.offset + count = r.prefix THEN 0 ELSE r.prefix,
                    frames_read |-> r.frames_read + n]]

Init ==
    /\ request \in Requests
    /\ pc = "scan"
    /\ store = [heap |-> <<>>, video |-> NoFrames(0), mask |-> NoFrames(0),
                output |-> NoFrames(0), overlap |-> NoFrames(0)]
    /\ readers = [video |-> Reader, mask |-> Reader]
    /\ hand = [video |-> <<>>, mask |-> <<>>]
    /\ next = 1 /\ threshold = 0
    /\ queue = <<>> /\ item = <<>> /\ written = <<>>
    /\ open = {"mask"}

Keeps == UNCHANGED <<request, queue, item, written>>
Ends(how) == /\ pc' = how /\ UNCHANGED <<store, readers, hand, next, threshold>> /\ Keeps

(* open_mask_reader_with_scan and read_mask_rgb_max: chunk by chunk up to  *)
(* the end or to a maximum no frame can exceed.  With the option, a scan   *)
(* that needed one chunk only gives its reader and its chunk to the        *)
(* request; otherwise the file is opened again.  BF16 does without.        *)
Mut_ScanRuns(scanned, maximum) == scanned > NumFrames \/ maximum = 255
ScanDone(scanned, maximum) == scanned >= NumFrames \/ maximum = 255
ScansMask ==
    LET r == readers.mask
        n == Min({ScanChunk, NumFrames - r.at})
        scanned == r.at + n
        maximum == Max({threshold, Brightest(r.at, scanned)})
        reused == request.scanReuse /\ r.at = 0
    IN /\ pc = "scan" /\ Uint8 /\ ~FallsShort(r, n, request.maskLength)
       /\ threshold' = maximum
       /\ IF ScanDone(scanned, maximum)
          THEN /\ readers' = [readers EXCEPT !.mask =
                     IF reused THEN [Reader EXCEPT !.at = scanned, !.prefix = scanned]
                     ELSE Reader]
               /\ pc' = "prepare"
          ELSE readers' = [readers EXCEPT !.mask.at = scanned] /\ pc' = pc
       /\ UNCHANGED <<store, hand, next, open>> /\ Keeps

OpensWithoutScan == pc = "scan" /\ ~Uint8 /\ Ends("prepare") /\ UNCHANGED open

(* The scan closes its reader when it raises: a short file, or a           *)
(* checkpoint that finds the request cancelled.                            *)
ScanStops == pc = "scan" /\ Uint8 /\ Ends("closed") /\ open' = open \ {"mask"}
ScanFallsShort ==
    LET r == readers.mask
    IN ScanStops /\ FallsShort(r, Min({ScanChunk, NumFrames - r.at}), request.maskLength)

(* The rest of prepare_runtime_context; loading the tracks comes last and  *)
(* may raise, when nobody owns the processes yet.                          *)
Prepares == pc = "prepare" /\ Ends("driver") /\ open' = open \cup {"video", "writer"}
PreparationFails == pc = "prepare" /\ Ends("abandoned") /\ open' = open \cup {"video", "writer"}

-----------------------------------------------------------------------------
(* ensure_window_cache_loaded and read_paired_video_frames: the two reads, *)
(* with the option in two threads, then the frames reach both caches.      *)

Missing == Spec1.load_end - EndIndex(store.video)
NeedsFrames == pc = "driver" /\ next <= Len(Windows) /\ Missing > 0

BeginsRead == NeedsFrames /\ Ends("read") /\ UNCHANGED open

Reads(which, length, shows) ==
    LET r == readers[which] IN
    /\ pc = "read" /\ hand[which] = <<>>
    /\ IF FallsShort(r, Missing, length)
       THEN pc' = "closing" /\ UNCHANGED <<readers, hand>>
       ELSE /\ readers' = [readers EXCEPT ![which] = ReadFrames(r, Missing, shows).reader]
            /\ hand' = [hand EXCEPT ![which] = ReadFrames(r, Missing, shows).frames]
            /\ pc' = pc
    /\ UNCHANGED <<store, next, threshold, open>> /\ Keeps
ReadsVideo == Reads("video", request.videoLength, Raw)
ReadsMask == /\ pc = "read" /\ (request.parallel \/ hand.video # <<>>)
             /\ Reads("mask", request.maskLength, "soft")

(* threshold_mask_array, in place or not, and the appends.                 *)
Published(s) ==
    LET v == IF Uint8 /\ request.copyOpt
             THEN LET t == Allocated(s, hand.video) IN AppendOwned(t, "video", WholeOf(t, Fresh(s)))
             ELSE AppendCopy(s, "video", hand.video)
        t == Allocated(v, hand.mask)
        buffer == WholeOf(t, Fresh(v))
        binary == IF request.inplace /\ Uint8 THEN Wrote(t, buffer, Showing(hand.mask, "binary"))
                  ELSE Allocated(t, Showing(hand.mask, "binary"))
        mask == WholeOf(binary, Len(binary.heap))
    IN IF request.copyOpt THEN AppendOwned(binary, "mask", mask)
       ELSE AppendCopy(binary, "mask", Read(binary, mask))

Publishes ==
    /\ pc = "read" /\ hand.video # <<>> /\ hand.mask # <<>>
    /\ IF readers.video.frames_read = readers.mask.frames_read
       THEN pc' = "driver" /\ store' = Published(store)
       ELSE pc' = "closing" /\ UNCHANGED store
    /\ hand' = [video |-> <<>>, mask |-> <<>>]
    /\ UNCHANGED <<readers, next, threshold, open>> /\ Keeps

-----------------------------------------------------------------------------
(* materialize_window_batch: the window's frames, and its mask.            *)

OverlapCached(s, w) == /\ w.overlap_left > 0
                       /\ s.overlap.start = w.load_start
                       /\ EndIndex(s.overlap) = w.load_start + w.overlap_left
WindowFrames(s, w) ==
    IF OverlapCached(s, w)
    THEN Contents(s, s.overlap) \o Slice(s, s.video, w.load_start + w.overlap_left, w.load_end)
    ELSE Slice(s, s.video, w.load_start, w.load_end)

(* borrow_head, under the conditions of its only caller.                   *)
Borrows(s, w) == /\ Uint8 /\ request.borrow /\ next = 1
                 /\ w.overlap_left = 0 /\ w.load_end = w.commit_end
                 /\ s.video.start = w.load_start /\ s.video.chunks # <<>>
                 /\ w.load_end = w.load_start + s.video.chunks[1].n

Ready == pc = "driver" /\ next <= Len(Windows) /\ Missing <= 0
Materializes ==
    LET w == Spec1
        borrowed == Borrows(store, w)
    IN /\ Ready /\ next \notin request.skipped
       /\ \E frames \in {IF borrowed THEN <<>> ELSE WindowFrames(store, w)} :
          /\ store' = IF borrowed THEN store ELSE Allocated(store, frames)
          /\ hand' = [video |-> IF borrowed THEN store.video.chunks[1]
                                ELSE [buf |-> Fresh(store), at |-> 0, n |-> Len(frames)],
                      mask |-> Slice(store, store.mask, w.deal_start, w.commit_end),
                      borrowed |-> borrowed]
       /\ pc' = "run"
       /\ UNCHANGED <<readers, next, threshold, open>> /\ Keeps

ExecutionFails == pc = "run" /\ Ends("closing") /\ UNCHANGED open

-----------------------------------------------------------------------------
(* commit_window_to_object_output.                                         *)

(* detach_borrowed_head: the cache keeps a copy of the frames it still     *)
(* needs, from stable_end on.                                              *)
Mut_Detached(s, w) == [s EXCEPT !.video.start = StableEnd(w),
    !.video.chunks[1] = [@ EXCEPT !.at = StableEnd(w) - s.video.start,
                                  !.n = @ - (StableEnd(w) - s.video.start)]]
Detached(s, w) == PopBefore(s, "video", StableEnd(w))

(* The frames the patch is spliced into: the window's own array, which is  *)
(* nobody else's by now, or the patch itself when it covers the picture.   *)
Source(s, w) == IF ~Uint8 THEN Allocated(s, WindowFrames(s, w))
                ELSE IF hand.borrowed THEN Detached(s, w) ELSE s
SourceView(s, w) == IF Uint8 THEN hand.video ELSE WholeOf(s, Len(s.heap))
Patch(w) == FramesOf(w.load_start, w.load_end, next)
Mut_KeptOverlap(s, v, w) == SubSeq(Patch(w), 1, w.overlap_left)
KeptOverlap(s, v, w) == SubSeq(Read(s, v), 1, w.overlap_left)
Spliced(s, v, w) == IF request.whole THEN Allocated(s, Patch(w)) ELSE Wrote(s, v, Patch(w))
SplicedView(s, v) == IF request.whole THEN WholeOf(s, Len(s.heap)) ELSE v

(* set_object_overlap_cache copies.                                        *)
WithOverlap(s, start, frames) ==
    AppendCopy([s EXCEPT !.overlap = NoFrames(start)], "overlap", frames)

(* consume_window_mask clears the window's new frames in the shared cache. *)
Cleared(c, b, at, w) ==
    \E i \in DOMAIN c.chunks :
        LET v == c.chunks[i]
            f == ChunkStart(c, i) + at - v.at
        IN v.buf = b /\ at \in v.at..(v.at + v.n - 1) /\ f \in w.deal_start..(w.commit_end - 1)
Consumed(s, w) ==
    [s EXCEPT !.heap = [b \in DOMAIN @ |-> [j \in DOMAIN @[b] |->
        IF Cleared(s.mask, b, j - 1, w) THEN [@[b][j] EXCEPT !.shows = "clear"] ELSE @[b][j]]]]

Commits ==
    LET w == Spec1
        stable == StableEnd(w) - w.load_start
    IN /\ pc = "run"
       /\ \E source \in {Source(store, w)} :
          \E kept \in {KeptOverlap(source, SourceView(source, w), w)} :
          \E spliced \in {Spliced(source, SourceView(source, w), w)} :
          \E out \in {SplicedView(spliced, SourceView(source, w))} :
          \E blended \in {IF request.fuse = "before" THEN Wrote(spliced, out, kept) ELSE spliced} :
          \E whole \in {Read(blended, out)} :
          \E appended \in {IF Uint8 THEN AppendOwned(blended, "output", [out EXCEPT !.n = stable])
                            ELSE AppendCopy(blended, "output", SubSeq(whole, 1, stable))} :
          \E saved \in {WithOverlap(appended, StableEnd(w),
                                    SubSeq(whole, stable + 1, w.commit_end - w.load_start))} :
             store' = Consumed(saved, w)
       /\ hand' = [video |-> <<>>, mask |-> <<>>]
       /\ next' = next + 1 /\ pc' = "flush"
       /\ UNCHANGED <<readers, threshold, open>> /\ Keeps

(* record_skipped_object_window: raw frames, also where the window before  *)
(* it has generated its overlap.                                           *)
Skips ==
    LET w == Spec1
        stable == AppendCopy(store, "output", Slice(store, store.video, w.load_start, StableEnd(w)))
    IN /\ Ready /\ next \in request.skipped
       /\ store' = WithOverlap(stable, StableEnd(w),
                               Slice(store, store.video, StableEnd(w), w.commit_end))
       /\ next' = next + 1 /\ pc' = "flush"
       /\ UNCHANGED <<readers, hand, threshold, open>> /\ Keeps

-----------------------------------------------------------------------------
(* flush_windowed_frames: the stable frames go to the writer, as they are  *)
(* or, without the option, joined in a new array; then the caches are      *)
(* evicted.  The queue may be full.                                        *)

FlushEnd == EndIndex(store.output)
EvictTarget(end) == IF next <= Len(Windows) THEN Min({end, Windows[next].load_start}) ELSE end
Popped(s, end) == IF Uint8 /\ request.handoff THEN s
                  ELSE Allocated(s, Slice(s, s.output, s.output.start, end))
HandedOver(s, end) == IF Uint8 /\ request.handoff THEN Blocks(s.output, end)
                      ELSE <<[buf |-> Fresh(s), at |-> 0, n |-> end - s.output.start]>>

Flushes ==
    /\ pc = "flush" /\ Len(queue) < QueueDepth
    /\ queue' = Append(queue, HandedOver(store, FlushEnd))
    /\ \E popped \in {Popped(store, FlushEnd)} :
       \E output \in {PopBefore(popped, "output", FlushEnd)} :
       \E video \in {PopBefore(output, "video", EvictTarget(FlushEnd))} :
          store' = PopBefore(video, "mask", FlushEnd)
    /\ pc' = "driver"
    /\ UNCHANGED <<request, readers, hand, next, threshold, item, written, open>>

(* The writer's thread: an item at a time, block by block, from the        *)
(* buffers as they are by then.                                            *)
ThreadVars == <<request, pc, store, readers, hand, next, threshold, open>>
TakesItem == /\ item = <<>> /\ queue # <<>>
             /\ item' = Head(queue) /\ queue' = Tail(queue)
             /\ UNCHANGED written /\ UNCHANGED ThreadVars
WritesBlock == /\ item # <<>>
               /\ written' = written \o Read(store, Head(item)) /\ item' = Tail(item)
               /\ UNCHANGED queue /\ UNCHANGED ThreadVars

(* finalize_output and close_runtime_resources: the readers, then the      *)
(* writer, whose close joins the thread.                                   *)
Finishes == pc = "driver" /\ next > Len(Windows) /\ Ends("closing") /\ UNCHANGED open
ClosesReaders == /\ pc = "closing" /\ Ends("joining") /\ open' = open \ {"video", "mask"}
ClosesWriter == /\ pc = "joining" /\ queue = <<>> /\ item = <<>>
                /\ Ends("closed") /\ open' = open \ {"writer"}

Over == pc \in {"closed", "abandoned"} /\ UNCHANGED vars

Driver == \/ ScansMask \/ ScanFallsShort \/ OpensWithoutScan \/ Prepares
          \/ BeginsRead \/ ReadsVideo \/ ReadsMask \/ Publishes
          \/ Materializes \/ Commits \/ Skips \/ Flushes
          \/ Finishes \/ ClosesReaders \/ ClosesWriter
Thread == TakesItem \/ WritesBlock
Faults == ScanStops \/ PreparationFails \/ ExecutionFails
Next == Driver \/ Thread \/ Faults \/ Over
Spec == Init /\ [][Next]_vars
FairSpec == Spec /\ WF_vars(Driver) /\ WF_vars(Thread)

-----------------------------------------------------------------------------
(* What the exchange of buffers between decoders, caches and writer must   *)
(* not break.                                                              *)

Names == {"video", "mask", "output", "overlap"}
Ended == pc \in {"closed", "abandoned"}

\* The caches refer to frames that exist, the output ends where the video
\* cache has been evicted to at the latest, and the two decoded streams end
\* at the same frame: read_paired_video_frames publishes both or neither.
StoreTypeOK ==
    /\ \A name \in Names : \A i \in DOMAIN store[name].chunks :
          LET v == store[name].chunks[i]
          IN v.buf \in DOMAIN store.heap /\ v.n > 0 /\ v.at + v.n <= Len(store.heap[v.buf])
    /\ EndIndex(store.video) = EndIndex(store.mask)
    /\ store.video.start <= EndIndex(store.output)

\* Whatever is spliced, blended or lent, the input cache holds the decoded
\* frames, each at its index: the raw tail of a borrowed block survives the
\* patch that is written into the block (detach_borrowed_head).
InputIsRaw ==
    Contents(store, store.video) = FramesOf(store.video.start, EndIndex(store.video), Raw)

\* The mask a window is run with is that of its new frames, thresholded and
\* not yet consumed, also when the scan's prefix is replayed
\* (PrimedVideoReader) and the threshold works in place.
MaskOfWindow ==
    pc = "run" => hand.mask = FramesOf(Spec1.deal_start, Spec1.commit_end, "binary")

\* The threshold is derived from the maximum of the whole mask video, however
\* early the scan could stop (open_mask_reader_with_scan).
ThresholdIsGlobal ==
    Uint8 /\ pc \notin {"scan", "closed"} => threshold = Brightest(0, NumFrames)

\* What the encoder receives shows for every frame what the plan says: the
\* window that generated it, its predecessor's frame where the overlap is
\* kept, the decoded frame where the window was skipped.  The thread reads the
\* buffers late, when the driver is windows ahead.
ShownBy(f) ==
    LET by[k \in 0..Len(Windows)] ==
            IF k = 0 \/ k \in request.skipped THEN Raw
            ELSE IF request.fuse = "before" /\ f < Windows[k].deal_start THEN by[k - 1]
            ELSE k
    IN by
WrittenAsPlanned ==
    \A i \in DOMAIN written : \E k \in DOMAIN Windows :
        /\ i - 1 \in Windows[k].load_start..(StableEnd(Windows[k]) - 1)
        /\ written[i] = [f |-> i - 1, shows |-> ShownBy(i - 1)[k]]

\* Evicting part of a block gives its memory back: between windows no decoded
\* block is larger than what the input caches still need of it
\* (discard_before copies the tail instead of keeping a view).
NothingPinned ==
    \A name \in {"video", "mask"} : \A i \in DOMAIN store[name].chunks :
        store[name].chunks[i].n = Len(store.heap[store[name].chunks[i].buf])

\* Every decoder and the encoder are collected on every way out, except when
\* prepare_runtime_context itself fails after it has started them.
ResourcesClosed == Ended => open = {} \/ pc = "abandoned"

\* What a window reads is what was decoded, under the mask of that window and
\* one threshold for all, in blocks that pin no memory of evicted frames.
InputsSound == StoreTypeOK /\ InputIsRaw /\ MaskOfWindow /\ ThresholdIsGlobal /\ NothingPinned

\* A request ends, with a short file, a full queue or a failing window, with
\* its decoders and its encoder collected, and one that was not stopped has
\* delivered the whole video.
RequestEnds ==
    <>(Ended /\ ResourcesClosed /\ (pc = "closed" /\ next > Len(Windows) => Len(written) = NumFrames))
=============================================================================
