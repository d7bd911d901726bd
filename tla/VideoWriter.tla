----------------------------- MODULE VideoWriter -----------------------------
(***************************************************************************)
(* SequentialVideoWriter of utils/video_io.py and the two places that      *)
(* close it, finalize_output and close_runtime_resources.                  *)
(*                                                                         *)
(* Three parties share it: the driver thread of the request, which hands   *)
(* over batches of frame blocks; the writer's own thread, which takes them *)
(* from a queue of async_queue_depth items; and the encoder process at the *)
(* other end of a pipe, which may die at any moment.  With a depth of 0    *)
(* there is no thread and the driver writes to the pipe itself.            *)
(*                                                                         *)
(* Blocks are numbered in the order in which the driver produces them.     *)
(***************************************************************************)
EXTENDS Integers, Sequences

CONSTANTS
    Depths,     \* the values async_queue_depth may have
    BlockCount, \* how many blocks the request produces
    MaxBatch    \* blocks one flush hands over at most

ASSUME WriterAssumption ==
    Depths \subseteq Nat /\ BlockCount \in Nat /\ MaxBatch \in Nat \ {0}

VARIABLES
    depth,      \* async_queue_depth of this writer
    driver,     \* program counter of the driver thread
    batch,      \* the blocks it is handing over, or is writing itself
    cleanup,    \* the writer is being closed by close_runtime_resources
    asyncQueue, \* _async_queue
    thread,     \* program counter of _run_async_writer
    asyncItem,  \* the blocks of the item the thread works on
    error,      \* _async_error is set
    closed,     \* _closed
    encoder,    \* "running", "died", "finished" or "refused"
    accepted,   \* blocks handed over to the writer
    piped,      \* blocks written to the pipe, in order
    collected,  \* how often the process has been waited for
    verdict     \* how the request ends: "open", "saved" or "failed"

driverVars  == <<driver, batch, cleanup, verdict>>
threadVars  == <<thread, asyncItem>>
flagVars    == <<error, closed, collected>>
encoderVars == <<encoder, piped>>
writerVars == <<depth, driverVars, asyncQueue, threadVars, flagVars, encoderVars, accepted>>

\* The blocks from a to b, handed over as one item.
Run(a, b) == [first |-> a, last |-> b]

\* _async_sentinel, an item without blocks, and the value of no item.
Sentinel == Run(1, 0)

Size(run) == run.last - run.first + 1

AfterFirst(run) == Run(run.first + 1, run.last)

Async == depth > 0

ThreadAlive == Async /\ thread # "returned"

WriterInit ==
    /\ depth \in Depths
    /\ driver = "producing" /\ batch = Sentinel /\ cleanup = FALSE
    /\ asyncQueue = <<>>
    /\ thread = (IF Async THEN "waiting" ELSE "returned") /\ asyncItem = Sentinel
    /\ error = FALSE /\ closed = FALSE /\ collected = 0
    /\ encoder = "running"
    /\ accepted = 0 /\ piped = <<>>
    /\ verdict = "open"

-----------------------------------------------------------------------------
(***************************************************************************)
(* The pipe.  A write to a live encoder reaches it.  A write to a dead one *)
(* raises BrokenPipeError, unless it is small enough to stay in Python's   *)
(* buffer until the pipe is closed.                                        *)
(***************************************************************************)

PipeTakes(block) ==
    /\ piped' = Append(piped, block)
    /\ UNCHANGED encoder

PipeIsBroken == encoder # "running"

\* _wait_and_collect_stderr up to process.wait().
ShutsPipe ==
    /\ closed' = TRUE
    /\ UNCHANGED <<encoder, piped>>

\* The rest of it: the process has exited, its messages are read.
Reaps ==
    /\ encoder # "running"
    /\ collected' = collected + 1

EncoderDies ==
    /\ encoder = "running"
    /\ encoder' = "died"
    /\ UNCHANGED <<driverVars, asyncQueue, threadVars, flagVars, piped, accepted>>

\* At the end of its input the encoder finishes the file or gives up.
EncoderEnds ==
    /\ encoder = "running" /\ closed
    /\ encoder' \in {"finished", "refused"}
    /\ UNCHANGED <<driverVars, asyncQueue, threadVars, flagVars, piped, accepted>>

-----------------------------------------------------------------------------
(***************************************************************************)
(* The driver hands frames over: write_frames_owned and, for several       *)
(* blocks, write_frame_blocks_owned.                                       *)
(***************************************************************************)

\* A flush of n blocks.
FlushBegins(n) ==
    /\ driver = "producing" /\ accepted + n <= BlockCount
    /\ batch' = Run(accepted + 1, accepted + n)
    /\ driver' = (IF Async THEN "checking" ELSE "writing")
    /\ accepted' = (IF Async THEN accepted ELSE accepted + n)
    /\ UNCHANGED <<cleanup, verdict, asyncQueue, threadVars, flagVars, encoderVars>>

\* _enqueue_async looks for an error before every attempt.
EnqueueChecks ==
    /\ driver = "checking"
    /\ driver' = (IF error THEN "closing" ELSE "offering")
    /\ cleanup' = error
    /\ UNCHANGED <<batch, verdict, asyncQueue, threadVars, flagVars, encoderVars, accepted>>

\* Queue.put succeeds within its timeout.
EnqueuePuts ==
    /\ driver = "offering" /\ Len(asyncQueue) < depth
    /\ asyncQueue' = Append(asyncQueue, batch)
    /\ accepted' = accepted + Size(batch)
    /\ batch' = Sentinel
    /\ driver' = "producing"
    /\ UNCHANGED <<cleanup, verdict, threadVars, flagVars, encoderVars>>

\* Queue.put times out on a full queue.
EnqueueTimesOut ==
    /\ driver = "offering" /\ Len(asyncQueue) = depth
    /\ driver' = "checking"
    /\ UNCHANGED <<batch, cleanup, verdict, asyncQueue, threadVars, flagVars, encoderVars, accepted>>

\* Without a thread: one block after the other.
DriverWrites ==
    /\ driver = "writing"
    /\ PipeTakes(batch.first)
    /\ batch' = AfterFirst(batch)
    /\ driver' = (IF batch.first = batch.last THEN "producing" ELSE "writing")
    /\ UNCHANGED <<cleanup, verdict, asyncQueue, threadVars, flagVars, accepted>>

\* BrokenPipeError in the driver: the process is collected on the spot.
DriverMeetsBrokenPipe ==
    /\ driver = "writing" /\ PipeIsBroken
    /\ ShutsPipe /\ Reaps
    /\ driver' = "closing" /\ cleanup' = TRUE /\ batch' = Sentinel
    /\ UNCHANGED <<verdict, asyncQueue, threadVars, error, accepted>>

\* The request fails or is cancelled between two flushes.
RequestFails ==
    /\ driver = "producing"
    /\ driver' = "closing" /\ cleanup' = TRUE
    /\ UNCHANGED <<batch, verdict, asyncQueue, threadVars, flagVars, encoderVars, accepted>>

\* All windows are done: finalize_output closes the writer.
Finalizes ==
    /\ driver = "producing" /\ accepted = BlockCount
    /\ driver' = "closing"
    /\ UNCHANGED <<batch, cleanup, verdict, asyncQueue, threadVars, flagVars, encoderVars, accepted>>

-----------------------------------------------------------------------------
(***************************************************************************)
(* The writer's thread.                                                    *)
(***************************************************************************)

\* After an error items are taken and dropped, so that put never hangs.
ThreadGets ==
    /\ thread = "waiting" /\ asyncQueue # <<>>
    /\ asyncQueue' = Tail(asyncQueue)
    /\ IF Head(asyncQueue) = Sentinel
       THEN thread' = "returned" /\ UNCHANGED asyncItem
       ELSE IF error
            THEN UNCHANGED threadVars
            ELSE thread' = "writing" /\ asyncItem' = Head(asyncQueue)
    /\ UNCHANGED <<driverVars, flagVars, encoderVars, accepted>>

ThreadWrites ==
    /\ thread = "writing"
    /\ PipeTakes(asyncItem.first)
    /\ asyncItem' = AfterFirst(asyncItem)
    /\ thread' = (IF asyncItem.first = asyncItem.last THEN "waiting" ELSE "writing")
    /\ UNCHANGED <<driverVars, asyncQueue, flagVars, accepted>>

\* BrokenPipeError: the thread collects the process itself ...
ThreadMeetsBrokenPipe ==
    /\ thread = "writing" /\ PipeIsBroken
    /\ ShutsPipe /\ Reaps
    /\ thread' = "raising"
    /\ UNCHANGED <<driverVars, asyncQueue, asyncItem, error, accepted>>

\* ... and then records the error.
ThreadRecordsError ==
    /\ thread = "raising"
    /\ error' = TRUE
    /\ thread' = "waiting" /\ asyncItem' = Sentinel
    /\ UNCHANGED <<driverVars, asyncQueue, closed, collected, encoderVars, accepted>>

\* Another exception, such as MemoryError, leaves the process alone.
ThreadFails ==
    /\ thread = "writing"
    /\ error' = TRUE
    /\ thread' = "waiting" /\ asyncItem' = Sentinel
    /\ UNCHANGED <<driverVars, asyncQueue, closed, collected, encoderVars, accepted>>

-----------------------------------------------------------------------------
(***************************************************************************)
(* close.                                                                  *)
(***************************************************************************)

CloseBegins ==
    /\ driver = "closing"
    /\ driver' = (IF ThreadAlive THEN "stopping" ELSE "deciding")
    /\ UNCHANGED <<batch, cleanup, verdict, asyncQueue, threadVars, flagVars, encoderVars, accepted>>

\* The sentinel waits for room in the queue.
ClosePutsSentinel ==
    /\ driver = "stopping" /\ Len(asyncQueue) < depth
    /\ asyncQueue' = Append(asyncQueue, Sentinel)
    /\ driver' = "joining"
    /\ UNCHANGED <<batch, cleanup, verdict, threadVars, flagVars, encoderVars, accepted>>

CloseJoins ==
    /\ driver = "joining" /\ ~ThreadAlive
    /\ driver' = "deciding"
    /\ UNCHANGED <<batch, cleanup, verdict, asyncQueue, threadVars, flagVars, encoderVars, accepted>>

\* Bug seeded to test the checks: a close that raised is tried again.
Mut_CloseEnds(raised) ==
    IF raised
    THEN driver' = "closing" /\ UNCHANGED <<cleanup, verdict>>
    ELSE /\ driver' = "done"
         /\ verdict' = (IF cleanup THEN "failed" ELSE "saved")
         /\ UNCHANGED cleanup

\* What follows a close that returned or raised: finalize_output that fails
\* makes the pipeline close the writer again on its way out.
CloseEnds(raised) ==
    IF raised /\ ~cleanup
    THEN driver' = "closing" /\ cleanup' = TRUE /\ UNCHANGED verdict
    ELSE /\ driver' = "done"
         /\ verdict' = (IF cleanup THEN "failed" ELSE "saved")
         /\ UNCHANGED cleanup

\* The process has been collected before: only an error is left to report.
CloseFindsClosed ==
    /\ driver = "deciding" /\ closed
    /\ CloseEnds(error)
    /\ UNCHANGED <<batch, asyncQueue, threadVars, flagVars, encoderVars, accepted>>

\* Bug seeded to test the checks: _closed is not looked at.
Mut_CloseShutsPipe ==
    /\ driver = "deciding"
    /\ ShutsPipe
    /\ driver' = "waiting"
    /\ UNCHANGED <<batch, cleanup, verdict, asyncQueue, threadVars, error, collected, accepted>>

CloseShutsPipe ==
    /\ driver = "deciding" /\ ~closed
    /\ ShutsPipe
    /\ driver' = "waiting"
    /\ UNCHANGED <<batch, cleanup, verdict, asyncQueue, threadVars, error, collected, accepted>>

\* Bug seeded to test the checks: the thread's error is forgotten.
Mut_CloseReaps ==
    /\ driver = "waiting"
    /\ Reaps
    /\ CloseEnds(encoder # "finished")
    /\ UNCHANGED <<batch, asyncQueue, threadVars, error, closed, encoderVars, accepted>>

\* The thread's error and the exit status raise.  (So does a flush of
\* Python's buffer that fails when the pipe is closed, after a death that
\* the exit status shows as well.)
CloseReaps ==
    /\ driver = "waiting"
    /\ Reaps
    /\ CloseEnds(error \/ encoder # "finished")
    /\ UNCHANGED <<batch, asyncQueue, threadVars, error, closed, encoderVars, accepted>>

Done == driver = "done" /\ UNCHANGED writerVars

-----------------------------------------------------------------------------
DriverSteps ==
    \/ EnqueueChecks \/ EnqueuePuts \/ EnqueueTimesOut
    \/ DriverWrites \/ DriverMeetsBrokenPipe
    \/ CloseBegins \/ ClosePutsSentinel \/ CloseJoins
    \/ CloseFindsClosed \/ CloseShutsPipe \/ CloseReaps

Produces == (\E n \in 1..MaxBatch : FlushBegins(n)) \/ Finalizes

ThreadSteps ==
    \/ ThreadGets \/ ThreadWrites \/ ThreadMeetsBrokenPipe
    \/ ThreadRecordsError \/ ThreadFails

Step ==
    \/ Produces \/ RequestFails \/ DriverSteps \/ ThreadSteps
    \/ EncoderDies \/ EncoderEnds

WriterNext == (Step /\ UNCHANGED depth) \/ Done

WriterSpec == WriterInit /\ [][WriterNext]_writerVars

-----------------------------------------------------------------------------
(***************************************************************************)
(* What SequentialVideoWriter guarantees its caller.                       *)
(***************************************************************************)

Runs == [first : Nat, last : Nat]

\* The values the writer's state may take; the queue never holds more items than
\* async_queue_depth, whoever puts them there.
WriterTypeOK ==
    /\ depth \in Nat
    /\ driver \in {"producing", "checking", "offering", "writing", "closing",
                   "stopping", "joining", "deciding", "waiting", "done"}
    /\ batch \in Runs /\ cleanup \in BOOLEAN
    /\ asyncQueue \in Seq(Runs) /\ Len(asyncQueue) <= depth
    /\ thread \in {"waiting", "writing", "raising", "returned"} /\ asyncItem \in Runs
    /\ error \in BOOLEAN /\ closed \in BOOLEAN /\ collected \in Nat
    /\ encoder \in {"running", "died", "finished", "refused"}
    /\ accepted \in Nat /\ piped \in Seq(Nat)
    /\ verdict \in {"open", "saved", "failed"}

\* Blocks reach the pipe in the order they were handed over, without a gap,
\* also when the thread fails in the middle of an item while more are queued.
WrittenInOrder == \A i \in DOMAIN piped : piped[i] = i

\* Whoever notices the broken pipe, the encoder process is waited for exactly
\* once: a second _wait_and_collect_stderr would read a closed file.
CollectedOnce == collected <= 1 /\ (driver = "done" => collected = 1)

\* When the request is over the writer's thread has returned and no encoder
\* is running, whichever of the two close calls met the failure.
NothingLeft == driver = "done" => ~ThreadAlive /\ encoder # "running"

\* What the owner of the encoder process relies on: frames arrive in order,
\* the process is collected once, and nothing survives the request.
EncoderSound == WrittenInOrder /\ CollectedOnce /\ NothingLeft

-----------------------------------------------------------------------------
\* The writer as a sink of frames.
Sink == INSTANCE FrameSink WITH
    delivered <- Len(piped),
    file      <- IF encoder = "finished" THEN "finished" ELSE "partial"

\* The detailed writer is a FrameSink: frames are delivered in order, and the
\* request counts as saved only if all of them are and the file is finished.
KeepsSink == Sink!Spec

-----------------------------------------------------------------------------
(***************************************************************************)
(* Fairness: both threads run, and the encoder ends once its input does.   *)
(* The request itself may take as long as it likes.                        *)
(***************************************************************************)
WriterFairSpec ==
    /\ WriterSpec
    /\ WF_writerVars(DriverSteps /\ UNCHANGED depth)
    /\ WF_writerVars(ThreadSteps /\ UNCHANGED depth)
    /\ WF_writerVars(EncoderEnds /\ UNCHANGED depth)

\* A hand-over or a close never hangs: not on a full queue whose consumer has
\* failed, not on a join, not on a process that somebody else has collected.
CallsReturn ==
    (driver \notin {"producing", "done"}) ~> (driver \in {"producing", "done"})
=============================================================================
