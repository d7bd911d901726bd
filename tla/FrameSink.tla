------------------------------ MODULE FrameSink ------------------------------
(***************************************************************************)
(* What the windowed runtime relies on when it hands frames to a writer:   *)
(* frames are delivered in the order they were accepted, none is skipped,  *)
(* and the output is reported as saved only if every accepted frame has    *)
(* been delivered and the encoder has finished the file.                   *)
(***************************************************************************)
EXTENDS Naturals

VARIABLES
    accepted,   \* blocks of frames taken over from the caller
    delivered,  \* how many of them, from the first on, reached the encoder
    file,       \* "partial" or "finished": what the encoder left on disk
    verdict     \* "open", "saved" or "failed": what the caller was told

sinkVars == <<accepted, delivered, file, verdict>>

Init == accepted = 0 /\ delivered = 0 /\ file = "partial" /\ verdict = "open"

\* A caller hands over more frames.
Accept == /\ verdict = "open" /\ file = "partial"
          /\ accepted' \in Nat /\ accepted' > accepted
          /\ UNCHANGED <<delivered, file, verdict>>

\* Exactly the next block reaches the encoder.
Deliver == /\ delivered < accepted
           /\ delivered' = delivered + 1
           /\ UNCHANGED <<accepted, file, verdict>>

\* The encoder finishes the file.
Finish == /\ file = "partial" /\ verdict = "open"
          /\ file' = "finished"
          /\ UNCHANGED <<accepted, delivered, verdict>>

Save == /\ verdict = "open" /\ file = "finished" /\ delivered = accepted
        /\ verdict' = "saved"
        /\ UNCHANGED <<accepted, delivered, file>>

Fail == /\ verdict = "open"
        /\ verdict' = "failed"
        /\ UNCHANGED <<accepted, delivered, file>>

Next == Accept \/ Deliver \/ Finish \/ Save \/ Fail

Spec == Init /\ [][Next]_sinkVars
=============================================================================
