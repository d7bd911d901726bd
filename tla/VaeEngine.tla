----------------------------- MODULE VaeEngine -----------------------------
(***************************************************************************)
(* VAEParallelEngine.execute (parallel/vae_parallel.py) on all ranks of    *)
(* the VAE group.  Every rank walks through the same script: a body, then  *)
(* an all_gather of error flags that all ranks enter (`log' holds what a   *)
(* rank has contributed so far).  Tiles travel point to point between the  *)
(* owner and the rank a task is assigned to.                               *)
(* A tile is a sequence of elements; 0 is padding.                         *)
(***************************************************************************)
EXTENDS GroupRuntime, VaePlan
LOCAL INSTANCE SequencesExt

CONSTANTS Owner,      \* the rank that has the whole input and gets the output
          Plans,      \* the plans the callers may supply
          Unusual     \* bound: the peers that may supply more than a size

ASSUME EngineAssumption ==
    /\ Owner \in Ranks /\ Unusual \subseteq Ranks
    /\ Plans /= {} /\ \A p \in Plans : p \in VAETaskPlan

VARIABLES given,      \* the plan or the size each caller supplies
          agreed,     \* the plan a rank works by
          pc,         \* its place in the script
          log,        \* its contributions to the control group's all_gathers
          waiting,    \* is it inside an all_gather?
          sending,    \* is it inside the wait of an unbuffered send?
          eager,      \* does the transport complete a send on its own?
          chan,       \* tiles under way, in order, per sender and receiver
          announced,  \* the metadata broadcast by the owner
          fullInput,  \* does the owner still hold the whole input?
          prepared,   \* the tile the owner has materialized
          tile,       \* local_input
          output,     \* local_output
          received,   \* the tile the owner has got back
          merged,     \* what the owner has merged so far
          outcome     \* how execute has ended on a rank

tileVars == <<fullInput, prepared, tile, output, received, merged>>
engineVars == <<given, agreed, pc, log, waiting, sending, eager, chan, announced,
                fullInput, prepared, tile, output, received, merged, outcome>>

NoTile == <<>>
Running == [kind |-> "running", phase |-> "", ranks |-> {}]

(* What a caller passes: a plan, or only the size of its metadata.         *)
WithPlan(p) == [plan |-> p, size |-> Len(EncodePlan(p))]
OnlySize(n) == [plan |-> NotAPlan, size |-> n]
Usual(p) == OnlySize(Len(EncodePlan(p)))
Supplies(p) == {WithPlan(q) : q \in Plans} \cup {Usual(p), OnlySize(Len(EncodePlan(p)) + 1)}

EngineInit ==
    /\ \E p \in Plans : given \in {g \in [Ranks -> Supplies(p)] :
                                     /\ g[Owner] = WithPlan(p)
                                     /\ \A r \in Ranks \ (Unusual \cup {Owner}) : g[r] = Usual(p)}
    /\ agreed = [r \in Ranks |-> NotAPlan]
    /\ pc = [r \in Ranks |-> 1]
    /\ log = [r \in Ranks |-> <<>>]
    /\ waiting = [r \in Ranks |-> FALSE]
    /\ sending = [r \in Ranks |-> FALSE]
    /\ eager \in BOOLEAN
    /\ chan = [e \in Ranks \X Ranks |-> <<>>]
    /\ announced = <<>>
    /\ fullInput = TRUE
    /\ prepared = NoTile
    /\ tile = [r \in Ranks |-> NoTile]
    /\ output = [r \in Ranks |-> NoTile]
    /\ received = NoTile
    /\ merged = <<>>
    /\ outcome = [r \in Ranks |-> IF VaeGroup(job.degrees) = WorldRanks(N) THEN Running
                                  ELSE [Running EXCEPT !.kind = "unused"]]

(* The steps of a round: a materialize and a scatter per task in the order *)
(* of the slots, one execute, a gather and a merge per task in the order   *)
(* of the task ids.                                                        *)
Step(phase, round, task) == [phase |-> phase, round |-> round, task |-> task]

RoundScript(p, k) ==
    LET out(t) == IF t = 0 THEN <<>>
                  ELSE << Step("materialize", k, t), Step("scatter", k, t) >>
        back(t) == IF t \notin Active(p, Ranks, k) THEN <<>>
                   ELSE << Step("gather", k, t), Step("merge", k, t) >>
    IN FlattenSeq([n \in 1..N |-> out(TaskIn(p, n - 1, k))])
       \o << Step("execute", k, 0) >>
       \o FlattenSeq([t \in DOMAIN p.tasks |-> back(t)])

Opening == << Step("plan", 0, 0), Step("signature", 0, 0), Step("metadata", 0, 0) >>

Script(p) == IF p = NotAPlan THEN Opening
             ELSE Opening \o FlattenSeq([k \in 1..p.rounds |-> RoundScript(p, k)])
                  \o << Step("drain", 0, 0) >>

(* One script, one encoding and one decoding per plan. *)
Scripts == [p \in {q \in Plans : PlanOK(q)} \cup {NotAPlan} |-> Script(p)]
Encodings == [p \in Plans |-> EncodePlan(p)]
Decoded == [m \in {Encodings[p] : p \in Plans} |-> DecodePlan(m)]

(* Every script starts with Opening, whatever the plan.                    *)
At(r) == IF pc[r] <= Len(Opening) THEN Opening[pc[r]] ELSE Scripts[agreed[r]][pc[r]]
TaskAt(r) == agreed[r].tasks[At(r).task]
Working(r) == stage[r] = "up" /\ outcome[r].kind = "running" /\ ~waiting[r] /\ ~sending[r]
Runs(r, phase) == Working(r) /\ At(r).phase = phase

(* A rank enters the all_gather that ends its step.                        *)
Post(r, bad, sign) ==
    /\ log' = [log EXCEPT ![r] = Append(@, [phase |-> At(r).phase, bad |-> bad, sign |-> sign])]
    /\ waiting' = [waiting EXCEPT ![r] = TRUE]

Posts(r, bad) == Post(r, bad, <<>>)

(* The body succeeds, or raises and is caught; either way the flag is sent.*)
Succeeds(r) == Posts(r, FALSE) /\ UNCHANGED faults
Raises(r) == Budget /\ Spend /\ Posts(r, TRUE)

ValidHere(r) == given[r].plan = NotAPlan
                \/ (PlanOK(given[r].plan) /\ MembersOK(given[r].plan, Owner, Ranks))

(* Local validation of the arguments. *)
ChecksPlan(r) ==
    /\ Runs(r, "plan")
    /\ IF ValidHere(r) THEN Succeeds(r) \/ Raises(r) ELSE Posts(r, TRUE) /\ UNCHANGED faults
    /\ UNCHANGED <<given, agreed, pc, sending, eager, chan, announced, tileVars, outcome>>

(* _synchronize_execution_signature: has a plan, its size, its digest.     *)
Signs(r) ==
    /\ Runs(r, "signature")
    /\ Post(r, FALSE, <<given[r].plan /= NotAPlan, given[r].size,
                        IF given[r].plan = NotAPlan THEN <<>> ELSE Encodings[given[r].plan]>>)
    /\ UNCHANGED <<given, agreed, pc, sending, eager, chan, announced, tileVars, outcome, faults>>

(* The owner broadcasts the metadata; every rank decodes what it has got.  *)
(* A broadcast that does not come about is TransferFails and TimesOut.     *)
Announces(r) ==
    /\ Runs(r, "metadata")
    /\ r = Owner \/ announced /= <<>>
    /\ announced' = IF r = Owner THEN Encodings[given[r].plan] ELSE announced
    /\ LET p == Decoded[announced']
           fits == /\ p /= NotAPlan
                   /\ MembersOK(p, Owner, Ranks)
                   /\ given[r].plan \in {NotAPlan, p}
       IN /\ agreed' = [agreed EXCEPT ![r] = IF fits THEN p ELSE @]
          /\ \/ Posts(r, ~fits) /\ UNCHANGED faults
             \/ fits /\ Raises(r)
    /\ UNCHANGED <<given, pc, sending, eager, chan, tileVars, outcome>>

(* materialize_input on the owner; the others only take part in the sync.  *)
Content(p, i) == [k \in 1..(p.tasks[i].in[1][2] - p.tasks[i].in[1][1]) |-> <<i, k>>]

Materializes(r) ==
    /\ Runs(r, "materialize")
    /\ IF r /= Owner THEN Succeeds(r) /\ UNCHANGED prepared
       ELSE IF ~fullInput THEN Posts(r, TRUE) /\ UNCHANGED <<prepared, faults>>
       ELSE \/ /\ prepared' = PadTensor(Content(agreed[r], At(r).task),
                                        InputEnvelope(agreed[r], Ranks, At(r).round))
               /\ Succeeds(r)
            \/ Raises(r) /\ UNCHANGED prepared
    /\ UNCHANGED <<given, agreed, pc, sending, eager, chan, announced, fullInput, tile,
                   output, received, merged, outcome>>

(* isend_tensor and its wait; a send is complete when the transport says   *)
(* so, at once or when the tile has been taken.                            *)
Sends(r, to, data, out) ==
    /\ chan' = [chan EXCEPT ![<<r, to>>] =
                  Append(@, [tag |-> TransferTag(At(r).round, TaskAt(r).rank, N, out),
                             data |-> data])]
    /\ IF eager THEN Posts(r, FALSE) /\ UNCHANGED sending
       ELSE sending' = [sending EXCEPT ![r] = TRUE] /\ UNCHANGED <<log, waiting>>

SendTaken(r) ==
    /\ sending[r]
    /\ \A q \in Ranks : chan[<<r, q>>] = <<>>
    /\ sending' = [sending EXCEPT ![r] = FALSE]
    /\ Posts(r, FALSE)
    /\ UNCHANGED <<given, agreed, pc, eager, chan, announced, tileVars, outcome, faults>>

Receives(r, from) ==
    /\ chan[<<from, r>>] /= <<>>
    /\ chan' = [chan EXCEPT ![<<from, r>>] = Tail(@)]
    /\ Posts(r, FALSE)
    /\ UNCHANGED sending

NoTransfer(r) == Posts(r, FALSE) /\ UNCHANGED <<chan, sending>>

(* A tile goes from the owner to the rank of its task. *)
Scatters(r) ==
    /\ Runs(r, "scatter")
    /\ LET worker == TaskAt(r).rank
       IN IF worker = Owner
          THEN /\ NoTransfer(r)
               /\ tile' = IF r = Owner THEN [tile EXCEPT ![r] = prepared] ELSE tile
          ELSE CASE r = Owner -> Sends(r, worker, prepared, FALSE) /\ UNCHANGED tile
                 [] r = worker -> /\ Receives(r, Owner)
                                  /\ tile' = [tile EXCEPT ![r] = Head(chan[<<Owner, r>>]).data]
                 [] OTHER -> NoTransfer(r) /\ UNCHANGED tile
    /\ UNCHANGED <<given, agreed, pc, eager, announced, fullInput, prepared, output,
                   received, merged, outcome, faults>>

(* execute_local: what it returns depends on the view it gets.             *)
Executed(p, i, view) == [k \in 1..(p.tasks[i].out[1][2] - p.tasks[i].out[1][1]) |-> <<i, view>>]

(* After the last scatter the owner drops the whole input; a rank without  *)
(* a task in this round sends nothing.                                     *)
Executes(r) ==
    LET p == agreed[r]
        k == At(r).round
        i == TaskIn(p, r, k)
    IN /\ Runs(r, "execute")
       /\ fullInput' = (fullInput /\ ~(r = Owner /\ k = p.rounds))
       /\ tile' = [tile EXCEPT ![r] = NoTile]
       /\ IF i = 0 THEN UNCHANGED output /\ Succeeds(r)
          ELSE \/ /\ output' = [output EXCEPT ![r] =
                        PadTensor(Executed(p, i, OriginCrop(tile[r], p.tasks[i].padin)),
                                  OutputEnvelope(p, Ranks, k))]
                  /\ Succeeds(r)
               \/ Raises(r) /\ UNCHANGED output
       /\ UNCHANGED <<given, agreed, pc, sending, eager, chan, announced, prepared,
                      received, merged, outcome>>

(* A tile comes back to the owner. *)
Gathers(r) ==
    /\ Runs(r, "gather")
    /\ LET worker == TaskAt(r).rank
       IN IF worker = Owner
          THEN NoTransfer(r) /\ received' = IF r = Owner THEN output[r] ELSE received
          ELSE CASE r = Owner -> Receives(r, worker) /\ received' = Head(chan[<<worker, r>>]).data
                 [] r = worker -> Sends(r, Owner, output[r], TRUE) /\ UNCHANGED received
                 [] OTHER -> NoTransfer(r) /\ UNCHANGED received
    /\ UNCHANGED <<given, agreed, pc, eager, announced, fullInput, prepared, tile, output,
                   merged, outcome, faults>>

(* The two ends of a transfer, or the broadcast.  One end may raise before *)
(* its part is done: the buffer cannot be allocated, the call or its wait  *)
(* fails.  It is caught, and what is under way stays under way.            *)
Ends(r) == TaskAt(r).rank /= Owner /\ r \in {Owner, TaskAt(r).rank}

TransferFails(r) ==
    /\ \/ sending[r]
       \/ Runs(r, "metadata")
       \/ (Runs(r, "scatter") \/ Runs(r, "gather")) /\ Ends(r)
    /\ sending' = [sending EXCEPT ![r] = FALSE]
    /\ Raises(r)
    /\ UNCHANGED <<given, agreed, pc, eager, chan, announced, tileVars, outcome>>

(* What a rank waits for in the body of its step, before the all_gather.   *)
Partner(r) == IF r = Owner THEN TaskAt(r).rank ELSE Owner
Awaits(r) ==
    \/ sending[r] /\ chan[<<r, Partner(r)>>] /= <<>>
    \/ Runs(r, "metadata") /\ r /= Owner /\ announced = <<>>
    \/ Runs(r, "scatter") /\ r /= Owner /\ Ends(r) /\ chan[<<Owner, r>>] = <<>>
    \/ Runs(r, "gather") /\ r = Owner /\ Ends(r) /\ chan[<<Partner(r), r>>] = <<>>

(* The other end has left the step without doing its part.                 *)
Deserted(r) ==
    /\ Awaits(r)
    /\ Len(log[Partner(r)]) > Len(log[r]) \/ outcome[Partner(r)].kind = "escaped"

(* Then the wait ends with the timeout of the group, an error like others. *)
TimesOut(r) ==
    /\ Deserted(r)
    /\ sending' = [sending EXCEPT ![r] = FALSE]
    /\ Posts(r, TRUE)
    /\ UNCHANGED <<given, agreed, pc, eager, chan, announced, tileVars, outcome, faults>>

(* The buffers of a round, the caches to release, the flag and the         *)
(* signature are allocated outside every try: a rank that fails there      *)
(* leaves execute without a flag, as if before the body of its step (what  *)
(* a body did before its flag could not be allocated is left out).         *)
Escapes(r) ==
    /\ Working(r)
    /\ Budget /\ Spend
    /\ outcome' = [outcome EXCEPT ![r].kind = "escaped"]
    /\ UNCHANGED <<given, agreed, pc, log, waiting, sending, eager, chan, announced, tileVars>>

(* merge_round on the owner, one task at a time. *)
Merges(r) ==
    /\ Runs(r, "merge")
    /\ IF r /= Owner THEN Succeeds(r) /\ UNCHANGED merged
       ELSE \/ /\ merged' = Append(merged, <<At(r).task, OriginCrop(received, TaskAt(r).padout)>>)
               /\ Succeeds(r)
            \/ Raises(r) /\ UNCHANGED merged
    /\ UNCHANGED <<given, agreed, pc, sending, eager, chan, announced, fullInput, prepared,
                   tile, output, received, outcome>>

Mut_Drains(r) ==
    /\ Runs(r, "drain")
    /\ IF r = Owner
       THEN (Succeeds(r) \/ Raises(r)) /\ UNCHANGED outcome
       ELSE /\ outcome' = [outcome EXCEPT ![r].kind = "returned"]
            /\ UNCHANGED <<log, waiting, faults>>
    /\ UNCHANGED <<given, agreed, pc, sending, eager, chan, announced, tileVars>>

Drains(r) ==
    /\ Runs(r, "drain")
    /\ Succeeds(r) \/ Raises(r)
    /\ UNCHANGED <<given, agreed, pc, sending, eager, chan, announced, tileVars, outcome>>

(* The all_gather a rank is in; it completes when all have contributed.    *)
Round(r) == Len(log[r])
Complete(r) == \A q \in Ranks : Len(log[q]) >= Round(r)
Mut_Flagged(r) == {q \in {r, Owner} : log[q][Round(r)].bad}
Flagged(r) == {q \in Ranks : log[q][Round(r)].bad}

Signature(r, q) == log[q][Round(r)].sign
SignaturesAgree(r) ==
    LET mine == Signature(r, Owner)
    IN /\ mine[1]
       /\ \A q \in Ranks : Signature(r, q)[2] = mine[2]
       /\ \A q \in Ranks : Signature(r, q)[1] => Signature(r, q)[3] = mine[3]

Reported(phase) == IF phase = "metadata" THEN "plan" ELSE phase

(* synchronize_phase_error: all ranks raise, or all go on. *)
Verdict(r) ==
    IF At(r).phase = "signature"
    THEN IF SignaturesAgree(r) THEN Running
         ELSE [kind |-> "raised", phase |-> "plan", ranks |-> Ranks]
    ELSE IF Flagged(r) /= {}
    THEN [kind |-> "raised", phase |-> Reported(At(r).phase), ranks |-> Flagged(r)]
    ELSE IF At(r).phase = "drain" THEN [Running EXCEPT !.kind = "returned"]
    ELSE Running

Syncs(r) ==
    /\ waiting[r]
    /\ Complete(r)
    /\ outcome' = [outcome EXCEPT ![r] = Verdict(r)]
    /\ waiting' = [waiting EXCEPT ![r] = FALSE]
    /\ pc' = [pc EXCEPT ![r] = IF Verdict(r) = Running THEN @ + 1 ELSE @]
    /\ UNCHANGED <<given, agreed, log, sending, eager, chan, announced, tileVars, faults>>

(* The all_gather raises, by a closed connection or by its own timeout,    *)
(* when it waits for a rank that never comes or only after a timeout of    *)
(* its own, and when another rank has given it up.                         *)
HeldUp(q) == stage[q] \in Gone \/ outcome[q].kind = "escaped" \/ Deserted(q)

LosesPeer(r) ==
    /\ waiting[r]
    /\ \E q \in Ranks : \/ Len(log[q]) < Round(r) /\ HeldUp(q)
                        \/ Len(log[q]) = Round(r) /\ outcome[q].kind = "lost"
    /\ outcome' = [outcome EXCEPT ![r].kind = "lost"]
    /\ waiting' = [waiting EXCEPT ![r] = FALSE]
    /\ UNCHANGED <<given, agreed, pc, log, sending, eager, chan, announced, tileVars, faults>>

EngineStep(r) ==
    \/ ChecksPlan(r) \/ Signs(r) \/ Announces(r)
    \/ Materializes(r) \/ Scatters(r) \/ Executes(r) \/ Gathers(r) \/ Merges(r) \/ Drains(r)
    \/ TransferFails(r) \/ TimesOut(r) \/ Escapes(r)
    \/ SendTaken(r) \/ Syncs(r) \/ LosesPeer(r)
============================================================================
