----------------------------- MODULE RankProofs -----------------------------
(***************************************************************************)
(* For any number of ranks, any plans and any number of failures, ranks    *)
(* that nothing has separated stay together (RanksTogether), and a rank    *)
(* never has the tensors of two windows (OneWindowResident).               *)
(***************************************************************************)
EXTENDS RankProtocol, TLAPS

\* Places outside a request.
Over == {"command", "destroy", "gone"}

\* The contract under which the writer alone has checkpoints of its own.
Split == exact /\ mode = "writer_owned"

\* Where a rank may wait with an error of its own.
ErrorPlaces == ErrorBoundaries \cup {"metadata", "header", "commit_header", "commit_alloc"}

\* An error waits for the collective that carries it.  The writer's errors in
\* a broadcast are told by the header, which takes the ranks to a boundary.
ErrorsOK ==
    /\ \A r \in Ranks : error[r] # "none" =>
         /\ ready[r] /\ place[r] \in ErrorPlaces
         /\ place[r] \in {"metadata", "header"} => r = Writer
    /\ ready[Writer] /\ place[Writer] \in {"metadata", "header"} =>
         (header.code = "ERROR" <=> error[Writer] # "none")
    /\ place[Writer] \in {"metadata_error", "header_error"} => error[Writer] # "none"
    /\ \A r \in Ranks : place[r] \in {"metadata_error", "header_error"} => ready[r]

\* The places of a window, between two commands of the writer.
WindowPlaces ==
    {"skip_boundary", "skip_ckpt", "reclaim", "encode_stage", "denoise_step", "denoise_stage",
     "commit_setup", "commit_header", "commit_patch", "commit_alloc", "commit_payload",
     "commit_stage", "window_boundary", "window_ckpt", "end_boundary"}

\* In the streaming mode a command is under way wherever the writer can raise.
DispatchOK ==
    mode = "writer_owned" =>
        /\ place[Writer] \in WindowPlaces => command_dispatched
        /\ place[Writer] = "header" /\ ready[Writer] /\ header.code # "ERROR" => command_dispatched

\* Every rank counts the same windows of the same pass.
WindowsOK ==
    ~Split =>
        /\ \A r \in Ranks : win[r] = win[Writer] /\ warm[r] = warm[Writer]
        /\ place[Writer] = "header" /\ ready[Writer] /\ header.window > 0 =>
             header.window = win[Writer] + 1

\* Where a failure has left its rank: still waiting with it, or out of the
\* request, and of the group if it was fatal.
Left(r, kind) == IF kind = "fatal" THEN place[r] \in {"destroy", "gone"} ELSE place[r] = "command"

StruckOK ==
    /\ struck \subseteq [place : Places \ Over, rank : Ranks,
                         how : {"carried", "loop", "outside"}, kind : Kinds]
    /\ \A s, t \in struck : s.rank = t.rank => s = t
    /\ \A s \in struck : \/ Left(s.rank, s.kind)
                         \/ s.how # "outside" /\ error[s.rank] = s.kind
    /\ \A r \in Ranks : error[r] = "fatal" => \E s \in struck : s.rank = r /\ s.kind = "fatal"

\* Ranks are at one place, or were separated from it by a failure on record.
Away(r, p) ==
    \E s \in struck :
        /\ s.rank = r
        /\ \/ s.how = "outside" /\ s.place = p /\ place[r] \in {"command", "destroy"}
           \/ s.how = "loop" /\ p = "denoise_step" /\ place[r] = "denoise_stage"
           \/ s.kind = "fatal" /\ p = "command" /\ place[r] = "destroy"
PlacesOK == ~Split => \E p \in Places : \A r \in Ranks : place[r] = p \/ Away(r, p)

RetiredOK ==
    /\ \A r \in Ranks : fatal[r] => place[r] \in {"destroy", "gone"}
    /\ (\E r \in Ranks : fatal[r]) /\ (\A s \in struck : s.how = "carried") =>
         \A q \in Ranks : place[q] \in Over

\* The window before is dropped by the work that precedes the next one.
LatePlaces == {"encode_stage", "denoise_step", "denoise_stage", "commit_setup", "commit_header",
               "commit_patch", "commit_alloc", "commit_payload", "commit_stage"}
PendingOK ==
    \A r \in Ranks :
        \/ place[r] \in LatePlaces
        \/ place[r] = "reclaim" /\ ready[r] /\ error[r] = "none"
      => pending[r] = 0

IInv == /\ RankTypeOK /\ ErrorsOK /\ DispatchOK /\ WindowsOK
        /\ StruckOK /\ PlacesOK /\ RetiredOK /\ PendingOK

-----------------------------------------------------------------------------
(***************************************************************************)
(* The places that follow one another.                                     *)
(***************************************************************************)

Proceeds == (Checkpoints \cup ErrorBoundaries \cup DataPlaces \cup {"barrier", "peaks"})
              \ {"metadata_error", "header_error"}

LEMMA StageDomains ==
    /\ DOMAIN StageOrder = {"reclaim", "encode_stage", "denoise_step", "denoise_stage", "commit_stage"}
    /\ DOMAIN CommitOrder = {"commit_setup", "commit_header", "commit_patch", "commit_alloc",
                             "commit_payload"}
  BY DEF StageOrder, CommitOrder

LEMMA StageFollows ==
  ASSUME NEW r \in Ranks
  PROVE  /\ place[r] = "reclaim" => Following(r) = "encode_stage"
         /\ place[r] = "encode_stage" => Following(r) = "denoise_step"
         /\ place[r] = "denoise_step" => Following(r) = "denoise_stage"
         /\ place[r] = "denoise_stage" => Following(r) = "commit_setup"
         /\ place[r] = "commit_stage" => Following(r) = "window_boundary"
  BY StageDomains DEF Following, StageOrder

LEMMA CommitFollows ==
  ASSUME NEW r \in Ranks
  PROVE  /\ place[r] = "commit_setup" => Following(r) \in {"commit_header", "commit_stage"}
         /\ place[r] = "commit_header" => Following(r) = "commit_patch"
         /\ place[r] = "commit_patch" => Following(r) = "commit_alloc"
         /\ place[r] = "commit_alloc" => Following(r) = "commit_payload"
         /\ place[r] = "commit_payload" => Following(r) = "commit_stage"
  BY StageDomains DEF Following, CommitOrder

LEMMA LoopFollows ==
  ASSUME NEW r \in Ranks
  PROVE  /\ place[r] = "start" =>
              Following(r) = (IF mode = "writer_owned" THEN "metadata" ELSE AfterContext(r))
         /\ place[r] = "metadata" => Following(r) = AfterMetadata(r)
         /\ place[r] = "scan" => Following(r) = LoopHead(r, 0)
         /\ place[r] = "header" => Following(r) = AfterCommand
         /\ place[r] = "skip_boundary" => Following(r) = "skip_ckpt"
         /\ place[r] = "window_boundary" => Following(r) = "window_ckpt"
         /\ place[r] \in {"skip_ckpt", "window_ckpt"} => Following(r) = LoopHead(r, win[r] + 1)
         /\ place[r] = "end_boundary" => Following(r) = Finalization(r)
         /\ place[r] = "finalize_start" => Following(r) = "prepublish"
         /\ place[r] = "prepublish" => Following(r) = "barrier"
         /\ place[r] = "barrier" => Following(r) = "peaks"
         /\ place[r] = "peaks" => Following(r) = "command"
  BY StageDomains DEF Following

\* The heads of the loop over windows.
LEMMA HeadsOfLoop ==
  ASSUME NEW r \in Ranks, NEW w
  PROVE  /\ LoopHead(r, w) \in {"header", "start", "finalize_start", "skip_boundary", "reclaim"}
         /\ mode = "writer_owned" => LoopHead(r, w) = "header"
         /\ AfterContext(r) \in {"scan", LoopHead(r, 0)}
         /\ AfterMetadata(r) = (IF header.code = "ERROR" THEN "metadata_error" ELSE AfterContext(r))
  BY DEF LoopHead, AfterContext, AfterMetadata, Finalization

LEMMA CommandFollows ==
  ASSUME header \in Commands
  PROVE  /\ header.code = "RUN" => AfterCommand = "reclaim"
         /\ header.code = "SKIP" => AfterCommand = "skip_boundary"
         /\ header.code = "END" => AfterCommand = "end_boundary"
         /\ header.code = "ERROR" => AfterCommand = "header_error"
         /\ header.code \in {"RUN", "SKIP", "END", "ERROR"}
         /\ header.window \in Nat
         /\ header.code \in {"RUN", "SKIP"} <=> header.window > 0
  BY DEF AfterCommand, Commands

LEMMA NextPlace ==
  ASSUME RankTypeOK, NEW r \in Ranks, place[r] \in Proceeds
  PROVE  /\ Following(r) \in Places
         /\ Following(r) \in {"metadata_error", "header_error"} =>
              place[r] \in {"metadata", "header"} /\ header.code = "ERROR"
         /\ place[r] \in {"metadata", "header"} /\ header.code = "ERROR" =>
              Following(r) \in {"metadata_error", "header_error"}
         /\ Following(r) \in LatePlaces => place[r] \in LatePlaces \cup {"reclaim"}
         /\ mode = "writer_owned" /\ Following(r) \in WindowPlaces =>
              \/ place[r] \in WindowPlaces \ {"skip_ckpt", "window_ckpt"}
              \/ place[r] = "header" /\ header.code # "ERROR"
<1> DEFINE
      Good(p) == /\ p \in Places
                 /\ p \in {"metadata_error", "header_error"} =>
                      place[r] \in {"metadata", "header"} /\ header.code = "ERROR"
                 /\ place[r] \in {"metadata", "header"} /\ header.code = "ERROR" =>
                      p \in {"metadata_error", "header_error"}
                 /\ p \in LatePlaces => place[r] \in LatePlaces \cup {"reclaim"}
                 /\ mode = "writer_owned" /\ p \in WindowPlaces =>
                      \/ place[r] \in WindowPlaces \ {"skip_ckpt", "window_ckpt"}
                      \/ place[r] = "header" /\ header.code # "ERROR"
<1>0. header \in Commands
  BY DEF RankTypeOK
<1> USE DEF Places, Checkpoints, ErrorBoundaries, DataPlaces, DefaultPlaces, LatePlaces,
        WindowPlaces
<1>1. CASE place[r] \in {"reclaim", "encode_stage", "denoise_step", "denoise_stage", "commit_stage"}
  BY <1>1, StageFollows
<1>2. CASE place[r] \in {"commit_setup", "commit_header", "commit_patch", "commit_alloc",
                         "commit_payload"}
  BY <1>2, CommitFollows
<1>3. CASE place[r] \in {"start", "scan", "metadata", "skip_ckpt", "window_ckpt"}
  BY <1>3, LoopFollows, HeadsOfLoop
<1>4. CASE place[r] = "header"
  BY <1>0, <1>4, LoopFollows, CommandFollows
<1>5. CASE place[r] \in {"skip_boundary", "window_boundary", "end_boundary", "finalize_start",
                         "prepublish", "barrier", "peaks"}
  BY <1>5, LoopFollows DEF Finalization
<1> QED BY <1>1, <1>2, <1>3, <1>4, <1>5 DEF Proceeds

\* Ranks that wait at one place go on to one place.
LEMMA SamePlace ==
  ASSUME RankTypeOK, WindowsOK, ~Split, NEW p \in Proceeds, AllAt(p), NEW r \in Ranks
  PROVE  Following(r) = Following(Writer)
<1>1. place[r] = p /\ place[Writer] = p /\ win[r] = win[Writer] /\ warm[r] = warm[Writer]
  BY RankAssumption DEF AllAt, WindowsOK, Writer
<1>2. \A w : LoopHead(r, w) = LoopHead(Writer, w)
  BY <1>1 DEF LoopHead, Finalization
<1>3. AfterContext(r) = AfterContext(Writer)
  BY <1>2 DEF AfterContext, PlansWindows, Split
<1> QED BY <1>1, <1>2, <1>3 DEF Following, AfterMetadata, Finalization
-----------------------------------------------------------------------------
(***************************************************************************)
(* Leaving a request.                                                      *)
(***************************************************************************)

\* A command is under way wherever the writer raises, so its handler never
\* has to tell the peers of an error they do not learn of otherwise.
LEMMA NobodyCatches ==
  ASSUME IInv, NEW r \in Ranks
  PROVE  ~Catches(r)
<1>1. SUFFICES ASSUME r = Writer, mode = "writer_owned", InRuntime(place[r])
               PROVE  command_dispatched
  BY DEF Catches
<1>2. place[Writer] \in WindowPlaces
  BY <1>1 DEF InRuntime, WindowPlaces
<1> QED BY <1>1, <1>2 DEF IInv, DispatchOK

Out(kind) == IF kind = "fatal" THEN "destroy" ELSE "command"

LEMMA RaiseLeaves ==
  ASSUME IInv, NEW S \in SUBSET Ranks, NEW kind \in [Ranks -> Kinds],
         Raise(S, kind)
  PROVE  /\ place' = [r \in Ranks |-> IF r \in S THEN Out(kind[r]) ELSE place[r]]
         /\ ready' = [r \in Ranks |-> IF r \in S THEN FALSE ELSE ready[r]]
         /\ error' = [r \in Ranks |-> IF r \in S THEN "none" ELSE error[r]]
         /\ fatal' = [r \in Ranks |-> fatal[r] \/ (r \in S /\ kind[r] = "fatal")]
         /\ pending' = [r \in Ranks |-> IF r \in S THEN 0 ELSE pending[r]]
         /\ header' = header
         /\ requested' \in BOOLEAN
<1>1. \A r \in S : ~Catches(r)
  BY NobodyCatches
<1>2. \A r \in S : RaisedTo(r, kind[r]) = Out(kind[r])
  BY <1>1 DEF RaisedTo, Out
<1>3. place' = [r \in Ranks |-> IF r \in S THEN Out(kind[r]) ELSE place[r]]
  BY <1>2 DEF Raise
<1>4. ready' = [r \in Ranks |-> IF r \in S THEN FALSE ELSE ready[r]]
  <2>1. \A r \in Ranks : (IF r \in S THEN Catches(r) ELSE ready[r])
                          = (IF r \in S THEN FALSE ELSE ready[r])
    BY <1>1 DEF Catches
  <2> QED BY <2>1 DEF Raise
<1>5. error' = [r \in Ranks |-> IF r \in S THEN "none" ELSE error[r]]
  BY <1>1 DEF Raise
<1>6. fatal' = [r \in Ranks |-> fatal[r] \/ (r \in S /\ kind[r] = "fatal")]
  BY <1>1, Zenon DEF Raise
<1>7. pending' = [r \in Ranks |-> IF r \in S THEN 0 ELSE pending[r]]
  BY <1>1 DEF Raise
<1>8. header' = header /\ requested' \in BOOLEAN
  BY <1>1 DEF Raise, IInv, RankTypeOK
<1> QED BY <1>3, <1>4, <1>5, <1>6, <1>7, <1>8

-----------------------------------------------------------------------------
(***************************************************************************)
(* Every action keeps the invariant.  First what the owner and the client  *)
(* do, then the work of one rank, then the collectives.                    *)
(***************************************************************************)

LEMMA TypesFacts ==
  ASSUME RankTypeOK
  PROVE  /\ Writer \in Ranks
         /\ \A r \in Ranks : /\ place[r] \in Places /\ ready[r] \in BOOLEAN
                             /\ win[r] \in Nat /\ warm[r] \in BOOLEAN
                             /\ error[r] \in Kinds \cup {"none"} /\ flag[r] \in BOOLEAN
                             /\ pending[r] \in Nat /\ fatal[r] \in BOOLEAN
  BY RankAssumption DEF RankTypeOK, Writer

LEMMA CommandsRunKeeps == IInv /\ CommandsRun => IInv'
<1> SUFFICES ASSUME IInv, CommandsRun PROVE IInv'
  OBVIOUS
<1> USE TypesFacts DEF IInv
<1>1. place[Writer] = "command" /\ ~ready[Writer] /\ ready' = [ready EXCEPT ![Writer] = TRUE]
  BY DEF CommandsRun, Working
<1>2. RankTypeOK'
  BY RankAssumption, SMTT(60) DEF CommandsRun, RankTypeOK, FragilePlaces
<1>3. ErrorsOK'
  BY <1>1 DEF CommandsRun, ErrorsOK, RankTypeOK
<1>4. DispatchOK' /\ WindowsOK'
  BY <1>1 DEF CommandsRun, DispatchOK, WindowsOK, Split
<1>5. StruckOK' /\ PlacesOK'
  BY DEF CommandsRun, StruckOK, PlacesOK, Away, Left, Split
<1>6. RetiredOK'
  BY DEF CommandsRun, RetiredOK
<1>7. PendingOK'
  BY <1>1 DEF CommandsRun, PendingOK, RankTypeOK, LatePlaces
<1> QED BY <1>2, <1>3, <1>4, <1>5, <1>6, <1>7

LEMMA CommandsOtherKeeps == IInv /\ CommandsOther => IInv'
<1> SUFFICES ASSUME IInv, CommandsOther PROVE IInv'
  OBVIOUS
<1> USE TypesFacts DEF IInv
<1>1. place[Writer] = "command" /\ ~ready[Writer] /\ ready' = [ready EXCEPT ![Writer] = TRUE]
  BY DEF CommandsOther, Working
<1>2. RankTypeOK'
  BY DEF CommandsOther, RankTypeOK
<1>3. ErrorsOK'
  BY <1>1 DEF CommandsOther, ErrorsOK, RankTypeOK
<1>4. DispatchOK' /\ WindowsOK'
  BY <1>1 DEF CommandsOther, DispatchOK, WindowsOK, Split
<1>5. StruckOK' /\ PlacesOK'
  BY DEF CommandsOther, StruckOK, PlacesOK, Away, Left, Split
<1>6. RetiredOK'
  BY DEF CommandsOther, RetiredOK
<1>7. PendingOK'
  BY <1>1 DEF CommandsOther, PendingOK, RankTypeOK, LatePlaces
<1> QED BY <1>2, <1>3, <1>4, <1>5, <1>6, <1>7

LEMMA CancelsKeeps == IInv /\ Cancels => IInv'
  BY DEF Cancels, IInv, RankTypeOK, ErrorsOK, DispatchOK, WindowsOK, Split, StruckOK, Left,
         PlacesOK, Away, RetiredOK, PendingOK
LEMMA NextCommandFits ==
  ASSUME RankTypeOK
  PROVE  /\ NextCommand \in Commands /\ NextCommand.code # "ERROR"
         /\ NextCommand.window > 0 => NextCommand.window = win[Writer] + 1
  BY TypesFacts DEF NextCommand, Commands

LEMMA ArrivesKeeps == ASSUME IInv, NEW r \in Ranks, Arrives(r) PROVE IInv'
<1> USE TypesFacts DEF IInv
<1>1. ~ready[r] /\ ready' = [ready EXCEPT ![r] = TRUE] /\ place' = place /\ error' = error
  BY DEF Arrives
<1>2. /\ r = Writer /\ place[r] = "header" => header' = NextCommand /\ command_dispatched'
      /\ r = Writer /\ place[r] = "metadata" => header' = [code |-> "END", window |-> 0]
      /\ ~(r = Writer /\ place[r] \in {"header", "metadata"}) => header' = header
      /\ command_dispatched => command_dispatched'
      /\ command_dispatched' \in BOOLEAN /\ header' \in Commands
  <2>1. [code |-> "END", window |-> 0] \in Commands
    BY DEF Commands
  <2>2. header \in Commands /\ command_dispatched \in BOOLEAN
    BY DEF RankTypeOK
  <2>3. CASE r = Writer /\ place[r] = "header"
    BY <2>2, <2>3, NextCommandFits DEF Arrives
  <2>4. CASE r = Writer /\ place[r] = "metadata"
    BY <2>1, <2>2, <2>4 DEF Arrives
  <2>5. CASE ~(r = Writer /\ place[r] \in {"header", "metadata"})
    BY <2>2, <2>5 DEF Arrives
  <2> QED BY <2>3, <2>4, <2>5
<1>3. RankTypeOK'
  <2>1. PendingAfterWork(r) \in Nat
    BY DEF PendingAfterWork
  <2>2. pending' \in [Ranks -> Nat]
    BY <2>1 DEF Arrives, RankTypeOK
  <2>3. flag' \in [Ranks -> BOOLEAN]
    BY DEF Arrives, RankTypeOK
  <2> QED BY <1>2, <2>2, <2>3 DEF Arrives, RankTypeOK
<1>4. error[r] = "none"
  BY <1>1 DEF ErrorsOK
<1>5. ErrorsOK'
  BY <1>1, <1>2, <1>4, NextCommandFits DEF ErrorsOK, RankTypeOK
<1>6. DispatchOK'
  BY <1>1, <1>2, NextCommandFits DEF DispatchOK, RankTypeOK, Arrives
<1>7. WindowsOK'
  BY <1>1, <1>2, NextCommandFits DEF WindowsOK, RankTypeOK, Arrives, Split
<1>8. StruckOK' /\ PlacesOK' /\ RetiredOK'
  BY <1>1 DEF Arrives, StruckOK, PlacesOK, RetiredOK, Away, Left, Split
<1>9. PendingOK'
  <2> SUFFICES ASSUME NEW q \in Ranks,
                      \/ place'[q] \in LatePlaces
                      \/ place'[q] = "reclaim" /\ ready'[q] /\ error'[q] = "none"
               PROVE  pending'[q] = 0
    BY DEF PendingOK
  <2>1. CASE q = r
    BY <1>1, <2>1 DEF Arrives, PendingAfterWork, PendingOK, LatePlaces, RankTypeOK
  <2>2. CASE q # r
    BY <1>1, <2>2 DEF Arrives, PendingOK, RankTypeOK
  <2> QED BY <2>1, <2>2
<1> QED BY <1>3, <1>5, <1>6, <1>7, <1>8, <1>9

\* Where a failure is carried there is a collective to carry it.
LEMMA CarriedPlaces ==
  ASSUME NEW r \in Ranks, Carried(r, place[r])
  PROVE  /\ place[r] \in ErrorPlaces /\ place[r] \notin Over \cup {"denoise_step"}
         /\ place[r] \in {"metadata", "header"} => r = Writer
         /\ place[r] \notin {"metadata_error", "header_error"}
  BY DEF Carried, ErrorPlaces, ErrorBoundaries, Over

LEMMA EscapePlaces ==
  ASSUME NEW r \in Ranks, Escapes(r, place[r])
  PROVE  place[r] \in Places
           \ ({"metadata", "metadata_error", "header_error", "denoise_step",
               "denoise_stage"} \cup Over)
  BY DEF Escapes, Places, Checkpoints, ErrorBoundaries, DataPlaces, DefaultPlaces, Over

\* A rank that still works has not failed in this request.
LEMMA WorkersUnstruck ==
  ASSUME IInv, NEW r \in Ranks, ~ready[r], place[r] \notin Over
  PROVE  error[r] = "none" /\ \A s \in struck : s.rank # r
<1>1. error[r] = "none"
  BY DEF IInv, ErrorsOK
<1>2. \A s \in struck : s.kind # "none" /\ (s.rank = r => ~Left(r, s.kind))
  BY DEF IInv, StruckOK, Left, Over, Kinds
<1> QED BY <1>1, <1>2 DEF IInv, StruckOK

LEMMA FailsTypes ==
  ASSUME RankTypeOK, NEW r \in Ranks, NEW kind \in Kinds, Fails(r, place[r], kind)
  PROVE  faults' \in 0..MaxFaults
  BY RankAssumption DEF Fails, RankTypeOK

\* A strike is the only one of its rank.
LEMMA Strikes ==
  ASSUME StruckOK, NEW r \in Ranks, NEW kind \in Kinds, NEW how \in {"carried", "loop", "outside"},
         Strike(r, how, kind), place[r] \in Places \ Over, \A s \in struck : s.rank # r
  PROVE  /\ struck' \subseteq [place : Places \ Over, rank : Ranks,
                             how : {"carried", "loop", "outside"}, kind : Kinds]
         /\ \A s, t \in struck' : s.rank = t.rank => s = t
         /\ \A s \in struck' :
              (s \in struck /\ s.rank # r) \/ (s.rank = r /\ s.how = how /\ s.kind = kind)
         /\ struck \subseteq struck'
         /\ \E s \in struck' : s.rank = r /\ s.how = how /\ s.kind = kind /\ s.place = place[r]
<1> DEFINE new == [place |-> place[r], rank |-> r, how |-> how, kind |-> kind]
<1>1. struck' = struck \cup {new}
  BY DEF Strike
<1>2. new.rank = r /\ new.how = how /\ new.kind = kind /\ new.place = place[r]
  OBVIOUS
<1>3. new \in [place : Places \ Over, rank : Ranks, how : {"carried", "loop", "outside"},
               kind : Kinds]
  OBVIOUS
<1> HIDE DEF new
<1>4. struck' \subseteq [place : Places \ Over, rank : Ranks,
                        how : {"carried", "loop", "outside"}, kind : Kinds]
  BY <1>1, <1>3 DEF StruckOK
<1>5. \A s, t \in struck' : s.rank = t.rank => s = t
  BY <1>1, <1>2 DEF StruckOK
<1>6. \A s \in struck' : (s \in struck /\ s.rank # r) \/ s = new
  BY <1>1
<1>7. struck \subseteq struck' /\ new \in struck'
  BY <1>1
<1>8. \A s \in struck' :
        (s \in struck /\ s.rank # r) \/ (s.rank = r /\ s.how = how /\ s.kind = kind)
  BY <1>2, <1>6
<1>9. \E s \in struck' : s.rank = r /\ s.how = how /\ s.kind = kind /\ s.place = place[r]
  BY <1>2, <1>7
<1> QED BY <1>4, <1>5, <1>7, <1>8, <1>9

\* A strike that leaves its rank waiting with the error, or out of the request.
LEMMA StrikeKeeps ==
  ASSUME IInv, NEW r \in Ranks, NEW kind \in Kinds, NEW how \in {"carried", "loop", "outside"},
         Strike(r, how, kind), place[r] \in Places \ Over, ~ready[r],
         \A q \in Ranks : q # r => place'[q] = place[q] /\ error'[q] = error[q],
         Left(r, kind)' \/ (how # "outside" /\ error'[r] = kind),
         error'[r] = "fatal" => kind = "fatal"
  PROVE  StruckOK' /\ struck \subseteq struck'
<1>1. /\ \A s \in struck' : \/ s \in struck /\ s.rank # r
                            \/ s.rank = r /\ s.how = how /\ s.kind = kind
      /\ struck \subseteq struck'
      /\ \E s \in struck' : s.rank = r /\ s.kind = kind
      /\ \A s \in struck : s.rank \in Ranks
  BY WorkersUnstruck, Strikes DEF IInv, StruckOK
<1>2. \A s \in struck' : \/ Left(s.rank, s.kind)'
                         \/ s.how # "outside" /\ error'[s.rank] = s.kind
  <2> SUFFICES ASSUME NEW s \in struck'
               PROVE  \/ Left(s.rank, s.kind)'
                      \/ s.how # "outside" /\ error'[s.rank] = s.kind
    OBVIOUS
  <2>1. CASE s \in struck /\ s.rank # r
    BY <1>1, <2>1 DEF IInv, StruckOK, Left
  <2>2. CASE s.rank = r /\ s.how = how /\ s.kind = kind
    BY <2>2
  <2> QED BY <1>1, <2>1, <2>2
<1>3. \A q \in Ranks : error'[q] = "fatal" =>
        \E s \in struck' : s.rank = q /\ s.kind = "fatal"
  BY <1>1 DEF IInv, StruckOK
<1> QED BY <1>1, <1>2, <1>3, WorkersUnstruck, Strikes DEF IInv, StruckOK

LEMMA FailsCarriedKeeps ==
  ASSUME IInv, NEW r \in Ranks, NEW kind \in Kinds, FailsCarried(r, kind)
  PROVE  IInv'
<1> USE TypesFacts DEF IInv
<1>1. /\ ~ready[r] /\ ready' = [ready EXCEPT ![r] = TRUE] /\ place' = place
      /\ error' = [error EXCEPT ![r] = kind] /\ Carried(r, place[r])
      /\ fatal' = fatal /\ pending' = pending /\ command_dispatched' = command_dispatched
      /\ win' = win /\ warm' = warm /\ mode' = mode /\ exact' = exact
  BY DEF FailsCarried
<1>2. header' = IF place[r] \in {"header", "metadata"} THEN [code |-> "ERROR", window |-> 0]
                ELSE header
  BY DEF FailsCarried
<1>3. kind # "none"
  BY DEF Kinds
<1>4. error[r] = "none" /\ \A s \in struck : s.rank # r
  BY <1>1, WorkersUnstruck, CarriedPlaces
<1>5. RankTypeOK'
  <2>1. header' \in Commands
    BY <1>2 DEF RankTypeOK, Commands
  <2> QED BY <1>1, <2>1, FailsTypes DEF FailsCarried, RankTypeOK
<1>6. ErrorsOK'
  BY <1>1, <1>2, <1>3, CarriedPlaces DEF ErrorsOK, RankTypeOK
<1>7. DispatchOK'
  BY <1>1, <1>2, CarriedPlaces DEF DispatchOK, RankTypeOK
<1>8. WindowsOK'
  BY <1>1, <1>2, CarriedPlaces DEF WindowsOK, RankTypeOK, Split
<1>9. PendingOK'
  BY <1>1, <1>3 DEF PendingOK, RankTypeOK
<1>10. CASE kind = "plain"
  <2>1. struck' = struck
    BY <1>10 DEF FailsCarried, StrikeIfFatal
  <2>2. StruckOK'
    BY <1>1, <1>4, <1>10, <2>1 DEF StruckOK, Left, RankTypeOK
  <2>3. PlacesOK' /\ RetiredOK'
    BY <1>1, <2>1 DEF PlacesOK, RetiredOK, Away, Split
  <2> QED BY <1>5, <1>6, <1>7, <1>8, <1>9, <2>2, <2>3
<1>11. CASE kind = "fatal"
  <2>1. Strike(r, "carried", kind)
    BY <1>11 DEF FailsCarried, StrikeIfFatal
  <2>2. place[r] \in Places \ Over
    BY <1>1, CarriedPlaces
  <2>3. StruckOK' /\ struck \subseteq struck'
    BY <1>1, <1>11, <2>1, <2>2, StrikeKeeps DEF RankTypeOK
  <2>5. PlacesOK' /\ RetiredOK'
    BY <1>1, <2>3 DEF PlacesOK, RetiredOK, Away, Split
  <2> QED BY <1>5, <1>6, <1>7, <1>8, <1>9, <2>3, <2>5
<1> QED BY <1>10, <1>11 DEF Kinds
LEMMA FailsInLoopKeeps ==
  ASSUME IInv, NEW r \in Ranks, NEW kind \in Kinds, FailsInLoop(r, kind)
  PROVE  IInv'
<1> USE TypesFacts DEF IInv
<1>1. /\ ~ready[r] /\ ready' = [ready EXCEPT ![r] = TRUE] /\ place[r] = "denoise_step"
      /\ place' = [place EXCEPT ![r] = "denoise_stage"]
      /\ error' = [error EXCEPT ![r] = kind] /\ Strike(r, "loop", kind)
      /\ fatal' = fatal /\ pending' = pending /\ command_dispatched' = command_dispatched
      /\ win' = win /\ warm' = warm /\ mode' = mode /\ exact' = exact /\ header' = header
  BY DEF FailsInLoop, LeavesLoop
<1>2. kind # "none"
  BY DEF Kinds
<1>3. place[r] \in Places \ Over /\ "denoise_stage" \in Places
  BY <1>1 DEF Over, Places, ErrorBoundaries
<1>4. RankTypeOK'
  BY <1>1, <1>3, FailsTypes DEF FailsInLoop, RankTypeOK
<1>5. ErrorsOK'
  BY <1>1, <1>2 DEF ErrorsOK, RankTypeOK, ErrorPlaces, ErrorBoundaries
<1>6. DispatchOK'
  BY <1>1 DEF DispatchOK, RankTypeOK, WindowPlaces
<1>7. WindowsOK'
  BY <1>1 DEF WindowsOK, RankTypeOK, Split
<1>8. StruckOK' /\ struck \subseteq struck'
  BY <1>1, <1>3, StrikeKeeps DEF RankTypeOK
<1>9. \E s \in struck' : s.rank = r /\ s.how = "loop"
  BY <1>1, <1>3, WorkersUnstruck, Strikes
<1>10. PlacesOK'
  <2> SUFFICES ASSUME ~Split'
               PROVE  \A q \in Ranks : place'[q] = "denoise_step" \/ Away(q, "denoise_step")'
    BY <1>1, <1>3 DEF PlacesOK
  <2>1. PICK p \in Places : \A q \in Ranks : place[q] = p \/ Away(q, p)
    BY <1>1 DEF PlacesOK, Split
  <2>2. p = "denoise_step"
    BY <1>1, <2>1 DEF Away
  <2>3. Away(r, "denoise_step")'
    BY <1>1, <1>9 DEF Away, RankTypeOK
  <2> QED BY <1>1, <1>8, <2>1, <2>2, <2>3, SMTT(60) DEF Away, RankTypeOK
<1>11. RetiredOK'
  BY <1>1, <1>9 DEF RetiredOK, RankTypeOK
<1>12. PendingOK'
  BY <1>1 DEF PendingOK, RankTypeOK, LatePlaces
<1> QED BY <1>4, <1>5, <1>6, <1>7, <1>8, <1>10, <1>11, <1>12

LEMMA FailsOutsideKeeps ==
  ASSUME IInv, NEW r \in Ranks, NEW kind \in Kinds, FailsOutside(r, kind)
  PROVE  IInv'
<1> USE TypesFacts DEF IInv
<1>1. /\ ~ready[r] /\ Escapes(r, place[r]) /\ Strike(r, "outside", kind)
      /\ Fails(r, place[r], kind) /\ Raise({r}, [q \in Ranks |-> kind])
  BY DEF FailsOutside
<1>2. place[r] \in Places
         \ ({"metadata", "metadata_error", "header_error", "denoise_step",
             "denoise_stage"} \cup Over)
  BY <1>1, EscapePlaces
<1>3. /\ place' = [place EXCEPT ![r] = Out(kind)] /\ ready' = ready
      /\ error' = [error EXCEPT ![r] = "none"] /\ pending' = [pending EXCEPT ![r] = 0]
      /\ fatal' = [q \in Ranks |-> fatal[q] \/ (q = r /\ kind = "fatal")]
      /\ header' = header /\ requested' \in BOOLEAN
  <2> DEFINE kinds == [q \in Ranks |-> kind]
  <2>1. kinds \in [Ranks -> Kinds] /\ {r} \in SUBSET Ranks
    OBVIOUS
  <2>2. /\ place' = [q \in Ranks |-> IF q \in {r} THEN Out(kinds[q]) ELSE place[q]]
        /\ ready' = [q \in Ranks |-> IF q \in {r} THEN FALSE ELSE ready[q]]
        /\ error' = [q \in Ranks |-> IF q \in {r} THEN "none" ELSE error[q]]
        /\ fatal' = [q \in Ranks |-> fatal[q] \/ (q \in {r} /\ kinds[q] = "fatal")]
        /\ pending' = [q \in Ranks |-> IF q \in {r} THEN 0 ELSE pending[q]]
        /\ header' = header
        /\ requested' \in BOOLEAN
    BY <1>1, <2>1, RaiseLeaves
  <2>3. /\ place' = [place EXCEPT ![r] = Out(kind)]
        /\ error' = [error EXCEPT ![r] = "none"] /\ pending' = [pending EXCEPT ![r] = 0]
    BY <2>2 DEF RankTypeOK
  <2>4. ready' = ready
    BY <1>1, <2>2 DEF RankTypeOK
  <2>5. fatal' = [q \in Ranks |-> fatal[q] \/ (q = r /\ kind = "fatal")]
    BY <2>2, Zenon
  <2> QED BY <2>2, <2>3, <2>4, <2>5
<1>4. /\ mode' = mode /\ exact' = exact /\ win' = win /\ warm' = warm
      /\ command_dispatched' = command_dispatched
  BY <1>1 DEF Raise
<1>5. Out(kind) \in {"command", "destroy"} /\ Out(kind) \in Places
      /\ (kind = "fatal" => Out(kind) = "destroy") /\ (kind = "plain" => Out(kind) = "command")
  BY DEF Out, Places, DefaultPlaces
<1>6. RankTypeOK'
  <2>1. fatal' \in [Ranks -> BOOLEAN]
    BY <1>3
  <2> QED BY <1>1, <1>3, <1>4, <1>5, <2>1, FailsTypes DEF Raise, RankTypeOK
<1>7. ErrorsOK'
  BY <1>1, <1>3, <1>5 DEF ErrorsOK, RankTypeOK
<1>8. DispatchOK'
  BY <1>3, <1>4, <1>5 DEF DispatchOK, RankTypeOK, WindowPlaces
<1>9. WindowsOK'
  BY <1>3, <1>4, <1>5 DEF WindowsOK, RankTypeOK, Split
<1>10. Left(r, kind)'
  BY <1>3, <1>5 DEF Left, RankTypeOK, Kinds
<1>11. StruckOK' /\ struck \subseteq struck'
  BY <1>1, <1>2, <1>3, <1>10, StrikeKeeps DEF RankTypeOK
<1>12. \E s \in struck' : s.rank = r /\ s.how = "outside" /\ s.place = place[r]
  BY <1>1, <1>2, WorkersUnstruck, Strikes
<1>13. PlacesOK'
  <2> SUFFICES ASSUME ~Split' PROVE \E p \in Places : \A q \in Ranks : place'[q] = p \/ Away(q, p)'
    BY DEF PlacesOK
  <2>1. PICK p \in Places : \A q \in Ranks : place[q] = p \/ Away(q, p)
    BY <1>4 DEF PlacesOK, Split
  <2>2. p = place[r]
    BY <1>2, <2>1 DEF Away, Over
  <2>3. Away(r, p)'
    BY <1>3, <1>5, <1>12, <2>2 DEF Away, RankTypeOK
  <2>4. ASSUME NEW q \in Ranks, q # r PROVE place'[q] = p \/ Away(q, p)'
    <3>1. place'[q] = place[q]
      BY <1>3, <2>4 DEF RankTypeOK
    <3> QED BY <1>11, <2>1, <3>1 DEF Away
  <2> QED BY <2>3, <2>4
<1>14. RetiredOK'
  <2>1. \A q \in Ranks : fatal'[q] => fatal[q] \/ (q = r /\ kind = "fatal")
    BY <1>3, Zenon
  <2>2. \A q \in Ranks : fatal'[q] => place'[q] \in {"destroy", "gone"}
    BY <1>2, <1>3, <1>5, <2>1 DEF RetiredOK, RankTypeOK, Over
  <2> QED BY <1>12, <2>2 DEF RetiredOK
<1>15. PendingOK'
  BY <1>1, <1>3 DEF PendingOK, RankTypeOK
<1> QED BY <1>6, <1>7, <1>8, <1>9, <1>11, <1>13, <1>14, <1>15
-----------------------------------------------------------------------------
(***************************************************************************)
(* The collectives.  Ranks that meet leave for one place, or for the next  *)
(* boundary with an error, or out of the request.                          *)
(***************************************************************************)

\* Ranks that meet inside a request have not been struck, or wait with the error.
LEMMA MeetingFacts ==
  ASSUME IInv, NEW p \in Places \ Over, AllAt(p)
  PROVE  /\ Writer \in Ranks /\ \A r \in Ranks : place[r] = p /\ ready[r] /\ ~fatal[r]
         /\ \A s \in struck : s.rank \in Ranks /\ error[s.rank] = s.kind
         /\ p \notin ErrorPlaces => \A r \in Ranks : error[r] = "none"
<1>1. Writer \in Ranks /\ \A r \in Ranks : place[r] = p /\ ready[r]
  BY RankAssumption DEF AllAt, Writer
<1>2. \A r \in Ranks : ~fatal[r]
  BY <1>1 DEF IInv, RetiredOK, Over
<1>3. \A s \in struck : s.rank \in Ranks /\ error[s.rank] = s.kind
  BY <1>1 DEF IInv, StruckOK, Left, Over
<1> QED BY <1>1, <1>2, <1>3 DEF IInv, ErrorsOK

LEMMA ProceedKeeps ==
  ASSUME IInv, NEW p \in Proceeds, AllAt(p), Proceed,
         p \in {"metadata", "header"} \/ \A r \in Ranks : error[r] = "none",
         UNCHANGED <<mode, exact, error, header, fatal, struck>>,
         \A r \in Ranks : pending'[r] \in {0, pending[r]}
  PROVE  /\ place' \in [Ranks -> Places] /\ ready' \in [Ranks -> BOOLEAN]
         /\ ErrorsOK' /\ StruckOK' /\ PlacesOK' /\ RetiredOK' /\ PendingOK'
<1> USE DEF IInv
<1>1. p \in Places \ Over
  BY DEF Proceeds, Places, Checkpoints, ErrorBoundaries, DataPlaces, DefaultPlaces, Over
<1>2. /\ Writer \in Ranks /\ \A r \in Ranks : place[r] = p /\ ready[r] /\ ~fatal[r]
      /\ \A s \in struck : s.rank \in Ranks /\ error[s.rank] = s.kind
  BY <1>1, MeetingFacts
<1>3. \A r \in Ranks : /\ place'[r] = Following(r)
                      /\ ready'[r] = (Following(r) \in {"metadata_error", "header_error"})
  BY DEF Proceed
<1>4. place' \in [Ranks -> Places] /\ ready' \in [Ranks -> BOOLEAN]
  BY <1>2, NextPlace DEF Proceed
<1>5. \A r \in Ranks :
        /\ Following(r) \in {"metadata_error", "header_error"} =>
             p \in {"metadata", "header"} /\ header.code = "ERROR"
        /\ p \in {"metadata", "header"} /\ header.code = "ERROR" =>
             Following(r) \in {"metadata_error", "header_error"}
        /\ Following(r) \in LatePlaces => p \in LatePlaces \cup {"reclaim"}
  BY <1>2, NextPlace
<1>6. ErrorsOK'
  <2>1. p \in {"metadata", "header"} => (header.code = "ERROR" <=> error[Writer] # "none")
    BY <1>2 DEF ErrorsOK
  <2>2. \A r \in Ranks : error[r] # "none" => r = Writer /\ p \in {"metadata", "header"}
    BY <1>2 DEF ErrorsOK
  <2>3. \A r \in Ranks : error'[r] # "none" =>
          /\ ready'[r] /\ place'[r] \in ErrorPlaces /\ place'[r] \notin {"metadata", "header"}
    BY <1>3, <1>5, <2>1, <2>2 DEF ErrorPlaces, ErrorBoundaries
  <2>4. ready'[Writer] => place'[Writer] \notin {"metadata", "header"}
    BY <1>2, <1>3
  <2>5. place'[Writer] \in {"metadata_error", "header_error"} => error'[Writer] # "none"
    BY <1>2, <1>3, <1>5, <2>1
  <2>6. \A r \in Ranks : place'[r] \in {"metadata_error", "header_error"} => ready'[r]
    BY <1>3
  <2> QED BY <2>3, <2>4, <2>5, <2>6 DEF ErrorsOK
<1>7. StruckOK'
  <2>1. \A s \in struck : s.how # "outside" /\ error[s.rank] = s.kind
    BY <1>1, <1>2 DEF StruckOK, Left, Over
  <2> QED BY <2>1 DEF StruckOK
<1>8. PlacesOK'
  <2> SUFFICES ASSUME ~Split
               PROVE  \A r \in Ranks : place'[r] = place'[Writer]
    BY <1>2, <1>4 DEF PlacesOK, Split
  <2> QED BY <1>2, <1>3, SamePlace
<1>9. RetiredOK'
  BY <1>2 DEF RetiredOK
<1>10. PendingOK'
  <2> SUFFICES ASSUME NEW r \in Ranks,
                      \/ place'[r] \in LatePlaces
                      \/ place'[r] = "reclaim" /\ ready'[r] /\ error'[r] = "none"
               PROVE  pending[r] = 0
    BY DEF PendingOK
  <2>1. Following(r) \in LatePlaces
    BY <1>3
  <2>2. p \in LatePlaces \cup {"reclaim"}
    BY <1>5, <2>1
  <2>3. p \notin {"metadata", "header"}
    BY <2>2 DEF LatePlaces
  <2> QED BY <1>2, <2>2, <2>3 DEF PendingOK
<1> QED BY <1>4, <1>6, <1>7, <1>8, <1>9, <1>10

\* A command is under way in the places that follow, unless it is completed.
LEMMA ProceedDispatched ==
  ASSUME IInv, NEW p \in Proceeds, AllAt(p), Proceed, mode' = mode,
         command_dispatched /\ p \notin {"skip_ckpt", "window_ckpt"} => command_dispatched'
  PROVE  DispatchOK'
<1>1. Writer \in Ranks /\ place[Writer] = p /\ ready[Writer]
  BY RankAssumption DEF AllAt, Writer
<1>2. place'[Writer] = Following(Writer) /\ (place'[Writer] = "header" => ~ready'[Writer])
  BY <1>1 DEF Proceed
<1>3. mode = "writer_owned" /\ place'[Writer] \in WindowPlaces =>
        \/ p \in WindowPlaces \ {"skip_ckpt", "window_ckpt"}
        \/ p = "header" /\ header.code # "ERROR"
  BY <1>1, <1>2, NextPlace DEF IInv
<1>4. mode = "writer_owned" /\ place'[Writer] \in WindowPlaces => command_dispatched'
  BY <1>1, <1>3 DEF IInv, DispatchOK
<1> QED BY <1>2, <1>4 DEF DispatchOK

LEMMA ShiftKeeps ==
  ASSUME IInv, NEW p \in {"denoise_step", "commit_setup", "commit_header", "commit_alloc"}, AllAt(p),
         NEW q \in {"denoise_stage", "commit_stage"}, place' = [r \in Ranks |-> q],
         error' \in [Ranks -> Kinds],
         \A r \in Ranks : error[r] # "none" => error'[r] = error[r],
         \A r \in Ranks : error'[r] = "fatal" => error[r] = "fatal",
         UNCHANGED <<mode, exact, request, order, served, faults, ready, win, warm, flag, header,
                     command_dispatched, requested, pending, fatal, struck>>
  PROVE  IInv'
<1> USE DEF IInv
<1>1. p \in Places \ Over /\ q \in Places \ Over /\ p \in LatePlaces /\ q \in LatePlaces
      /\ p \in WindowPlaces
  BY DEF Places, Checkpoints, ErrorBoundaries, DataPlaces, Over, LatePlaces, WindowPlaces
<1>2. /\ Writer \in Ranks /\ \A r \in Ranks : place[r] = p /\ ready[r] /\ ~fatal[r]
      /\ \A s \in struck : s.rank \in Ranks /\ error[s.rank] = s.kind
  BY <1>1, MeetingFacts
<1>3. \A r \in Ranks : place'[r] = q
  OBVIOUS
<1>4. RankTypeOK'
  BY <1>1 DEF RankTypeOK
<1>5. ErrorsOK'
  BY <1>2, <1>3 DEF ErrorsOK, ErrorPlaces, ErrorBoundaries
<1>6. DispatchOK' /\ WindowsOK'
  BY <1>1, <1>2, <1>3 DEF DispatchOK, WindowsOK, Split
<1>7. StruckOK'
  <2>1. \A s \in struck : s.how # "outside" /\ error'[s.rank] = s.kind
    BY <1>1, <1>2 DEF StruckOK, Left, Over, Kinds
  <2> QED BY <2>1 DEF StruckOK
<1>8. PlacesOK'
  BY <1>1, <1>3 DEF PlacesOK
<1>9. RetiredOK'
  BY <1>2 DEF RetiredOK
<1>10. PendingOK'
  BY <1>1, <1>2 DEF PendingOK
<1> QED BY <1>4, <1>5, <1>6, <1>7, <1>8, <1>9, <1>10

LEMMA RaiseAllKeeps ==
  ASSUME IInv, NEW p \in Places \ Over, p # "header", AllAt(p),
         NEW kind \in [Ranks -> Kinds], Raise(Ranks, kind), UNCHANGED <<faults, struck>>,
         \A r \in Ranks : error[r] # "none" => kind[r] = error[r],
         \A r \in Ranks : kind[r] = "fatal" => error[r] = "fatal"
  PROVE  IInv'
<1>1. /\ Writer \in Ranks /\ \A r \in Ranks : place[r] = p /\ ready[r] /\ ~fatal[r]
      /\ \A s \in struck : s.rank \in Ranks /\ error[s.rank] = s.kind
  BY MeetingFacts
<1>2. /\ place' = [r \in Ranks |-> IF r \in Ranks THEN Out(kind[r]) ELSE place[r]]
      /\ ready' = [r \in Ranks |-> IF r \in Ranks THEN FALSE ELSE ready[r]]
      /\ error' = [r \in Ranks |-> IF r \in Ranks THEN "none" ELSE error[r]]
      /\ fatal' = [r \in Ranks |-> fatal[r] \/ (r \in Ranks /\ kind[r] = "fatal")]
      /\ pending' = [r \in Ranks |-> IF r \in Ranks THEN 0 ELSE pending[r]]
      /\ header' = header /\ requested' \in BOOLEAN
  BY <1>1, RaiseLeaves
<1>3. \A r \in Ranks : ~ready'[r] /\ error'[r] = "none" /\ pending'[r] = 0
  BY <1>2
<1>4. \A r \in Ranks : fatal'[r] => kind[r] = "fatal"
  BY <1>1, <1>2, Zenon
<1>5. /\ \A r \in Ranks : kind[r] = "fatal" => place'[r] = "destroy"
      /\ \A r \in Ranks : kind[r] # "fatal" => place'[r] = "command"
  BY <1>2 DEF Out
<1>6. UNCHANGED <<mode, exact, request, order, win, warm, flag, command_dispatched, served>>
  BY DEF Raise
<1>7. RankTypeOK'
  <2>1. place' \in [Ranks -> Places]
    BY <1>2 DEF Out, Places, DefaultPlaces
  <2>2. ready' \in [Ranks -> BOOLEAN] /\ fatal' \in [Ranks -> BOOLEAN]
    BY <1>2
  <2>3. error' \in [Ranks -> Kinds \cup {"none"}] /\ pending' \in [Ranks -> Nat]
    BY <1>2
  <2> QED BY <1>2, <1>6, <2>1, <2>2, <2>3 DEF IInv, RankTypeOK
<1>8. ErrorsOK'
  BY <1>1, <1>3, <1>5 DEF ErrorsOK
<1>9. DispatchOK' /\ WindowsOK'
  BY <1>1, <1>3, <1>5, <1>6 DEF IInv, DispatchOK, WindowsOK, Split, WindowPlaces
<1>10. StruckOK'
  <2>1. \A s \in struck : error[s.rank] # "none"
    BY <1>1 DEF IInv, StruckOK, Kinds
  <2>2. \A s \in struck : Left(s.rank, s.kind)'
    BY <1>1, <1>3, <1>5, <2>1 DEF Left, Kinds
  <2> QED BY <1>3, <2>2 DEF IInv, StruckOK
<1>11. PlacesOK'
  <2>1. "command" \in Places /\ "destroy" \in Places
    BY DEF Places, DefaultPlaces
  <2>2. ASSUME NEW r \in Ranks, kind[r] = "fatal" PROVE Away(r, "command")'
    <3>1. error[r] = "fatal"
      BY <2>2
    <3>2. \E s \in struck : s.rank = r /\ s.kind = "fatal"
      BY <3>1 DEF IInv, StruckOK
    <3> QED BY <1>3, <1>5, <2>2, <3>2 DEF Away
  <2> QED BY <1>3, <1>5, <2>1, <2>2 DEF PlacesOK
<1>12. RetiredOK'
  BY <1>3, <1>4, <1>5 DEF RetiredOK, Over
<1>13. PendingOK'
  BY <1>3 DEF PendingOK
<1> QED BY <1>7, <1>8, <1>9, <1>10, <1>11, <1>12, <1>13 DEF IInv
LEMMA MeetCommandKeeps == IInv /\ MeetCommand => IInv'
<1> SUFFICES ASSUME IInv, MeetCommand PROVE IInv'
  OBVIOUS
<1>1. PICK q \in {"start", "command", "destroy"} : place' = [r \in Ranks |-> q]
  BY DEF MeetCommand, IInv, RankTypeOK
<1>2. Writer \in Ranks /\ \A r \in Ranks : place[r] = "command"
  BY RankAssumption DEF MeetCommand, AllAt, Writer
<1>3. \A r \in Ranks : error[r] = "none" /\ ~fatal[r]
  BY <1>2 DEF IInv, ErrorsOK, RetiredOK, ErrorPlaces, ErrorBoundaries
<1>4. /\ \A r \in Ranks : place'[r] = q /\ ~ready'[r] /\ win'[r] = 0 /\ warm'[r] = request.warmup
      /\ error' = error /\ fatal' = fatal /\ struck' = {}
  BY <1>1 DEF MeetCommand
<1>5. RankTypeOK'
  <2>1. request.warmup \in BOOLEAN /\ q \in Places
    BY DEF IInv, RankTypeOK, Places, Checkpoints, DefaultPlaces
  <2> QED BY <1>1, <2>1, ZenonT(120) DEF MeetCommand, Rest, IInv, RankTypeOK
<1>6. ErrorsOK'
  BY <1>2, <1>3, <1>4 DEF ErrorsOK
<1>7. DispatchOK' /\ WindowsOK'
  BY <1>2, <1>4 DEF DispatchOK, WindowsOK, WindowPlaces
<1>8. StruckOK' /\ RetiredOK'
  BY <1>3, <1>4 DEF StruckOK, RetiredOK
<1>9. PlacesOK'
  BY <1>4 DEF PlacesOK, Places, Checkpoints, DefaultPlaces
<1>10. PendingOK'
  BY <1>4 DEF PendingOK, LatePlaces
<1> QED BY <1>5, <1>6, <1>7, <1>8, <1>9, <1>10 DEF IInv

LEMMA MeetDestroyKeeps == IInv /\ MeetDestroy => IInv'
<1> SUFFICES ASSUME IInv, MeetDestroy PROVE IInv'
  OBVIOUS
<1>1. Writer \in Ranks /\ \A r \in Ranks : place[r] = "destroy" /\ place'[r] = "gone"
  BY RankAssumption DEF MeetDestroy, AllAt, Writer
<1>2. \A r \in Ranks : error[r] = "none"
  BY <1>1 DEF IInv, ErrorsOK, ErrorPlaces, ErrorBoundaries
<1>3. RankTypeOK'
  BY DEF MeetDestroy, Rest, IInv, RankTypeOK, Places
<1>4. ErrorsOK' /\ DispatchOK' /\ WindowsOK'
  BY <1>1, <1>2 DEF MeetDestroy, Rest, IInv, ErrorsOK, DispatchOK, WindowsOK, WindowPlaces, Split
<1>5. StruckOK'
  <2>1. \A s \in struck : s.kind = "fatal" /\ s.rank \in Ranks
    BY <1>1, <1>2 DEF IInv, StruckOK, Left, Kinds
  <2>2. struck' = struck /\ error' = error
    BY DEF MeetDestroy
  <2>3. \A s \in struck : Left(s.rank, s.kind)'
    BY <1>1, <2>1 DEF Left
  <2> QED BY <2>2, <2>3 DEF IInv, StruckOK
<1>6. RetiredOK' /\ PlacesOK' /\ PendingOK'
  BY <1>1 DEF RetiredOK, PlacesOK, PendingOK, Over, Places, LatePlaces
<1> QED BY <1>3, <1>4, <1>5, <1>6 DEF IInv

LEMMA MeetEndKeeps == IInv /\ MeetEnd => IInv'
<1> SUFFICES ASSUME IInv, NEW p \in {"barrier", "peaks"}, AllAt(p), MeetEnd PROVE IInv'
  BY DEF MeetEnd
<1>1. p \in Places \ Over /\ p \in Proceeds /\ p \notin ErrorPlaces
  BY DEF Places, DefaultPlaces, Over, Proceeds, ErrorPlaces, ErrorBoundaries
<1>2. Writer \in Ranks /\ \A r \in Ranks : place[r] = p /\ error[r] = "none"
  BY <1>1, MeetingFacts
<1>3. /\ Proceed /\ pending' = [r \in Ranks |-> 0] /\ requested' \in BOOLEAN
      /\ UNCHANGED <<mode, exact, request, order, served, faults, win, warm, error, flag, header,
                     command_dispatched, fatal, struck>>
  BY DEF MeetEnd, Rest, IInv, RankTypeOK
<1>4. /\ place' \in [Ranks -> Places] /\ ready' \in [Ranks -> BOOLEAN]
      /\ ErrorsOK' /\ StruckOK' /\ PlacesOK' /\ RetiredOK' /\ PendingOK'
  <2>1. \A r \in Ranks : pending'[r] \in {0, pending[r]}
    BY <1>3
  <2> QED BY <1>1, <1>2, <1>3, <2>1, ProceedKeeps
<1>5. RankTypeOK'
  BY <1>3, <1>4 DEF IInv, RankTypeOK
<1>6. DispatchOK'
  BY <1>1, <1>3, ProceedDispatched
<1>7. WindowsOK'
  <2>1. place'[Writer] # "header"
    BY <1>2, <1>3, LoopFollows DEF Proceed
  <2> QED BY <1>3, <2>1 DEF IInv, WindowsOK, Split
<1> QED BY <1>4, <1>5, <1>6, <1>7 DEF IInv

LEMMA MeetCheckpointKeeps == IInv /\ MeetCheckpoint => IInv'
<1> SUFFICES ASSUME IInv, NEW p \in Checkpoints, AllAt(p), UNCHANGED struck,
                    \/ CancelledAt(p)
                    \/ /\ Proceed
                       /\ command_dispatched' = DispatchedAfter(p)
                       /\ win' = [r \in Ranks |-> IF Following(r) = "start" THEN 0
                                                  ELSE WindowAfter(r)]
                       /\ warm' = [r \in Ranks |-> warm[r] /\ Following(r) # "start"]
                       /\ UNCHANGED <<Rest, error, flag, header, requested, pending, fatal>>
             PROVE  IInv'
  BY DEF MeetCheckpoint
<1>1. p \in Places \ Over /\ p \in Proceeds /\ p \notin ErrorPlaces /\ p # "header"
  BY DEF Checkpoints, Places, Over, Proceeds, ErrorPlaces, ErrorBoundaries
<1>2. /\ Writer \in Ranks
      /\ \A r \in Ranks : place[r] = p /\ ready[r] /\ error[r] = "none"
  BY <1>1, MeetingFacts
<1>3. CASE CancelledAt(p)
  <2>1. CASE LeavesLoop(p)
    <3>1. p = "denoise_step" /\ error' = [r \in Ranks |-> "plain"]
      BY <1>3, <2>1 DEF LeavesLoop, CancelledAt
    <3>2. error' \in [Ranks -> Kinds] /\ \A r \in Ranks : error'[r] # "fatal"
      BY <3>1 DEF Kinds
    <3> QED BY <1>2, <1>3, <2>1, <3>1, <3>2, ShiftKeeps DEF CancelledAt, Rest
  <2>2. CASE ~LeavesLoop(p)
    <3> DEFINE kind == [r \in Ranks |-> "plain"]
    <3>1. kind \in [Ranks -> Kinds] /\ \A r \in Ranks : kind[r] # "fatal"
      BY DEF Kinds
    <3>2. Raise(Ranks, kind) /\ UNCHANGED <<faults, struck>>
      BY <1>3, <2>2 DEF CancelledAt
    <3> HIDE DEF kind
    <3> QED BY <1>1, <1>2, <3>1, <3>2, RaiseAllKeeps
  <2> QED BY <2>1, <2>2
<1>4. CASE /\ Proceed
           /\ command_dispatched' = DispatchedAfter(p)
           /\ win' = [r \in Ranks |-> IF Following(r) = "start" THEN 0 ELSE WindowAfter(r)]
           /\ warm' = [r \in Ranks |-> warm[r] /\ Following(r) # "start"]
           /\ UNCHANGED <<Rest, error, flag, header, requested, pending, fatal>>
  <2>1. UNCHANGED <<mode, exact, request, order, served, faults, error, flag, header, requested,
                    pending, fatal, struck>>
    BY <1>4 DEF Rest
  <2>2. /\ place' \in [Ranks -> Places] /\ ready' \in [Ranks -> BOOLEAN]
        /\ ErrorsOK' /\ StruckOK' /\ PlacesOK' /\ RetiredOK' /\ PendingOK'
    <3>1. \A r \in Ranks : pending'[r] \in {0, pending[r]}
      BY <2>1
    <3> QED BY <1>1, <1>2, <1>4, <2>1, <3>1, ProceedKeeps
  <2>3. RankTypeOK'
    <3>1. win' \in [Ranks -> Nat]
      BY <1>4 DEF WindowAfter, IInv, RankTypeOK
    <3>2. warm' \in [Ranks -> BOOLEAN] /\ command_dispatched' \in BOOLEAN
      BY <1>4 DEF IInv, RankTypeOK, DispatchedAfter
    <3> QED BY <2>1, <2>2, <3>1, <3>2 DEF IInv, RankTypeOK
  <2>4. DispatchOK'
    BY <1>1, <1>4, <2>1, ProceedDispatched DEF DispatchedAfter
  <2>5. WindowsOK'
    <3> SUFFICES ASSUME ~Split, NEW r \in Ranks
                 PROVE  /\ win'[r] = win'[Writer] /\ warm'[r] = warm'[Writer]
                        /\ place'[Writer] = "header" => ~ready'[Writer]
      BY <1>2, <2>1 DEF WindowsOK, Split
    <3>1. Following(r) = Following(Writer)
      BY <1>1, SamePlace DEF IInv
    <3>2. win[r] = win[Writer] /\ warm[r] = warm[Writer] /\ place[r] = place[Writer]
      BY <1>2 DEF IInv, WindowsOK
    <3>3. WindowAfter(r) = WindowAfter(Writer)
      BY <3>2 DEF WindowAfter
    <3>4. place'[Writer] = "header" => ~ready'[Writer]
      BY <1>2, <1>4 DEF Proceed
    <3> QED BY <1>2, <1>4, <3>1, <3>2, <3>3, <3>4
  <2> QED BY <2>2, <2>3, <2>4, <2>5 DEF IInv
<1> QED BY <1>3, <1>4
LEMMA ResultingErrors ==
  ASSUME IInv, NEW r \in Ranks
  PROVE  /\ Resulting(r) \in Kinds
         /\ error[r] # "none" => Resulting(r) = error[r]
         /\ Resulting(r) = "fatal" => error[r] = "fatal"
  BY TypesFacts DEF Resulting, Kinds, IInv

LEMMA MeetBoundaryKeeps == IInv /\ MeetBoundary => IInv'
<1> SUFFICES ASSUME IInv, MeetBoundary PROVE IInv'
  OBVIOUS
<1>1. PICK p \in ErrorBoundaries :
        /\ AllAt(p)
        /\ IF \A r \in Ranks : error[r] = "none"
           THEN /\ Proceed
                /\ win' = [r \in Ranks |-> IF Following(r) = "start" THEN 0 ELSE win[r]]
                /\ warm' = [r \in Ranks |-> warm[r] /\ Following(r) # "start"]
                /\ UNCHANGED <<Rest, error, flag, header, command_dispatched, requested,
                               pending, fatal>>
           ELSE IF p = "commit_setup"
           THEN /\ place' = [r \in Ranks |-> "commit_stage"]
                /\ error' = [r \in Ranks |-> Resulting(r)]
                /\ UNCHANGED <<Rest, ready, win, warm, flag, header, command_dispatched,
                               requested, pending, fatal>>
           ELSE Raise(Ranks, [r \in Ranks |-> Resulting(r)]) /\ UNCHANGED faults
  BY DEF MeetBoundary
<1>2. struck' = struck
  BY DEF MeetBoundary
<1>3. p \in Places \ Over /\ p # "header"
  BY DEF ErrorBoundaries, Places, Over
<1>4. Writer \in Ranks /\ \A r \in Ranks : place[r] = p /\ ready[r]
  BY <1>1, <1>3, MeetingFacts
<1>5. CASE \A r \in Ranks : error[r] = "none"
  <2>1. p \in Proceeds
    BY <1>4, <1>5 DEF IInv, ErrorsOK, Proceeds
  <2>2. /\ Proceed
        /\ win' = [r \in Ranks |-> IF Following(r) = "start" THEN 0 ELSE win[r]]
        /\ warm' = [r \in Ranks |-> warm[r] /\ Following(r) # "start"]
        /\ UNCHANGED <<mode, exact, request, order, served, faults, error, flag, header,
                       command_dispatched, requested, pending, fatal, struck>>
    BY <1>1, <1>2, <1>5 DEF Rest
  <2>3. /\ place' \in [Ranks -> Places] /\ ready' \in [Ranks -> BOOLEAN]
        /\ ErrorsOK' /\ StruckOK' /\ PlacesOK' /\ RetiredOK' /\ PendingOK'
    <3>1. \A r \in Ranks : pending'[r] \in {0, pending[r]}
      BY <2>2
    <3> QED BY <1>1, <1>5, <2>1, <2>2, <3>1, ProceedKeeps
  <2>4. RankTypeOK'
    <3>1. win' \in [Ranks -> Nat]
      BY <2>2 DEF IInv, RankTypeOK
    <3>2. warm' \in [Ranks -> BOOLEAN]
      BY <2>2
    <3> QED BY <2>2, <2>3, <3>1, <3>2 DEF IInv, RankTypeOK
  <2>5. DispatchOK'
    BY <1>1, <2>1, <2>2, ProceedDispatched
  <2>6. WindowsOK'
    <3> SUFFICES ASSUME ~Split, NEW r \in Ranks
                 PROVE  /\ win'[r] = win'[Writer] /\ warm'[r] = warm'[Writer]
                        /\ place'[Writer] = "header" => ~ready'[Writer]
      BY <1>4, <2>2 DEF WindowsOK, Split
    <3>1. Following(r) = Following(Writer)
      BY <1>1, <2>1, SamePlace DEF IInv
    <3>2. win[r] = win[Writer] /\ warm[r] = warm[Writer]
      BY DEF IInv, WindowsOK
    <3>3. place'[Writer] = "header" => ~ready'[Writer]
      BY <1>4, <2>2 DEF Proceed
    <3> QED BY <1>4, <2>2, <3>1, <3>2, <3>3
  <2> QED BY <2>3, <2>4, <2>5, <2>6 DEF IInv
<1>6. CASE p = "commit_setup" /\ ~(\A r \in Ranks : error[r] = "none")
  <2>1. /\ place' = [r \in Ranks |-> "commit_stage"]
        /\ error' = [r \in Ranks |-> Resulting(r)]
        /\ UNCHANGED <<mode, exact, request, order, served, faults, ready, win, warm, flag, header,
                       command_dispatched, requested, pending, fatal, struck>>
    BY <1>1, <1>2, <1>6 DEF Rest
  <2>2. /\ error' \in [Ranks -> Kinds]
        /\ \A r \in Ranks : error[r] # "none" => error'[r] = error[r]
        /\ \A r \in Ranks : error'[r] = "fatal" => error[r] = "fatal"
    BY <2>1, ResultingErrors
  <2> QED BY <1>1, <1>6, <2>1, <2>2, ShiftKeeps
<1>7. CASE p # "commit_setup" /\ ~(\A r \in Ranks : error[r] = "none")
  <2> DEFINE kind == [r \in Ranks |-> Resulting(r)]
  <2>1. /\ kind \in [Ranks -> Kinds]
        /\ \A r \in Ranks : error[r] # "none" => kind[r] = error[r]
        /\ \A r \in Ranks : kind[r] = "fatal" => error[r] = "fatal"
    BY ResultingErrors
  <2>2. Raise(Ranks, kind) /\ UNCHANGED <<faults, struck>>
    BY <1>1, <1>2, <1>7
  <2> HIDE DEF kind
  <2> QED BY <1>1, <1>3, <2>1, <2>2, RaiseAllKeeps
<1> QED BY <1>5, <1>6, <1>7

LEMMA MeetDataKeeps == IInv /\ MeetData => IInv'
<1> SUFFICES ASSUME IInv, MeetData PROVE IInv'
  OBVIOUS
<1>1. PICK p \in DataPlaces :
        /\ AllAt(p)
        /\ IF p \in {"commit_header", "commit_alloc"} /\ \E r \in Ranks : error[r] # "none"
           THEN /\ place' = [r \in Ranks |-> "commit_stage"]
                /\ error' = [r \in Ranks |-> Resulting(r)]
                /\ UNCHANGED <<ready, win>>
           ELSE /\ Proceed
                /\ win' = [r \in Ranks |-> IF p = "header" /\ r \in Peers /\ header.window > 0
                                           THEN header.window - 1 ELSE win[r]]
                /\ UNCHANGED error
  BY DEF MeetData
<1>2. UNCHANGED <<mode, exact, request, order, served, faults, warm, flag, header,
                  command_dispatched, requested, pending, fatal, struck>>
  BY DEF MeetData, Rest
<1>3. p \in Places \ Over /\ p \in Proceeds
  BY DEF DataPlaces, Places, Over, Proceeds, ErrorBoundaries
<1>4. Writer \in Ranks /\ \A r \in Ranks : place[r] = p /\ ready[r]
  BY <1>1, <1>3, MeetingFacts
<1>5. CASE p \in {"commit_header", "commit_alloc"} /\ \E r \in Ranks : error[r] # "none"
  <2>1. /\ place' = [r \in Ranks |-> "commit_stage"]
        /\ error' = [r \in Ranks |-> Resulting(r)]
        /\ UNCHANGED <<ready, win>>
    BY <1>1, <1>5
  <2>2. /\ error' \in [Ranks -> Kinds]
        /\ \A r \in Ranks : error[r] # "none" => error'[r] = error[r]
        /\ \A r \in Ranks : error'[r] = "fatal" => error[r] = "fatal"
    BY <2>1, ResultingErrors
  <2> QED BY <1>1, <1>2, <1>5, <2>1, <2>2, ShiftKeeps
<1>6. CASE ~(p \in {"commit_header", "commit_alloc"} /\ \E r \in Ranks : error[r] # "none")
  <2>1. /\ Proceed
        /\ win' = [r \in Ranks |-> IF p = "header" /\ r \in Peers /\ header.window > 0
                                   THEN header.window - 1 ELSE win[r]]
        /\ error' = error
    BY <1>1, <1>6
  <2>2. p \in {"metadata", "header"} \/ \A r \in Ranks : error[r] = "none"
    BY <1>4, <1>6 DEF IInv, ErrorsOK, ErrorPlaces, ErrorBoundaries, DataPlaces
  <2>3. /\ place' \in [Ranks -> Places] /\ ready' \in [Ranks -> BOOLEAN]
        /\ ErrorsOK' /\ StruckOK' /\ PlacesOK' /\ RetiredOK' /\ PendingOK'
    <3>1. \A r \in Ranks : pending'[r] \in {0, pending[r]}
      BY <1>2
    <3> QED BY <1>1, <1>2, <1>3, <2>1, <2>2, <3>1, ProceedKeeps
  <2>4. header.window \in Nat
    BY CommandFollows DEF IInv, RankTypeOK
  <2>5. RankTypeOK'
    <3>1. win' \in [Ranks -> Nat]
      BY <2>1, <2>4 DEF IInv, RankTypeOK
    <3> QED BY <1>2, <2>1, <2>3, <3>1 DEF IInv, RankTypeOK
  <2>6. DispatchOK'
    BY <1>1, <1>2, <1>3, <2>1, ProceedDispatched
  <2>7. WindowsOK'
    <3> SUFFICES ASSUME ~Split, NEW r \in Ranks
                 PROVE  /\ win'[r] = win'[Writer] /\ warm'[r] = warm'[Writer]
                        /\ place'[Writer] = "header" => ~ready'[Writer]
      BY <1>2, <1>4 DEF WindowsOK, Split
    <3>1. win[r] = win[Writer] /\ warm[r] = warm[Writer] /\ win[Writer] \in Nat
      BY <1>4 DEF IInv, WindowsOK, RankTypeOK
    <3>2. p = "header" /\ header.window > 0 => header.window = win[Writer] + 1
      BY <1>4 DEF IInv, WindowsOK
    <3>3. win'[r] = win[Writer] /\ win'[Writer] = win[Writer]
      BY <1>4, <2>1, <2>4, <3>1, <3>2 DEF Peers
    <3>4. place'[Writer] = "header" => ~ready'[Writer]
      BY <1>4, <2>1 DEF Proceed
    <3> QED BY <1>2, <3>1, <3>3, <3>4
  <2> QED BY <2>3, <2>5, <2>6, <2>7 DEF IInv
<1> QED BY <1>5, <1>6

-----------------------------------------------------------------------------
(***************************************************************************)
(* The invariant of every behaviour, and what follows from it.             *)
(***************************************************************************)

LEMMA InitHolds == Init => IInv
<1> SUFFICES ASSUME Init PROVE IInv
  OBVIOUS
<1>1. Writer \in Ranks /\ mode \in AllModes
  BY RankAssumption DEF Init, Writer
<1>2. /\ \A r \in Ranks : /\ place[r] = "command" /\ ~ready[r] /\ win[r] = 0 /\ ~warm[r]
                          /\ error[r] = "none" /\ pending[r] = 0 /\ ~fatal[r]
      /\ struck = {}
  BY DEF Init
<1>3. RankTypeOK
  <2>1. "command" \in Places
    BY DEF Places, DefaultPlaces
  <2>2. request \in [plan : Plans \cup {<<>>}, bad : Places \cup {"nothing"}, warmup : BOOLEAN]
    BY DEF Init
  <2>3. header \in Commands
    BY DEF Init, Commands
  <2>4. served \in 0..MaxRequests /\ faults \in 0..MaxFaults
    BY RankAssumption DEF Init
  <2> QED BY <1>1, <2>1, <2>2, <2>3, <2>4 DEF Init, RankTypeOK
<1>4. ErrorsOK /\ DispatchOK /\ WindowsOK
  <2>1. \A r \in Ranks : win[r] = win[Writer] /\ warm[r] = warm[Writer]
    BY <1>1 DEF Init
  <2> QED BY <1>1, <1>2, <2>1 DEF ErrorsOK, DispatchOK, WindowsOK, WindowPlaces
<1>5. StruckOK /\ RetiredOK
  BY <1>2 DEF StruckOK, RetiredOK
<1>6. PlacesOK /\ PendingOK
  BY <1>2 DEF PlacesOK, PendingOK, Places, DefaultPlaces
<1> QED BY <1>3, <1>4, <1>5, <1>6 DEF IInv

LEMMA NextKeeps == IInv /\ [Next]_vars => IInv'
<1> SUFFICES ASSUME IInv, [Next]_vars PROVE IInv'
  OBVIOUS
<1>1. CASE CommandsRun \/ CommandsOther \/ Cancels
  BY <1>1, CommandsRunKeeps, CommandsOtherKeeps, CancelsKeeps
<1>2. CASE Work
  BY <1>2, ArrivesKeeps, FailsCarriedKeeps, FailsInLoopKeeps, FailsOutsideKeeps DEF Work
<1>3. CASE Meet
  BY <1>3, MeetCommandKeeps, MeetCheckpointKeeps, MeetBoundaryKeeps, MeetDataKeeps, MeetEndKeeps,
     MeetDestroyKeeps DEF Meet
<1>4. CASE UNCHANGED vars
  BY <1>4 DEF vars, IInv, RankTypeOK, ErrorsOK, DispatchOK, WindowsOK, Split, StruckOK, Left,
     PlacesOK, Away, RetiredOK, PendingOK
<1> QED BY <1>1, <1>2, <1>3, <1>4 DEF Next

LEMMA RankInvariant == Spec => []IInv
  BY InitHolds, NextKeeps, PTL DEF Spec

\* What has struck every rank alike has left every rank in the same place.
LEMMA UnexposedTogether ==
  ASSUME IInv, ~Exposed, NEW q \in Ranks, NEW r \in Ranks
  PROVE  place[q] = place[r]
<1>1. ~Split /\ \A s \in struck : [s EXCEPT !.rank = q] \in struck /\ [s EXCEPT !.rank = r] \in struck
  BY DEF Exposed, Split
<1>2. PICK p \in Places : \A w \in Ranks : place[w] = p \/ Away(w, p)
  BY <1>1 DEF IInv, PlacesOK
<1>3. ASSUME NEW a \in Ranks, NEW b \in Ranks, Away(a, p),
             \A s \in struck : [s EXCEPT !.rank = b] \in struck
      PROVE  place[b] = place[a]
  <2>1. PICK s \in struck :
          /\ s.rank = a
          /\ \/ s.how = "outside" /\ s.place = p /\ place[a] \in {"command", "destroy"}
             \/ s.how = "loop" /\ p = "denoise_step" /\ place[a] = "denoise_stage"
             \/ s.kind = "fatal" /\ p = "command" /\ place[a] = "destroy"
    BY <1>3 DEF Away
  <2>2. s \in [place : Places \ Over, rank : Ranks, how : {"carried", "loop", "outside"},
               kind : Kinds]
    BY DEF IInv, StruckOK
  <2>3. PICK t \in struck : t.rank = b /\ t.how = s.how /\ t.place = s.place /\ t.kind = s.kind
    <3> DEFINE t == [s EXCEPT !.rank = b]
    <3>1. t \in struck
      BY <1>3
    <3>2. t.rank = b /\ t.how = s.how /\ t.place = s.place /\ t.kind = s.kind
      BY <2>2
    <3> QED BY <3>1, <3>2
  <2>4. /\ \A u \in struck : u.rank = b => u = t
        /\ Left(b, s.kind) \/ (s.how # "outside" /\ error[b] = s.kind)
        /\ Left(a, s.kind) \/ (s.how # "outside" /\ error[a] = s.kind)
    BY <2>1, <2>3 DEF IInv, StruckOK
  <2>5. error[b] # "none" => place[b] \in ErrorPlaces
    BY DEF IInv, ErrorsOK
  <2>6. CASE s.how = "outside" /\ s.place = p /\ place[a] \in {"command", "destroy"}
    <3>1. p \notin Over
      BY <2>2, <2>6
    <3>2. place[b] # "gone"
      BY <1>2, <3>1 DEF Away, Over
    <3> QED BY <2>4, <2>6, <3>2 DEF Left
  <2>7. CASE s.how = "loop" /\ p = "denoise_step" /\ place[a] = "denoise_stage"
    <3>1. place[b] # "denoise_step"
      BY <2>2, <2>4, <2>5 DEF Left, Kinds, ErrorPlaces, ErrorBoundaries
    <3>2. Away(b, p)
      BY <1>2, <2>7, <3>1
    <3> QED BY <2>3, <2>4, <2>7, <3>2 DEF Away
  <2>8. CASE s.kind = "fatal" /\ p = "command" /\ place[a] = "destroy"
    <3>1. place[b] # "command"
      BY <2>4, <2>5, <2>8 DEF Left, ErrorPlaces, ErrorBoundaries
    <3>2. Away(b, p)
      BY <1>2, <2>8, <3>1
    <3>3. \A u \in struck : u.rank = b => u.place \notin Over
      BY DEF IInv, StruckOK
    <3> QED BY <2>8, <3>2, <3>3 DEF Away, Over
  <2> QED BY <2>1, <2>6, <2>7, <2>8
<1>4. CASE Away(q, p)
  BY <1>1, <1>3, <1>4
<1>5. CASE Away(r, p)
  BY <1>1, <1>3, <1>5
<1> QED BY <1>2, <1>4, <1>5

LEMMA TogetherFollows == IInv => RanksTogether
<1> SUFFICES ASSUME IInv PROVE RanksTogether
  OBVIOUS
<1>1. Aligned
  BY UnexposedTogether DEF Aligned
<1>2. SameWindow
  BY DEF IInv, WindowsOK, SameWindow, Exposed, Split
<1>3. RetiredOutsideRequests
  BY DEF IInv, RetiredOK, RetiredOutsideRequests, Over
<1> QED BY <1>1, <1>2, <1>3 DEF IInv, RanksTogether

\* Whatever the number of ranks, the windows, the mode and the failures that
\* boundaries carry, ranks that wait do so in the same collective for the same
\* window, and none leaves the others inside a request (worker.py,
\* sp_dispatch.py, stage_policy.py, commit_sync.py).
THEOREM RanksStayTogether == Spec => []RanksTogether
  BY RankInvariant, TogetherFollows, PTL

LEMMA ResidentFollows == IInv => OneWindowResident
  BY DEF IInv, PendingOK, OneWindowResident, LatePlaces

\* Every rank drops the tensors of a finished window before it loads the next
\* one, also after skipped windows and failed requests (reclaim.py).
THEOREM WindowsAreReclaimed == Spec => []OneWindowResident
  BY RankInvariant, ResidentFollows, PTL
=============================================================================
