---------------------------- MODULE MCFrameStore ----------------------------
(* The requests of the instance: every combination of the options that     *)
(* decide who owns a buffer, and, with fewer combinations, the contents of *)
(* the mask, the skipped windows, the order of the two reads and files     *)
(* that are shorter than their metadata.                                   *)
EXTENDS FrameStore, TLC

CONSTANT Dim   \* the level of an ordinary mask frame

(* One frame, or none, has the highest level.                              *)
Peak(f, level) == [i \in 1..NumFrames |-> IF i - 1 = f THEN level ELSE Dim]

Options(dtypes, flag, choice) ==
    [dtype : dtypes, borrow : flag, copyOpt : choice, handoff : flag, scanReuse : flag,
     inplace : flag, whole : choice, fuse : {"before", "after"}]
Uint8Options == Options({"uint8"}, BOOLEAN, BOOLEAN)
TensorOptions == Options({"bf16"}, {FALSE}, BOOLEAN)
FewOptions == {o \in Uint8Options : o.borrow = o.copyOpt /\ o.borrow = o.handoff /\ ~o.whole}

Files(levels, skipped, parallel, video, mask) ==
    [levels : levels, skipped : skipped, parallel : parallel,
     videoLength : video, maskLength : mask]
Usual == Files({Peak(0, 255)}, {{}}, {TRUE}, {NumFrames}, {NumFrames})
Masks == {Peak(-1, 9), Peak(0, 255), Peak(3, 255), Peak(NumFrames - 1, 9)}
Scanned == Files(Masks, {{}, {1}}, {FALSE}, {NumFrames}, {NumFrames})
Skipped == Files({Peak(0, 255)}, {{}, {1}, {2}}, BOOLEAN, {NumFrames}, {NumFrames})
Short == Files({Peak(-1, 9)}, {{}}, BOOLEAN, {NumFrames - 2}, {NumFrames, NumFrames - 1})

Product(options, files) == {o @@ f : o \in options, f \in files}
MCRequests == Product(Uint8Options, Usual)
              \cup Product(FewOptions, Scanned)
              \cup Product(FewOptions \cup TensorOptions, Skipped \cup Short)
=============================================================================
