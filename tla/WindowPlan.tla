----------------------------- MODULE WindowPlan -----------------------------
(***************************************************************************)
(* The plan of a video: the scenes cut into windows (utils/windowing.py,   *)
(* pipelines/runtime/windowing/planner.py).  A window begins with frames   *)
(* it shares with the one before it, in the same scene.                    *)
(***************************************************************************)
EXTENDS Integers, Sequences, FiniteSetsExt

CONSTANTS
    NumFrames,      \* frames of the video
    InferLen,       \* params.infer_len, frames of a window
    Overlap         \* params.overlap, frames two windows share

\* normalize_scene_specs: a scene is clipped to the video or dropped.
NormalizeScenes(scenes) ==
    LET usable(s)  == s[2] > 0 /\ s[1] < NumFrames
        clipped(s) == LET start == Max({0, s[1]})
                      IN  <<start, Min({s[2], NumFrames - start})>>
        upTo[i \in 0..Len(scenes)] ==
            IF i = 0 THEN <<>>
            ELSE upTo[i - 1] \o (IF usable(scenes[i]) THEN <<clipped(scenes[i])>> ELSE <<>>)
    IN  IF upTo[Len(scenes)] = <<>> THEN <<<<0, NumFrames>>>> ELSE upTo[Len(scenes)]

\* The window of a scene whose first new frame is next.
Window(scene, index, next) ==
    LET end  == scene[1] + scene[2]
        left == IF next > scene[1] THEN Overlap ELSE 0
        need == Max({1, InferLen - left})
        deal == Min({need, end - next})
    IN  [scene         |-> index,
         load_start    |-> next - left,
         load_end      |-> next + Min({NumFrames - next, need}),
         deal_start    |-> next,
         commit_end    |-> next + deal,
         overlap_left  |-> left,
         overlap_right |-> IF next + deal < end THEN Overlap ELSE 0]

\* build_window_specs for one scene.
SceneWindows(scene, index) ==
    LET from[next \in 0..NumFrames] ==
            IF next >= scene[1] + scene[2] THEN <<>>
            ELSE LET w == Window(scene, index, next)
                 IN  <<w>> \o from[w.commit_end]
    IN  from[scene[1]]

\* build_window_specs.
BuildWindowSpecs(scenes) ==
    LET normal == NormalizeScenes(scenes)
        upTo[i \in 0..Len(normal)] ==
            IF i = 0 THEN <<>> ELSE upTo[i - 1] \o SceneWindows(normal[i], i)
    IN  upTo[Len(normal)]
=============================================================================
