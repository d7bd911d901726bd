--------------------------- MODULE MCObjectChain ---------------------------
(***************************************************************************)
(* Scene lists and visibilities for the runs of ObjectChain.               *)
(***************************************************************************)
EXTENDS ObjectChain

\* Scenes in order, disjoint, and reaching the last frame: none given, a cut,
\* a gap before the first scene, a gap between two; lengths that are clipped
\* and scenes that are dropped.
ReachingScenes ==
    {<<>>,
     <<<<0, 3>>, <<3, 9>>>>,
     <<<<2, NumFrames>>, <<NumFrames, 2>>>>,
     <<<<-1, 2>>, <<4, NumFrames>>>>}

\* Scenes as clients may give them: too short, overlapping, backwards.
CarelessScenes ==
    {<<>>,
     <<<<0, 4>>>>,
     <<<<1, 2>>, <<4, 1>>>>,
     <<<<0, 4>>, <<2, NumFrames>>>>,
     <<<<3, NumFrames>>, <<0, 3>>>>}

\* Both.
AnyScenes == ReachingScenes \union CarelessScenes

\* Nowhere, everywhere, one frame, and runs at the start, the middle and the
\* end, shorter and longer than a window.
SomeRuns == {{}, Frames, {4}, 0..1, 3..7, 8..(NumFrames - 1)}

=============================================================================
