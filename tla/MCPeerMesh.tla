----------------------------- MODULE MCPeerMesh -----------------------------
(* Plans for TLC: two devices in one group, in two groups, and two groups of two. *)
EXTENDS PeerMesh

Plan(sp, cfg, steps, mode, metric, force) ==
  [sp |-> sp, cfg |-> cfg, steps |-> steps, mode |-> mode, metric |-> metric, force |-> force]

SmallPlans ==
  {Plan(2, 1, 6, m, "global", FALSE) : m \in {"teacache", "cache_dit"}}
    \cup {Plan(2, 1, 3, m, "mask_frame_max", TRUE) : m \in {"off", "teacache", "cache_dit"}}
    \cup {Plan(1, 2, 3, m, "global", FALSE) : m \in {"off", "teacache"}}
    \cup {Plan(2, 2, 1, m, "global", FALSE) : m \in {"off", "teacache"}}
=============================================================================
