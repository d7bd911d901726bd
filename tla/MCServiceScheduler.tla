------------------------- MODULE MCServiceScheduler -------------------------
(* ServiceProperties with model values for the task identifiers. *)
EXTENDS ServiceProperties, TLC

\* Every task identifier is a fresh UUID: they are interchangeable.
Symmetry == Permutations(Tasks)
=============================================================================
