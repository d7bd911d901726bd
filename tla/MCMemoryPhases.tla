--------------------------- MODULE MCMemoryPhases ---------------------------
(* Instances of MemoryPhases for TLC. *)
EXTENDS MemoryPhases

(* One block ahead, a prefetch size that does not divide the depth, one    *)
(* larger than the depth.                                                  *)
SmallSetups == {[layers |-> 3, prefetch |-> 1, vae |-> "cached"],
                [layers |-> 3, prefetch |-> 2, vae |-> "full"],
                [layers |-> 2, prefetch |-> 3, vae |-> "split"]}

=============================================================================
