\* Two requests of one adapter, every VAE mode, depths that the prefetch size
\* does and does not divide, one failing step.
SPECIFICATION Spec
CONSTANTS
  Setups <- SmallSetups
  MaxForwards = 2
  MaxFaults = 1
  MaxRequests = 2
  MaxWindows = 1
INVARIANTS LayersResident PhasesHeal
