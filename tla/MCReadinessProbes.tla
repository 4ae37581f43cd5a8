--------------------------- MODULE MCReadinessProbes ---------------------------
(* Model values and symmetry for the instances of ReadinessProbes.          *)
EXTENDS ReadinessProbes, TLC
Symmetric == Permutations(Proc) \cup Permutations(Probe)
=============================================================================
