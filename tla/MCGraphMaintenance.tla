------------------------- MODULE MCGraphMaintenance -------------------------
(* Instances of GraphMaintenance: slots and scopes are interchangeable.    *)
EXTENDS GraphMaintenance, TLC

Symmetry == Permutations(Proc) \cup Permutations(Scope)
=============================================================================
