------------------------ MODULE MCTrackerPublications ------------------------
(* Instances of TrackerPublications: process slots are interchangeable, and so *)
(* are the identifiers of populations.                                         *)
EXTENDS TrackerPublications, TLC

Symmetry == Permutations(Proc) \cup Permutations(Population)
=============================================================================
