----------------------------- MODULE MCStartOver -----------------------------
(* Instances of StartOver: process slots and identifiers of resets are         *)
(* interchangeable.                                                            *)
EXTENDS StartOver, TLC

Symmetry == Permutations(Proc) \cup Permutations(Reset)

(* Bound: once two start-overs were beside each other, the calls that are left *)
(* resume them; no edit, build or update is explored there.                    *)
ResumedOnly ==
  "start-over" \in crossed =>
    /\ made \subseteq {"old", "owned", "local"}
    /\ \A p \in Proc : cmd[p] \notin {"update", "build"}
=============================================================================
