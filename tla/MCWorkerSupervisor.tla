-------------------------- MODULE MCWorkerSupervisor --------------------------
(* Model values and symmetry for the instances of WorkerSupervisor.         *)
EXTENDS WorkerSupervisor, TLC

CONSTANTS s1, s2, w1, w2, w3

AnyIncarnation == {s @@ w : s \in Permutations(Supervisor), w \in Permutations(Worker)}
=============================================================================
