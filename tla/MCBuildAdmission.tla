--------------------------- MODULE MCBuildAdmission ---------------------------
(* Small instances of BuildAdmission: p1 and p3 share a process id.         *)
EXTENDS BuildAdmission
CONSTANTS p1, p2, p3, p4

OneHost  == [p \in Proc |-> "here"]
TwoHosts == [p \in Proc |-> IF p = p4 THEN "there" ELSE "here"]
ReusedPid == [p \in Proc |-> IF p \in {p1, p3} THEN 1 ELSE IF p = p2 THEN 2 ELSE 3]
=============================================================================
