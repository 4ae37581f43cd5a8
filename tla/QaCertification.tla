--------------------------- MODULE QaCertification ---------------------------
(* What the QA protocol of a ticket promises whoever completes the ticket: it   *)
(* is completed only by way of a pass, one pass stands at a time, the pass is   *)
(* about the content the worktree had when finalization began, and a ticket QA  *)
(* has waived or completed is never reviewed again.                             *)
EXTENDS Naturals

CONSTANT Review   \* the reviews a pass may come from

VARIABLES
    content,   \* content of the worktree
    state,     \* open, passed, finalizing, completed or waived
    vouched    \* the passes that stand, each with the content it is about

vars == <<content, state, vouched>>

Init == content = 0 /\ state = "open" /\ vouched = {}

Change == content' = content + 1 /\ UNCHANGED <<state, vouched>>

(* A pass is about the content at the moment it is given.                       *)
Pass == /\ state = "open" /\ state' = "passed"
        /\ \E review \in Review : vouched' = {<<review, content>>}
        /\ UNCHANGED content
Revoke == state \in {"passed", "finalizing"} /\ state' = "open" /\ vouched' = {} /\ UNCHANGED content
Waive == state = "open" /\ state' = "waived" /\ UNCHANGED <<content, vouched>>

(* The content must not have changed since the pass.                            *)
Finalize == /\ state = "passed" /\ state' = "finalizing"
            /\ \A pass \in vouched : pass[2] = content
            /\ UNCHANGED <<content, vouched>>
Complete == state = "finalizing" /\ state' = "completed" /\ UNCHANGED <<content, vouched>>

Next == Change \/ Pass \/ Revoke \/ Waive \/ Finalize \/ Complete
Spec == Init /\ [][Next]_vars
==============================================================================
