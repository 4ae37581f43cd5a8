----------------------------- MODULE MCQaReview -----------------------------
(* Instances of QaReview.                                                       *)
EXTENDS QaReview, TLC

EveryRun == {[starts |-> 3, edits |-> 1, requests |-> 1, guidance |-> FALSE],
             [starts |-> 2, edits |-> 1, requests |-> 2, guidance |-> TRUE]}
=============================================================================
