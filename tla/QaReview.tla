------------------------------ MODULE QaReview ------------------------------
(* The review of one ticket by QA: runIsolatedQa (qaReview.ts) over the rows of *)
(* workflowDb.ts, the reducer of qaProtocolV2.ts, the delivery of a failed      *)
(* report to the Builder (qaFailureDelivery.ts) and the recovery packet a pause *)
(* leaves behind (qaRecovery.ts).  The host may die between any two of its      *)
(* transactions; the next start loads the packet and enters the review again.   *)
(* Meanwhile people edit the worktree, answer the Builder's question, request   *)
(* an extra attempt, leave guidance, and repair the ownership of the ticket.    *)
(*                                                                              *)
(* One host writes (BuildAdmission), so the revision every write of the reducer *)
(* is checked against always matches and is not modelled.  Content is a version *)
(* number; the digest of a source is that number.                               *)
EXTENDS Naturals, Sequences, FiniteSets

CONSTANTS
    Options,     \* what is explored: bounds on the starts of the host, on edits
                 \* of the worktree and on requests, and whether guidance is left
    MaxReviews,  \* bound on the reviews of the ticket
    MaxFixes     \* Builder fixes allowed without an operator

ASSUME QaAssumption == MaxReviews \in Nat \ {0} /\ MaxFixes \in Nat

VARIABLES
    options,
    tree,        \* content of the Builder's worktree
    \* the database
    head,        \* state of the reducer
    received,    \* its last transition took a Builder's receipt
    reviews,     \* review attempts with their report, remediation and certificate
    stop,        \* remediation stop: none, blocked, input (awaiting an answer), answered
    allowance,   \* the one automatic fresh review was used
    asked,       \* review for which an extra attempt is requested, 0 for none
    granted,     \* review with an unconsumed authorization from such a request
    decision,    \* saved answer to the question what to do about a review
    waiting,     \* guidance for the Builder is queued
    followups,   \* guidance turns that used the allowance of fixes
    \* the recovery packet
    packet,      \* its row, and what its files say
    plan,        \* publication recorded as intended and not finished
    folders,     \* reviews a packet was created for
    \* the running host
    at, then, resumed, auth, auto, violations, snap,
    \* history
    starts, requests, given

database == <<head, received, reviews, stop, allowance>>
people == <<asked, granted, decision, waiting, followups, requests, given>>
files == <<packet, plan, folders>>
memory == <<resumed, auth, auto, violations, snap>>
vars == <<options, tree, database, people, files, at, then, memory, starts>>

N == Len(reviews)
Terminal == {"passed", "waived", "finalizing", "completed"}
NoPacket == [n |-> 0, src |-> 0, action |-> "none", first |-> 0, intent |-> 0]
NoDecision == [n |-> 0, choice |-> "none"]
Unresolved == {"open", "recheck"}
Unsettled == {k \in 1 .. N : reviews[k].report \in Unresolved}

Larger(a, b) == IF a > b THEN a ELSE b
-------------------------------------------------------------------------------
(* The rows of a review.                                                        *)

Attempt(source) == [status |-> "started", src |-> source, report |-> "none", fix |-> "none",
                    paid |-> FALSE, sent |-> 0, cert |-> "none"]
Latest(row) == [reviews EXCEPT ![N] = row]
WithReports(rows, from, to) ==
    [k \in DOMAIN rows |-> IF rows[k].report \in from THEN [rows[k] EXCEPT !.report = to] ELSE rows[k]]
Interrupted(rows) ==
    [k \in DOMAIN rows |-> IF rows[k].status = "started" THEN [rows[k] EXCEPT !.status = "interrupted"]
                           ELSE rows[k]]
(* invalidateUnconsumedQaPassCertificates. *)
Uncertified(rows) ==
    [k \in DOMAIN rows |-> IF rows[k].cert = "issued" THEN [rows[k] EXCEPT !.cert = "invalid"] ELSE rows[k]]

(* Mutant: a fix whose outcome is unknown or that failed is not counted.        *)
MutAutoCount == Cardinality({k \in 1 .. N : reviews[k].fix = "succeeded" /\ ~reviews[k].paid}) + followups
(* qaAutomaticRemediationCount: every attempt without an authorization.         *)
AutoCount == Cardinality({k \in 1 .. N : reviews[k].fix # "none" /\ ~reviews[k].paid}) + followups

(* Mutant: a failed review is restored although its report was handed over.     *)
MutRestorable == /\ head = "operator-menu" /\ N > 0 /\ reviews[N].status = "failed"
                 /\ tree = reviews[N].src /\ reviews[N].report \in Unresolved
(* restoreUnchangedFailedReview. *)
Restorable == /\ head = "operator-menu" /\ N > 0 /\ reviews[N].status = "failed"
              /\ reviews[N].fix = "none"
              /\ tree = reviews[N].src /\ reviews[N].report \in Unresolved

(* hasConfirmedQaRemediationForRecheck. *)
Confirmed == head = "recheck-required" /\ received
-------------------------------------------------------------------------------
(* The recovery packet.  A revision is recorded as intended, its files written, *)
(* and the row advanced; "publish" is the gap in between.                       *)

Pending == packet # NoPacket /\ packet.action # "resolved"
Go(label) == at' = label /\ UNCHANGED <<then, files>>
Revise(next, label) == /\ plan' = next /\ at' = "publish" /\ then' = label
                       /\ UNCHANGED <<packet, folders>>
Mark(action, label) == IF Pending THEN Revise([packet EXCEPT !.action = action], label) ELSE Go(label)

(* createQaRecoveryPacket: refuses a directory that holds a published packet.   *)
Create(source, action, label) ==
    IF N \in folders THEN Go("leave")
    ELSE /\ plan' = [n |-> N, src |-> source, action |-> action, first |-> N, intent |-> 0]
         /\ folders' = folders \cup {N}
         /\ at' = "publish" /\ then' = label /\ UNCHANGED packet
(* ensureProtocolPausePacket. *)
EnsurePacket(source) == IF Pending THEN Mark("menu", "leave") ELSE Create(source, "menu", "leave")

Publish ==
    /\ at = "publish"
    /\ packet' = plan /\ plan' = NoPacket /\ at' = then /\ then' = "off"
    /\ UNCHANGED <<options, tree, database, people, folders, memory, starts>>

(* reconcileQaRecoveryPacketPublication: only a revision of the packet the row  *)
(* names, or a first packet, is finished; a row of another packet is refused    *)
(* even when it is resolved.                                                    *)
Contiguous == packet = NoPacket \/ packet.first = plan.first

(* Mutant: the packet is not brought up to a review begun before the crash.     *)
MutLagging == FALSE
(* recoverPendingQaRecoveryPublications: a review was allocated and the packet  *)
(* still names its predecessor.                                                 *)
Lagging == /\ Pending /\ head = "review-ready" /\ N = packet.n + 1
           /\ reviews[N].src = packet.src /\ reviews[N].status = "started"
           /\ packet.intent = N

(* pendingQaRecoveryPacket: the review and source the packet is bound to.       *)
BoundToReview ==
    \/ /\ N = packet.n
       /\ reviews[N].src = packet.src \/ packet.action \in {"automatic", "review", "menu"}
    \/ /\ head = "review-ready" /\ N = packet.n + 1 /\ N > 1
       /\ reviews[N - 1].status = "interrupted" /\ reviews[N].status = "started"
       /\ reviews[N].src = packet.src
-------------------------------------------------------------------------------
Halt == /\ at' = "off" /\ then' = "off"
        /\ resumed' = FALSE /\ auth' = 0 /\ auto' = 0 /\ violations' = 0 /\ snap' = 0

Init ==
    /\ options \in Options
    /\ tree = 0 /\ head = "idle" /\ received = FALSE /\ reviews = <<>> /\ stop = "none"
    /\ allowance = FALSE /\ asked = 0 /\ granted = 0 /\ decision = NoDecision
    /\ waiting = FALSE /\ followups = 0
    /\ packet = NoPacket /\ plan = NoPacket /\ folders = {}
    /\ at = "off" /\ then = "off" /\ resumed = FALSE /\ auth = 0 /\ auto = 0 /\ violations = 0
    /\ snap = 0 /\ starts = 0 /\ requests = 0 /\ given = {}

Start ==
    /\ at = "off" /\ starts < options.starts /\ head # "completed"
    /\ starts' = starts + 1 /\ Go("load")
    /\ UNCHANGED <<options, tree, database, people, memory>>

Crash ==
    /\ at # "off" /\ Halt
    /\ UNCHANGED <<options, tree, database, people, files, starts>>

(* The end of a run: oneReview's cleanup settles what it began.                 *)
Leave ==
    /\ at = "leave" /\ reviews' = Interrupted(reviews) /\ Halt
    /\ UNCHANGED <<options, tree, head, received, stop, allowance, people, files, starts>>

-------------------------------------------------------------------------------
(* Loading the packet, before anything else of a start.                         *)

LoadPublication ==
    /\ at = "load" /\ plan # NoPacket
    /\ \/ /\ Contiguous
          /\ packet' = plan /\ plan' = NoPacket
          /\ UNCHANGED <<at, then, folders, memory>>
       \/ ~Contiguous /\ Halt /\ UNCHANGED files
    /\ UNCHANGED <<options, tree, database, people, starts>>

LoadIdentity ==
    /\ at = "load" /\ plan = NoPacket /\ Lagging
    /\ Revise([packet EXCEPT !.n = N], "load")
    /\ UNCHANGED <<options, tree, database, people, memory, starts>>

(* A pass or a waiver was committed and the packet not yet resolved.            *)
LoadTerminal ==
    /\ at = "load" /\ plan = NoPacket /\ Pending /\ head \in Terminal
    /\ Mark("resolved", "load")
    /\ UNCHANGED <<options, tree, database, people, memory, starts>>

Loaded ==
    /\ at = "load" /\ plan = NoPacket /\ ~Lagging /\ ~(Pending /\ head \in Terminal)
    /\ resumed' = (Pending /\ BoundToReview)
    /\ Go(IF Pending /\ ~BoundToReview THEN "leave"
          ELSE IF head = "finalizing" THEN "verify" ELSE "entry")
    /\ UNCHANGED <<options, tree, database, people, auth, auto, violations, snap, starts>>

-------------------------------------------------------------------------------
(* The entry of runIsolatedQa.                                                  *)

(* Mutant: an explicit resume passes a question that has no answer.             *)
MutStopped == stop # "none" /\ ~resumed
Stopped == stop # "none" /\ (~resumed \/ stop = "input")

EntryStopped ==
    /\ at = "entry" /\ Stopped /\ Go("leave")
    /\ UNCHANGED <<options, tree, database, people, memory, starts>>

(* A turn of QA or of the Builder was under way when the last host died.        *)
EntryUncertain ==
    /\ at = "entry" /\ ~Stopped
    /\ \/ head = "turn-intended" /\ head' = "turn-uncertain"
       \/ head = "remediation-intended" /\ head' = "remediation-uncertain"
    /\ UNCHANGED <<options, tree, received, reviews, stop, allowance, people, files, at, then, memory,
                   starts>>

EntryMenu ==
    /\ at = "entry" /\ ~Stopped /\ head \in {"turn-uncertain", "remediation-uncertain"}
    /\ head' = "operator-menu"
    /\ Go(IF resumed THEN "entry" ELSE "parkTree")
    /\ UNCHANGED <<options, tree, received, reviews, stop, allowance, people, memory, starts>>

(* A review was allocated and its turn never sent.                              *)
EntryUnsent ==
    /\ at = "entry" /\ ~Stopped /\ head = "review-ready"
    /\ head' = "operator-menu"
    /\ UNCHANGED <<options, tree, received, reviews, stop, allowance, people, files, at, then, memory,
                   starts>>

EntryRecheck ==
    /\ at = "entry" /\ ~Stopped /\ resumed /\ head = "recheck-required"
    /\ resumed' = ~Confirmed
    /\ Mark("review", "settle")
    /\ UNCHANGED <<options, tree, database, people, auth, auto, violations, snap, starts>>

EntrySettle ==
    /\ \/ at = "settle"
       \/ /\ at = "entry" /\ ~Stopped
          /\ head \notin {"turn-intended", "turn-uncertain", "remediation-intended",
                          "remediation-uncertain", "review-ready"}
          /\ ~(resumed /\ head = "recheck-required")
    /\ reviews' = [k \in 1 .. N |->
                     IF reviews[k].fix = "started" THEN [Interrupted(reviews)[k] EXCEPT !.fix = "uncertain"]
                     ELSE Interrupted(reviews)[k]]
    /\ auto' = AutoCount /\ Go("controls")
    /\ UNCHANGED <<options, tree, head, received, stop, allowance, people, resumed, auth, violations,
                   snap, starts>>

(* consumeInstructionControls: an authorization of an earlier process, else the *)
(* queued request if it names the latest review and nothing was done about it.  *)
Eligible == /\ N > 0
            /\ \/ reviews[N].status = "passed" /\ head = "passed" /\ waiting
               \/ reviews[N].status = "failed" /\ reviews[N].report \in Unresolved /\ head = "review-failed"
Askable == /\ N > 0 /\ asked = N
           /\ \/ reviews[N].status = "passed" /\ head = "passed" /\ waiting
              \/ /\ reviews[N].status = "failed" /\ reviews[N].report \in Unresolved
                 /\ head \in {"review-failed", "operator-menu"}
                 /\ reviews[N].fix = "none" /\ decision.n # N
ConsumeControls(label) ==
    LET held == IF granted = N /\ Eligible THEN granted ELSE 0
        accepted == held = 0 /\ Askable
    IN /\ IF auth # 0 THEN UNCHANGED <<auth, granted, given, asked, head, received>>
          ELSE /\ auth' = IF accepted THEN N ELSE held
               /\ granted' = IF accepted THEN N ELSE granted
               /\ given' = IF accepted THEN given \cup {N} ELSE given
               /\ asked' = 0
               /\ head' = IF accepted /\ head = "operator-menu" THEN "review-failed" ELSE head
               /\ received' = (received /\ head' = head)
       /\ Go(label)

EntryControls ==
    /\ at = "controls" /\ ConsumeControls("restore")
    /\ UNCHANGED <<options, tree, reviews, stop, allowance, decision, waiting, followups, requests,
                   resumed, auto, violations, snap, starts>>

EntryRestore ==
    /\ at = "restore"
    /\ head' = IF Restorable THEN "review-failed" ELSE head
    /\ received' = (received /\ ~Restorable)
    /\ Go(IF head' = "review-failed" THEN "failed"
          ELSE IF head = "passed" /\ waiting THEN "guidance" ELSE "review")
    /\ UNCHANGED <<options, tree, reviews, stop, allowance, people, memory, starts>>

-------------------------------------------------------------------------------
(* Guidance that waits at a pass: one more turn of the Builder, then a review.  *)

Allowed == auto < MaxFixes \/ auth # 0

GuidanceRefused ==
    /\ at = "guidance" /\ ~Allowed /\ Go("parkTree")
    /\ UNCHANGED <<options, tree, database, people, memory, starts>>

(* buildAssignment.ts: the reservation, the certificate and the reducer at once. *)
GuidanceIntended ==
    /\ at = "guidance" /\ Allowed
    /\ waiting' = FALSE
    /\ followups' = IF auth = 0 THEN followups + 1 ELSE followups
    /\ granted' = IF auth = 0 THEN granted ELSE 0
    /\ reviews' = Uncertified(reviews)
    /\ head' = "operator-menu" /\ received' = FALSE
    /\ auth' = 0 /\ Go("following")
    /\ UNCHANGED <<options, tree, stop, allowance, asked, decision, requests, given, resumed, auto,
                   violations, snap, starts>>

GuidanceFollowed ==
    /\ at = "following"
    /\ \/ resumed' = FALSE /\ auto' = AutoCount /\ Go("review")
       \/ Go("parkTree") /\ UNCHANGED <<resumed, auto>>
    /\ UNCHANGED <<options, tree, database, people, auth, violations, snap, starts>>

-------------------------------------------------------------------------------
(* One review: snapshot, allocation, acknowledgement of the packet, the turn.   *)

(* The worktree would not hold still, or a prerequisite is missing.             *)
ReviewUnprepared ==
    /\ at = "review"
    /\ \/ resumed /\ Mark("menu", "menu") /\ UNCHANGED <<head, received>>
       \/ /\ ~resumed /\ Go("leave")
          /\ head' = IF head = "idle" THEN "operator-menu" ELSE head
          /\ UNCHANGED received
       \/ Go("leave") /\ UNCHANGED <<head, received>>
    /\ UNCHANGED <<options, tree, reviews, stop, allowance, people, memory, starts>>

(* beginV2Review throws when the protocol of the ticket is terminal.            *)
ReviewPrepared ==
    /\ at = "review"
    /\ snap' = tree /\ Go(IF head = "waived" THEN "leave" ELSE "sync")
    /\ UNCHANGED <<options, tree, database, people, resumed, auth, auto, violations, starts>>

(* The packet first: its action, the source, and which review comes next.       *)
InStep == packet.action = "review" /\ packet.src = snap /\ packet.intent = N + 1
ReviewSync ==
    /\ at = "sync" /\ Pending /\ ~InStep
    /\ Revise(IF packet.action # "review" THEN [packet EXCEPT !.action = "review"]
              ELSE IF packet.src # snap THEN [packet EXCEPT !.src = snap]
              ELSE [packet EXCEPT !.intent = N + 1], "sync")
    /\ UNCHANGED <<options, tree, database, people, memory, starts>>

(* commitQaReviewReady. *)
ReviewAllocated ==
    /\ at = "sync" /\ (Pending => InStep) /\ N < MaxReviews
    /\ reviews' = Append(Uncertified(Interrupted(reviews)), Attempt(snap))
    /\ head' = "review-ready" /\ received' = FALSE
    /\ Go("identity")
    /\ UNCHANGED <<options, tree, stop, allowance, people, memory, starts>>

ReviewIdentified ==
    /\ at = "identity"
    /\ IF Pending THEN Revise([packet EXCEPT !.n = N], "bound") ELSE Go("bound")
    /\ UNCHANGED <<options, tree, database, people, memory, starts>>

(* A resumed review has to accept the packet, which ends a remediation stop.    *)
ReviewRejected ==
    /\ at = "bound" /\ resumed /\ Go("pause")
    /\ UNCHANGED <<options, tree, database, people, memory, starts>>
ReviewAccepted ==
    /\ at = "bound" /\ resumed /\ stop' = "none" /\ Go("ack")
    /\ UNCHANGED <<options, tree, head, received, reviews, allowance, people, memory, starts>>

(* commitQaTurnIntent, then the turn is sent.                                   *)
TurnIntended ==
    /\ \/ at = "ack" /\ Go("acking")
       \/ at = "bound" /\ ~resumed /\ Go("turned")
    /\ head' = "turn-intended"
    /\ UNCHANGED <<options, tree, received, reviews, stop, allowance, people, memory, starts>>

Acknowledged ==
    /\ at = "acking"
    /\ \/ resumed' = FALSE /\ Go("sync")
       \/ Go("pause") /\ UNCHANGED resumed
    /\ UNCHANGED <<options, tree, database, people, auth, auto, violations, snap, starts>>

(* The turn ended without its terminal event.                                   *)
TurnUnknown ==
    /\ at \in {"acking", "turned"}
    /\ head' = "turn-uncertain" /\ Go("unknown")
    /\ UNCHANGED <<options, tree, received, reviews, stop, allowance, people, memory, starts>>

(* A tool of the provider never finished.                                       *)
TurnUnresolved ==
    /\ at = "turned" /\ \E next \in {"retry", "pause"} : Go(next)
    /\ UNCHANGED <<options, tree, database, people, memory, starts>>

(* QA changed its copy: once is forgiven.                                       *)
TurnModified ==
    /\ at = "turned" /\ violations' = violations + 1
    /\ Go(IF violations = 0 THEN "again" ELSE "pause")
    /\ UNCHANGED <<options, tree, database, people, resumed, auth, auto, snap, starts>>

(* Mutant: the verdict is taken although the worktree moved on.                 *)
MutDrifted == FALSE
Drifted == tree # reviews[N].src

TurnDrifted ==
    /\ at = "turned" /\ Drifted
    /\ head' = "recheck-required" /\ received' = FALSE
    /\ reviews' = Interrupted(reviews) /\ violations' = 0 /\ Go("again")
    /\ UNCHANGED <<options, tree, stop, allowance, people, resumed, auth, auto, snap, starts>>

(* An answer that is no verdict is kept in the packet, then tried afresh.       *)
TurnInvalid ==
    /\ at = "turned" /\ ~Drifted /\ violations' = 0
    /\ IF Pending THEN Mark("automatic", "retry") ELSE Create(snap, "automatic", "retry")
    /\ UNCHANGED <<options, tree, database, people, resumed, auth, auto, snap, starts>>

(* The turn failed or is blocked; or the evidence of a pass is incomplete.      *)
TurnRefused ==
    /\ at = "turned" /\ ~Drifted /\ violations' = 0
    /\ \E next \in {"retry", "pause"} : Go(next)
    /\ UNCHANGED <<options, tree, database, people, resumed, auth, auto, snap, starts>>

(* Mutant: the reports of earlier reviews are left open by a pass.              *)
MutPassedReports(rows) == rows
(* resolveQaReportsAfterPass. *)
PassedReports(rows) == WithReports(rows, Unresolved, "fixed")

(* commitQaPassAttempt. *)
TurnPassed ==
    /\ at = "turned" /\ ~Drifted /\ violations' = 0
    /\ reviews' = PassedReports([reviews EXCEPT ![N].status = "passed", ![N].cert = "issued"])
    /\ head' = "passed" /\ received' = FALSE /\ Go("passed")
    /\ UNCHANGED <<options, tree, stop, allowance, people, resumed, auth, auto, snap, starts>>

(* commitQaFailureAttempt. *)
TurnFailed ==
    /\ at = "turned" /\ ~Drifted /\ violations' = 0
    /\ reviews' = [reviews EXCEPT ![N].status = "failed", ![N].report = "open"]
    /\ head' = "review-failed" /\ received' = FALSE /\ Go("reported")
    /\ UNCHANGED <<options, tree, stop, allowance, people, resumed, auth, auto, snap, starts>>

Reported ==
    /\ at = "reported" /\ Mark("builder", "failed")
    /\ UNCHANGED <<options, tree, database, people, memory, starts>>
Passed ==
    /\ at = "passed" /\ Mark("resolved", "deliver")
    /\ UNCHANGED <<options, tree, database, people, memory, starts>>

(* retryFreshQaReview: once per ticket, over all its processes.                 *)
Retry ==
    /\ at = "retry"
    /\ \/ /\ ~allowance /\ allowance' = TRUE /\ head' = "operator-menu" /\ received' = FALSE
          /\ resumed' = FALSE /\ Go("again")
       \/ allowance /\ Go("pause") /\ UNCHANGED <<allowance, head, received, resumed>>
    /\ UNCHANGED <<options, tree, reviews, stop, people, auth, auto, violations, snap, starts>>

Again ==
    /\ at = "again"
    /\ reviews' = Interrupted(reviews) /\ auto' = Larger(auto, AutoCount) /\ Go("review")
    /\ UNCHANGED <<options, tree, head, received, stop, allowance, people, resumed, auth, violations,
                   snap, starts>>

-------------------------------------------------------------------------------
(* Pauses: the reducer goes to the menu, then a packet is ensured.              *)

Pause ==
    /\ at \in {"pause", "pauseTree", "menu"}
    /\ head' = "operator-menu" /\ received' = FALSE
    /\ Go(CASE at = "pause" -> "park" [] at = "pauseTree" -> "parkTree" [] OTHER -> "leave")
    /\ UNCHANGED <<options, tree, reviews, stop, allowance, people, memory, starts>>

Park ==
    /\ \/ at = "park" /\ EnsurePacket(snap)
       \/ at = "parkTree" /\ EnsurePacket(tree)
       \/ /\ at = "unknown"     \* ensureUncertainQaTurnPacket: any row will do
          /\ IF packet = NoPacket THEN Create(reviews[N].src, "menu", "leave") ELSE Go("leave")
    /\ UNCHANGED <<options, tree, database, people, memory, starts>>

-------------------------------------------------------------------------------
(* A failed review: the Builder fixes, or an operator decides.                  *)

Failed ==
    /\ at = "failed" /\ ConsumeControls("decide")
    /\ UNCHANGED <<options, tree, reviews, stop, allowance, decision, waiting, followups, requests,
                   resumed, auto, violations, snap, starts>>

FixAllowed ==
    /\ at = "decide" /\ Allowed /\ Go("fix")
    /\ UNCHANGED <<options, tree, database, people, memory, starts>>

(* createQaNonconvergenceHandler: a saved answer about this failure is reused.  *)
Decide ==
    /\ at = "decide" /\ ~Allowed /\ decision.n # N
    /\ \E choice \in {"pause", "waive", "retry"} : decision' = [n |-> N, choice |-> choice]
    /\ UNCHANGED <<options, tree, database, asked, granted, waiting, followups, requests, given, files,
                   at, then, memory, starts>>

Decided ==
    /\ at = "decide" /\ ~Allowed /\ decision.n = N
    /\ \/ /\ decision.choice = "pause" /\ Go("pauseTree")
          /\ UNCHANGED <<head, received, reviews, auth, given>>
       \/ /\ decision.choice = "waive" /\ Go("waived")
          /\ reviews' = WithReports(reviews, Unresolved, "waived")
          /\ head' = "waived" /\ received' = FALSE /\ UNCHANGED <<auth, given>>
       \/ /\ decision.choice = "retry" /\ Go("fix") /\ auth' = N /\ given' = given \cup {N}
          /\ UNCHANGED <<head, received, reviews>>
    /\ UNCHANGED <<options, tree, stop, allowance, asked, granted, decision, waiting, followups,
                   requests, resumed, auto, violations, snap, starts>>

Waived ==
    /\ at = "waived" /\ Mark("resolved", "leave")
    /\ UNCHANGED <<options, tree, database, people, memory, starts>>

(* deliverAttempt: the source moved, the session is not to be had, or it goes.  *)
FixDrifted ==
    /\ at = "fix" /\ tree # reviews[N].src
    /\ reviews' = [reviews EXCEPT ![N].report = "superseded"]
    /\ head' = "recheck-required" /\ received' = FALSE /\ Go("pauseTree")
    /\ UNCHANGED <<options, tree, stop, allowance, people, memory, starts>>
FixUndelivered ==
    /\ at = "fix" /\ Go("pauseTree")
    /\ UNCHANGED <<options, tree, database, people, memory, starts>>
FixBound ==
    /\ at = "fix" /\ tree = reviews[N].src /\ Go("intend")
    /\ UNCHANGED <<options, tree, database, people, memory, starts>>

(* One transaction: reservation, remediation intent, delivery intent.           *)
FixIntended ==
    /\ at = "intend"
    /\ reviews' = [reviews EXCEPT ![N].fix = "started", ![N].paid = auth # 0]
    /\ granted' = IF auth = 0 THEN granted ELSE 0
    /\ head' = "remediation-intended" /\ received' = FALSE /\ auth' = 0 /\ Go("send")
    /\ UNCHANGED <<options, tree, stop, allowance, asked, decision, waiting, followups, requests, given,
                   resumed, auto, violations, snap, starts>>
FixSent ==
    /\ at = "send"
    /\ reviews' = [reviews EXCEPT ![N].sent = @ + 1] /\ Go("building")
    /\ UNCHANGED <<options, tree, head, received, stop, allowance, people, memory, starts>>

(* The receipt and all that follows from it, in one transaction.                *)
FixReported ==
    /\ at = "building"
    /\ reviews' = WithReports([reviews EXCEPT ![N].fix = "succeeded"], Unresolved, "recheck")
    /\ head' = "recheck-required" /\ received' = TRUE /\ Go("fixed")
    /\ UNCHANGED <<options, tree, stop, allowance, people, memory, starts>>
FixRecorded ==
    /\ at = "fixed" /\ auto' = auto + 1 /\ resumed' = FALSE
    /\ Mark("review", "review")
    /\ UNCHANGED <<options, tree, database, people, auth, violations, snap, starts>>
FixStopped ==
    /\ at = "building"
    /\ \E end \in {[fix |-> "failed", stop |-> "input", head |-> "operator-menu"],
                   [fix |-> "failed", stop |-> "blocked", head |-> "operator-menu"],
                   [fix |-> "uncertain", stop |-> "blocked", head |-> "remediation-uncertain"]} :
         /\ stop' = end.stop
         /\ IF tree = reviews[N].src
            THEN reviews' = [reviews EXCEPT ![N].fix = end.fix] /\ head' = end.head
            ELSE /\ reviews' = WithReports([reviews EXCEPT ![N].fix = end.fix], Unresolved, "recheck")
                 /\ head' = "recheck-required"
    /\ received' = FALSE /\ Go("pauseTree")
    /\ UNCHANGED <<options, tree, allowance, people, memory, starts>>

-------------------------------------------------------------------------------
(* Finalization of a pass by the runner.                                        *)

(* beginQaFinalization, consumeQaPassCertificate.                               *)
FinalizationBegun ==
    /\ at = "deliver"
    /\ \/ /\ tree = reviews[N].src /\ head' = "finalizing" /\ Go("verify")
          /\ reviews' = [reviews EXCEPT ![N].cert = "consumed"]
       \/ /\ tree # reviews[N].src /\ head' = "operator-menu" /\ Go("leave")
          /\ reviews' = Uncertified(reviews)
    /\ received' = FALSE
    /\ UNCHANGED <<options, tree, stop, allowance, people, memory, starts>>
FinalizationVerified ==
    /\ at = "verify"
    /\ \/ tree = reviews[N].src /\ Go("complete") /\ UNCHANGED <<head, received>>
       \/ tree # reviews[N].src /\ head' = "operator-menu" /\ received' = FALSE /\ Go("leave")
    /\ UNCHANGED <<options, tree, reviews, stop, allowance, people, memory, starts>>
FinalizationCompleted ==
    /\ at = "complete" /\ head' = "completed" /\ received' = FALSE /\ Go("leave")
    /\ UNCHANGED <<options, tree, reviews, stop, allowance, people, memory, starts>>

-------------------------------------------------------------------------------
(* Around the host.                                                             *)

Edit ==
    /\ tree < options.edits /\ tree' = tree + 1
    /\ UNCHANGED <<options, database, people, files, at, then, memory, starts>>
Answer ==
    /\ stop = "input" /\ stop' = "answered"
    /\ UNCHANGED <<options, tree, head, received, reviews, allowance, people, files, at, then, memory,
                   starts>>
Ask ==
    /\ requests < options.requests /\ N > 0 /\ asked = 0
    /\ reviews[N].status \in {"failed", "passed"}
    /\ asked' = N /\ requests' = requests + 1
    /\ UNCHANGED <<options, tree, database, granted, decision, waiting, followups, given, files, at,
                   then, memory, starts>>
Guide ==
    /\ options.guidance /\ requests < options.requests /\ ~waiting
    /\ waiting' = TRUE /\ requests' = requests + 1
    /\ UNCHANGED <<options, tree, database, asked, granted, decision, followups, given, files, at, then,
                   memory, starts>>

(* applyOwnershipRepair: with no host; only the row of the packet is resolved.  *)
Repair ==
    /\ at = "off" /\ requests < options.requests /\ requests' = requests + 1
    /\ head \notin {"completed", "waived", "finalizing", "remediation-intended"}
    /\ head' = IF head \in {"idle", "operator-menu"} THEN head ELSE "operator-menu"
    /\ received' = (received /\ head' = head)
    /\ reviews' = Uncertified(reviews)
    /\ packet' = IF Pending THEN [packet EXCEPT !.action = "resolved"] ELSE packet
    /\ UNCHANGED <<options, tree, stop, allowance, asked, granted, decision, waiting, followups, given,
                   plan, folders, at, then, memory, starts>>

Load == LoadPublication \/ LoadIdentity \/ LoadTerminal \/ Loaded
Entry == EntryStopped \/ EntryUncertain \/ EntryMenu \/ EntryUnsent \/ EntryRecheck \/ EntrySettle
         \/ EntryControls \/ EntryRestore \/ GuidanceRefused \/ GuidanceIntended \/ GuidanceFollowed
Review == ReviewUnprepared \/ ReviewPrepared \/ ReviewSync \/ ReviewAllocated \/ ReviewIdentified
          \/ ReviewRejected \/ ReviewAccepted
Turn == TurnIntended \/ Acknowledged \/ TurnUnknown \/ TurnUnresolved \/ TurnModified \/ TurnDrifted
        \/ TurnInvalid \/ TurnRefused \/ TurnPassed \/ TurnFailed \/ Reported \/ Passed \/ Retry \/ Again
Fix == Failed \/ FixAllowed \/ Decide \/ Decided \/ Waived \/ FixDrifted \/ FixUndelivered \/ FixBound
       \/ FixIntended \/ FixSent \/ FixReported \/ FixRecorded \/ FixStopped
Finish == FinalizationBegun \/ FinalizationVerified \/ FinalizationCompleted
Around == Edit \/ Answer \/ Ask \/ Guide \/ Repair \/ Crash

Next == Start \/ Publish \/ Load \/ Entry \/ Review \/ Turn \/ Pause \/ Park \/ Fix \/ Finish \/ Leave
        \/ Around
Spec == Init /\ [][Next]_vars

-------------------------------------------------------------------------------
(* Properties. *)

(* A report is handed to the Builder once: whatever crashes, resumes, restored  *)
(* reviews and extra attempts come between, no failed review has its fix sent   *)
(* a second time (qaFailureDelivery.ts, restoreUnchangedFailedReview).          *)
HandedOverOnce == \A k \in 1 .. N : reviews[k].sent <= 1

(* The Builder works beyond the allowance of the policy only for a review whose *)
(* extra attempt an operator authorized (reserveQaRemediation), over fixes and  *)
(* guidance turns together and over every process of the run.                   *)
AllowanceKept ==
    /\ Cardinality({k \in 1 .. N : reviews[k].sent > 0 /\ ~reviews[k].paid}) + followups <= MaxFixes
    /\ \A k \in 1 .. N : reviews[k].paid => k \in given

(* The reducer and the reports agree: a ticket that waits for a fix has the     *)
(* unresolved report of its latest review, and one QA let go has none left.     *)
ReportsSettled ==
    /\ head = "review-failed" => N > 0 /\ reviews[N].status = "failed" /\ N \in Unsettled
    /\ head \in Terminal => Unsettled = {}

(* After a crash the packet of a paused review can be loaded again: it names    *)
(* the review the reducer is at, or the one right before it                     *)
(* (pendingQaRecoveryPacket would refuse to start the run otherwise).           *)
PacketLoads ==
    at = "load" /\ plan = NoPacket /\ Pending /\ ~Lagging /\ head \notin Terminal => BoundToReview

(* While the Builder's stop stands, nothing is sent to it; and the stop ends    *)
(* only in a resumed review, after its question was answered.                   *)
StopHolds ==
    [][stop # "none" =>
         /\ followups' = followups
         /\ \A k \in 1 .. N : reviews'[k].sent = reviews[k].sent
         /\ stop' = "none" => resumed /\ stop # "input"]_vars

(* What the host promises the runner: QaCertification, the pass being the       *)
(* certificate rows that count.                                                 *)
Counts(k) == \/ reviews[k].cert = "issued"
             \/ reviews[k].cert = "consumed" /\ head \in {"finalizing", "completed"} /\ k = N
Certification == INSTANCE QaCertification WITH
    Review <- 1 .. MaxReviews,
    content <- tree,
    state <- IF head \in Terminal THEN head ELSE "open",
    vouched <- {<<k, reviews[k].src>> : k \in {i \in 1 .. N : Counts(i)}}
ImplementsCertification == Certification!Spec
=============================================================================
