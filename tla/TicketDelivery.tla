---------------------------- MODULE TicketDelivery ----------------------------
(* A build of several tickets in branches: runBranchPlan (branch/runner.ts)     *)
(* takes the tickets of one run in order, gives each a worktree and a branch,   *)
(* has them built and reviewed, and delivers what QA certified - by a push and  *)
(* a review request, by a merge into the local base, or not at all.  The host   *)
(* may die between any two steps; start.ts then plans the rest of the run from  *)
(* what is left in Git, in the operation journal, in the QA heads, in the       *)
(* tracker and in the recorded sessions.  People edit and commit meanwhile.     *)
(*                                                                              *)
(* Content is a version number: tree[t] of the worktree, head[t] of the branch  *)
(* (0 is the base it was created from).  The digest of a frozen source covers   *)
(* the worktree and every ref of the repository.                                *)
EXTENDS Naturals, Sequences, FiniteSets

CONSTANTS
    Ticket,       \* the tickets of the run
    Order,        \* their order in the plan, a sequence
    Options,      \* the kinds of run explored: way of delivery, whether QA is on,
                  \* dependencies, and bounds on the invocations of the host and on
                  \* the edits and commits of people
    MaxVersion,   \* how often the content of one worktree changes
    None          \* no ticket

Version == 0 .. MaxVersion

ASSUME TicketAssumption ==
    /\ None \notin Ticket
    /\ Order \in Seq(Ticket)
    /\ MaxVersion \in Nat

VARIABLES
    options,     \* what this run was started with
    \* Git
    tree, head,  \* content of the worktree and of the branch of each ticket
    wt, br,      \* whether its worktree and its branch exist
    base,        \* what was committed to the local base: <<ticket or None, version>>
    staged,      \* the merge in the index of the base worktree, or <<>>; <<None, 0>>
                 \* when the index holds anything else, such as a conflict
    remote,      \* version of each branch on the remote
    request,     \* tickets with a review request
    \* the project's databases
    qa, cert,    \* head of the QA protocol of each ticket and its accepted source
    journal,     \* operation journal: one row per ticket and kind of step
    tracker,     \* status of each ticket
    session,     \* recorded branch session of each ticket
    run,         \* status of the run
    \* the host that is running, if any
    at, node, queue, resumed, ndeps, qaOnly, recovering, viaMerge,
    settled, pushed,
    interrupted, \* ticket whose Builder turn was under way when the host died
    late,        \* tickets a person committed on after the last check of its source
    unseen,      \* what a person committed after the last check before a removal
    starts, touches

git == <<tree, head, wt, br, base, staged, remote, request>>
books == <<qa, cert, journal, tracker, session>>
plan == <<node, queue, resumed, ndeps, qaOnly, recovering, viaMerge, settled, pushed>>
bounds == <<options, starts, touches>>
vars == <<options, git, books, run, at, plan, interrupted, late, unseen, starts, touches>>

Kind == {"commit", "push", "review", "merge", "complete",
         "runtime-block", "remote-block", "qa-block", "builder-block"}
Unplanned == [status |-> "none", intent |-> <<>>]
Row(status, intent) == [status |-> status, intent |-> intent]
OpenStates == {"in_progress", "uncertain", "confirmed"}

-------------------------------------------------------------------------------
(* What the code reads.                                                         *)

Dirty(t) == tree[t] # head[t]

(* The frozen source: worktree content and all refs, local and remote.          *)
Digest(t) == [tree |-> tree[t], refs |-> <<head, br, base, remote>>]
NoCert == [tree |-> 0, refs |-> <<>>]

Terminal(t) == ~options.qa \/ qa[t] \in {"completed", "waived"}
TicketDone(t) == tracker[t] = "done" /\ Terminal(t)
Remaining == {t \in Ticket : ~TicketDone(t)}
Pending == {t \in Ticket : qa[t] \in {"open", "passed", "finalizing"}}
Failed == {t \in Ticket : settled[t] \in {"blocked", "deferred", "skipped"}}

Bound == options.qa /\ qa[node] # "waived"
MergeOp(t) == journal[t]["merge"]
Source(t) == MergeOp(t).intent[1]
Frozen(t) == MergeOp(t).intent[2]

(* reconcileDirectMerge: the intended merge is the first commit on its base.    *)
Reconciled(t) ==
    IF Len(base) = Frozen(t) THEN "unmerged"
    ELSE IF base[Frozen(t) + 1] = <<t, Source(t)>> THEN "merged" ELSE "changed"

(* verifyDirectMergeWorktree. *)
SourceKept(t) == /\ wt[t] => ~Dirty(t)
                 /\ br[t] => head[t] = Source(t)

(* Mutant: an authorized commit stands for its content.                         *)
MutMatchesAnyProjection(t, projection) ==
    \/ Digest(t) = cert[t]
    \/ projection /\ journal[t]["commit"].status \in {"in_progress", "confirmed"}

(* verifyPendingQaFinalizationSource, without and with an authorized commit.    *)
Matches(t, projection) ==
    \/ Digest(t) = cert[t]
    \/ /\ projection
       /\ journal[t]["commit"].status \in {"in_progress", "confirmed"}
       /\ tree[t] = cert[t].tree

(* A delivery step that has begun, may have happened or has happened.           *)
Publishing(t) == \E k \in {"push", "review", "merge", "complete"} :
                    journal[t][k].status \in OpenStates

(* The keys of these steps carry the number of rechecks: a recheck starts anew. *)
Renewed(t) == [journal EXCEPT ![t] =
    [k \in Kind |-> IF k \in {"commit", "merge", "complete"} THEN Unplanned ELSE @[k]]]

(* planJournal: admitted unless another intent or a failed row holds the key.   *)
Plannable(t, k, intent) ==
    \/ journal[t][k].status = "none"
    \/ /\ journal[t][k].intent = intent
       /\ journal[t][k].status \in {"in_progress", "confirmed"}
Planned(t, k, intent) ==
    [journal EXCEPT ![t][k] = IF @.status = "confirmed" THEN @ ELSE Row("in_progress", intent)]

-------------------------------------------------------------------------------
(* How the host leaves a ticket, and the run.                                   *)

Forgotten ==
    /\ node' = None /\ queue' = {} /\ resumed' = {} /\ ndeps' = [t \in Ticket |-> {}]
    /\ qaOnly' = None /\ recovering' = FALSE /\ viaMerge' = FALSE
    /\ settled' = [t \in Ticket |-> "none"] /\ pushed' = {}

Halt == at' = "off" /\ Forgotten

Settle(how) ==
    /\ settled' = [settled EXCEPT ![node] = how]
    /\ node' = None /\ recovering' = FALSE /\ viaMerge' = FALSE
    /\ at' = "next"
    /\ UNCHANGED <<queue, resumed, ndeps, qaOnly, pushed>>

KeyFree(j, k, detail) == j[node][k].status = "none" \/ j[node][k].intent = <<detail>>

(* The catch of the loop: the ticket is blocked under one key of the journal; a *)
(* second block for another reason collides with it and ends the whole run.     *)
RuntimeBlock(j, detail) ==
    \/ /\ KeyFree(j, "runtime-block", detail)
       /\ journal' = [j EXCEPT ![node]["runtime-block"] = Row("confirmed", <<detail>>)]
       /\ tracker' = [tracker EXCEPT ![node] = "blocked"]
       /\ Settle("blocked")
    \/ /\ ~KeyFree(j, "runtime-block", detail)
       /\ journal' = j
       /\ UNCHANGED tracker
       /\ Halt

(* A block the loop decides itself; a collision of its key is caught by above.  *)
Block(k, j, detail) ==
    \/ /\ KeyFree(j, k, detail)
       /\ journal' = [j EXCEPT ![node][k] = Row("confirmed", <<detail>>)]
       /\ tracker' = [tracker EXCEPT ![node] = "blocked"]
       /\ Settle("blocked")
    \/ ~KeyFree(j, k, detail) /\ RuntimeBlock(j, "collision")

(* A recovered merge that cannot proceed is reported, never recorded.           *)
MergeBlock(j, detail) ==
    IF viaMerge THEN journal' = j /\ UNCHANGED tracker /\ Settle("blocked")
                ELSE RuntimeBlock(j, detail)

Goto(label) == at' = label /\ UNCHANGED plan

(* updateOperation: a confirmed row takes no failure and no other receipt; the   *)
(* loop catches what it throws.                                                 *)
Conflict(k) == journal[node][k].status = "confirmed" /\ RuntimeBlock(journal, "receipt")

Fails(k, status) ==
    \/ Conflict(k)
    \/ /\ journal[node][k].status # "confirmed"
       /\ Block("remote-block", [journal EXCEPT ![node][k].status = status], k)

-------------------------------------------------------------------------------
Init ==
    /\ options \in Options
    /\ tree = [t \in Ticket |-> 0] /\ head = [t \in Ticket |-> 0]
    /\ wt = [t \in Ticket |-> FALSE] /\ br = [t \in Ticket |-> FALSE]
    /\ base = <<>> /\ staged = <<>>
    /\ remote = [t \in Ticket |-> 0] /\ request = {}
    /\ qa = [t \in Ticket |-> "none"] /\ cert = [t \in Ticket |-> NoCert]
    /\ journal = [t \in Ticket |-> [k \in Kind |-> Unplanned]]
    /\ tracker = [t \in Ticket |-> "planned"] /\ session = [t \in Ticket |-> "none"]
    /\ run = "new" /\ at = "off"
    /\ node = None /\ queue = {} /\ resumed = {} /\ ndeps = [t \in Ticket |-> {}]
    /\ qaOnly = None /\ recovering = FALSE /\ viaMerge = FALSE
    /\ settled = [t \in Ticket |-> "none"] /\ pushed = {}
    /\ interrupted = None /\ late = {} /\ unseen = {} /\ starts = 0 /\ touches = 0

Launch(tickets, continued, dependencies, only) ==
    /\ at = "off" /\ starts < options.starts
    /\ starts' = starts + 1
    /\ queue' = tickets
    /\ resumed' = continued /\ ndeps' = dependencies /\ qaOnly' = only
    /\ at' = "next" /\ run' = "open"
    /\ UNCHANGED <<options, git, books, node, recovering, viaMerge, settled, pushed,
                   interrupted, late, unseen, touches>>

(* rafi start: every ticket of the run, each after those it depends on.         *)
Start == run = "new" /\ Launch(Ticket, {}, options.deps, None)

Resumable(t) == session[t] = "active" /\ wt[t]

(* Tickets without a session are planned afresh, and the planner has to select  *)
(* each of them: its dependencies are done or selected before it.               *)
FreshlyPlanned(tickets) ==
    \A t \in tickets : /\ session[t] = "none" /\ tracker[t] = "planned"
                       /\ \A d \in options.deps[t] : tracker[d] = "done" \/ d \in tickets

(* The tickets a resume takes up: the interrupted one, one with pending QA, the *)
(* one that was asked for, or all that remain.                                  *)
Choices ==
    IF interrupted # None THEN {{interrupted}}
    ELSE IF Pending # {} THEN {{t} : t \in Pending}
    ELSE {Remaining} \cup {{t} : t \in Remaining}

Accepted(tickets) == FreshlyPlanned({t \in tickets : ~Resumable(t)})

(* rafi resume.  A resumed ticket has no dependencies in its plan; with pending *)
(* QA the Builder is not asked again.                                           *)
Resume ==
    /\ run = "open" /\ Remaining # {}
    /\ \E tickets \in Choices :
          LET fresh == {t \in tickets : ~Resumable(t)} IN
          /\ Accepted(tickets)
          /\ Launch(tickets, tickets \ fresh,
                    [t \in Ticket |-> IF t \in fresh THEN options.deps[t] \cap fresh ELSE {}],
                    IF interrupted = None /\ Pending # {} THEN CHOOSE t \in tickets : TRUE
                    ELSE None)

(* finishBranchTicketScope, after the loop. *)
Finish ==
    /\ at = "next" /\ queue = {}
    /\ run' = IF Remaining = {} THEN "completed" ELSE "open"
    /\ Halt
    /\ UNCHANGED <<bounds, git, books, interrupted, late, unseen>>

Crash ==
    /\ at # "off"
    /\ interrupted' = IF at = "build" THEN node ELSE interrupted
    /\ Halt
    /\ UNCHANGED <<bounds, git, books, run, late, unseen>>

-------------------------------------------------------------------------------
(* The head of the loop.                                                        *)

(* The first of those that are left, in the order of the plan. *)
Taking(t) ==
    /\ at = "next" /\ t \in queue
    /\ \A u \in queue : \E i, j \in DOMAIN Order : i <= j /\ Order[i] = t /\ Order[j] = u

Pass(t, how) ==
    /\ settled' = [settled EXCEPT ![t] = how] /\ queue' = queue \ {t}
    /\ UNCHANGED <<at, node, resumed, ndeps, qaOnly, recovering, viaMerge, pushed>>

Take(t, label, finalizing, merging) ==
    /\ node' = t /\ queue' = queue \ {t} /\ at' = label
    /\ recovering' = finalizing /\ viaMerge' = merging
    /\ UNCHANGED <<resumed, ndeps, qaOnly, settled, pushed>>

(* A dependency failed in this run, or its branch has nothing that was pushed.  *)
PassOver(t) ==
    /\ Taking(t)
    /\ \/ ndeps[t] \cap Failed # {} /\ Pass(t, "deferred")
       \/ /\ ndeps[t] \cap Failed = {} /\ qa[t] # "finalizing"
          /\ options.completion = "review" /\ ~(ndeps[t] \subseteq pushed)
          /\ Pass(t, "skipped")
    /\ UNCHANGED <<bounds, git, books, run, interrupted, late, unseen>>

Ready(t) ==
    /\ ndeps[t] \cap Failed = {}
    /\ options.completion = "review" /\ qa[t] # "finalizing" => ndeps[t] \subseteq pushed

(* Mutant: the intent to merge is taken for its receipt.                        *)
MutRecoverMergeByIntent(t) ==
    /\ Taking(t) /\ Ready(t) /\ qa[t] = "finalizing"
    /\ MergeOp(t).status \in {"in_progress", "confirmed"} /\ Take(t, "complete", TRUE, TRUE)
    /\ UNCHANGED <<bounds, git, books, run, interrupted, late, unseen>>

(* A finalization that had begun to merge goes on where the merge stands.       *)
RecoverMerge(t) ==
    /\ Taking(t) /\ Ready(t) /\ qa[t] = "finalizing"
    /\ \/ MergeOp(t).status = "in_progress" /\ Take(t, "merging", TRUE, TRUE)
       \/ MergeOp(t).status = "confirmed" /\ Take(t, "cleanup", TRUE, TRUE)
    /\ UNCHANGED <<bounds, git, books, run, interrupted, late, unseen>>

ContinueTicket(t) ==
    /\ Taking(t) /\ Ready(t) /\ t \in resumed
    /\ ~(qa[t] = "finalizing" /\ MergeOp(t).status \in {"in_progress", "confirmed"})
    /\ Take(t, "open", qa[t] = "finalizing", FALSE)
    /\ UNCHANGED <<bounds, git, books, run, interrupted, late, unseen>>

(* git worktree add -b refuses a branch that exists, and nothing catches that.  *)
CreateWorktree(t) ==
    /\ Taking(t) /\ Ready(t) /\ t \notin resumed
    /\ IF br[t] THEN Halt /\ UNCHANGED git
       ELSE /\ Take(t, "open", FALSE, FALSE)
            /\ wt' = [wt EXCEPT ![t] = TRUE] /\ br' = [br EXCEPT ![t] = TRUE]
            /\ tree' = [tree EXCEPT ![t] = 0] /\ head' = [head EXCEPT ![t] = 0]
            /\ UNCHANGED <<base, staged, remote, request>>
    /\ UNCHANGED <<bounds, books, run, interrupted, late, unseen>>

(* Only a ticket that is built again is opened in the tracker.                  *)
OpenTicket ==
    /\ at = "open"
    /\ LET reviewing == recovering \/ qaOnly = node
       IN /\ tracker' = IF reviewing THEN tracker ELSE [tracker EXCEPT ![node] = "in_progress"]
          /\ Goto(IF recovering THEN "finalize" ELSE IF reviewing THEN "qa" ELSE "build")
    /\ UNCHANGED <<bounds, git, qa, cert, journal, session, run, interrupted, late, unseen>>

-------------------------------------------------------------------------------
(* Builder and QA.                                                              *)

(* The Builder edits while it builds and while it repairs what QA found.        *)
BuilderEdits ==
    /\ at \in {"build", "review"} /\ tree[node] < MaxVersion
    /\ tree' = [tree EXCEPT ![node] = @ + 1]
    /\ UNCHANGED <<bounds, head, wt, br, base, staged, remote, request, books, run, at, plan,
                   interrupted, late, unseen>>

(* The session is recorded when the turn has ended.                             *)
BuilderEnds(how) ==
    /\ at = "build"
    /\ session' = [session EXCEPT ![node] = "active"]
    /\ interrupted' = IF interrupted = node THEN None ELSE interrupted
    /\ \/ how = "done" /\ Goto(IF options.qa THEN "qa" ELSE "commit") /\ UNCHANGED <<journal, tracker>>
       \/ how = "blocked" /\ Block("builder-block", journal, "builder")
       \/ how = "error" /\ RuntimeBlock(journal, "builder")
    /\ UNCHANGED <<bounds, git, qa, cert, run, late, unseen>>

(* runIsolatedQa: a protocol that has ended cannot be entered again.            *)
BeginQa ==
    /\ at = "qa"
    /\ \/ /\ qa[node] \in {"waived", "completed"}
          /\ RuntimeBlock(journal, "terminal") /\ UNCHANGED qa
       \/ /\ qa[node] \notin {"waived", "completed"}
          /\ qa' = [qa EXCEPT ![node] = "open"]
          /\ Goto("review") /\ UNCHANGED <<journal, tracker>>
    /\ UNCHANGED <<bounds, git, cert, session, run, interrupted, late, unseen>>

PassQa ==
    /\ at = "review"
    /\ qa' = [qa EXCEPT ![node] = "passed"]
    /\ cert' = [cert EXCEPT ![node] = Digest(node)]
    /\ Goto("finalize")
    /\ UNCHANGED <<bounds, git, journal, tracker, session, run, interrupted, late, unseen>>

WaiveQa ==
    /\ at = "review"
    /\ qa' = [qa EXCEPT ![node] = "waived"]
    /\ Goto("commit")
    /\ UNCHANGED <<bounds, git, cert, journal, tracker, session, run, interrupted, late, unseen>>

QaBlocks ==
    /\ at = "review"
    /\ Block("qa-block", journal, "qa")
    /\ UNCHANGED <<bounds, git, qa, cert, session, run, interrupted, late, unseen>>

-------------------------------------------------------------------------------
(* Finalization: from the certified source to a commit on the branch.           *)

(* invalidateQaFinalization: a new review, unless something may be published.   *)
SourceDrifted ==
    IF Publishing(node) THEN RuntimeBlock(journal, "published") /\ UNCHANGED qa
    ELSE RuntimeBlock(Renewed(node), "drift") /\ qa' = [qa EXCEPT ![node] = "open"]

BeginFinalization ==
    /\ at = "finalize" /\ ~recovering
    /\ IF Digest(node) = cert[node]
       THEN qa' = [qa EXCEPT ![node] = "finalizing"] /\ Goto("commit") /\ UNCHANGED <<journal, tracker>>
       ELSE qa' = [qa EXCEPT ![node] = "open"] /\ RuntimeBlock(journal, "drift")
    /\ UNCHANGED <<bounds, git, cert, session, run, interrupted, late, unseen>>

ResumeFinalization ==
    /\ at = "finalize" /\ recovering
    /\ IF Matches(node, ~Dirty(node)) THEN Goto("commit") /\ UNCHANGED <<qa, journal, tracker>>
                                      ELSE SourceDrifted
    /\ UNCHANGED <<bounds, git, cert, session, run, interrupted, late, unseen>>

PlanCommit ==
    /\ at = "commit"
    /\ IF ~Dirty(node) THEN Goto("verify") /\ UNCHANGED <<qa, journal, tracker>>
       ELSE IF Bound /\ ~Matches(node, FALSE) THEN SourceDrifted
       ELSE /\ UNCHANGED qa
            /\ IF Plannable(node, "commit", <<>>)
               THEN journal' = Planned(node, "commit", <<>>) /\ Goto("committing") /\ UNCHANGED tracker
               ELSE RuntimeBlock(journal, "refused commit")
    /\ UNCHANGED <<bounds, git, cert, session, run, interrupted, late, unseen>>

(* commitAll takes what the worktree holds now; the commit may be refused.      *)
CommitAll ==
    /\ at = "committing"
    /\ \/ /\ head' = [head EXCEPT ![node] = tree[node]]
          /\ Goto("committed") /\ UNCHANGED <<journal, tracker>>
       \/ Conflict("commit") /\ UNCHANGED head
       \/ /\ journal[node]["commit"].status # "confirmed" /\ UNCHANGED head
          /\ RuntimeBlock([journal EXCEPT ![node]["commit"].status = "failed"], "commit")
    /\ UNCHANGED <<bounds, tree, wt, br, base, staged, remote, request, qa, cert, session, run,
                   interrupted, late, unseen>>

(* A commit after an earlier one has another receipt, which its row refuses.    *)
ConfirmCommit ==
    /\ at = "committed"
    /\ \/ Conflict("commit")
       \/ /\ journal[node]["commit"].status # "confirmed"
          /\ journal' = [journal EXCEPT ![node]["commit"].status = "confirmed"]
          /\ Goto("verify") /\ UNCHANGED tracker
    /\ UNCHANGED <<bounds, git, qa, cert, session, run, interrupted, late, unseen>>

(* The last look at the source; what it finds is what a push is planned for.    *)
VerifyPublication ==
    /\ at = "verify"
    /\ IF Bound /\ ~Matches(node, TRUE) THEN SourceDrifted
       ELSE /\ UNCHANGED qa
            /\ \/ /\ head[node] = 0 \/ options.completion = "none"
                  /\ Goto("complete") /\ UNCHANGED <<journal, tracker>>
               \/ /\ head[node] # 0 /\ options.completion = "merge"
                  /\ Goto("merge") /\ UNCHANGED <<journal, tracker>>
               \/ /\ head[node] # 0 /\ options.completion = "review"
                  /\ IF Plannable(node, "push", <<head[node]>>)
                     THEN /\ journal' = Planned(node, "push", <<head[node]>>)
                          /\ Goto("pushing") /\ UNCHANGED tracker
                     ELSE RuntimeBlock(journal, "refused push")
    /\ UNCHANGED <<bounds, git, cert, session, run, interrupted, late, unseen>>

-------------------------------------------------------------------------------
(* Delivery by a review request.                                                *)

(* The branch is pushed as it stands; an error may or may not have reached it.  *)
Push ==
    /\ at = "pushing"
    /\ \/ /\ remote' = [remote EXCEPT ![node] = head[node]]
          /\ Goto("pushed") /\ UNCHANGED <<journal, tracker>>
       \/ Fails("push", "failed") /\ UNCHANGED remote
       \/ /\ Fails("push", "uncertain")
          /\ remote' \in {remote, [remote EXCEPT ![node] = head[node]]}
    /\ UNCHANGED <<bounds, tree, head, wt, br, base, staged, request, qa, cert, session, run,
                   interrupted, late, unseen>>

(* Its receipt; then the request is planned under the version that was pushed.  *)
ConfirmPush ==
    /\ at = "pushed"
    /\ LET sha == journal[node]["push"].intent
           confirmed == [journal EXCEPT ![node]["push"].status = "confirmed"]
       IN IF Plannable(node, "review", sha)
          THEN /\ journal' = [confirmed EXCEPT ![node]["review"] =
                                 IF @.status = "confirmed" THEN @ ELSE Row("in_progress", sha)]
               /\ at' = "requesting" /\ pushed' = pushed \cup {node}
               /\ UNCHANGED <<node, queue, resumed, ndeps, qaOnly, recovering, viaMerge, settled,
                              tracker>>
          ELSE RuntimeBlock(confirmed, "refused review")
    /\ UNCHANGED <<bounds, git, qa, cert, session, run, interrupted, late, unseen>>

(* createOrReusePr, and auto-merge where it is wanted.                          *)
RequestReview ==
    /\ at = "requesting"
    /\ \/ request' = request \cup {node} /\ Goto("requested") /\ UNCHANGED <<journal, tracker>>
       \/ Fails("review", "failed") /\ UNCHANGED request
       \/ Fails("review", "uncertain") /\ request' \in {request, request \cup {node}}
    /\ UNCHANGED <<bounds, tree, head, wt, br, base, staged, remote, qa, cert, session, run,
                   interrupted, late, unseen>>

ConfirmReview ==
    /\ at = "requested"
    /\ journal' = [journal EXCEPT ![node]["review"].status = "confirmed"]
    /\ Goto("complete")
    /\ UNCHANGED <<bounds, git, qa, cert, tracker, session, run, interrupted, late, unseen>>

-------------------------------------------------------------------------------
(* Delivery by a merge into the local base.                                     *)

(* prepareDirectMerge freezes source and base before anything changes; a branch *)
(* that does not merge cleanly is refused here.                                 *)
PrepareMerge ==
    /\ at = "merge"
    /\ LET intent == IF MergeOp(node).status = "none" THEN <<head[node], Len(base)>>
                     ELSE MergeOp(node).intent
       IN \/ /\ Plannable(node, "merge", intent)
             /\ journal' = Planned(node, "merge", intent) /\ Goto("merging") /\ UNCHANGED tracker
          \/ /\ ~Plannable(node, "merge", intent) \/ MergeOp(node).status = "none"
             /\ RuntimeBlock(journal, "refused merge")
    /\ UNCHANGED <<bounds, git, qa, cert, session, run, interrupted, late, unseen>>

(* invalidateUnpublishedMergeDrift: only while the base is untouched.           *)
MergeDrifted ==
    IF Len(base) = Frozen(node) /\ staged = <<>> /\ qa[node] = "finalizing"
       /\ \A k \in {"push", "review", "complete"} : journal[node][k].status \notin OpenStates
    THEN qa' = [qa EXCEPT ![node] = "open"] /\ MergeBlock(Renewed(node), "drift")
    ELSE UNCHANGED qa /\ MergeBlock(journal, "merge drift")

(* executeDirectMerge, or the reconciliation of a recovered merge before it.    *)
ReconcileMerge ==
    /\ at = "merging"
    /\ \/ /\ Reconciled(node) = "merged"
          /\ Goto("merged") /\ UNCHANGED <<journal, tracker>>
       \/ /\ Reconciled(node) = "unmerged"
          /\ Goto("checking") /\ UNCHANGED <<journal, tracker>>
       \/ Reconciled(node) = "changed" /\ MergeBlock(journal, "base")
    /\ UNCHANGED <<bounds, git, qa, cert, session, run, interrupted, late, unseen>>

CheckSource ==
    /\ at = "checking"
    /\ IF SourceKept(node) THEN Goto("staging") /\ UNCHANGED <<qa, journal, tracker>>
                           ELSE MergeDrifted
    /\ UNCHANGED <<bounds, git, cert, session, run, interrupted, late, unseen>>

(* Mutant: after the reconciliation nothing looks at the head of the base.      *)
MutInspectIndex ==
    /\ at = "staging"
    /\ \/ staged = <<>> /\ Goto("squashing") /\ UNCHANGED <<journal, tracker>>
       \/ staged = <<node, Source(node)>> /\ Goto("staged") /\ UNCHANGED <<journal, tracker>>
       \/ staged \notin {<<>>, <<node, Source(node)>>} /\ MergeBlock(journal, "staged")
    /\ UNCHANGED <<bounds, git, qa, cert, session, run, interrupted, late, unseen>>

(* The index is that of the frozen base, or holds exactly the intended merge.   *)
InspectIndex ==
    /\ at = "staging"
    /\ \/ /\ staged = <<>> /\ Len(base) = Frozen(node)
          /\ Goto("squashing") /\ UNCHANGED <<journal, tracker>>
       \/ /\ staged = <<node, Source(node)>> /\ Len(base) = Frozen(node)
          /\ Goto("staged") /\ UNCHANGED <<journal, tracker>>
       \/ /\ staged \notin {<<>>, <<node, Source(node)>>} \/ Len(base) # Frozen(node)
          /\ MergeBlock(journal, "staged")
    /\ UNCHANGED <<bounds, git, qa, cert, session, run, interrupted, late, unseen>>

(* git merge --squash takes the frozen commit, onto whatever the base is now; a *)
(* base that moved may conflict.                                                *)
SquashMerge ==
    /\ at = "squashing"
    /\ \/ staged' = <<node, Source(node)>> /\ Goto("staged") /\ UNCHANGED <<journal, tracker>>
       \/ /\ staged' \in {staged} \cup (IF Len(base) = Frozen(node) THEN {} ELSE {<<None, 0>>})
          /\ MergeBlock(journal, "merge")
    /\ UNCHANGED <<bounds, tree, head, wt, br, base, remote, request, qa, cert, session, run,
                   interrupted, late, unseen>>

(* git commit may be refused, and has nothing to commit if someone else         *)
(* committed the index.                                                         *)
CommitMerge ==
    /\ at = "staged"
    /\ \/ /\ staged # <<>>
          /\ base' = Append(base, staged) /\ staged' = <<>>
          /\ Goto("merged") /\ UNCHANGED <<journal, tracker>>
       \/ MergeBlock(journal, "merge commit") /\ UNCHANGED <<base, staged>>
    /\ UNCHANGED <<bounds, tree, head, wt, br, remote, request, qa, cert, session, run,
                   interrupted, late, unseen>>

ConfirmMerge ==
    /\ at = "merged"
    /\ IF Reconciled(node) = "merged"
       THEN /\ journal' = [journal EXCEPT ![node]["merge"].status = "confirmed"]
            /\ Goto("cleanup") /\ UNCHANGED tracker
       ELSE MergeBlock(journal, "base")
    /\ UNCHANGED <<bounds, git, qa, cert, session, run, interrupted, late, unseen>>

(* verifyDirectMergeWorktree, the last look at a source before it is removed.   *)
CheckMerged ==
    /\ at = "cleanup"
    /\ IF Reconciled(node) = "merged" /\ SourceKept(node)
       THEN Goto("removing") /\ UNCHANGED <<journal, tracker>>
       ELSE MergeBlock(journal, "late edit")
    /\ UNCHANGED <<bounds, git, qa, cert, session, run, interrupted, late, unseen>>

(* Mutant: the worktree is removed by force.                                    *)
MutRemoveMerged ==
    /\ at = "removing"
    /\ wt' = [wt EXCEPT ![node] = FALSE]
    /\ Goto("deleting") /\ UNCHANGED <<journal, tracker>>
    /\ UNCHANGED <<bounds, tree, head, br, base, staged, remote, request, qa, cert, session, run,
                   interrupted, late, unseen>>

(* removeDirectMergeWorktree looks once more, and git worktree remove refuses   *)
(* what is not committed; nothing catches that where a merge is recovered.      *)
RemoveMerged ==
    /\ at = "removing"
    /\ \/ /\ wt[node] => ~Dirty(node)
          /\ wt' = [wt EXCEPT ![node] = FALSE]
          /\ Goto("deleting") /\ UNCHANGED <<journal, tracker>>
       \/ /\ wt[node] /\ ~SourceKept(node) /\ UNCHANGED wt
          /\ IF viaMerge THEN Halt /\ UNCHANGED <<journal, tracker>>
                         ELSE RuntimeBlock(journal, "late edit")
    /\ UNCHANGED <<bounds, tree, head, br, base, staged, remote, request, qa, cert, session, run,
                   interrupted, late, unseen>>

(* deleteLocalBranch: by force, whatever it holds by now, or not at all.        *)
DeleteBranch ==
    /\ at = "deleting"
    /\ br' \in {br, [br EXCEPT ![node] = FALSE]}
    /\ Goto("complete")
    /\ UNCHANGED <<bounds, tree, head, wt, base, staged, remote, request, books, run, interrupted,
                   late, unseen>>

-------------------------------------------------------------------------------
(* Completion.                                                                  *)

(* A completion that has its receipt is not repeated; a recovered merge has no  *)
(* row of its own for it.                                                       *)
PlanCompletion ==
    /\ at = "complete" /\ ~viaMerge
    /\ journal' = Planned(node, "complete", <<>>)
    /\ Goto(IF journal[node]["complete"].status = "confirmed" THEN "closing" ELSE "completing")
    /\ UNCHANGED <<bounds, git, qa, cert, tracker, session, run, interrupted, late, unseen>>

CompleteTicket ==
    /\ at = "completing" \/ (at = "complete" /\ viaMerge)
    /\ tracker' = [tracker EXCEPT ![node] = "done"]
    /\ Goto(IF viaMerge THEN "closing" ELSE "completed")
    /\ UNCHANGED <<bounds, git, qa, cert, journal, session, run, interrupted, late, unseen>>

ConfirmCompletion ==
    /\ at = "completed"
    /\ journal' = [journal EXCEPT ![node]["complete"].status = "confirmed"]
    /\ Goto("closing")
    /\ UNCHANGED <<bounds, git, qa, cert, tracker, session, run, interrupted, late, unseen>>

CompleteQa ==
    /\ at = "closing"
    /\ qa' = IF Bound THEN [qa EXCEPT ![node] = "completed"] ELSE qa
    /\ Goto("close")
    /\ UNCHANGED <<bounds, git, cert, journal, tracker, session, run, interrupted, late, unseen>>

CloseSession ==
    /\ at = "close"
    /\ session' = [session EXCEPT ![node] = IF @ = "none" THEN "none" ELSE "completed"]
    /\ IF options.completion = "merge" THEN Settle("done") ELSE Goto("tidy")
    /\ UNCHANGED <<bounds, git, qa, cert, journal, tracker, run, interrupted, late, unseen>>

(* removeTicketWorktree: by force; the branch stays.                            *)
RemoveWorktree ==
    /\ at = "tidy"
    /\ wt' = [wt EXCEPT ![node] = FALSE]
    /\ Settle("done")
    /\ UNCHANGED <<bounds, tree, head, br, base, staged, remote, request, books, run,
                   interrupted, late, unseen>>

-------------------------------------------------------------------------------
(* People, at any time: an edit or a commit in a worktree, a commit to the base.*)

Touch == touches < options.touches /\ touches' = touches + 1

HumanEdits(t) ==
    /\ Touch /\ wt[t] /\ tree[t] < MaxVersion
    /\ tree' = [tree EXCEPT ![t] = @ + 1]
    /\ UNCHANGED <<options, starts, head, wt, br, base, staged, remote, request, books, run, at,
                   plan, interrupted, late, unseen>>

HumanCommits(t) ==
    /\ Touch /\ wt[t] /\ Dirty(t)
    /\ head' = [head EXCEPT ![t] = tree[t]]
    /\ late' = IF t = node /\ at \in {"pushing", "merge"} THEN late \cup {t} ELSE late
    /\ unseen' = IF t = node /\ at = "removing" THEN unseen \cup {<<t, tree[t]>>} ELSE unseen
    /\ UNCHANGED <<options, starts, tree, wt, br, base, staged, remote, request, books, run, at,
                   plan, interrupted>>

HumanCommitsBase ==
    /\ Touch
    /\ base' = Append(base, IF staged = <<>> THEN <<None, 0>> ELSE staged)
    /\ staged' = <<>>
    /\ UNCHANGED <<options, starts, tree, head, wt, br, remote, request, books, run, at, plan,
                   interrupted, late, unseen>>

-------------------------------------------------------------------------------
Loop == \E t \in Ticket : PassOver(t) \/ RecoverMerge(t) \/ ContinueTicket(t) \/ CreateWorktree(t)
Build == \/ OpenTicket \/ BuilderEdits \/ BeginQa \/ PassQa \/ WaiveQa \/ QaBlocks
         \/ \E how \in {"done", "blocked", "error"} : BuilderEnds(how)
Finalize == \/ BeginFinalization \/ ResumeFinalization \/ PlanCommit \/ CommitAll
            \/ ConfirmCommit \/ VerifyPublication
Deliver == \/ Push \/ ConfirmPush \/ RequestReview \/ ConfirmReview
           \/ PrepareMerge \/ ReconcileMerge \/ CheckSource \/ InspectIndex \/ SquashMerge
           \/ CommitMerge \/ ConfirmMerge \/ CheckMerged \/ RemoveMerged \/ DeleteBranch
Complete == PlanCompletion \/ CompleteTicket \/ ConfirmCompletion \/ CompleteQa \/ CloseSession \/ RemoveWorktree
Human == HumanCommitsBase \/ \E t \in Ticket : HumanEdits(t) \/ HumanCommits(t)

Next == Start \/ Resume \/ Finish \/ Crash \/ Loop \/ Build \/ Finalize \/ Deliver \/ Complete \/ Human

Spec == Init /\ [][Next]_vars

-------------------------------------------------------------------------------
Content == Ticket \X Version
BaseEntry == Content \cup {<<None, 0>>}

Merged(t) == {i \in DOMAIN base : base[i][1] = t}

(* Whatever step publishes a version of a ticket, QA certified that version and *)
(* its certificate is in force.  Exempt are a waived ticket, and a commit made  *)
(* by hand after the last check of the source.                                  *)
PublishesCertified ==
    [][\A t \in Ticket \ late : \A v \in Version :
         /\ options.qa
         /\ \/ remote[t] # v /\ remote'[t] = v
            \/ Len(base') > Len(base) /\ base'[Len(base')] = <<t, v>>
         => qa[t] = "waived" \/ (qa[t] = "finalizing" /\ v = cert[t].tree)]_vars

(* However often the host dies between the merge and its receipt, or people     *)
(* commit to the base meanwhile, no ticket is merged twice, and no review is    *)
(* opened again behind its merge.                                               *)
MergedOnce ==
    \A t \in Ticket :
        /\ Cardinality(Merged(t)) <= 1
        /\ options.qa /\ t \notin late =>
              \A i \in Merged(t) :
                 qa[t] = "waived" \/ (qa[t] \in {"finalizing", "completed"} /\ base[i][2] = cert[t].tree)

(* A receipt in the journal stands for something that happened, and a ticket is *)
(* done only when every delivery step of it has one.                            *)
DoneIsDelivered ==
    \A t \in Ticket :
        /\ journal[t]["push"].status = "confirmed" =>
              remote[t] = journal[t]["push"].intent[1] \/ t \in late
        /\ journal[t]["review"].status = "confirmed" => t \in request
        /\ MergeOp(t).status = "confirmed" => \E i \in DOMAIN base : base[i] = <<t, Source(t)>>
        /\ tracker[t] = "done" =>
              /\ \A k \in {"push", "review", "merge"} :
                    journal[t][k].status \in {"none", "confirmed"}
              /\ options.qa => qa[t] \in {"finalizing", "completed", "waived"}

(* With a merge into the base, what is not committed stays in its worktree, and *)
(* a branch is deleted only after its worktree, when its content is on the base *)
(* or was committed by hand after the last check before the removal.            *)
NoWorkLost ==
    [][\A t \in Ticket : options.completion = "merge" =>
         /\ wt[t] /\ ~wt'[t] => ~Dirty(t)
         /\ br[t] /\ ~br'[t] =>
               ~wt[t] /\ <<t, head[t]>> \in {base[i] : i \in DOMAIN base} \cup unseen]_vars

=============================================================================
