------------------------------ MODULE StartOver ------------------------------
(***************************************************************************)
(* rafi build:start-over gives up one build: it preserves what the build   *)
(* left in the worktree, resets its tickets and marks its run superseded.  *)
(* Git, the tracker, the run's row and the run's file are four stores; the *)
(* operation is written down before each is touched, and any process may   *)
(* take it up again after a death or an error.  Nothing keeps two          *)
(* processes from the same operation, or from confirming one each.         *)
(*                                                                         *)
(* The baseline of the build's branch, Original, holds no work.  The work  *)
(* is a set of items: "old" was committed by the build, "owned" is its     *)
(* uncommitted change, "local" is in a path that was changed before the    *)
(* build began; later edits are "fix", in a path of the build, and         *)
(* "touch", in a path of the other kind; "new" is a commit of a later      *)
(* build.  The control files are tracked, unchanged since the baseline but *)
(* for the tickets populations add.                                        *)
(***************************************************************************)
EXTENDS TrackerPublications, Sequences

CONSTANTS Old,       \* populations made before
          MaxCalls   \* bound on what people do: commands, builds, start-overs, edits

ASSUME SomePlanned == Planned \subseteq Reset /\ Old \subseteq Population /\ MaxCalls \in Nat

VARIABLES
  heir,      \* the operation the build's run is superseded by, 0 while it is not
  agrees,    \* the run's file under .foreman/runs says what the row says
  proj,      \* its projection publications: "settled" or "open"
  so,        \* the start-over operations in order, rows of the workflow database
  backup,    \* of each, the backup of control files: at most one pair of contents
  branches,  \* the work in the commits of each branch that exists
  head,      \* branch of the worktree
  dirty,     \* uncommitted work
  made,      \* all the work there ever was
  known,     \* the work some confirmed operation found
  aside,     \* work the operator had stashed or discarded
  view,      \* per process: the operation as it read it, its own copies
  crossed,   \* what was ever beside a start-over (Crossing)
  calls

repo  == <<branches, head, dirty, aside, made, known>>
runs  == <<heir, agrees, proj>>
ghost == <<overlapped, crossed>>
svars == <<tvars, runs, so, backup, repo, view, crossed, calls>>

Original == <<"original", 0>>
Archive(i) == <<"archive", i>>
Restart == <<"restart", 0>>

Initial == {"local", "touch"}
Action  == {"restart-current", "archive-restart", "archive-new-branch", "new-branch"}
NoOp    == [status |-> None, action |-> None, preserved |-> FALSE, planned |-> None, reset |-> FALSE]
NoView  == [id |-> 0, so |-> NoOp, pushed |-> FALSE, tree |-> {}, kept |-> {}]
Tree    == {<<branches[head], dirty>>}

(* The last operation that did not complete is the one to go on with.      *)
Resumable == {i \in DOMAIN so : so[i].status \in {"running", "paused"}}
Open == Resumable # {}
Pending(i) == IF Open THEN i \in Resumable /\ \A j \in Resumable : j <= i ELSE i = 0

(* Paths the build does not own, or, on a branch that was pushed, that may *)
(* not follow to another branch, stand in the way.  Which actions a branch *)
(* is offered depends on whether it was pushed and its baseline is known;  *)
(* each is offered to some branch and nothing later asks again.            *)
Unexpected(v) ==
  IF v.so.action \in {"restart-current", "archive-new-branch"} THEN {}
  ELSE IF v.pushed THEN dirty ELSE dirty \cap Initial

MutArchived(a) == IF a = "archive-restart" THEN dirty \cap Initial ELSE dirty

(* The changes an archive commits.                                         *)
Archived(a) == IF a = "archive-restart" THEN dirty \ Initial ELSE dirty

StartingOver(p) == cmd[p] = "start-over" /\ at[p] # "idle"
Fresh(p) == view[p].so.status = None
Hold(p, r) == admission' = [by |-> p, run |-> r] /\ lease' = [by |-> p, run |-> r]
MayTake == Free(admission) /\ Free(lease)
Enter(p, c, pc) == at' = [at EXCEPT ![p] = pc] /\ cmd' = [cmd EXCEPT ![p] = c]
View(p, v) == view' = [view EXCEPT ![p] = v]
Call == calls < MaxCalls /\ calls' = calls + 1

(* Nothing keeps populations, or a second start-over, from a start-over.   *)
Crossing ==
  (IF (Population \cap Incomplete # {} \/ \E p \in Proc : cmd[p] \in {"populate", "apply"})
      /\ (Open \/ \E p \in Proc : StartingOver(p))
   THEN {"population"} ELSE {})
  \cup (IF \E p, q \in Proc : p # q /\ StartingOver(p) /\ StartingOver(q) THEN {"start-over"} ELSE {})

quiet == <<tracker, pub, left, run, parent, op, seen, stage>>  \* what no step below touches

SInit ==
  /\ Populated(Old)
  /\ heir = 0 /\ agrees = TRUE /\ proj = "settled"
  /\ so = <<>> /\ backup = <<>>
  /\ branches = [b \in {Original} |-> {"old"}] /\ head = Original
  /\ dirty = {"owned", "local"} /\ aside = {}
  /\ made = {"old"} \cup dirty /\ known = {}
  /\ view = [p \in Proc |-> NoView] /\ crossed = {} /\ calls = 0

(***************************************************************************)
(* Builds, and people in the worktree                                      *)
(***************************************************************************)

(* A build takes the admission that is free or whose process died: the     *)
(* build itself, or one started later.  Nothing looks for an operation.    *)
BuildBegin(p, b) ==
  /\ at[p] = "idle" /\ Call /\ MayTake
  /\ IF b = "build" THEN heir = 0 ELSE "new" \notin made
  /\ Enter(p, "build", "build-work") /\ Hold(p, b)
  /\ UNCHANGED <<quiet, definitions, delivery, runs, so, backup, repo, view>>

(* The Builder completes a ticket.  A later build commits; the build saves *)
(* its record, which opens a publication of the file.                      *)
BuildWork(p, t) ==
  /\ at[p] = "build-work" /\ status' = [status EXCEPT ![t] = "done"]
  /\ IF admission.run = "build"
     THEN agrees' = FALSE /\ proj' = "open" /\ Goto(p, "save-rename") /\ UNCHANGED <<branches, made>>
     ELSE /\ branches' = [branches EXCEPT ![head] = @ \cup {"new"}] /\ made' = made \cup {"new"}
          /\ Goto(p, "release") /\ UNCHANGED <<agrees, proj>>
  /\ UNCHANGED <<receipts, resets, snapshots, files, pub, left, run, parent, owners, cmd, op, seen>>
  /\ UNCHANGED <<heir, so, backup, head, dirty, aside, known, view, calls>>

(* saveBuildRun: the row and a publication were written; now the file, in  *)
(* a transaction that checks the row, then every publication of the file.  *)
SaveRename(p) ==
  /\ at[p] = "save-rename" /\ agrees' = TRUE /\ Goto(p, "save-settle")
  /\ UNCHANGED <<quiet, definitions, delivery, owners, cmd, heir, proj, so, backup, repo, view, calls>>

SaveSettle(p) ==
  /\ at[p] = "save-settle" /\ proj' = "settled"
  /\ Goto(p, IF StartingOver(p) THEN "so-complete" ELSE "release")
  /\ UNCHANGED <<quiet, definitions, delivery, owners, cmd, heir, agrees, so, backup, repo, view, calls>>

(* A person changes a file, at any time.                                   *)
Edit(w) ==
  /\ w \notin made /\ Call /\ dirty' = dirty \cup {w} /\ made' = made \cup {w}
  /\ UNCHANGED <<quiet, definitions, delivery, owners, at, cmd>>
  /\ UNCHANGED <<runs, so, backup, branches, head, aside, known, view>>

(***************************************************************************)
(* Preview, cleaning and confirmation                                      *)
(***************************************************************************)

(* The pending operation is read, or an inventory is taken; the owner of   *)
(* the build must be dead.  An operation keeps its action.                 *)
Preview(p, i, a, pushed) ==
  LET pending == IF Open THEN so[i] ELSE [NoOp EXCEPT !.action = a] IN
  /\ at[p] = "idle" /\ Call /\ (heir = 0 \/ heir \in Resumable)
  /\ Pending(i) /\ a = pending.action /\ (pushed => a = "new-branch" /\ ~Open)
  /\ ~\E q \in Proc : Holds(admission, q) /\ admission.run = "build"
  /\ Enter(p, "start-over", "so-preview")
  /\ View(p, [NoView EXCEPT !.id = i, !.so = pending, !.pushed = pushed, !.tree = Tree])
  /\ UNCHANGED <<quiet, definitions, delivery, owners, runs, so, backup, repo>>

MutPutBack(kept) == \E c \in kept : definitions' = c[1] /\ UNCHANGED delivery

PutBack(kept) == \E c \in kept : definitions' = c[1] /\ delivery' = c[2]

(* Unexpected changes of a fresh inventory are stashed or discarded under  *)
(* an authority of the build; Git takes the control files with them.       *)
Clean(p) ==
  /\ at[p] = "so-preview" /\ Fresh(p) /\ Unexpected(view[p]) # {} /\ MayTake
  /\ aside' = aside \cup dirty /\ dirty' = {} /\ definitions' = {} /\ delivery' = {}
  /\ Hold(p, "build") /\ Goto(p, "so-cleaned")
  /\ View(p, [view[p] EXCEPT !.kept = {<<definitions, delivery>>}])
  /\ UNCHANGED <<quiet, cmd, runs, so, backup, branches, head, made, known, calls>>

(* They are put back, and the inventory is taken again.                    *)
Cleaned(p) ==
  /\ at[p] = "so-cleaned" /\ PutBack(view[p].kept)
  /\ admission' = Nobody /\ lease' = Nobody /\ Goto(p, "so-preview")
  /\ View(p, [view[p] EXCEPT !.kept = {}, !.tree = Tree])
  /\ UNCHANGED <<quiet, cmd, runs, so, backup, repo, calls>>

(* A fresh operation is written down unless the files changed meanwhile; a *)
(* pending one goes on from the inventory it was made with.                *)
Confirm(p) ==
  /\ at[p] = "so-preview" /\ (Fresh(p) => Unexpected(view[p]) = {})
  /\ IF ~Fresh(p)
     THEN Goto(p, "so-retire") /\ View(p, [view[p] EXCEPT !.tree = {}]) /\ UNCHANGED <<so, backup, known>>
     ELSE IF view[p].tree # Tree THEN Goto(p, "leave") /\ UNCHANGED <<so, backup, known, view>>
     ELSE /\ so' = Append(so, [view[p].so EXCEPT !.status = "running"]) /\ backup' = Append(backup, {})
          /\ known' = known \cup branches[head] \cup dirty
          /\ View(p, [view[p] EXCEPT !.id = Len(so'), !.tree = {}, !.pushed = FALSE]) /\ Goto(p, "so-retire")
  /\ UNCHANGED <<quiet, definitions, delivery, owners, cmd, runs, branches, head, dirty, aside, made, calls>>

(* No authority: an operation this process made, and nobody carried on, is *)
(* paused, any other one left alone.                                       *)
Refused(p) ==
  /\ LET i == view[p].id IN
     so' = IF Fresh(p) /\ so[i] = [view[p].so EXCEPT !.status = "running"]
           THEN [so EXCEPT ![i].status = "paused"] ELSE so
  /\ Goto(p, "leave") /\ UNCHANGED owners

MutRetire(p) ==
  /\ at[p] = "so-retire"
  /\ IF heir # 0 THEN Goto(p, "so-admit") /\ UNCHANGED <<so, owners, heir>>
     ELSE IF MayTake THEN Goto(p, "so-admit") /\ admission' = Nobody /\ lease' = Nobody /\ heir' = view[p].id /\ UNCHANGED so
     ELSE Refused(p) /\ UNCHANGED heir
  /\ UNCHANGED <<quiet, definitions, delivery, cmd, agrees, proj, backup, repo, view, calls>>

(* Execution is retired under the build's own admission and lease.         *)
Retire(p) ==
  /\ at[p] = "so-retire"
  /\ IF heir # 0 THEN Goto(p, "so-admit") /\ UNCHANGED <<so, owners>>
     ELSE IF MayTake THEN Goto(p, "so-admit") /\ admission' = Nobody /\ lease' = Nobody /\ UNCHANGED so
     ELSE Refused(p)
  /\ UNCHANGED <<quiet, definitions, delivery, cmd, runs, backup, repo, view, calls>>

(* Then the operation is admitted, and control files a dead process left   *)
(* as Git had them are put back.                                           *)
Admit(p) ==
  /\ at[p] = "so-admit"
  /\ IF MayTake THEN Hold(p, "start-over") /\ UNCHANGED so
                     /\ Goto(p, IF ~Fresh(p) /\ ~view[p].so.preserved /\ backup[view[p].id] # {} THEN "so-recollect"
                                ELSE IF view[p].so.preserved THEN "so-reset" ELSE "so-plan")
     ELSE Refused(p)
  /\ UNCHANGED <<quiet, definitions, delivery, cmd, runs, backup, repo, view, calls>>

Recollect(p) ==
  /\ at[p] = "so-recollect" /\ PutBack(backup[view[p].id]) /\ Goto(p, "so-plan")
  /\ UNCHANGED <<quiet, owners, cmd, runs, so, backup, repo, view, calls>>

(***************************************************************************)
(* Git                                                                     *)
(***************************************************************************)

(* The plan is written down, control files are captured once.              *)
Plan(p) ==
  LET i    == view[p].id
      kept == IF backup[i] # {} THEN backup[i] ELSE {<<definitions, delivery>>} IN
  /\ at[p] = "so-plan" /\ so' = [so EXCEPT ![i] = [@ EXCEPT !.preserved = FALSE, !.planned = None, !.reset = FALSE]]
  /\ IF view[p].so.action = "restart-current" THEN Goto(p, "so-preserve") /\ UNCHANGED <<backup, view>>
     ELSE /\ backup' = [backup EXCEPT ![i] = kept] /\ View(p, [view[p] EXCEPT !.kept = kept])
          /\ Goto(p, IF view[p].so.action = "new-branch" THEN "git-fresh" ELSE "git-switch")
  /\ UNCHANGED <<quiet, definitions, delivery, owners, cmd, runs, repo, calls>>

(* git switch, with -c for a branch that does not exist.                   *)
Switch(b, start) ==
  /\ head' = b
  /\ branches' = [c \in DOMAIN branches \cup {b} |-> IF c \in DOMAIN branches THEN branches[c] ELSE start]

GitSwitch(p) ==
  /\ at[p] = "git-switch" /\ Switch(Archive(view[p].id), branches[head]) /\ Goto(p, "git-commit")
  /\ UNCHANGED <<quiet, definitions, delivery, owners, cmd, runs, so, backup, dirty, aside, made, known, view, calls>>

GitCommit(p) ==
  /\ at[p] = "git-commit"
  /\ branches' = [branches EXCEPT ![head] = @ \cup Archived(view[p].so.action)]
  /\ dirty' = dirty \ Archived(view[p].so.action)
  /\ Goto(p, IF view[p].so.action = "archive-restart" THEN "git-back" ELSE "git-fresh")
  /\ UNCHANGED <<quiet, definitions, delivery, owners, cmd, runs, so, backup, head, aside, made, known, view, calls>>

GitBack(p) ==
  /\ at[p] = "git-back" /\ Switch(Original, {}) /\ Goto(p, "git-reset")
  /\ UNCHANGED <<quiet, definitions, delivery, owners, cmd, runs, so, backup, dirty, aside, made, known, view, calls>>

(* git reset --hard, which takes the tracked control files with it.        *)
GitReset(p) ==
  /\ at[p] = "git-reset" /\ branches' = [branches EXCEPT ![head] = {}] /\ dirty' = {}
  /\ definitions' = {} /\ delivery' = {} /\ Goto(p, "so-restore")
  /\ UNCHANGED <<quiet, owners, cmd, runs, so, backup, head, aside, made, known, view, calls>>

GitFresh(p) ==
  /\ at[p] = "git-fresh" /\ Switch(Restart, {}) /\ Goto(p, "so-restore")
  /\ UNCHANGED <<quiet, definitions, delivery, owners, cmd, runs, so, backup, dirty, aside, made, known, view, calls>>

(* A Git command fails, a hook of the repository rejects the commit: the   *)
(* control files are put back all the same.                                *)
GitFails(p) ==
  /\ at[p] \in {"git-switch", "git-commit", "git-back", "git-reset", "git-fresh"}
  /\ PutBack(view[p].kept) /\ Goto(p, "so-fail")
  /\ UNCHANGED <<quiet, owners, cmd, runs, so, backup, repo, view, calls>>

RestoreFiles(p) ==
  /\ at[p] = "so-restore" /\ PutBack(view[p].kept) /\ Goto(p, "so-preserve")
  /\ UNCHANGED <<quiet, owners, cmd, runs, so, backup, repo, view, calls>>

(***************************************************************************)
(* Reset, supersession, completion                                         *)
(***************************************************************************)
Record(p, r) == so' = [so EXCEPT ![view[p].id] = r] /\ View(p, [view[p] EXCEPT !.so = r])
Unused(o) == /\ run[o] = None /\ \A q \in Proc : view[q].so.planned # o
             /\ \A i \in DOMAIN so : so[i].planned # o

(* A process that knows of no identifier of a reset makes one.             *)
Preserve(p, o) ==
  /\ at[p] = "so-preserve" /\ (IF view[p].so.planned = None THEN Unused(o) ELSE o = view[p].so.planned)
  /\ Record(p, [so[view[p].id] EXCEPT !.preserved = TRUE, !.planned = o, !.reset = FALSE]) /\ Goto(p, "so-reset")
  /\ UNCHANGED <<quiet, definitions, delivery, owners, cmd, runs, backup, repo, calls>>

MutApplied(o) == FALSE

(* Whether a reset was made is asked of its events.                        *)
Applied(o) == o \in resets

ResetTickets(p) ==
  /\ at[p] = "so-reset"
  /\ ResetBegin(p, view[p].so.planned, view[p].so.reset \/ Applied(view[p].so.planned),
                IF view[p].so.reset THEN "so-supersede" ELSE "so-reset-done")
  /\ UNCHANGED <<runs, so, backup, repo, view, calls>>

ResetDone(p) ==
  /\ at[p] = "so-reset-done" /\ Goto(p, "so-supersede")
  /\ Record(p, [so[view[p].id] EXCEPT !.preserved = TRUE, !.planned = view[p].so.planned, !.reset = TRUE])
  /\ UNCHANGED <<quiet, definitions, delivery, owners, cmd, runs, backup, repo, calls>>

Supersede(p) ==
  /\ at[p] = "so-supersede" /\ heir' = view[p].id /\ agrees' = FALSE /\ proj' = "open" /\ Goto(p, "save-rename")
  /\ UNCHANGED <<quiet, definitions, delivery, owners, cmd, so, backup, repo, view, calls>>

Complete(p) ==
  /\ at[p] = "so-complete" /\ Goto(p, "release")
  /\ so' = [so EXCEPT ![view[p].id] = [view[p].so EXCEPT !.status = "completed", !.planned = None]]
  /\ UNCHANGED <<quiet, definitions, delivery, owners, cmd, runs, backup, repo, view, calls>>

(* An error pauses the operation with what this process knows of it.       *)
Fail(p) ==
  /\ at[p] = "so-fail" /\ Goto(p, "release")
  /\ so' = [so EXCEPT ![view[p].id] = IF @.status = "completed" THEN @ ELSE [view[p].so EXCEPT !.status = "paused"]]
  /\ UNCHANGED <<quiet, definitions, delivery, owners, cmd, runs, backup, repo, view, calls>>

StartOverStep(p) ==
  \/ \E i \in {0} \cup DOMAIN so, a \in Action, pushed \in BOOLEAN : Preview(p, i, a, pushed)
  \/ Clean(p) \/ Cleaned(p)
  \/ Confirm(p) \/ Retire(p) \/ Admit(p) \/ Recollect(p) \/ Plan(p)
  \/ GitSwitch(p) \/ GitCommit(p) \/ GitBack(p) \/ GitReset(p) \/ GitFresh(p) \/ GitFails(p) \/ RestoreFiles(p)
  \/ (\E o \in Planned : Preserve(p, o)) \/ ResetTickets(p) \/ ResetDone(p)
  \/ Supersede(p) \/ SaveRename(p) \/ SaveSettle(p) \/ Complete(p) \/ Fail(p)

(* Commands of the tracker, and the steps of the reset in a start-over.    *)
Tracker(p) ==
  /\ \/ TrackerStep(p)
     \/ cmd[p] = "start-over" /\ (ResetClose(p, "so-reset-done") \/ ResetFails(p, "so-fail"))
  /\ view' = IF at'[p] = "idle" THEN [view EXCEPT ![p] = NoView] ELSE view
  /\ IF at[p] = "idle" THEN Call ELSE UNCHANGED calls
  /\ UNCHANGED <<runs, so, backup, repo>>

Step ==
  \/ \E p \in Proc : Tracker(p) \/ StartOverStep(p)
  \/ \E p \in Proc, b \in {"build", "next"} : BuildBegin(p, b)
  \/ \E p \in Proc, t \in Ticket : BuildWork(p, t)
  \/ \E w \in {"fix", "touch"} : Edit(w)

(* A cleaning that dies has no backup of the control files.                *)
SNext ==
  /\ Step /\ Watched
  /\ crossed' = crossed \cup Crossing'
                \cup (IF \E p \in Proc : at[p] = "so-cleaned" /\ at'[p] = "idle" THEN {"cleaning"} ELSE {})

SSpec == SInit /\ [][SNext]_svars

(***************************************************************************)
(* Properties                                                              *)
(***************************************************************************)

(* As long as no two processes were at start-overs at once, which nothing  *)
(* prevents: what a confirmed start-over found, committed or not, is in a  *)
(* branch or the worktree, unless the operator had it stashed or           *)
(* discarded, in whatever order steps, deaths, resumes, edits and later    *)
(* builds come.                                                            *)
WorkPreserved ==
  "start-over" \notin crossed =>
    known \ aside \subseteq (UNION {branches[b] : b \in DOMAIN branches}) \cup dirty

(* However many processes are at it: a run is superseded only after a      *)
(* reset some operation planned was made, a completed operation has        *)
(* superseded it, and the run's file says what its row says unless a       *)
(* publication of it is left to finish.                                    *)
StartOverWhole ==
  /\ heir # 0 => Planned \cap resets # {}
  /\ (\E i \in DOMAIN so : so[i].status = "completed") => heir # 0
  /\ proj = "settled" => agrees

(* With no operation pending and no cleaning under way, tickets and plan   *)
(* are whole, unless a population or a second start-over was beside one or *)
(* a cleaning died.                                                        *)
PopulationKept ==
  ~Open /\ crossed = {} /\ (\A p \in Proc : at[p] # "so-cleaned") => PopulationWhole
=============================================================================
