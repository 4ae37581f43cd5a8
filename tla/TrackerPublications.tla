------------------------- MODULE TrackerPublications -------------------------
(***************************************************************************)
(* The ticket tracker is one SQLite database, the ticket definitions and   *)
(* the delivery plan are files, and a third store, the workflow database,  *)
(* holds the publication that ties a change of the one to a change of the  *)
(* other.  A command moves through them in several transactions and may    *)
(* die between any two; the next command of the tracker first finishes or  *)
(* undoes what it left (recoverTicketPublications and                      *)
(* recoverTicketResetPublications).                                        *)
(*                                                                         *)
(* A population is named by its identifier and stands for the tickets it   *)
(* adds: `definitions' is the set of populations tickets.yaml holds.       *)
(***************************************************************************)
EXTENDS Naturals, FiniteSets

CONSTANTS Proc,        \* slots of processes of the command line
          Ticket,      \* tickets that exist before the first population
          Population,  \* identifiers of ticket-populate runs
          Reset,       \* identifiers of ticket resets
          Planned,     \* those a start-over planned, not the command
          Command      \* commands people give: populate, reset, update

VARIABLES
  status,       \* tracker: status of each ticket
  receipts,     \* tracker: receipts of populations
  resets,       \* tracker: resets with an event for each of their tickets
  snapshots,    \* tracker: populations saved as definition snapshots
  definitions,  \* tickets.yaml
  delivery,     \* delivery.yaml, the populations its plan knows
  pub,          \* workflow: status of each publication
  left,         \* resets with an older row, prepared by a process that died
  stage,        \* staged files of a population, {} when removed
  run,          \* workflow: status of each command's own run
  parent,       \* build_child_runs: the admitted run an operation was created under
  admission,    \* build_admission: process and run, or None
  lease,        \* project_lease: process and run, or None
  at, cmd, op,  \* per process: next step, command, operation in hand
  seen,         \* per process: what it read (definitions, statuses)
  overlapped    \* whether two commands were ever at populations at once

tracker == <<status, receipts, resets, snapshots>>
files   == <<definitions, delivery, stage>>
owners  == <<admission, lease>>
local   == <<at, cmd, op, seen>>
tvars   == <<tracker, files, pub, left, run, parent, owners, local, overlapped>>

Op   == Population \cup Reset
None == "none"
Dead == "dead"

(* An owner is told from no owner and from one that died; the kind of a   *)
(* publication is in its row; people give no other command.                *)
ASSUME ProcessesNamed == None \notin Proc /\ Dead \notin Proc
ASSUME KindsApart     == Population \cap Reset = {}
ASSUME CommandsKnown  == Command \subseteq {"populate", "reset", "update"}

Undoing == {"undo", "undo-row", "republish", "republish-delivery", "conclude"}
Incomplete == left \cup {o \in Op : pub[o] \notin {None, "committed", "rolled_back"}}
Free(owner) == owner.by \in {None, Dead}
Nobody == [by |-> None, run |-> None]
Nothing == [own |-> None, tickets |-> {}, done |-> {}]
Holds(owner, p) == owner.by = p
Live == {p \in Proc : at[p] # "idle"}

(* Nothing keeps two commands apart that are at populations: one may be    *)
(* recovered while the process that makes it lives, or begun beside the    *)
(* leftovers of another, or over a file that changed since it was read.    *)
Overlap ==
  \/ \E p, q \in Proc : p # q /\ at[p] \in Undoing /\ seen[q].own = op[p]
  \/ \E a, b \in Population \cap Incomplete : a # b
  \/ \E p \in Proc : at[p] = "pop-stage" /\ seen[p].tickets # definitions \cup {op[p]}
Watched == overlapped' = (overlapped \/ Overlap')

(* A tracker at rest with the populations that were made.                  *)
Populated(old) ==
  /\ status = [t \in Ticket |-> "planned"]
  /\ receipts = old /\ snapshots = old /\ definitions = old /\ delivery = old /\ resets = {}
  /\ pub = [o \in Op |-> IF o \in old THEN "committed" ELSE None] /\ left = {} /\ stage = [o \in Population |-> {}]
  /\ run = [o \in Op |-> IF o \in old THEN "completed" ELSE None] /\ parent = [o \in Op |-> None]
  /\ admission = Nobody /\ lease = Nobody
  /\ at = [p \in Proc |-> "idle"] /\ cmd = [p \in Proc |-> None] /\ op = [p \in Proc |-> None]
  /\ seen = [p \in Proc |-> Nothing] /\ overlapped = FALSE

Init == Populated({})

Goto(p, pc) == at' = [at EXCEPT ![p] = pc]
Mark(o, s)  == pub' = [pub EXCEPT ![o] = s]
Close(o, s) == run' = [run EXCEPT ![o] = s]

(* The trigger on publication_transactions: while a build is admitted, or  *)
(* when the run was ever created under an admission, only the admitted     *)
(* process may write the row, for its own run or a child of it.            *)
Fenced(p, o) ==
  /\ admission # Nobody \/ parent[o] # None
  /\ ~(Holds(admission, p) /\ parent[o] = admission.run)
  /\ ~(admission = Nobody /\ Holds(lease, p) /\ lease.run \in {o, "start-over"})

(***************************************************************************)
(* The hook before every command that writes                               *)
(***************************************************************************)
Entry == [populate |-> "pop-read", apply |-> "pop-begin", reset |-> "reset-begin",
          update |-> "update"]

(* A command starts with the hook.                                         *)
Begin(p, c) ==
  /\ at[p] = "idle" /\ c \in Command
  /\ Goto(p, "hook") /\ cmd' = [cmd EXCEPT ![p] = c]
  /\ UNCHANGED <<tracker, files, pub, run, parent, owners, op, seen, left>>

MutRecoverPopulation(p, o) ==
  /\ at[p] = "hook" /\ o \in Population \cap Incomplete
  /\ op' = [op EXCEPT ![p] = o]
  /\ Goto(p, IF pub[o] \notin {"tracker_committed", "published"} THEN "undo"
             ELSE IF pub[o] = "published" THEN "conclude" ELSE "republish")
  /\ UNCHANGED <<tracker, files, pub, run, parent, owners, cmd, seen, left>>

(* The next incomplete population: whether the tracker committed is read   *)
(* from the row, or else from the receipt.                                 *)
RecoverPopulation(p, o) ==
  /\ at[p] = "hook" /\ o \in Population \cap Incomplete
  /\ op' = [op EXCEPT ![p] = o]
  /\ Goto(p, IF pub[o] \notin {"tracker_committed", "published"} /\ o \notin receipts THEN "undo"
             ELSE IF pub[o] = "published" THEN "conclude" ELSE "republish")
  /\ UNCHANGED <<tracker, files, pub, run, parent, owners, cmd, seen, left>>

(* Before the tracker committed: the staged files go, then the row and the *)
(* run.                                                                    *)
RemoveStage(p) ==
  /\ at[p] = "undo" /\ stage' = [stage EXCEPT ![op[p]] = {}] /\ Goto(p, "undo-row")
  /\ UNCHANGED <<tracker, definitions, delivery, pub, run, parent, owners, cmd, op, seen, left>>

RollBack(p) ==
  /\ at[p] = "undo-row"
  /\ IF Fenced(p, op[p]) THEN Goto(p, "refused") /\ UNCHANGED <<pub, run>>
     ELSE Mark(op[p], "rolled_back") /\ Close(op[p], "failed") /\ Goto(p, "hook")
  /\ UNCHANGED <<tracker, files, parent, owners, cmd, op, seen, left>>

(* After it: each staged file is published, then the row is marked.        *)
Republish(p) ==
  /\ at[p] = "republish"
  /\ IF stage[op[p]] = {} THEN Goto(p, "refused") /\ UNCHANGED definitions
     ELSE definitions' = stage[op[p]] /\ Goto(p, "republish-delivery")
  /\ UNCHANGED <<tracker, delivery, stage, pub, run, parent, owners, cmd, op, seen, left>>

RepublishDelivery(p) ==
  /\ at[p] = "republish-delivery"
  /\ IF stage[op[p]] = {} THEN Goto(p, "refused") /\ UNCHANGED <<delivery, pub>>
     ELSE /\ delivery' = stage[op[p]]
          /\ IF Fenced(p, op[p]) THEN Goto(p, "refused") /\ UNCHANGED pub
             ELSE Mark(op[p], "published") /\ Goto(p, "conclude")
  /\ UNCHANGED <<tracker, definitions, stage, run, parent, owners, cmd, op, seen, left>>

(* Snapshots of the definitions, then the row, the run and the stage.      *)
Conclude(p) ==
  /\ at[p] = "conclude" /\ snapshots' = snapshots \cup {op[p]}
  /\ IF Fenced(p, op[p]) THEN Goto(p, "refused") /\ UNCHANGED <<pub, run, stage>>
     ELSE /\ Mark(op[p], "committed") /\ Close(op[p], "completed") /\ Goto(p, "hook")
          /\ stage' = [stage EXCEPT ![op[p]] = {}]
  /\ UNCHANGED <<status, receipts, resets, definitions, delivery, parent, owners, cmd, op, seen, left>>

(* The hook of resets comes second: a reset that left events is finished,  *)
(* one that did not is rolled back.  Both write the row, which was made    *)
(* under an admission, so the trigger has its say.                         *)
RecoverReset(p, o) ==
  /\ at[p] = "hook" /\ cmd[p] # "apply" /\ Population \cap Incomplete = {} /\ o \in Reset \cap Incomplete
  /\ IF Fenced(p, o) THEN Goto(p, "refused") /\ UNCHANGED <<pub, left, run>>
     ELSE /\ IF o \in resets \/ pub[o] # "prepared" THEN Mark(o, "committed") /\ Close(o, "completed")
                                                   ELSE Mark(o, "rolled_back") /\ UNCHANGED run
          /\ left' = left \ {o} /\ UNCHANGED at
  /\ op' = [op EXCEPT ![p] = o]
  /\ UNCHANGED <<tracker, files, parent, owners, cmd, seen>>

HookDone(p) ==
  /\ at[p] = "hook"
  /\ Incomplete \cap (IF cmd[p] = "apply" THEN Population ELSE Op) = {}
  /\ Goto(p, Entry[cmd[p]])
  /\ UNCHANGED <<tracker, files, pub, run, parent, owners, cmd, op, seen, left>>

(***************************************************************************)
(* tickets populate                                                        *)
(***************************************************************************)

(* The proposal is materialized over the tickets of the file as it is now, *)
(* then the application runs the hook of populations once more.            *)
PopRead(p, o) ==
  /\ at[p] = "pop-read" /\ o \in Population /\ run[o] = None
  /\ \A q \in Proc : seen[q].own # o
  /\ cmd' = [cmd EXCEPT ![p] = "apply"] /\ Goto(p, "hook")
  /\ seen' = [seen EXCEPT ![p] = [own |-> o, tickets |-> definitions \cup {o}, done |-> {}]]
  /\ UNCHANGED <<tracker, files, pub, run, parent, owners, op, left>>

(* The run is created before the lease is asked for, and any admission,    *)
(* one of a dead build too, fences the row off.                            *)
PopBegin(p) ==
  LET o == seen[p].own IN
  /\ at[p] = "pop-begin" /\ Close(o, "running") /\ op' = [op EXCEPT ![p] = o]
  /\ IF Free(lease) /\ admission = Nobody
     THEN lease' = [by |-> p, run |-> o] /\ Mark(o, "prepared") /\ Goto(p, "pop-stage")
     ELSE Goto(p, "leave") /\ UNCHANGED <<lease, pub>>
  /\ UNCHANGED <<tracker, files, parent, admission, cmd, seen, left>>

PopStage(p) ==
  /\ at[p] = "pop-stage"
  /\ stage' = [stage EXCEPT ![op[p]] = seen[p].tickets] /\ Mark(op[p], "staged") /\ Goto(p, "pop-commit")
  /\ UNCHANGED <<tracker, definitions, delivery, run, parent, owners, cmd, op, seen, left>>

PopCommit(p) ==
  /\ at[p] = "pop-commit" /\ receipts' = receipts \cup {op[p]} /\ Goto(p, "pop-mark")
  /\ UNCHANGED <<status, resets, snapshots, files, pub, run, parent, owners, cmd, op, seen, left>>

PopMark(p) ==
  /\ at[p] = "pop-mark" /\ Mark(op[p], "tracker_committed") /\ Goto(p, "pop-tickets")
  /\ UNCHANGED <<tracker, files, run, parent, owners, cmd, op, seen, left>>

PopPublishTickets(p) ==
  /\ at[p] = "pop-tickets"
  /\ IF stage[op[p]] = {} THEN Goto(p, "pop-release") /\ UNCHANGED definitions
     ELSE definitions' = stage[op[p]] /\ Goto(p, "pop-delivery")
  /\ UNCHANGED <<tracker, delivery, stage, pub, run, parent, owners, cmd, op, seen, left>>

PopPublishDelivery(p) ==
  /\ at[p] = "pop-delivery"
  /\ IF stage[op[p]] = {} THEN Goto(p, "pop-release") /\ UNCHANGED <<delivery, pub>>
     ELSE delivery' = stage[op[p]] /\ Mark(op[p], "published") /\ Goto(p, "pop-finish")
  /\ UNCHANGED <<tracker, definitions, stage, run, parent, owners, cmd, op, seen, left>>

PopFinish(p) ==
  /\ at[p] = "pop-finish" /\ snapshots' = snapshots \cup {op[p]}
  /\ Mark(op[p], "committed") /\ Goto(p, "pop-close")
  /\ UNCHANGED <<status, receipts, resets, files, run, parent, owners, cmd, op, seen, left>>

PopClose(p) ==
  /\ at[p] = "pop-close" /\ Close(op[p], "completed")
  /\ stage' = [stage EXCEPT ![op[p]] = {}] /\ Goto(p, "pop-release")
  /\ UNCHANGED <<tracker, definitions, delivery, pub, parent, owners, cmd, op, seen, left>>

PopRelease(p) ==
  /\ at[p] = "pop-release" /\ lease' = Nobody /\ Goto(p, "leave")
  /\ UNCHANGED <<tracker, files, pub, run, parent, admission, cmd, op, seen, left>>

(***************************************************************************)
(* tickets reset, and the resets other commands make                       *)
(***************************************************************************)

(* Authority over the tracker: the admission a process already holds, a    *)
(* dead one taken over under its own run, or a new one for an intent.      *)
MayMutate(p) == Holds(admission, p) \/ (Free(admission) /\ Free(lease))
Authority(p) == IF admission = Nobody THEN "intent" ELSE admission.run

(* A reset whose events are all there is not made again.  One that is      *)
(* begun again has a second run and row; the first row stays.              *)
ResetBegin(p, o, applied, done) ==
  /\ IF applied THEN Goto(p, done) /\ UNCHANGED <<run, parent, pub, left, owners, seen>>
     ELSE IF ~MayMutate(p) THEN Goto(p, "leave") /\ UNCHANGED <<run, parent, pub, left, owners, seen>>
     ELSE /\ parent' = [parent EXCEPT ![o] = Authority(p)] /\ Close(o, "running") /\ Mark(o, "prepared")
          /\ left' = IF pub[o] = "prepared" THEN left \cup {o} ELSE left
          /\ admission' = [by |-> p, run |-> Authority(p)] /\ lease' = [by |-> p, run |-> Authority(p)]
          /\ seen' = [seen EXCEPT ![p].done = {t \in Ticket : status[t] = "done"}] /\ Goto(p, "reset-commit")
  /\ op' = [op EXCEPT ![p] = o]
  /\ UNCHANGED <<tracker, files, cmd>>

ResetCommand(p, o) ==
  /\ at[p] = "reset-begin" /\ cmd[p] = "reset" /\ o \notin Planned /\ run[o] = None
  /\ ResetBegin(p, o, FALSE, "leave")

ResetCommit(p) ==
  /\ at[p] = "reset-commit"
  /\ status' = [t \in Ticket |-> "planned"] /\ resets' = resets \cup {op[p]} /\ Goto(p, "reset-stage")
  /\ UNCHANGED <<receipts, snapshots, files, pub, run, parent, owners, cmd, op, seen, left>>

ResetStage(p) ==
  /\ at[p] = "reset-stage" /\ Mark(op[p], "tracker_committed") /\ Goto(p, "reset-publish")
  /\ UNCHANGED <<tracker, files, run, parent, owners, cmd, op, seen, left>>

ResetPublish(p) ==
  /\ at[p] = "reset-publish" /\ Mark(op[p], "committed") /\ Goto(p, "reset-close")
  /\ UNCHANGED <<tracker, files, run, parent, owners, cmd, op, seen, left>>

ResetClose(p, after) ==
  /\ at[p] = "reset-close" /\ Close(op[p], "completed") /\ Goto(p, after)
  /\ UNCHANGED <<tracker, files, pub, parent, owners, cmd, op, seen, left>>

(* The tracker, or the document, cannot be written: there are no events    *)
(* any more, and every status is put back as it had been found.            *)
ResetFails(p, after) ==
  /\ at[p] \in {"reset-commit", "reset-stage", "reset-publish"}
  /\ status' = [t \in Ticket |-> IF t \in seen[p].done THEN "done" ELSE "planned"] /\ resets' = resets \ {op[p]}
  /\ Mark(op[p], "rolled_back") /\ Close(op[p], "failed") /\ Goto(p, after)
  /\ UNCHANGED <<receipts, snapshots, files, parent, owners, cmd, op, seen, left>>

Release(p) ==
  /\ at[p] = "release" /\ admission' = Nobody /\ lease' = Nobody /\ Goto(p, "leave")
  /\ UNCHANGED <<tracker, files, pub, run, parent, cmd, op, seen, left>>

(***************************************************************************)
(* Other writers                                                           *)
(***************************************************************************)

(* tickets update and tickets complete ask for no authority.               *)
Update(p, t) ==
  /\ at[p] = "update" /\ status' = [status EXCEPT ![t] = "done"] /\ Goto(p, "leave")
  /\ UNCHANGED <<receipts, resets, snapshots, files, pub, run, parent, owners, cmd, op, seen, left>>

(* The end of a command; a refused one ends with its error.                *)
Leave(p) ==
  /\ at[p] \in {"leave", "refused"} /\ Goto(p, "idle")
  /\ cmd' = [cmd EXCEPT ![p] = None] /\ op' = [op EXCEPT ![p] = None] /\ seen' = [seen EXCEPT ![p] = Nothing]
  /\ UNCHANGED <<tracker, files, pub, run, parent, owners, left>>

(* A process dies: what it held stays in the rows, under a dead process.   *)
Crash(p) ==
  LET Left(owner) == IF owner.by = p THEN [owner EXCEPT !.by = Dead] ELSE owner IN
  /\ at[p] \notin {"idle", "leave", "refused"} /\ Goto(p, "idle")
  /\ admission' = Left(admission) /\ lease' = [Left(lease) EXCEPT !.run = IF lease.by = p THEN None ELSE @]
  /\ cmd' = [cmd EXCEPT ![p] = None] /\ op' = [op EXCEPT ![p] = None] /\ seen' = [seen EXCEPT ![p] = Nothing]
  /\ UNCHANGED <<tracker, files, pub, run, parent, left>>

PopulationStep(p) ==
  \/ \E o \in Population : RecoverPopulation(p, o) \/ PopRead(p, o)
  \/ RemoveStage(p) \/ RollBack(p) \/ Republish(p) \/ RepublishDelivery(p) \/ Conclude(p)
  \/ PopBegin(p) \/ PopStage(p) \/ PopCommit(p) \/ PopMark(p)
  \/ PopPublishTickets(p) \/ PopPublishDelivery(p) \/ PopFinish(p) \/ PopClose(p) \/ PopRelease(p)

TrackerStep(p) ==
  \/ \E c \in Command : Begin(p, c)
  \/ HookDone(p) \/ PopulationStep(p)
  \/ \E o \in Reset : RecoverReset(p, o) \/ ResetCommand(p, o)
  \/ ResetCommit(p) \/ ResetStage(p) \/ ResetPublish(p)
  \/ cmd[p] = "reset" /\ (ResetClose(p, "release") \/ ResetFails(p, "release"))
  \/ Release(p) \/ \E t \in Ticket : Update(p, t)
  \/ Leave(p) \/ Crash(p)

Next == (\E p \in Proc : TrackerStep(p)) /\ Watched
Spec == Init /\ [][Next]_tvars

(***************************************************************************)
(* Properties                                                              *)
(***************************************************************************)
(* At no moment do the files hold a population the tracker has no receipt  *)
(* of.  Unless two commands were at populations at once, which nothing     *)
(* prevents, tracker, files, snapshots and rows agree on the populations   *)
(* that were made whenever nothing is left to recover, whatever died.      *)
PopulationWhole ==
  /\ definitions \subseteq receipts /\ delivery \subseteq receipts
  /\ Incomplete = {} /\ ~overlapped =>
       LET made == {o \in Population : pub[o] = "committed"} IN
       receipts = made /\ definitions = made /\ delivery = made /\ snapshots = made

(* A finished ticket is planned again only by a reset that was not made    *)
(* before, or by one that fails and puts back what it had found.           *)
ResetsOnce ==
  [][(\E t \in Ticket : status[t] = "done" /\ status'[t] = "planned")
       => \E o \in Reset : \/ o \in resets' \ resets
                           \/ run[o] = "running" /\ run'[o] = "failed"]_<<status, resets, run>>

(* The comment over recoverTicketResetPublications: a reset that a death   *)
(* left incomplete is finished or rolled back.  So a hook that runs alone, *)
(* with no other process alive, is never refused.                          *)
RecoveryFinishes ==
  \A p \in Proc : at[p] = "refused" => Live # {p}
=============================================================================
