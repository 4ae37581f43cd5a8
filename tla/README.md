# Rafi: a verification development

Rafi drives coding agents through builds of tickets.  A build is a long job of
many processes (commands typed by hand, a supervisor, the workers it forks, the
helpers that probe a provider, the providers themselves, Git, a forge and
people) around one project directory and one durable database,
`.rafi/recovery.sqlite3`.  Any of them may die, and the build is then taken up
by another process from what rows, files and Git say.

The modules here model who may act at any moment, what a crash at any step
leaves behind, and what the process that comes next makes of it.  Each `.tla`
file is a module about one part of the program, `MC*.tla` gives constants their
values for the model checker, each `.cfg` is one run, and `*_proofs.tla` holds
theorems for every value of the constants.  `PROJECT.json` lists runs, theorems
and hazards, and maps each definition to the source lines it stands for.

Paths below are under `src/packages/`; `af/` is `ai-foreman/src/`.

## 1. Inventory of the system

| component | state it keeps | operations | modelled in |
|---|---|---|---|
| Build admission, launches, leases (`af/buildAdmission.ts`, `af/workflowDb.ts` 552-690, 3409-3457, `af/processIdentity.ts`) | one admission row, launch rows, a project lease with a generation, a copy of the authority in each process | acquire, release, reserve, dispatch, register, acknowledge, claim, reconcile, lease, tracker mutation | `BuildAdmission` |
| Supervisor and worker (`af/supervisor.ts`, `af/supervisedStart.ts`, `rafi/src/buildResume.ts` 45-72) | supervisor row of a run, status and checkpoint of the run, restart budget | take the role, fork, watch, judge an exit, restart, stop, recover a stale row | `WorkerSupervisor` |
| Readiness probes (`af/readinessGate.ts`, `af/readinessCleanup.ts`, `af/runtimeReadiness.ts`, `af/workflowDb.ts` 782-923) | one row per probe, a process group and an environment tag | begin, register, authorize, revoke, assert, clean up | `ReadinessProbes` |
| Structured dispatch and role transfer (`af/structuredOperation.ts`, `af/continuity.ts`, `af/handoffs.ts`, `af/workflowDb.ts` 1604-1738) | operation journal, submission claims, post-processing intents, checkpoints, handoff lineage, role lease | plan, seal, claim, submit, confirm, publish, transfer, accept, continue | `StructuredDispatch` |
| Ticket delivery in branches (`af/branch/runner.ts`, `finalization.ts`, `git.ts`, `planner.ts`, `resume.ts`, `af/cli/start.ts` 1950-2014) | Git, QA heads and certificates, journal rows, tracker, branch sessions, run status | the loop over tickets, build, QA outcome, commit, push, review request, merge, completion, resume | `TicketDelivery` |
| QA review and remediation (`af/qaReview.ts`, `af/qaProtocolV2.ts`, `af/qaRecovery.ts`, `af/qaFailureDelivery.ts`) | a reducer's state, review attempts with reports, fixes and certificates, a stop, a recovery packet as row and files | review, pass, fail, hand to the Builder, restore, waive, pause, publish a packet, finalize, enter again after a crash | `QaReview`, `QaCertification` |
| QA contracts and preparation (`af/qaPreparation*.ts`, `af/qaContract*.ts`, `af/qaBuildGate.ts`) | contracts, pages, receipts, activation of a Builder | prepare, assess, accept, deliver page by page, acknowledge | not modelled; the delivery of a failed report is in `QaReview` |
| Continuity handoffs, compaction (`af/handoffs.ts`, `af/continuity.ts`, `af/sessionLifecycle.ts`) | handoff rows and manifests, session validations, compaction attempts | stage, accept, supersede, fail, recover afresh, compact at a threshold | planned, `Handoffs`; dispatches and the role are in `StructuredDispatch` |
| Human decisions, guidance, recovery policy (`af/humanDecision.ts`, `af/buildInterventions.ts`, `af/recoveryPolicy.ts`, `af/foreman.ts`) | decisions, instructions, attempts, allowances | ask, answer, consume, cancel, queue, acknowledge, dispatch a recovery | planned, `Decisions`; those of a QA review are in `QaReview` |
| Tracker publications (`af/ticketPopulation.ts`, `af/tickets/reset.ts`, `af/tickets/commands.ts`, `af/cli/tickets.ts` 1939-1955) | tracker status, events and receipts, `tickets.yaml`, delivery plan, publication rows, runs of commands | populate, reset, update, finish or undo what a dead command left | `TrackerPublications` |
| Start over and run records (`rafi/src/buildStartOver.ts`, `af/buildRuns.ts`) | the operation's run, backup of control files, Git, the build's row and file | preview, clean, archive, restore, reset, supersede, resume | `StartOver`, over `TrackerPublications` |
| Ticket queue and groups (`af/tickets/*`) | blockers, waivers, groups | selection of next tickets, group resets | planned, `Tracker` |
| Knowledge graph (`af/graph/*`) | generations, fenced leases by scope, reservations, directories | refresh, publish, prune, invalidate | `GraphMaintenance` |
| Provider adapters (`af/adapters/*`) | a provider process or stream, a session, a turn | start, stream, interrupt, recover | planned, `ProviderTurn` |
| Forges, observability, permissions, planning commands, compilation, schemas | files, spans, text | | not modelled, see section 7 |

How they interact.  A command acquires the **admission** and becomes a
supervisor or works itself.  A **supervisor** hands the admission to the worker
it forks and takes it back when the worker ends.  The worker starts **probes**
before it trusts a provider, and each probe row bars other owners until its
processes are gone.  It then runs a **ticket** at a time in a worktree: the
Builder's turns go through **structured dispatch**, which journals each of them
and may move the Builder's role to a fresh session; **QA** certifies the
content; **delivery** commits, pushes or merges exactly that content.  All of
them write the one database under the token of the admission; files and Git are
changed between transactions, never inside.  Commands of the **tracker** and
**start over** write rows, files and Git under an admission of their own, and
the **graph** is refreshed by any of these processes under a lease of its own.

Where it is hard:

- *Interleavings.*  Processes act between any two transactions of another:
  a launch is claimed while it is retired, a helper is authorized while it is
  revoked, a person edits a worktree between its review and its commit.
- *Crashes.*  No multi-step operation is atomic.  Rows say what was intended,
  begun, confirmed or unknown, and the successor must not repeat what may have
  happened nor believe what did not.
- *Stale knowledge.*  Process identifiers are reused, a supervisor row names a
  process of another machine, a cleanup writes what it saw seconds ago.
- *Several stores.*  SQLite databases, files and Git change one after the
  other; what comes next must tell from them how far the last process got.
- *Retries and budgets.*  Restarts, handoff successors, fixes and recovery
  attempts are counted in rows that outlive the process that counts.
- *Waiting.*  Helpers wait for authorization, launchers for a child, supervisors
  for a worker, and each of them may die first.

What makes each component correct is stated by the properties of section 4; the
hazards behind them are in `PROJECT.json`, each at its line.

## 2. Modules and the code

**`BuildAdmission`**.  A `Proc` is one incarnation of a process; `Host` and
`Pid` say where and under which id, so a pid can be reused.  `admission`,
`launches`, `lease`, `supervisor`, `unresolved` are rows; `authority`, `leased`
and `carries` are memory of processes.  One action per function of
`buildAdmission.ts` and per lease operation of `workflowDb.ts`; what the code
learns of another process is `Classify` (live, dead, unknown), exactly as
`classifyProcess` decides.  `MutX` operators in this and in every module are
plausible slips of the code, used to test that the properties notice them.

**`OwnershipHandoff`** promises, without rows and tokens, what the admission is
for: an owner is replaced only when it is dead or by the heir it acknowledged.

**`WorkerSupervisor`**.  Each supervisor has a program counter over
`DurableSupervisor.run` and its callback in `superviseStart`, a state record in
memory and a row; they differ until the next save.  Workers have a life (gated,
preparing, working, leaving), a parent, a generation and the kind of their end.
The admission is reduced to its holder, `owner`, which `BuildAdmission` shows
to be one.  Signal handlers run only where the loop awaits.

**`ReadinessProbes`**.  The gated protocol on POSIX hosts.  A probe has a helper
with a life, a row with a revision, and a set of provider processes that may
leave the group or lose the tag; one that does both cannot be found by the code
and is left out.  Cleanups have a memory of what they saw, which they write later.

**`StructuredDispatch`**.  One role of one run.  The calls in progress are a
stack of frames, each at a step that ends in one transaction; a crash keeps the
rows and loses the stack.  The answer of a provider is chosen when it comes: an
answer, a request for a handoff, an acknowledgement, a refusal, an error, or
nothing.

**`TicketDelivery`**.  Content is a version number: `tree` of the worktree,
`head` of the branch, `base` the sequence of what was merged.  The digest of a
certified source covers the worktree and every ref.  `journal` has one row per
ticket and kind of step; the suffix that a recheck adds to a key is modelled by
clearing the row (`Renewed`).  The host is a program counter `at` over
`runBranchPlan`, with its in-memory plan, which a crash forgets.  A journal row is
planned, carried out and confirmed in three steps, a merge is reconciled, verified,
staged and committed in steps of their own, and after it the last check, the removal
of the worktree and that of the branch are three commands; people act between any
two.  The ghosts `late` and `unseen` mark a person's commit made after the last check
of a source, and after the last check before a removal, which no later check of the
code can see.

**`QaReview`**.  One ticket in `runIsolatedQa`.  The host is a program counter:
loading of the recovery packet, the checks of an entry in their order
(`EntryStopped` to `GuidanceFollowed`), the review turn, the fix turn and
finalization, each step ending where one transaction commits.  `reviews` is the
sequence of attempts with the state of the report (open, awaiting a recheck,
resolved), of the fix (bound, intended, sent, reported) and of the certificate.
`packet` is the row and what its files say, `plan` a publication recorded and
not finished.  A crash forgets the host; `Start` begins the next one.  People
edit the worktree, ask for an attempt, leave guidance, answer, and repair the
ownership of the ticket at any time.

**`QaCertification`** promises what the runner relies on: one pass stands at a
time, it is about the content the worktree had when finalization began, and a
ticket that was waived or completed is not reviewed again.

**`TrackerPublications`**.  Processes of the command line, each in the hook
that runs before every mutating command (`RecoverPopulation`, `RemoveStage`,
`RollBack`, `Republish`, `RepublishDelivery`, `Conclude`, `RecoverReset`, `HookDone`) or in the steps of
populate, reset or update.  The hook does not ask whether the process that makes a
population lives, and neither does the model: any command may recover, or undo, a
population another process is in the middle of.  A population is named by its
identifier, so a file is the set of populations it holds.  `Fenced` is the trigger on
`publication_transactions`, `run` and `parent` are the rows it reads, `left`
marks resets with a second, abandoned row.  The history variable `overlapped` says
whether two commands were ever at populations at once; nothing is guarded by it.
The hook takes the incomplete rows one after the other as it finds them, where the
code reads their list first.

**`StartOver`** extends it with Git (`branches`, `head`, `dirty`), the build's row
and file, the operations `so` in the order they were confirmed, and the backup of
each.  Work is a set of items, each in commits, in the worktree, or, when the
operator had it stashed or discarded, in `aside`.  Each process keeps the operation
as it read it in `view`, so an old copy can be confirmed or written back later, and
two processes can confirm one operation each.  One action per store that is touched;
the reset is the one of `TrackerPublications`, under an identifier of `Planned`.
Builds (`BuildBegin`, `BuildWork`), people (`Edit`, any path) and the commands of the
tracker act beside it at any time.  The history variable `crossed` says what was ever
beside a start-over (a population, a second start-over) and whether a cleaning died;
it guards nothing.  An archive branch is named by its operation: two archives of one
second, which the code would name alike, are two branches here.

**`GraphMaintenance`**.  A generation is named by the lease it was made under, a
scope and a fence.  Refreshes and prunings are the processes, each action one
transaction or one change of directories; a lease may expire at any moment.

How they compose.  `WorkerSupervisor` rests on the one holder of
`BuildAdmission`; `ReadinessProbes`, `StructuredDispatch`, `QaReview` and
`TicketDelivery` rest on there being one worker, which `SoleWorker` of
`WorkerSupervisor` states.  `ReadinessProbes` has the acquisition and release of
the admission with the guards that read its rows.  What `TicketDelivery` asks of
QA, that a certificate vouches for the content it was given for, is
`QaCertification`, which `QaReview` implements.  `StartOver` contains
`TrackerPublications`.

## 3. Runs and bounds

| run | instance | distinct states | question |
|---|---|---|---|
| `admission_handoff` | 4 incarnations (two share a pid, one is on another host, one cannot be identified), 1 launch, 3 tokens, all supervised, fairness | 512 k | is there one writer, do the rows implement the abstract handoff, does every launch settle? |
| `admission_exclusion` | 3 incarnations, runs r1, r2 and the tracker's, 1 launch, 3 tokens, 2 generations, no supervisors | 646 k | do builds and lease-holding commands exclude each other? |
| `supervisor_safety` | 2 supervisors, 3 workers, budgets 2 per checkpoint and 1 per run, symmetry | 1.07 M | restarts over the deaths of supervisors |
| `supervisor_stops` | 1 supervisor, 2 workers, fairness | 17.6 k | does a stop stop, does an orphan end? |
| `readiness_safety` | 2 owners, 2 probes, 2 cleanups of a row, fairness | 187 k | is what is declared gone gone? |
| `dispatch_safety` | 4 dispatches, 4 sessions, 2 crashes, symmetry | 218 k | is nothing sent past an unknown outcome, an unpublished answer or an open handoff? |
| `delivery_safety` | 2 tickets apart and chained, by review, by merge, not at all, QA on and off, 2 content changes, 1 or 2 touches by a person, 1 to 3 invocations of the host | 2.8 M | is what is published what QA certified, once? |
| `qa_safety` | 3 reviews, allowance 1, and either 3 starts of the host with 1 request, or 2 starts with 2 requests and guidance; 1 edit | 2.5 M | is a report handed over once, does the allowance hold, does a pass vouch for the right content? |
| `tracker_whole` | 2 processes, 2 populations, 1 reset, 1 ticket, symmetry | 4.4 M | do tracker, files and rows agree after every death? |
| `start_over_safety` | 2 processes, a plan with 1 population, 2 planned resets, updates of the tracker, 3 of: commands, builds, start-overs, edits; symmetry, `ResumedOnly` | 1.2 M | is no work lost, are tickets reset once, is the run superseded in row and file? |
| `graph_safety` | 3 processes, 1 workspace, 3 leases, 1 unprotected generation kept, room for 2 | 2.2 M | is the order of publication that of the leases, is the head never pruned? |
| `tracker_recovery` | as `tracker_whole` | violation | finding 1 |

Why these are enough.  The admission hands over between a launcher, a child and
one competitor, so three incarnations cover every pair of conflicting roles, a
fourth is the one that cannot be judged, and a shared pid covers reuse; its
theorems do not depend on the bounds.  So it is with every safety and action
property (section 5): the bounds matter to the liveness properties, and elsewhere
they show that the cases the theorems speak of do happen.  Three workers are what a budget of one
automatic restart plus a manual start can produce, with one to spare.  Two
probes and two owners are needed for an old row to meet a new owner.  Four dispatches are a work turn, two acceptances and a
continuation: a rejected successor, its replacement and the carried-on action;
longer chains repeat these steps.  Two tickets give every dependency, two
content versions distinguish certified from later content, and three
invocations let an interrupted step be interrupted again while it is recovered
(the merge is the only delivery whose recovery has several steps, so its instance
with a dependency has three and the others one or two).  One touch by a person suffices to fall into any
window but the removal after a merge, where an edit and the commit of it are two
(the instances with two touches); in the digest two would hide each other only if
they restored the old content, which versions never do.

Three reviews are a failure, the recheck after its fix, and one more past the
allowance of one; a third start resumes what a second start left half done.
Guidance and a second request are explored with two starts, to keep the
instance small.  Two populations are needed for one to be materialized over
the file another left; two processes for every one of them to die while the
other recovers, or recovers while it lives.  Two planned resets let two start-overs
of one build be confirmed, and three calls are two start-overs and what is between
them, or one with its two resumes.  Once two start-overs were beside each other the
state constraint `ResumedOnly` leaves the third call to a resume; edits, builds and
updates beside two start-overs are covered by the theorems, which `StartOverWhole` and
`ResetsOnce` have without a condition.  Deaths are not bounded in the runs about the
tracker, start over and the graph.  One item of each kind of work is enough, as a step of Git
treats items of a kind alike.  Three refreshes give a fence that was lost, one
that replaced it and a head they both read; room for two generations makes
pruning choose.  The instance has one workspace: with two and no room to spare
`HeadLoads` fails in the code's own order of steps (section 6).

`CHECK_DEADLOCK FALSE` where it is said: hosts and processes may be dead for
good, finished runs stay finished, and people make no more than `MaxCalls` calls.
The tracker and graph runs check for deadlock: there a process can always begin
another command.

## 4. Properties

- **Admission.**  `SingleWriter`: at most one live process passes the fences.
  `LaunchSettledOnce`: claimed or retired is final.  `GenerationsGrow`: no
  lease is mistaken for an older one.  `ImplementsHandoff`: the refinement.
  `LeaseExcludesBuild`, `DispatchIsolation`: between builds and commands.
  `LaunchSettles` (liveness).  `LeaseExcludesBuild` is about builds without
  supervisors, which break it (section 6).
- **Supervisor.**  `SoleWorker`, `RestartBudget` over all supervisors of a run,
  `NoUnattendedReplay`, `ReturnedRunParked`; `StopSettles` and `OrphansEnd`
  (liveness).
- **Probes.**  `QuiescentMeansGone`, `RevokedNeverRuns`, `OneProbeAtATime`,
  `SuccessorAlone`; `GateOpensOrShuts` (liveness).  `SuccessorAlone` is about whoever
  acquires the build; a supervisor that takes its role back from a dead worker does not
  look at probes (`af/workflowDb.ts:672`), and there `NoUnattendedReplay` says that
  none is left behind.
- **Dispatch.**  `OneUnknownWork`, `AllPublishedBeforeDispatch`,
  `TransferExclusive`, `LeaseMovesByAcknowledgement`,
  `CompletedTransferContinued`.
- **Delivery.**  `PublishesCertified`, `MergedOnce`, `DoneIsDelivered`,
  `NoWorkLost`.
- **QA.**  `HandedOverOnce`: no report is sent to the Builder twice.
  `AllowanceKept`: fixes and guidance together, over all processes of the run.
  `ReportsSettled`: reducer and reports agree.  `PacketLoads`: what a pause left
  can be loaded, but for the publication of a second packet that a crash cut short
  (section 6).  `StopHolds`: nothing is sent past a stop.
  `ImplementsCertification`: the refinement.
- **Tracker and start over.**  `PopulationWhole`: the files never hold a population
  the tracker has no receipt of, and until two commands were at populations at once
  (`overlapped`), tracker, files, snapshots and rows agree when nothing is left to
  recover.  `ResetsOnce` and `StartOverWhole` hold without a condition, however many
  processes are at start-overs: a finished ticket is planned again only by a reset not
  made before (or by one that fails and puts back what it had found), and a run is
  superseded only after such a reset, in row and file.  `WorkPreserved`, until two
  processes were at start-overs at once: what a confirmation found is in a branch or
  the worktree, with edits of any path, later builds, populations, deaths and resumes
  in any order.  Work added after the confirmation is not in it, for the code loses
  that (section 6).  `PopulationKept`: with no population and no second start-over
  beside one, and no cleaning that died, a start-over leaves tickets and plan whole.
- **Graph.**  `PublishedInOrder`, `HeadLoads`.

**Fairness.**  Safety is checked without any.  `LaunchSettles` assumes that a
launcher that is alive goes on with its own launch and a gated child with its
gate: both are straight code between awaits with timers, and neither waits for a
person.  `StopSettles` and `OrphansEnd` assume that the loop of a live supervisor
runs, and that the kill timer of a stop, the timers of the gate and the
self-termination of an orphan fire (`supervisedStart.ts` 40-66, 153-167).
`GateOpensOrShuts` assumes the start of a helper and its timer
(`readinessGate.ts` 22).  Nothing is assumed of providers, people or recovery
commands.  QA, tracker, start-over and graph runs state no liveness: each may
wait for a person or for the next command for ever.

## 5. What is proved

Every safety and every action property that a run checks, but for `PopulationKept`,
is also a theorem, for every value of the constants: any number of processes, runs, tickets, reviews,
crashes and edits.  `TypeOK`s and the inductive invariants are theorems too.  In
parentheses: obligations checked by the prover.

**`BuildAdmission_proofs`** (1204).  `TypeCorrect`, `OpenLaunchesOwned` (an open
launch belongs to the admission held now), `WritersAreSingle`,
`LeaseGenerationsGrow`, `LaunchesSettleOnce`, `DispatchesIsolated`,
`LeasesExcludeBuilds`, and `RefinesHandoff`: `BuildAdmission` implements
`OwnershipHandoff`.  The argument is one inductive invariant, `OwnershipInv`.
`SingleWriter` alone is not inductive: that two processes never pass the fence
depends on tokens being fresh (`TokensMinted`), on each process remembering only
rows that named it (`OwnCopies`, `LeaseCopies`), on a registered child being the
carrier of its launch (`LaunchShape`) and on at most one launch being open
(`OneOpenLaunch`), without which a retired launch could be claimed under a later
admission.  The steps are first grouped (`StepsOfOwnership`) by the rows they
change, so that the preservation proof has one case per group.  The refinement
maps the owner to the admission's process and the heirs to the acknowledged
children of dispatching launches.  `IsolationInv` and `LeaseInv` are added to it
for the two theorems about builds beside each other and beside commands, which
have a hypothesis each:

- `DispatchesIsolated`: whoever looks for a supervisor is on its host
  (`SupervisorsNear`).  A supervisor row records no host (`af/workflowDb.ts:1498`),
  so a command elsewhere judges its pid as if it were local.
- `LeasesExcludeBuilds`: no supervisors (`NoSupervisors`).  A supervisor takes its
  admission back without looking at leases (`af/workflowDb.ts:672`).

**`ReadinessProbes_proofs`** (585).  `QuiescentProbesAreGone`,
`RevokedHelpersStayInert`, `ProbesAreSequential`, `SuccessorsWorkAlone`.  The
invariant `IInv` says what is final: an authorized or revoked startup stays so, a
dead helper stays dead, and so what a cleanup saw (`Observed`) is still true when
it is written.

**`WorkerSupervisor_proofs`** (2451).  `WorkersExclude`, `RestartsWithinBudget`,
`ReturnsPark`, `ReplaysAttended`, from `SupervisionInvariant`.  It has two halves.
A supervisor in its loop is the one the row names, so nobody takes the role beside
it and its memory agrees with the row (`Role`, `Agrees`).  A worker that acts holds
the admission, is a child of that supervisor and is the one it watches
(`Holding`, `Owned`).  So when a supervisor decides, none of its workers acts, and
what it read of the run stands.  The budget follows from counting the restarted
workers against the row (`Counted`), which one supervisor leaves to the next.

**`StructuredDispatch_proofs`** (2385).  `UnknownWorkIsOne`, `AnswersArePublished`,
`TransfersExclude`, `TransfersComplete`, `LeaseMoves`, from `DispatchInvariant`.
The argument follows the stack of calls.  A call that waits for another waits at
one of three places (`Waits`), what it has done so far can be read from the rows
(`Calls`), and only the innermost call moves.  An operation is in progress only
while its call is innermost, or after a crash; at that moment no answer is left to
publish and no transfer is open but its own (`InProgress`).

**`QaReview_proofs`** (2898).  `HandsOverOnce`, `KeepsAllowance`, `SettlesReports`,
`LoadsPacket`, `HoldsStop`, from `ReviewInvariant`, and `CertifiesTickets`: the
review implements `QaCertification`.  The host is one program, so the invariant
goes by its places: what the reducer (`Reducer`), the latest review (`Latests`),
the counts (`Accounts`), the packet (`Packets`) and the stop (`Stops`) are at each.
Publishing a packet changes nothing else, so a host in "publish" counts as being
where it goes on (`Place`).  After a crash the places of loading and entry admit
exactly what any step may have left.

**`TicketDelivery_proofs`** (9688).  `MergesOnce`, `DoneMeansDelivered`,
`PublishesOnlyCertified`, `LosesNoWork`, from `DeliveryInvariant`.  What a step may
rely on is nowhere but in Git, the journal and the QA heads, so the invariant says
first, for each ticket, what these have in common (`Untouched`, `Contents`,
`Merges`, `Certificates`, `Pushes`, `Done`), and then, for the ticket the host is
at, what its checks have established there (`Heads`, `Receipts`, `Closings`).  A
crash drops the second part; the first is what the next invocation starts from.
The journal is what makes a merge single: a merge in the base has a standing row,
and a standing row is recovered, never begun again.  `LosesNoWork` says what the
commands of a removal give, and no more: Git keeps a worktree with uncommitted work,
and a branch that is deleted holds what is on the base, or what was committed by hand
after the last check, which nothing can see (section 6).

**`StartOver_proofs`** (3201), about `TrackerPublications` and `StartOver`.

- `ResetsAreOnce`, `ResetsAreOnceBeside`, from `RowsInvariant` and
  `RowsInvariantBeside`: whoever resets, saves, archives or ends an operation holds
  the admission, and a reset under way has its run and its events as far as it came
  (`RInv`).
- `PopulationsAreWhole`.  While no two commands were at populations at once, at most
  one is unfinished, and its receipt, row, staged copy and files agree as far as it
  came, whoever recovers it (`PInv`, `Files`).  That the files are never ahead of the
  receipts needs no such condition: what is staged was in the file when it was read,
  but for the new population, and is published only after the receipt of that one.
- `StartOversAreWhole`, from `SettledInvariant` (`EInv`): an operation whose row says
  that the tickets were reset, or that it completed, speaks the truth whoever wrote
  it, from however old a copy; for a reset, once made, stays made, and a run, once
  superseded, stays superseded.  `VInv` says what copies may hold.
- `WorkIsPreserved`, from `WInv`: while one process at a time starts over, there is
  one operation, and at each command of Git the work it found is in the archive, in
  the branch the command starts from, or in the worktree (`Works`).

Deaths, errors and resumes at any step, edits of any path and other builds are within
all of them.  The conditions are about the past of a behaviour (`overlapped`,
`crossed`), not about steps: no step is left out of the model.

**`GraphMaintenance_proofs`** (876).  `NeverAhead` and `PublicationInOrder`, for any
number of processes, workspaces and leases, and any storage limit.  That a step
publishes above what was published before is not inductive: `IInv` adds that no
published generation is ahead of the lease of its workspace and that one level
with it has used the lease up (`Behind`), which holds because a lease is taken
under the next fence and `Publish` expires it in the same transaction.  The head
revision, the directories and the prunings play no part in it, so nothing they do
can break the order.  `HeadsLoad` is about them: a head that a pruning did not find
when it began was published since; it is the newest of its workspace, so the
pruning keeps it unless there is no room beside the protected ones; and the
refresh that published it had reserved that room, as nothing else is published
while it owns the lease (`JInv`).  The last step needs one workspace, or room for
the generations of all (`Uncontended`); with two workspaces and room for one,
`HeadLoads` fails after 21 states, since storage is measured before the
transaction that reserves.  The set of workspaces is finite.

Assumptions.  The `ASSUME`s of the modules say that a null value is outside its
set, that kinds of names are disjoint, that bounds are naturals (and where there
must be one, not zero) and that an order of tickets is a sequence of tickets; the
runs evaluate them.  The further hypotheses are the four named above: `SupervisorsNear`,
`NoSupervisors`, `Uncontended` and finitely many workspaces.  The runs that check the
same property are instances of them.

Only model-checked: the liveness properties `LaunchSettles`, `StopSettles`,
`OrphansEnd` and `GateOpensOrShuts`, which depend on fairness, and the prover cannot
reason about `ENABLED`; and `PopulationKept`, whose invariant would join those of
populations and start-overs.  `RecoveryFinishes` is violated (section 6).

## 6. Findings

1. `RecoveryFinishes` (`af/tickets/reset.ts:173`).  A reset creates the run of its
   publication under the admission it holds, which enters the run in
   `build_child_runs`.  If the command dies before the publication is committed,
   the hook of every later tracker command calls `recoverTicketResetPublications`
   without an admission; the trigger of `af/buildAdmission.ts` 112-121 rejects its
   update and the command ends with "Build mutation rejected".  The trace has seven
   states: a reset begins, the process dies, the next command is refused, and so is
   every one after it.  In the model the branch of `RecoverReset` that finishes or
   undoes the reset is therefore never taken.

The models also show the following, each reached by an earlier or a larger
instance and kept here without a run of its own.

- `af/supervisedStart.ts:284`: the exit handler of a supervisor clears the pid from
  its row and then makes a lifecycle write that requires it; the write throws, the
  handler swallows it, and the run stays `running`.
- `af/handoffs.ts:258`, `af/workflowDb.ts:1608`: after a successor is rejected, the
  acceptance turn of the next one is refused at admission when the Builder had
  asked for the handoff (against `CHANGELOG.md:41`).  `af/workflowDb.ts:1610`: a
  crash inside such a handoff leaves an open lineage row that no production code
  closes (against `CHANGELOG.md:30`).
- `af/cli/start.ts:1963`: a crash in the first turn of a ticket leaves it in
  progress without a session, and every resume is refused (against
  `CHANGELOG.md:30`).
- `af/qaRecovery.ts:348`: a crash while the second packet of a ticket is published
  leaves a publication no start can finish, as a head of another packet is refused
  even when that packet is resolved (against the comment at line 328).
- `af/humanDecision.ts:27`: the answer "pause" to a review that does not converge is
  saved under a key bound to the failed attempt, so a resume restores the failure,
  finds the answer and pauses again (against `ai-foreman/README.md:181`).
- `af/qaRecovery.ts:278`: a pause for want of guidance budget throws when a packet
  is already open.  `af/qaFailureDelivery.ts` 336-360 commits a stop before
  `af/qaReview.ts` 443 creates its packet; a crash between them makes every later
  entry return at once.
- `af/branch/finalization.ts` 70-74, `af/branch/runner.ts` 805-807: the check of a
  merged worktree, `git worktree remove` and `git branch -D` are separate commands.
  Git refuses to remove a worktree with uncommitted work, but what is edited and
  committed between the check and the removal is deleted with the branch by force
  (`unseen`; the comment at `finalization.ts` 71-72 counts on Git to reject "edits
  made even after the preceding verification").
- `af/ticketPopulation.ts` 292-320: recovery does not ask whether the populating
  process lives; it meets no lease and no fence.  A `tickets update` beside a
  `tickets populate` removes the staged files and marks the row `rolled_back`; the
  populate then commits its receipt, finds its files gone, and every later command
  that writes is refused, since the staged file is missing.  A populate whose
  proposal was read before another one was published leaves the other's tickets out
  of `tickets.yaml`, and an older staged file published late overwrites a newer one.
  `overlapped` marks these behaviours; `PopulationWhole` fails without it.
- `af/tickets/reset.ts`: a reset that fails puts back the statuses it had found, those
  of tickets included that another command finished meanwhile.
- `rafi/src/buildStartOver.ts:326`: a resumed start-over trusts the inventory its
  first process took.  When a person edits meanwhile a path that was dirty before
  the build, the archive leaves it out and `git reset --hard` discards it.  Nothing
  stops a later build from committing to the original branch before the resume, and
  the reset discards those commits too.
- `rafi/src/buildStartOver.ts` 251, 391-395: two start-overs may be confirmed from the
  same snapshot.  If the first carries out `new-branch` and the second
  `archive-restart`, the archive of the second is created where the worktree now is,
  and `git switch` and `git reset --hard` then take the build's commits out of every
  branch (against the message at line 152, "post-baseline commits will remain on the
  archive branch").  `crossed` marks it; `WorkPreserved` fails without.  An operation
  that was read before another process carried it on, and is confirmed after, writes
  its old copy over the row.
- The same resume puts back control files that are older than tickets populated since,
  and a cleaning that dies between Git and its restore (lines 453-490) has no backup of
  them: `PopulationKept` excludes both.
- `af/graph/maintenance.ts:216`: storage is measured before the transaction that
  reserves.  Two refreshes of different workspaces may both find room; a pruning
  whose snapshot predates a publication then removes the directory of the new head
  for lack of room, and every later refresh of that workspace fails at line 277
  until its head is invalidated (21 states, with two workspaces and a limit of 1; 40
  with a limit of 3).
- `af/graph/lifecycle.ts:48`: the stage of a failed refresh is never removed, since
  its job record has lost the scope the sweep compares; a crash between the rename
  and the publication (lines 315-326 of `maintenance.ts`) leaves a directory no
  pruning removes.  Job records (189, 238, 332) are written without the fence.
- A supervisor takes its admission back without looking at leases or probes
  (`af/workflowDb.ts:672`) and its row records no host (1498); a failed step cannot
  be planned again in the same run (`af/branch/runner.ts:876`); a ticket blocked
  twice for two reasons ends the loop; a push that reached the remote before a crash
  may be followed by a definite failure, and a later edit then reopens the review
  behind the published branch (`af/workflowDb.ts:3030`).

## 7. Simplifications and what is not modelled

*BuildAdmission*: lineage of preparation retries, legacy rows, comparison of
role and digest, migrations; probes have their own module.
*WorkerSupervisor*: a disabled supervisor, the check of other runs' supervisors,
detached launches, wording of stop causes; retried saves are one save that fails
when the fence is gone.
*ReadinessProbes*: Windows job objects, tagged legacy rows, standalone probes,
classification of output.  A supervisor that takes its role back from a dead worker
(`reacquireBuildCoordinator`) is `SpawnWorker` of `WorkerSupervisor`, not a second
acquisition here.  `finishOwnedPreparationProcess` runs after a cleanup has made the
row quiescent and adds to it only what the probe answered.
*StructuredDispatch*: handoff rows and manifests, fresh recovery (which moves the
role without an acknowledgement, `af/continuity.ts` 401-403, and is outside
`LeaseMovesByAcknowledgement`), compaction, hand-back turns, the limit of consecutive
requests; two recovery entry points that nothing in the product calls.
*TicketDelivery*: shared delivery units, rebase merges, waits for auto-merges,
re-queueing by answered decisions, kept worktrees, tracker files or branches
changed by a Builder, the dependency audit, the policy for a dirty base, a
completion the tracker refuses.  A journal row is planned and begun in one step; a
resume is the one with a fresh session, which admits more than an exact one.
*QaReview*: the revision each write of the reducer is checked against (one host
writes), amendment of a contract while a review is open, repair of a missing
report file, refusals of graph access, and the host's own evidence.  The action a
packet names after an invalid answer is taken as automatic, and guidance may
always be offered.
*TrackerPublications*: the progress document, group resets, blockers, events of
updates, a staged file that fails its digest.
*StartOver*: the actions retain-merged and revert-branch, branch names already
taken, tracked control files the run itself committed, records of later builds.  The
start of a build does not enter its steps beyond the commit or the save of its record.
*GraphMaintenance*: the owner of a lease (its fence determines it), job records,
sizes (each generation and stage is one unit), what is extracted; checks of policy
and source are failures that may come at any time.  The day after which a stage and
the week after which a generation is old are longer than any refresh or pruning.

The map covers a small part of the repository's lines, and cannot cover most of
them: they parse provider output and command lines, render text, validate schemas,
interview people and generate files, without a state another process shares.  What is
modelled is the part whose order matters.  Not modelled at all, and why: forge
command lines and provider output (text of external programs), observability and
audit (nothing depends on what they record), compilation and installation
(generation of files from templates), planning commands (single turns whose result
is written once), schemas (types), cutover and migrations (one-time operations on a
quiet database).

## 8. Plan

In order of importance to the program:

1. **`Handoffs`** - rows of handoffs and checkpoints, supersession, fresh
   recovery, compaction at a threshold; composes with `StructuredDispatch`.
2. **`Contracts`** - QA contracts prepared, accepted and delivered page by page,
   their amendment and freshness; composes with `QaReview`.
3. **`Decisions`** - human decisions, allowances, guidance and recovery attempts
   outside QA.
4. **`Tracker`** and the other pure rules (ticket selection, group resets, delivery
   units, permissions), checked against their definitions over bounded inputs.
5. **`ProviderTurn`** - the adapters.

Theorems worth proving next, with the modules above: that a superseded handoff is
never accepted (`Handoffs`), that an activated Builder has acknowledged every page
of the contract in force (`Contracts`), that an answer is consumed once
(`Decisions`).
