--------------------------- MODULE WorkerSupervisor ---------------------------
(***************************************************************************)
(* The durable restart loop around the worker of one build run.            *)
(*                                                                         *)
(* A supervisor process publishes a worker generation, forks a worker that *)
(* waits at a gate, watches it, and decides from what the database says    *)
(* whether its end may be repaired by another worker, within a budget that *)
(* survives the supervisor.  Both processes die at any step; a later start *)
(* of the same run finds whatever rows they left.                          *)
(*                                                                         *)
(* A saved state record and the record in memory differ until the next     *)
(* save, and every save or lifecycle write first looks whether the row     *)
(* still names this supervisor.  BuildAdmission shows that the admission   *)
(* has one holder; here it is the variable owner.                          *)
(***************************************************************************)
EXTENDS Naturals, FiniteSets

CONSTANTS
  Supervisor,         \* supervisor process incarnations of the run
  Worker,             \* worker process incarnations
  None,
  CheckpointLimit,    \* policy: workerRestartsPerCheckpoint
  RunLimit,           \* policy: workerRestartsPerRun
  ContinueIndependent \* policy: ticket decisions do not stop other tickets

ASSUME SupervisorAssumption ==
  /\ None \notin Supervisor \cup Worker
  /\ Supervisor \cap Worker = {}
  /\ CheckpointLimit \in Nat /\ RunLimit \in Nat
  /\ ContinueIndependent \in BOOLEAN

VARIABLES
  pc,        \* where each supervisor is in its loop
  memory,    \* the state record each supervisor holds
  stop,      \* supervisors asked to stop
  outcome,   \* what the exit handler made of the last worker's end
  row,       \* the supervisor_leases row of the run
  run,       \* status and checkpoint of the run's row
  worker,    \* the workers: life, parent, generation, kind of end
  owner,     \* the process that holds the build admission
  evidence,  \* the run has a snapshot or a journalled operation
  uncertain, \* a provider dispatch is in progress or uncertain
  probing,   \* the run has readiness processes that are not quiescent
  pending    \* kinds of decisions the run waits for

rowVars    == <<row, run>>
ownVars    == <<worker, owner>>
workVars   == <<evidence, uncertain, probing, pending>>
vars == <<pc, memory, stop, outcome, rowVars, ownVars, workVars>>

-----------------------------------------------------------------------------

Record == [status: {"starting", "running", "waiting_for_human", "stopping",
                    "stopped", "failed"},
           pid: Supervisor \cup {None}, generation: Nat, workerGeneration: Nat,
           checkpointRestarts: Nat, runRestarts: Nat, workerPid: Worker \cup {None}]
initialSupervisorState ==
  [status |-> "starting", pid |-> None, generation |-> 0, workerGeneration |-> 0,
   checkpointRestarts |-> 0, runRestarts |-> 0, workerPid |-> None]

Terminal == {"completed", "cancelled", "superseded"}
Status   == {"running", "paused", "failed"} \cup Terminal

Over    == {"off", "ended", "exited", "dead"}
Gated   == {"gated", "acked"}
Claimed == {"preparing", "working", "leaving"}

LiveSupervisor(s) == pc[s] \notin Over
LiveWorker(w)     == worker[w].life \in Gated \cup Claimed
Live(p) == IF p \in Supervisor THEN LiveSupervisor(p) ELSE p \in Worker /\ LiveWorker(p)
ChildrenOf(s) == {w \in Worker : worker[w].life # "unborn" /\ worker[w].parent = s}

Init ==
  /\ pc = [s \in Supervisor |-> "off"]
  /\ memory = [s \in Supervisor |-> initialSupervisorState]
  /\ stop = [s \in Supervisor |-> FALSE]
  /\ outcome = [s \in Supervisor |-> "none"]
  /\ row = initialSupervisorState
  /\ run = [status |-> "running", checkpoint |-> "preparing"]
  /\ worker = [w \in Worker |-> [life |-> "unborn", parent |-> None, generation |-> 0,
                                 stopping |-> FALSE, claimed |-> FALSE, end |-> "none"]]
  /\ owner = None
  /\ evidence = FALSE /\ uncertain = FALSE /\ probing = FALSE
  /\ pending = {}

-----------------------------------------------------------------------------
(* Writes of a supervisor                                                   *)

Goto(s, place) == pc' = [pc EXCEPT ![s] = place]

Fenced(s) == row.pid = s /\ row.generation = memory[s].generation

(* Memory changes first; a save that finds the fence gone throws. *)
Save(s, record, next) ==
  /\ memory' = [memory EXCEPT ![s] = record]
  /\ \/ Fenced(s) /\ row' = record /\ Goto(s, next)
     \/ ~ Fenced(s) /\ row' = row /\ Goto(s, "failing")

MayMove(s, status) ==
  /\ row.pid = s
  /\ row.workerGeneration = memory[s].workerGeneration
  /\ run.status \in Terminal => status = run.status

(* Lifecycle writes of a supervisor; a refused one throws. *)
Move(s, status, checkpoint, next) ==
  \/ /\ MayMove(s, status)
     /\ run' = [status |-> status, checkpoint |-> checkpoint]
     /\ Goto(s, next)
  \/ ~ MayMove(s, status) /\ run' = run /\ Goto(s, "failing")

MoveIfRunning(s, status, checkpoint, next) ==
  \/ run.status = "running" /\ Move(s, status, checkpoint, next)
  \/ run.status # "running" /\ run' = run /\ Goto(s, next)

MutEligibleDespiteWork == pending = {} /\ ~ probing /\ run.status \notin Terminal
preparationEligibility ==
  /\ pending = {}
  /\ ~ probing
  /\ run.status \notin Terminal
  /\ ~ evidence

canRestartPreparation ==
  run.checkpoint \in {"preparing", "preparation-reconciled"} /\ preparationEligibility

-----------------------------------------------------------------------------
(* Taking the role                                                          *)

MutStartBesideWorker(s) ==
  /\ pc[s] = "off"
  /\ run.status \notin Terminal
  /\ row.status = "running" => ~ Live(row.pid)
  /\ owner' = s
  /\ Goto(s, "admitted")
  /\ UNCHANGED <<memory, stop, outcome, rowVars, worker, workVars>>

(* A start or a resume of the run acquires its admission: the holder and a  *)
(* supervisor whose row says it runs must be dead, and so must a child that *)
(* was dispatched and has not claimed.                                      *)
StartSupervisor(s) ==
  /\ pc[s] = "off"
  /\ run.status \notin Terminal
  /\ ~ Live(owner)
  /\ owner \in Supervisor => \A w \in ChildrenOf(owner) : ~ LiveWorker(w)
  /\ row.status = "running" => ~ Live(row.pid)
  /\ owner' = s
  /\ Goto(s, "admitted")
  /\ UNCHANGED <<memory, stop, outcome, rowVars, worker, workVars>>

(* One transaction reads the latest row and takes its place. *)
TakeRole(s) ==
  /\ pc[s] = "admitted"
  /\ \/ /\ row.status = "running" /\ Live(row.pid)
        /\ Goto(s, "ended")
        /\ owner' = IF owner = s THEN None ELSE owner
        /\ UNCHANGED <<memory, row>>
     \/ /\ ~ (row.status = "running" /\ Live(row.pid))
        /\ row' = [row EXCEPT !.status = "running", !.pid = s, !.generation = @ + 1]
        /\ memory' = [memory EXCEPT ![s] = row']
        /\ Goto(s, "deciding")
        /\ UNCHANGED owner
  /\ UNCHANGED <<stop, outcome, run, worker, workVars>>

-----------------------------------------------------------------------------
(* The loop                                                                 *)

Blocking == IF ContinueIndependent THEN pending \ {"ticket"} ELSE pending

WaitForHuman(s) ==
  /\ pc[s] = "deciding" /\ ~ stop[s]
  /\ Blocking # {}
  /\ Save(s, [memory[s] EXCEPT !.status = "waiting_for_human", !.workerPid = None], "waiting")
  /\ UNCHANGED <<stop, outcome, run, ownVars, workVars>>

MutRunLeftRunning(s) ==
  /\ pc[s] = "waiting"
  /\ Goto(s, "ended")
  /\ UNCHANGED <<memory, stop, outcome, rowVars, ownVars, workVars>>

ParkWaitingRun(s) ==
  /\ pc[s] = "waiting"
  /\ MoveIfRunning(s, "paused", "parked", "ended")
  /\ UNCHANGED <<memory, stop, outcome, row, ownVars, workVars>>

(* The generation is published before the child that carries it exists. *)
PublishGeneration(s) ==
  /\ pc[s] = "deciding" /\ ~ stop[s]
  /\ Blocking = {}
  /\ Save(s, [memory[s] EXCEPT !.status = "running", !.workerGeneration = @ + 1], "spawning")
  /\ UNCHANGED <<stop, outcome, run, ownVars, workVars>>

(* The admission comes back from a worker that ended. *)
CanReacquire(s) == owner = s \/ ~ Live(owner)

SpawnWorker(s, w) ==
  /\ pc[s] = "spawning"
  /\ worker[w].life = "unborn"
  /\ CanReacquire(s)
  /\ owner' = s
  /\ worker' = [worker EXCEPT ![w].life = "gated", ![w].parent = s,
                              ![w].generation = memory[s].workerGeneration]
  /\ memory' = [memory EXCEPT ![s].workerPid = w]
  /\ Goto(s, "recording")
  /\ UNCHANGED <<stop, outcome, rowVars, workVars>>

(* The admission is refused, or the process cannot be created. *)
FailLaunch(s) ==
  /\ pc[s] = "spawning"
  /\ owner' = IF CanReacquire(s) THEN s ELSE owner
  /\ Goto(s, "failing")
  /\ UNCHANGED <<memory, stop, outcome, rowVars, worker, workVars>>

RecordWorker(s) ==
  /\ pc[s] = "recording"
  /\ Save(s, memory[s], "watching")
  /\ UNCHANGED <<stop, outcome, run, ownVars, workVars>>

(* The loop ends after a stop request, with no worker left. *)
StopLoop(s) ==
  /\ pc[s] = "deciding" /\ stop[s]
  /\ memory' = [memory EXCEPT ![s].status = "stopped", ![s].workerPid = None]
  /\ MoveIfRunning(s, "paused", "parked", "stopping")
  /\ UNCHANGED <<stop, outcome, row, ownVars, workVars>>

(* The last save of a loop that returns. *)
SaveAndReturn(s) ==
  /\ pc[s] \in {"stopping", "closing"}
  /\ Save(s, memory[s], "ended")
  /\ UNCHANGED <<stop, outcome, run, ownVars, workVars>>

-----------------------------------------------------------------------------
(* The end of a worker, as its supervisor sees it                           *)

Watched(s) == memory[s].workerPid

Settled(s, result) == /\ outcome' = [outcome EXCEPT ![s] = result]
                      /\ Goto(s, "judging")

NoticeExit(s) ==
  /\ pc[s] = "watching"
  /\ ~ LiveWorker(Watched(s))
  /\ \/ MayMove(s, run.status) /\ Goto(s, "reconciling") /\ UNCHANGED outcome
     \/ ~ MayMove(s, run.status) /\ Settled(s, "failed")
  /\ UNCHANGED <<memory, stop, rowVars, ownVars, workVars>>

(* Readiness cleanup may take its five seconds and fail.  A launch nobody   *)
(* claimed is retired: that worker cannot have done anything.               *)
ReconcileExit(s) ==
  LET w == worker[Watched(s)]
  IN  /\ pc[s] = "reconciling"
      /\ \E cleaned \in BOOLEAN :
           /\ ~ probing => cleaned
           /\ probing' = (probing /\ ~ cleaned)
           /\ \/ ~ cleaned /\ Settled(s, "waiting")
              \/ cleaned /\ ~ w.claimed /\ Settled(s, "crashed")
              \/ /\ cleaned /\ w.claimed
                 /\ w.end = "signal" \/ w.stopping
                 /\ Goto(s, "settling") /\ UNCHANGED outcome
              \/ /\ cleaned /\ w.claimed
                 /\ w.end # "signal" /\ ~ w.stopping
                 /\ Settled(s, IF w.end = "zero" /\ run.status \in {"completed", "cancelled"}
                                 THEN "completed"
                               ELSE IF w.end = "error" THEN "failed" ELSE "waiting")
      /\ UNCHANGED <<memory, stop, rowVars, ownVars, evidence, uncertain, pending>>

(* After a signal the process group must be seen empty, and only a worker   *)
(* that had not begun to implement is replaced without asking.              *)
SettleSignalled(s) ==
  /\ pc[s] = "settling"
  /\ \E quiescent \in BOOLEAN :
       LET again == quiescent /\ ~ worker[Watched(s)].stopping /\ canRestartPreparation
           checkpoint == IF again THEN "preparation-reconciled"
                         ELSE IF uncertain THEN "uncertain" ELSE "parked"
       IN  \/ /\ MayMove(s, "paused")
              /\ run' = [status |-> "paused", checkpoint |-> checkpoint]
              /\ Settled(s, IF again THEN "crashed" ELSE "waiting")
           \/ ~ MayMove(s, "paused") /\ run' = run /\ Settled(s, "failed")
  /\ UNCHANGED <<memory, stop, row, ownVars, workVars>>

-----------------------------------------------------------------------------
(* What the loop makes of it                                                *)

MutRestartable(s) == /\ memory[s].checkpointRestarts <= CheckpointLimit
                     /\ memory[s].runRestarts <= RunLimit
Restartable(s) == /\ memory[s].checkpointRestarts < CheckpointLimit
                  /\ memory[s].runRestarts < RunLimit

(* The result is local to one turn of the loop. *)
Judged(s) == outcome' = [outcome EXCEPT ![s] = "none"]

JudgeEnded(s) ==
  /\ pc[s] = "judging" /\ outcome[s] # "crashed"
  /\ memory' = [memory EXCEPT ![s].workerPid = None,
       ![s].status = CASE outcome[s] = "completed" -> "stopped"
                       [] outcome[s] = "waiting"   -> "waiting_for_human"
                       [] outcome[s] = "failed"    -> "failed"]
  /\ MoveIfRunning(s, IF outcome[s] = "failed" /\ preparationEligibility
                      THEN "failed" ELSE "paused", "parked", "closing")
  /\ Judged(s)
  /\ UNCHANGED <<stop, row, ownVars, workVars>>

Crashed(s) == pc[s] = "judging" /\ outcome[s] = "crashed"

WithholdRestart(s) ==
  /\ Crashed(s)
  /\ ~ preparationEligibility
  /\ Save(s, [memory[s] EXCEPT !.status = "waiting_for_human", !.workerPid = None], "withheld")
  /\ Judged(s)
  /\ UNCHANGED <<stop, run, ownVars, workVars>>

ParkWithheldRun(s) ==
  /\ pc[s] = "withheld"
  /\ Move(s, "paused", "parked", "ended")
  /\ UNCHANGED <<memory, stop, outcome, row, ownVars, workVars>>

ExhaustBudget(s) ==
  /\ Crashed(s)
  /\ preparationEligibility
  /\ ~ Restartable(s)
  /\ Save(s, [memory[s] EXCEPT !.status = "failed", !.workerPid = None], "exhausted")
  /\ Judged(s)
  /\ UNCHANGED <<stop, run, ownVars, workVars>>

FailExhaustedRun(s) ==
  /\ pc[s] = "exhausted"
  /\ MoveIfRunning(s, "failed", "parked", "ended")
  /\ UNCHANGED <<memory, stop, outcome, row, ownVars, workVars>>

(* The restart is counted durably before the back-off begins. *)
ScheduleRestart(s) ==
  /\ Crashed(s)
  /\ preparationEligibility
  /\ Restartable(s)
  /\ Save(s, [memory[s] EXCEPT !.workerPid = None, !.checkpointRestarts = @ + 1,
                               !.runRestarts = @ + 1], "backoff")
  /\ Judged(s)
  /\ UNCHANGED <<stop, run, ownVars, workVars>>

WakeUp(s) ==
  /\ pc[s] = "backoff"
  /\ Goto(s, "deciding")
  /\ UNCHANGED <<memory, stop, outcome, rowVars, ownVars, workVars>>

(* Something in the loop threw. *)
SaveFailure(s) ==
  /\ pc[s] = "failing"
  /\ memory' = [memory EXCEPT ![s].status = "failed", ![s].workerPid = None]
  /\ \/ Fenced(s) /\ row' = memory'[s] /\ Goto(s, "parking")
     \/ ~ Fenced(s) /\ row' = row /\ Goto(s, "ended")
  /\ UNCHANGED <<stop, outcome, run, ownVars, workVars>>

ParkFailedRun(s) ==
  LET status == IF preparationEligibility THEN "failed" ELSE "paused"
  IN  /\ pc[s] = "parking"
      /\ run' = IF run.status = "running" /\ MayMove(s, status)
                THEN [status |-> status, checkpoint |-> "parked"] ELSE run
      /\ Goto(s, "ended")
      /\ UNCHANGED <<memory, stop, outcome, row, ownVars, workVars>>

-----------------------------------------------------------------------------
(* Signals, heartbeats and deaths of a supervisor                           *)

Awaiting(s) == pc[s] \in {"watching", "reconciling", "settling", "backoff"}

MutStopWithoutWorker(s) ==
  /\ Awaiting(s)
  /\ ~ stop[s]
  /\ stop' = [stop EXCEPT ![s] = TRUE]
  /\ UNCHANGED <<pc, memory, outcome, rowVars, ownVars, workVars>>

(* SIGINT, SIGTERM or a heartbeat that cannot be saved.  Handlers run only  *)
(* where the loop awaits something; the worker that is being watched then   *)
(* is told to end, and killed when it does not.                             *)
RequestStop(s) ==
  /\ Awaiting(s)
  /\ ~ stop[s]
  /\ stop' = [stop EXCEPT ![s] = TRUE]
  /\ worker' = IF pc[s] = "backoff" THEN worker
               ELSE [worker EXCEPT ![Watched(s)].stopping = TRUE]
  /\ UNCHANGED <<pc, memory, outcome, rowVars, owner, workVars>>

(* The watchdog stops a worker whose heartbeats ceased, not the loop. *)
WorkerHeartbeatTimeout(s) ==
  /\ pc[s] = "watching"
  /\ LiveWorker(Watched(s)) /\ ~ worker[Watched(s)].stopping
  /\ worker' = [worker EXCEPT ![Watched(s)].stopping = TRUE]
  /\ UNCHANGED <<pc, memory, stop, outcome, rowVars, owner, workVars>>

(* What a process held in memory goes with it; only the fence it held is    *)
(* kept, for the properties to speak of.                                    *)
Forget(s) ==
  /\ memory' = [memory EXCEPT ![s] = [initialSupervisorState EXCEPT !.generation = memory[s].generation]]
  /\ stop' = [stop EXCEPT ![s] = FALSE]
  /\ outcome' = [outcome EXCEPT ![s] = "none"]

KillSupervisor(s) ==
  /\ LiveSupervisor(s)
  /\ Goto(s, "dead") /\ Forget(s)
  /\ UNCHANGED <<rowVars, ownVars, workVars>>

(* The process ends while the loop still runs, and its exit handler speaks. *)
(* It clears the pid of the row first; the lifecycle write that follows     *)
(* requires that pid, throws, and is swallowed.                             *)
ExitSupervisor(s) ==
  /\ Awaiting(s)
  /\ Goto(s, "exited") /\ Forget(s)
  /\ row' = IF row.pid = s /\ row.status = "running" /\ run.status \notin Terminal
            THEN [row EXCEPT !.status = "failed", !.pid = None, !.workerPid = None]
            ELSE row
  /\ UNCHANGED <<run, ownVars, workVars>>

(* Recovery of a run whose recorded supervisor is dead, under the admission. *)
reconcileStaleSupervisor ==
  /\ ~ Live(owner)
  /\ row.status = "running" /\ row.pid # None /\ ~ Live(row.pid)
  /\ run.status \notin Terminal
  /\ row' = [row EXCEPT !.status = "stopped", !.pid = None, !.workerPid = None]
  /\ run' = [status |-> "paused", checkpoint |-> IF uncertain THEN "uncertain" ELSE "parked"]
  /\ UNCHANGED <<pc, memory, stop, outcome, ownVars, workVars>>

-----------------------------------------------------------------------------
(* Workers                                                                  *)

Parent(w) == worker[w].parent
Ends(w, how) == worker' = [worker EXCEPT ![w].life = "exited", ![w].end = how]

AcknowledgeWorker(w) ==
  /\ worker[w].life = "gated"
  /\ pc[Parent(w)] = "watching" /\ Watched(Parent(w)) = w
  /\ \/ /\ owner = Parent(w) /\ MayMove(Parent(w), run.status)
        /\ worker' = [worker EXCEPT ![w].life = "acked"]
     \/ ~ (owner = Parent(w) /\ MayMove(Parent(w), run.status)) /\ Ends(w, "signal")
  /\ UNCHANGED <<pc, memory, stop, outcome, rowVars, owner, workVars>>

ClaimWorkerLaunch(w) ==
  /\ worker[w].life = "acked"
  /\ owner = Parent(w)
  /\ owner' = w
  /\ worker' = [worker EXCEPT ![w].life = "preparing", ![w].claimed = TRUE]
  /\ UNCHANGED <<pc, memory, stop, outcome, rowVars, workVars>>

(* Preparation: readiness probes come and go. *)
ProbeRuntime(w) ==
  /\ worker[w].life = "preparing" /\ owner = w
  /\ probing' = ~ probing
  /\ UNCHANGED <<pc, memory, stop, outcome, rowVars, ownVars, evidence, uncertain, pending>>

(* The build record is created or resumed: work that can be seen begins. *)
BeginImplementation(w) ==
  /\ worker[w].life = "preparing" /\ owner = w
  /\ ~ probing
  /\ worker' = [worker EXCEPT ![w].life = "working"]
  /\ evidence' = TRUE
  /\ run' = [status |-> "running", checkpoint |-> "working"]
  /\ UNCHANGED <<pc, memory, stop, outcome, row, owner, uncertain, probing, pending>>

DispatchProvider(w) ==
  /\ worker[w].life = "working" /\ owner = w
  /\ uncertain' = ~ uncertain
  /\ UNCHANGED <<pc, memory, stop, outcome, rowVars, ownVars, evidence, probing, pending>>

AskHuman(w) ==
  /\ worker[w].life = "working" /\ owner = w
  /\ \E kind \in {"ticket", "run"} : pending' = pending \cup {kind}
  /\ UNCHANGED <<pc, memory, stop, outcome, rowVars, ownVars, evidence, uncertain, probing>>

(* The worker's command ends: it releases the admission, then exits.  It    *)
(* may exit with zero and leave the run as it was.                          *)
FinishWork(w, how) ==
  /\ worker[w].life \in {"preparing", "working"} /\ owner = w
  /\ worker' = [worker EXCEPT ![w].life = "leaving", ![w].end = how]
  /\ owner' = None
  /\ \/ /\ how = "zero" /\ worker[w].life = "working" /\ ~ uncertain /\ pending = {}
        /\ run' = [status |-> "completed", checkpoint |-> "done"]
     \/ how = "two" /\ run' = [status |-> "paused", checkpoint |-> "parked"]
     \/ how # "two" /\ run' = run
  /\ UNCHANGED <<pc, memory, stop, outcome, row, workVars>>

ExitWorker(w) ==
  /\ worker[w].life = "leaving"
  /\ Ends(w, worker[w].end)
  /\ UNCHANGED <<pc, memory, stop, outcome, rowVars, owner, workVars>>

(* Killed, timed out at its gate, or crashed. *)
LoseWorker(w) ==
  /\ LiveWorker(w)
  /\ Ends(w, "signal")
  /\ UNCHANGED <<pc, memory, stop, outcome, rowVars, owner, workVars>>

MutOrphanReturnsEarly(w) ==
  /\ worker[w].life \in {"preparing", "working"}
  /\ ~ LiveSupervisor(Parent(w))
  /\ row.workerGeneration = worker[w].generation /\ row.workerPid = w
  /\ worker' = [worker EXCEPT ![w].life = "leaving", ![w].end = "signal"]
  /\ UNCHANGED <<pc, memory, stop, outcome, rowVars, owner, workVars>>

(* The parent vanished.  What the worker may still write it writes in one   *)
(* transaction, then it ends its own process group.                         *)
OrphanWorker(w) ==
  /\ worker[w].life \in {"preparing", "working"}
  /\ ~ LiveSupervisor(Parent(w))
  /\ IF /\ row.workerGeneration = worker[w].generation /\ row.workerPid = w
        /\ owner = w /\ run.status \notin Terminal
     THEN /\ run' = [status |-> "paused", checkpoint |-> "orphaned"]
          /\ row' = [row EXCEPT !.status = "stopping"]
     ELSE UNCHANGED rowVars
  /\ worker' = [worker EXCEPT ![w].life = "leaving", ![w].end = "signal"]
  /\ UNCHANGED <<pc, memory, stop, outcome, owner, workVars>>

(* A person answers decisions, and settles an uncertain dispatch, in the    *)
(* recovery commands, which need a build nobody runs.                       *)
Answer ==
  /\ \/ pending # {} /\ pending' = {} /\ UNCHANGED <<uncertain, probing>>
     \/ /\ ~ Live(owner) /\ (row.status = "running" => ~ Live(row.pid))
        /\ uncertain \/ probing
        /\ uncertain' = FALSE /\ probing' = FALSE /\ UNCHANGED pending
  /\ UNCHANGED <<pc, memory, stop, outcome, rowVars, ownVars, evidence>>

-----------------------------------------------------------------------------

Loop(s) ==
  \/ TakeRole(s) \/ WaitForHuman(s) \/ ParkWaitingRun(s) \/ PublishGeneration(s)
  \/ \E w \in Worker : SpawnWorker(s, w)
  \/ FailLaunch(s)
  \/ RecordWorker(s) \/ StopLoop(s) \/ SaveAndReturn(s)
  \/ NoticeExit(s) \/ ReconcileExit(s) \/ SettleSignalled(s)
  \/ JudgeEnded(s) \/ WithholdRestart(s) \/ ParkWithheldRun(s)
  \/ ExhaustBudget(s) \/ FailExhaustedRun(s) \/ ScheduleRestart(s) \/ WakeUp(s)
  \/ SaveFailure(s) \/ ParkFailedRun(s)

WorkerStep(w) ==
  \/ AcknowledgeWorker(w) \/ ClaimWorkerLaunch(w) \/ ProbeRuntime(w)
  \/ BeginImplementation(w) \/ DispatchProvider(w) \/ AskHuman(w)
  \/ \E how \in {"zero", "two", "error"} : FinishWork(w, how)
  \/ ExitWorker(w) \/ LoseWorker(w) \/ OrphanWorker(w)

Next ==
  \/ \E s \in Supervisor : \/ StartSupervisor(s) \/ Loop(s) \/ RequestStop(s)
                           \/ WorkerHeartbeatTimeout(s) \/ KillSupervisor(s)
                           \/ ExitSupervisor(s)
  \/ \E w \in Worker : WorkerStep(w)
  \/ reconcileStaleSupervisor
  \/ Answer

Spec == Init /\ [][Next]_vars

(* A worker that was told to stop, or whose startup takes too long, is      *)
(* killed by a timer of its supervisor; without one, by its own timers.     *)
Timers(w) ==
  \/ ExitWorker(w) \/ OrphanWorker(w)
  \/ worker[w].stopping /\ LiveSupervisor(Parent(w)) /\ LoseWorker(w)
  \/ worker[w].life \in Gated /\ LoseWorker(w)

FairSpec ==
  /\ Spec
  /\ \A s \in Supervisor : WF_vars(Loop(s))
  /\ \A w \in Worker : WF_vars(Timers(w))

-----------------------------------------------------------------------------
(* Properties                                                               *)

(* One worker at a time probes, builds or dispatches, also when a supervisor *)
(* dies and another is started while the first one's worker still runs.     *)
SoleWorker ==
  \A v, w \in Worker : worker[v].life \in {"preparing", "working"}
                         /\ worker[w].life \in {"preparing", "working"} => v = w

(* A worker that was not the first its supervisor started. *)
Automatic(w) == \E v \in ChildrenOf(Parent(w)) : worker[v].generation < worker[w].generation

(* The restarts nobody asked for stay within the budget of the run, over    *)
(* all the supervisors it ever had.                                         *)
RestartBudget ==
  LET restarts == {w \in Worker : worker[w].life # "unborn" /\ Automatic(w)}
  IN  Cardinality(restarts) <= RunLimit /\ Cardinality(restarts) <= CheckpointLimit

(* Nothing is replayed unattended: when a worker is replaced without a      *)
(* person's request, no work of the run was visible, no provider action was *)
(* open, and no probe was left behind.                                      *)
NoUnattendedReplay ==
  [][\A w \in Worker :
       worker[w].life = "unborn" /\ worker'[w].life = "gated"
         /\ (\E v \in Worker \ {w} : worker[v].parent = worker'[w].parent)
       => ~ evidence /\ ~ uncertain /\ ~ probing]_vars

(* A loop that returned, or threw, and whose role nobody took over since    *)
(* left the run parked: never "running" with nobody to run it.              *)
ReturnedRunParked ==
  \A s \in Supervisor :
    pc[s] = "ended" /\ row.pid = s /\ (\A p \in Supervisor \ {s} : ~ LiveSupervisor(p))
      => run.status # "running"

(* A stop request ends the supervisor, whatever the worker does. *)
StopSettles == \A s \in Supervisor : stop[s] ~> ~ LiveSupervisor(s)

(* A worker does not outlive its supervisor for ever. *)
OrphansEnd ==
  \A w \in Worker : LiveWorker(w) /\ ~ LiveSupervisor(Parent(w)) ~> ~ LiveWorker(w)
=============================================================================
