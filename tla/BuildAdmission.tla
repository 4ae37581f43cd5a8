---------------------------- MODULE BuildAdmission ----------------------------
(***************************************************************************)
(* Who may write the durable recovery database of a project.               *)
(*                                                                         *)
(* A project has one admission row (build_admission).  A process that      *)
(* starts work takes it, keeps a copy in memory (its authority), and every *)
(* later write names the token of that copy.  A process hands the          *)
(* admission to a child it spawns through a launch: reserved, dispatching, *)
(* then claimed by the child, or failed.  Shorter commands work under the  *)
(* project lease instead.  Processes crash at any step, process ids are    *)
(* reused, and a row may name a process of another host.                   *)
(*                                                                         *)
(* A Proc is one process incarnation: Host and Pid say where it runs and   *)
(* under which id, and two incarnations may share both, one after the      *)
(* other.  Tokens are drawn from a counter (randomUUID never repeats).     *)
(***************************************************************************)
EXTENDS Naturals, FiniteSets

CONSTANTS
  Proc,          \* process incarnations
  Run,           \* build runs
  LaunchId,      \* launch tokens
  TrackerRun,    \* the run a tracker mutation creates for itself
  Host,          \* the host an incarnation runs on
  Pid,           \* the process id it has there
  Supervised,    \* commands run under a policy that enables the supervisor
  Unidentified,  \* incarnations whose start time cannot be read
  NoProc, NoRun, NoLaunch,
  MaxToken,      \* bound: no acquisition once this many tokens are minted
  MaxGeneration  \* bound: lease generations ever granted

ASSUME ConstantsAssumption ==
  /\ NoProc \notin Proc
  /\ NoRun \notin Run
  /\ NoLaunch \notin LaunchId
  /\ TrackerRun \in Run
  /\ Unidentified \subseteq Proc
  /\ Supervised \subseteq Proc
  /\ MaxToken \in Nat
  /\ MaxGeneration \in Nat

VARIABLES
  proc,        \* life of each incarnation
  carries,     \* launch token a child was spawned with
  admission,   \* the build_admission row
  launches,    \* the build_launches rows
  authority,   \* each process's remembered copy of its admission
  nextToken,   \* next token randomUUID returns
  lease,       \* the project_lease row
  sequence,    \* workflow_lease_sequence
  granted,     \* lease_generation column of the run rows
  leased,      \* each process's remembered copy of its lease
  supervisor,  \* process named by a running supervisor row of a run
  unresolved   \* runs with a provider dispatch in progress or uncertain

procVars  == <<proc, carries>>
ownerVars == <<admission, authority, nextToken>>
leaseVars == <<lease, sequence, granted, leased>>
vars == <<procVars, ownerVars, leaseVars, launches, supervisor, unresolved>>

-----------------------------------------------------------------------------
(* Records of the database                                                  *)

AdmissionRow == [token : Nat \ {0}, run : Run, proc : Proc]
NoAdmission  == [token |-> 0, run |-> NoRun, proc |-> NoProc]

LeaseRow == [generation : Nat \ {0}, run : Run, proc : Proc]
NoLease  == [generation |-> 0, run |-> NoRun, proc |-> NoProc]

LaunchState == {"absent", "reserved", "dispatching", "claimed", "failed"}
LaunchRow == [state    : LaunchState,
              run      : Run \cup {NoRun},
              launcher : Nat,
              by       : Proc \cup {NoProc},
              child    : Proc \cup {NoProc},
              acked    : BOOLEAN]
NoLaunchRow == [state |-> "absent", run |-> NoRun, launcher |-> 0,
                by |-> NoProc, child |-> NoProc, acked |-> FALSE]

Open(l) == launches[l].state \in {"reserved", "dispatching"}

TypeOK ==
  /\ proc \in [Proc -> {"idle", "running", "exited"}]
  /\ carries \in [Proc -> LaunchId \cup {NoLaunch}]
  /\ admission \in AdmissionRow \cup {NoAdmission}
  /\ launches \in [LaunchId -> LaunchRow]
  /\ authority \in [Proc -> AdmissionRow \cup {NoAdmission}]
  /\ nextToken \in Nat \ {0}
  /\ lease \in LeaseRow \cup {NoLease}
  /\ sequence \in Nat
  /\ granted \in [Run -> Nat]
  /\ leased \in [Proc -> LeaseRow \cup {NoLease}]
  /\ supervisor \in [Run -> Proc \cup {NoProc}]
  /\ unresolved \subseteq Run

Init ==
  /\ proc = [p \in Proc |-> "idle"]
  /\ carries = [p \in Proc |-> NoLaunch]
  /\ admission = NoAdmission
  /\ launches = [l \in LaunchId |-> NoLaunchRow]
  /\ authority = [p \in Proc |-> NoAdmission]
  /\ nextToken = 1
  /\ lease = NoLease
  /\ sequence = 0
  /\ granted = [r \in Run |-> 0]
  /\ leased = [p \in Proc |-> NoLease]
  /\ supervisor = [r \in Run |-> NoProc]
  /\ unresolved = {}

-----------------------------------------------------------------------------
(* What one process can tell about another                                  *)

Running(p) == proc[p] = "running"

(* The incarnations that answer to pid on host. *)
Occupants(host, pid) ==
  {q \in Proc : Running(q) /\ Host[q] = host /\ Pid[q] = pid}

(* A signal 0 and a comparison of start times on the observer's host. *)
Probe(host, p) ==
  LET here == Occupants(host, Pid[p])
  IN  IF here = {} THEN "dead"
      ELSE IF p \in Unidentified \/ here \cap Unidentified # {} THEN "unknown"
      ELSE IF p \in here THEN "live" ELSE "dead"

MutClassifyAnyHost(o, p) == Probe(Host[o], p)
Classify(o, p) ==
  IF Host[o] # Host[p] THEN "unknown" ELSE Probe(Host[o], p)

(* Supervisor rows record no host: the id is looked up on the caller's. *)
ClassifySupervisor(o, p) == Probe(Host[o], p)

MutLeaseIgnored(o) == TRUE
LeaseOwnerGone(o) == lease # NoLease => Classify(o, lease.proc) = "dead"

SupervisorsGone(o) ==
  \A r \in Run : supervisor[r] # NoProc
                   => ClassifySupervisor(o, supervisor[r]) = "dead"

(* The process's remembered copy names the row that is there now. *)
Authorized(p) ==
  /\ Running(p)
  /\ admission # NoAdmission
  /\ authority[p].token = admission.token
  /\ authority[p].run = admission.run

-----------------------------------------------------------------------------
(* Processes                                                                *)

(* The system gives an incarnation an id that is free on its host. *)
CanStart(p) == proc[p] = "idle" /\ Occupants(Host[p], Pid[p]) = {}

(* A command is run by hand. *)
StartCommand(p) ==
  /\ CanStart(p)
  /\ proc' = [proc EXCEPT ![p] = "running"]
  /\ UNCHANGED <<carries, ownerVars, leaseVars, launches, supervisor, unresolved>>

(* The launcher forks the gated child right after it marked the launch. *)
SpawnChild(p, l, c) ==
  /\ Running(p)
  /\ launches[l].by = p
  /\ launches[l].state \notin {"absent", "reserved"}
  /\ \A q \in Proc : carries[q] # l
  /\ CanStart(c)
  /\ Host[c] = Host[p]
  /\ proc' = [proc EXCEPT ![c] = "running"]
  /\ carries' = [carries EXCEPT ![c] = l]
  /\ UNCHANGED <<ownerVars, leaseVars, launches, supervisor, unresolved>>

(* A crash, a kill or a normal exit: memory is lost, the rows stay. *)
Exit(p) ==
  /\ Running(p)
  /\ proc' = [proc EXCEPT ![p] = "exited"]
  /\ authority' = [authority EXCEPT ![p] = NoAdmission]
  /\ leased' = [leased EXCEPT ![p] = NoLease]
  /\ UNCHANGED <<carries, admission, nextToken, lease, sequence, granted,
                 launches, supervisor, unresolved>>

-----------------------------------------------------------------------------
(* Admission                                                                *)

(* A dead owner's reserved launches can no longer be dispatched: they are   *)
(* failed before the row is replaced, and one it dispatched blocks.         *)
RetireReserved(r) ==
  [l \in LaunchId |->
     IF launches[l].run = r /\ launches[l].state = "reserved"
     THEN [launches[l] EXCEPT !.state = "failed"] ELSE launches[l]]

MutReplaceLiveOwner(p) ==
  admission # NoAdmission =>
    ~ \E l \in LaunchId : /\ launches[l].run = admission.run
                          /\ launches[l].state = "dispatching"
CanReplace(p) ==
  admission # NoAdmission =>
    /\ Classify(p, admission.proc) = "dead"
    /\ ~ \E l \in LaunchId : /\ launches[l].run = admission.run
                             /\ launches[l].state = "dispatching"

Grant(p, r) ==
  LET row == [token |-> nextToken, run |-> r, proc |-> p]
  IN  /\ admission' = row
      /\ authority' = [authority EXCEPT ![p] = row]
      /\ nextToken' = nextToken + 1

(* MaxToken bounds acquisitions only: claims are bounded by LaunchId. *)
AcquireAdmission(p, r) ==
  /\ nextToken <= MaxToken
  /\ CanReplace(p)
  /\ launches' = IF admission = NoAdmission THEN launches
                                            ELSE RetireReserved(admission.run)
  /\ Grant(p, r)

MutAcquireOverDispatch(p, r) ==
  /\ Running(p)
  /\ carries[p] = NoLaunch
  /\ LeaseOwnerGone(p)
  /\ SupervisorsGone(p)
  /\ AcquireAdmission(p, r)
  /\ UNCHANGED <<procVars, leaseVars, supervisor, unresolved>>

(* A command that starts work; a child with a launch token claims instead. *)
AcquireBuildAdmission(p, r) ==
  /\ Running(p)
  /\ carries[p] = NoLaunch
  /\ LeaseOwnerGone(p)
  /\ SupervisorsGone(p)
  /\ unresolved = {}
  /\ AcquireAdmission(p, r)
  /\ UNCHANGED <<procVars, leaseVars, supervisor, unresolved>>

(* Recovery of a run may start over that run's own uncertain dispatch. *)
AcquireRecoveryAdmission(p, r) ==
  /\ Running(p)
  /\ carries[p] = NoLaunch
  /\ unresolved \subseteq {r}
  /\ ~ (Authorized(p) /\ authority[p].run = r)
  /\ admission # NoAdmission /\ admission.run # r => unresolved = {}
  /\ LeaseOwnerGone(p)
  /\ SupervisorsGone(p)
  /\ AcquireAdmission(p, r)
  /\ UNCHANGED <<procVars, leaseVars, supervisor, unresolved>>

(* Children this process launched, whatever became of them, have exited.    *)
(* A supervisor waits for its worker's exit before it spawns another.       *)
ChildrenExited(p) ==
  \A c \in Proc : carries[c] # NoLaunch /\ launches[carries[c]].by = p
                    => ~ Running(c)

ReacquireCoordinator(p, r) ==
  /\ Running(p)
  /\ supervisor[r] = p
  /\ ~ Authorized(p)
  /\ ChildrenExited(p)
  /\ AcquireAdmission(p, r)
  /\ UNCHANGED <<procVars, leaseVars, supervisor, unresolved>>

ReleaseBuildAdmission(p) ==
  /\ Authorized(p)
  /\ ~ \E l \in LaunchId : Open(l) /\ launches[l].run = authority[p].run
  /\ admission' = NoAdmission
  /\ authority' = [authority EXCEPT ![p] = NoAdmission]
  /\ UNCHANGED <<procVars, nextToken, leaseVars, launches, supervisor, unresolved>>

-----------------------------------------------------------------------------
(* Launches                                                                 *)

(* The launcher no longer holds the project lease when it hands over. *)
ReserveLaunch(p, l) ==
  /\ Authorized(p)
  /\ admission.run # TrackerRun
  /\ leased[p] = NoLease \/ leased[p] # lease
  /\ launches[l] = NoLaunchRow
  /\ ~ \E k \in LaunchId : Open(k) /\ launches[k].run = authority[p].run
  /\ launches' = [launches EXCEPT ![l] =
                   [state |-> "reserved", run |-> authority[p].run,
                    launcher |-> authority[p].token, by |-> p,
                    child |-> NoProc, acked |-> FALSE]]
  /\ UNCHANGED <<procVars, ownerVars, leaseVars, supervisor, unresolved>>

DispatchLaunch(p, l) ==
  /\ Authorized(p)
  /\ launches[l].state = "reserved"
  /\ launches[l].launcher = authority[p].token
  /\ launches' = [launches EXCEPT ![l].state = "dispatching"]
  /\ UNCHANGED <<procVars, ownerVars, leaseVars, supervisor, unresolved>>

(* The fork itself failed, so there is no child. *)
FailLaunch(p, l) ==
  /\ Authorized(p)
  /\ Open(l)
  /\ launches[l].launcher = authority[p].token
  /\ \A q \in Proc : carries[q] # l
  /\ launches' = [launches EXCEPT ![l].state = "failed"]
  /\ UNCHANGED <<procVars, ownerVars, leaseVars, supervisor, unresolved>>

RegisterChild(c) ==
  LET l == carries[c]
  IN  /\ Running(c)
      /\ l # NoLaunch
      /\ launches[l].state = "dispatching"
      /\ launches[l].child = NoProc
      /\ c \notin Unidentified
      /\ launches' = [launches EXCEPT ![l].child = c]
      /\ UNCHANGED <<procVars, ownerVars, leaseVars, supervisor, unresolved>>

AcknowledgeChild(p, l) ==
  /\ Authorized(p)
  /\ launches[l].state = "dispatching"
  /\ launches[l].launcher = authority[p].token
  /\ launches[l].child # NoProc
  /\ carries[launches[l].child] = l
  /\ ~ launches[l].acked
  /\ Classify(p, launches[l].child) = "live"
  /\ launches' = [launches EXCEPT ![l].acked = TRUE]
  /\ UNCHANGED <<procVars, ownerVars, leaseVars, supervisor, unresolved>>

MutClaimKeepsToken(c) ==
  LET l == carries[c]
  IN  /\ Running(c)
      /\ l # NoLaunch
      /\ launches[l].state = "dispatching"
      /\ admission # NoAdmission
      /\ admission.token = launches[l].launcher
      /\ launches[l].acked
      /\ launches[l].child = c
      /\ launches' = [launches EXCEPT ![l].state = "claimed"]
      /\ admission' = [admission EXCEPT !.proc = c]
      /\ authority' = [authority EXCEPT ![c] = admission']
      /\ UNCHANGED <<procVars, nextToken, leaseVars, supervisor, unresolved>>
MutClaimOnRegistration(c) ==
  LET l == carries[c]
  IN  /\ Running(c)
      /\ l # NoLaunch
      /\ launches[l].state # "claimed"
      /\ admission # NoAdmission
      /\ admission.token = launches[l].launcher
      /\ launches[l].child = c
      /\ launches' = [launches EXCEPT ![l].state = "claimed"]
      /\ Grant(c, admission.run)
      /\ UNCHANGED <<procVars, leaseVars, supervisor, unresolved>>

(* The child replaces the row of its launcher, which may be alive. *)
ClaimLaunch(c) ==
  LET l == carries[c]
  IN  /\ Running(c)
      /\ l # NoLaunch
      /\ launches[l].state = "dispatching"
      /\ admission # NoAdmission
      /\ admission.token = launches[l].launcher
      /\ Host[admission.proc] = Host[c]
      /\ launches[l].acked
      /\ launches[l].child = c
      /\ launches' = [launches EXCEPT ![l].state = "claimed"]
      /\ Grant(c, admission.run)
      /\ UNCHANGED <<procVars, leaseVars, supervisor, unresolved>>

MutRetireUnackedOnly(p, l) ==
  launches[l].state = "reserved" \/ ~ launches[l].acked

(* Nobody can be past the gate of the launch, nor pass it later. *)
SafeToRetire(p, l) ==
  \/ launches[l].state = "reserved"
  \/ ~ launches[l].acked
  \/ launches[l].child # NoProc /\ Classify(p, launches[l].child) = "dead"

ReconcileLaunch(p, l) ==
  /\ Running(p)
  /\ Open(l)
  /\ admission # NoAdmission
  /\ admission.token = launches[l].launcher
  /\ authority[p].token = admission.token \/ Classify(p, admission.proc) = "dead"
  /\ SafeToRetire(p, l)
  /\ launches' = [launches EXCEPT ![l].state = "failed"]
  /\ UNCHANGED <<procVars, ownerVars, leaseVars, supervisor, unresolved>>

-----------------------------------------------------------------------------
(* The project lease                                                        *)

GrantGeneration(p, r, generation) ==
  LET row == [generation |-> generation, run |-> r, proc |-> p]
  IN  /\ generation <= MaxGeneration
      /\ lease' = row
      /\ sequence' = generation
      /\ granted' = [granted EXCEPT ![r] = generation]
      /\ leased' = [leased EXCEPT ![p] = row]

MutGrantLeaseAfterRow(p, r) == GrantGeneration(p, r, lease.generation + 1)
GrantLease(p, r) ==
  GrantGeneration(p, r, (IF sequence > lease.generation
                         THEN sequence ELSE lease.generation) + 1)

(* Once it has reserved a launch the launcher only waits for its child. *)
AcquireLease(p, r) ==
  /\ Running(p)
  /\ \A l \in LaunchId : launches[l].by = p => ~ Open(l)
  /\ \/ admission = NoAdmission
     \/ Authorized(p) /\ admission.run = r
     \/ /\ admission # NoAdmission
        /\ Classify(p, admission.proc) = "dead"
        /\ ~ \E l \in LaunchId : Open(l) /\ launches[l].run = admission.run
  /\ LeaseOwnerGone(p)
  /\ GrantLease(p, r)
  /\ UNCHANGED <<procVars, ownerVars, launches, supervisor, unresolved>>

ReleaseLease(p) ==
  /\ Running(p)
  /\ leased[p] # NoLease
  /\ leased[p] = lease
  /\ lease' = NoLease
  /\ leased' = [leased EXCEPT ![p] = NoLease]
  /\ UNCHANGED <<procVars, ownerVars, sequence, granted, launches, supervisor, unresolved>>

(* A tracker mutation with no build around: lease and admission together,   *)
(* for a run of its own.  It ends with the two releases.                    *)
BeginTrackerMutation(p) ==
  /\ Running(p)
  /\ carries[p] = NoLaunch
  /\ admission = NoAdmission
  /\ SupervisorsGone(p)
  /\ LeaseOwnerGone(p)
  /\ nextToken <= MaxToken
  /\ GrantLease(p, TrackerRun)
  /\ Grant(p, TrackerRun)
  /\ UNCHANGED <<procVars, launches, supervisor, unresolved>>

-----------------------------------------------------------------------------
(* The work that the rows protect                                           *)

StartSupervisor(p) ==
  /\ Authorized(p)
  /\ p \in Supervised
  /\ admission.run # TrackerRun
  /\ SupervisorsGone(p)
  /\ supervisor' = [supervisor EXCEPT ![admission.run] = p]
  /\ UNCHANGED <<procVars, ownerVars, leaseVars, launches, unresolved>>

StopSupervisor(p) ==
  /\ Running(p)
  /\ ChildrenExited(p)
  /\ \E r \in Run : /\ supervisor[r] = p
                    /\ supervisor' = [supervisor EXCEPT ![r] = NoProc]
  /\ UNCHANGED <<procVars, ownerVars, leaseVars, launches, unresolved>>

(* The fence triggers let only the current token write the run's journal. *)
BeginDispatch(p) ==
  /\ Authorized(p)
  /\ admission.run # TrackerRun
  /\ unresolved' = unresolved \cup {admission.run}
  /\ UNCHANGED <<procVars, ownerVars, leaseVars, launches, supervisor>>

SettleDispatch(p) ==
  /\ Authorized(p)
  /\ admission.run \in unresolved
  /\ unresolved' = unresolved \ {admission.run}
  /\ UNCHANGED <<procVars, ownerVars, leaseVars, launches, supervisor>>

-----------------------------------------------------------------------------

ProcStep(p) ==
  \/ StartCommand(p) \/ Exit(p)
  \/ \E r \in Run : \/ AcquireBuildAdmission(p, r)
                    \/ AcquireRecoveryAdmission(p, r)
                    \/ ReacquireCoordinator(p, r)
                    \/ AcquireLease(p, r)
  \/ ReleaseBuildAdmission(p) \/ ReleaseLease(p) \/ BeginTrackerMutation(p)
  \/ StartSupervisor(p) \/ StopSupervisor(p)
  \/ BeginDispatch(p) \/ SettleDispatch(p)
  \/ RegisterChild(p) \/ ClaimLaunch(p)

LaunchStep(p, l) ==
  \/ ReserveLaunch(p, l) \/ DispatchLaunch(p, l) \/ FailLaunch(p, l)
  \/ AcknowledgeChild(p, l) \/ ReconcileLaunch(p, l)
  \/ \E c \in Proc : SpawnChild(p, l, c)

Next ==
  \/ \E p \in Proc : ProcStep(p)
  \/ \E p \in Proc, l \in LaunchId : LaunchStep(p, l)

Spec == Init /\ [][Next]_vars

(* A launcher forks right after it dispatched, or learns that it cannot,    *)
(* answers the child's registration and reconciles on the child's exit.     *)
Launcher(p, l) ==
  \/ DispatchLaunch(p, l) \/ AcknowledgeChild(p, l)
  \/ \E c \in Proc : SpawnChild(p, l, c)
  \/ (\A c \in Proc : CanStart(c) => Host[c] # Host[p]) /\ FailLaunch(p, l)
  \/ /\ \E c \in Proc : carries[c] = l /\ ~ Running(c)
     /\ authority[p].token = launches[l].launcher
     /\ ReconcileLaunch(p, l)

(* A gated child registers and claims; without an answer it times out.      *)
GatedChild(c) ==
  \/ RegisterChild(c) \/ ClaimLaunch(c)
  \/ /\ carries[c] # NoLaunch
     /\ launches[carries[c]].state = "failed" \/ ~ launches[carries[c]].acked
     /\ Exit(c)

FairSpec ==
  /\ Spec
  /\ \A p \in Proc, l \in LaunchId : WF_vars(Launcher(p, l))
  /\ \A c \in Proc : WF_vars(GatedChild(c))

-----------------------------------------------------------------------------
(* What the rows promise                                                    *)

(* Everybody who could get a write past the fence triggers: the holder of   *)
(* the admission's token, or of the lease while there is no admission.      *)
Writers ==
  {p \in Proc : \/ Authorized(p)
                \/ Running(p) /\ admission = NoAdmission
                              /\ lease # NoLease /\ leased[p] = lease}

(* At most one live process can write run data at any moment, and it is the *)
(* one its row names: a token or a generation is never held by two.         *)
SingleWriter ==
  \A p \in Writers : /\ admission # NoAdmission => admission.proc = p
                     /\ admission = NoAdmission => lease.proc = p

(* Every launch that may still produce an owner belongs to the admission    *)
(* that is held now, so no other admission can be replaced under it.        *)
OpenLaunchOwned ==
  \A l \in LaunchId : Open(l) =>
    launches[l].launcher = admission.token /\ launches[l].run = admission.run

(* What makes these true in every reachable state: tokens are never minted  *)
(* twice, a process remembers only rows that named it, a child that has     *)
(* registered is the one that carries the launch.                           *)
TokensMinted ==
  /\ admission.token < nextToken
  /\ \A p \in Proc : authority[p].token < nextToken
  /\ \A l \in LaunchId : launches[l].launcher < nextToken

OwnCopies ==
  \A p \in Proc :
    /\ authority[p] # NoAdmission =>
         /\ Running(p)
         /\ authority[p].proc = p
         /\ authority[p].token = admission.token => authority[p] = admission

LeaseCopies ==
  /\ \A p \in Proc : leased[p] # NoLease => leased[p].proc = p
  /\ \A r \in Run : granted[r] <= sequence

LaunchShape ==
  \A l \in LaunchId :
    /\ Open(l) => launches[l].launcher # 0
    /\ launches[l].acked => launches[l].child # NoProc
    /\ launches[l].child # NoProc =>
         /\ carries[launches[l].child] = l
         /\ launches[l].state \notin {"absent", "reserved"}

OneOpenLaunch ==
  \A k, l \in LaunchId : Open(k) /\ Open(l) => k = l

Born ==
  /\ admission # NoAdmission => proc[admission.proc] # "idle"
  /\ \A c \in Proc : carries[c] # NoLaunch => proc[c] # "idle"

OwnershipInv ==
  /\ TypeOK /\ TokensMinted /\ OwnCopies /\ LaunchShape
  /\ OneOpenLaunch /\ Born /\ OpenLaunchOwned

(* A build and a lease-holding command of two live processes exclude each   *)
(* other: acquireLease looks at the admission, acquireBuildAdmission at the *)
(* lease, and a launcher gives its lease up before it hands over.  Only     *)
(* when no supervisor runs: one that takes the coordinator role again after *)
(* its worker died looks at no lease.                                       *)
LeaseExcludesBuild ==
  /\ admission # NoAdmission /\ lease # NoLease
  /\ Running(admission.proc) /\ Running(lease.proc)
  => admission.proc = lease.proc

(* While one build's provider action may still be running unseen, no other  *)
(* build dispatches one.                                                    *)
DispatchIsolation == Cardinality(unresolved) <= 1

(* Retiring a launch and claiming it exclude each other: whichever comes    *)
(* first is final, however late the child wakes up.                         *)
LaunchSettledOnce ==
  [][\A l \in LaunchId : launches[l].state \in {"claimed", "failed"}
                          => launches'[l].state = launches[l].state]_vars

(* The rows implement the promise of OwnershipHandoff: no live owner is     *)
(* replaced but by the child it acknowledged, and that child is not         *)
(* forgotten, nor anybody else let in, while it may still claim.            *)
Heirs == {launches[l].child : l \in {k \in LaunchId :
            launches[k].state = "dispatching" /\ launches[k].acked}}

Handoff == INSTANCE OwnershipHandoff WITH
  Process <- Proc, None <- NoProc, owner <- admission.proc,
  dead <- {p \in Proc : proc[p] = "exited"}, heirs <- Heirs

ImplementsHandoff == Handoff!Spec

(* While its launcher lives, a launch does not stay open for ever, whatever *)
(* step its child dies at: it is claimed, or retired.                       *)
LaunchSettles ==
  \A l \in LaunchId :
    Open(l) ~> (~ Open(l) \/ ~ Running(launches[l].by))

(* A lease gets a generation above every one a run was ever worked under,   *)
(* over releases and crashes alike, so that none is mistaken for an old one. *)
GenerationsGrow ==
  [][lease' # lease /\ lease' # NoLease
       => \A r \in Run : granted[r] < lease'.generation]_vars
=============================================================================
