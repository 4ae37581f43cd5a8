---------------------------- MODULE ReadinessProbes ----------------------------
(***************************************************************************)
(* The readiness probes of one run: provider programs started before any   *)
(* work, to see whether they answer, and the proof that they are gone.     *)
(*                                                                         *)
(* A probe is a row of build_owned_processes, a helper process forked by   *)
(* the owner of the build, and what that helper starts: a provider with    *)
(* descendants that leave its process group but keep its environment tag,  *)
(* or stay in the group and drop the tag.  The row's startup says whether  *)
(* the helper may still start a provider, and a row that is not quiescent  *)
(* blocks the next probe, dispatch and owner of the run.                   *)
(*                                                                         *)
(* Whoever cleans reads a row in one transaction, signals and looks at     *)
(* processes for a while, and writes in another what it saw.               *)
(***************************************************************************)
EXTENDS Naturals, FiniteSets

CONSTANTS
  Proc,      \* processes that own a build or clean up after one
  Probe,     \* probe ids
  None,
  MaxCleanup \* bound on the cleanups begun for one row

ASSUME ProbeAssumption == None \notin Proc /\ MaxCleanup \in Nat

VARIABLES
  alive,    \* processes that run
  holder,   \* the process that holds the build admission
  row,      \* the rows of build_owned_processes
  helper,   \* the helper process of each probe
  provider, \* what each helper started and still runs: kinds of processes
  acked,    \* probes whose helper was sent its authorization
  probing,  \* the probe each process waits for
  cleaning  \* the cleanup each process is in

vars == <<alive, holder, row, helper, provider, acked, probing, cleaning>>

-----------------------------------------------------------------------------

Startup  == {"absent", "intended", "registered", "authorized", "revoked"}
Place    == {"none", "starting", "waiting", "asserted", "running", "dead"}
Grouped  == {"provider", "scrubbed"}  \* in the process group of the helper
Kind     == Grouped \cup {"escaped"}  \* out of the group, with the tag

NoRow  == [startup |-> "absent", quiescent |-> FALSE, owner |-> None, revision |-> 0]
Idle   == [probe |-> None, phase |-> "idle", startup |-> "absent", revision |-> 0]

TypeOK ==
  /\ alive \subseteq Proc
  /\ holder \in Proc \cup {None}
  /\ row \in [Probe -> [startup: Startup, quiescent: BOOLEAN,
                        owner: Proc \cup {None}, revision: Nat]]
  /\ helper \in [Probe -> Place]
  /\ provider \in [Probe -> SUBSET Kind]
  /\ acked \subseteq Probe
  /\ probing \in [Proc -> Probe \cup {None}]
  /\ cleaning \in [Proc -> [probe: Probe \cup {None}, startup: Startup, revision: Nat,
                            phase: {"idle", "looking", "ungrouped", "gone", "unknown"}]]

Init ==
  /\ alive = Proc
  /\ holder = None
  /\ row = [p \in Probe |-> NoRow]
  /\ helper = [p \in Probe |-> "none"]
  /\ provider = [p \in Probe |-> {}]
  /\ acked = {}
  /\ probing = [o \in Proc |-> None]
  /\ cleaning = [o \in Proc |-> Idle]

readinessProcesses == {p \in Probe : row[p].startup # "absent" /\ ~ row[p].quiescent}

Revised(p, startup) ==
  [row EXCEPT ![p].startup = startup, ![p].revision = @ + 1]

-----------------------------------------------------------------------------
(* Ownership of the run                                                     *)

MutAcquireAdmission(o) ==
  /\ o \in alive
  /\ holder \notin alive
  /\ holder' = o
  /\ UNCHANGED <<alive, row, helper, provider, acked, probing, cleaning>>

(* A build is not acquired over probes nobody proved gone. *)
AcquireAdmission(o) ==
  /\ o \in alive
  /\ holder \notin alive
  /\ readinessProcesses = {}
  /\ holder' = o
  /\ UNCHANGED <<alive, row, helper, provider, acked, probing, cleaning>>

(* A command that ends with a probe left unverified keeps it and dies. *)
ReleaseAdmission(o) ==
  /\ o \in alive /\ holder = o
  /\ probing[o] = None /\ cleaning[o] = Idle
  /\ readinessProcesses = {}
  /\ holder' = None
  /\ UNCHANGED <<alive, row, helper, provider, acked, probing, cleaning>>

Die(o) ==
  /\ o \in alive
  /\ alive' = alive \ {o}
  /\ probing' = [probing EXCEPT ![o] = None]
  /\ cleaning' = [cleaning EXCEPT ![o] = Idle]
  /\ UNCHANGED <<holder, row, helper, provider, acked>>

-----------------------------------------------------------------------------
(* Starting a probe                                                         *)

MutBeginBesideProbe(o, p) ==
  /\ o \in alive /\ holder = o
  /\ probing[o] = None /\ cleaning[o] = Idle
  /\ row[p].startup = "absent"
  /\ row' = [row EXCEPT ![p] = [NoRow EXCEPT !.startup = "intended", !.owner = o]]
  /\ probing' = [probing EXCEPT ![o] = p]
  /\ UNCHANGED <<alive, holder, helper, provider, acked, cleaning>>

beginOwnedPreparationProcess(o, p) ==
  /\ o \in alive /\ holder = o
  /\ probing[o] = None /\ cleaning[o] = Idle
  /\ row[p].startup = "absent"
  /\ readinessProcesses = {}
  /\ row' = [row EXCEPT ![p] = [NoRow EXCEPT !.startup = "intended", !.owner = o]]
  /\ probing' = [probing EXCEPT ![o] = p]
  /\ UNCHANGED <<alive, holder, helper, provider, acked, cleaning>>

SpawnHelper(o, p) ==
  /\ o \in alive /\ probing[o] = p
  /\ helper[p] = "none"
  /\ helper' = [helper EXCEPT ![p] = "starting"]
  /\ UNCHANGED <<alive, holder, row, provider, acked, probing, cleaning>>

(* The helper writes who it is, or is refused and ends. *)
registerReadinessHelper(p) ==
  /\ helper[p] = "starting"
  /\ IF p \in readinessProcesses /\ row[p].startup = "intended"
     THEN row' = Revised(p, "registered") /\ helper' = [helper EXCEPT ![p] = "waiting"]
     ELSE row' = row /\ helper' = [helper EXCEPT ![p] = "dead"]
  /\ UNCHANGED <<alive, holder, provider, acked, probing, cleaning>>

(* Its owner hears of it while it waits for the probe, and lets it go on;   *)
(* the owner may die before it has said so.                                 *)
authorizeReadinessHelper(o, p) ==
  /\ o \in alive /\ holder = o /\ probing[o] = p /\ cleaning[o] = Idle
  /\ p \in readinessProcesses /\ row[p].owner = o
  /\ row[p].startup = "registered" /\ helper[p] = "waiting"
  /\ row' = Revised(p, "authorized")
  /\ UNCHANGED <<alive, holder, helper, provider, acked, probing, cleaning>>

(* A probe that was cancelled or timed out meanwhile is refused instead. *)
revokeReadinessHelper(o, p) ==
  /\ o \in alive /\ holder = o /\ probing[o] = p /\ cleaning[o] = Idle
  /\ p \in readinessProcesses /\ row[p].owner = o
  /\ row[p].startup = "registered" /\ helper[p] = "waiting"
  /\ row' = Revised(p, "revoked")
  /\ helper' = [helper EXCEPT ![p] = "dead"]
  /\ UNCHANGED <<alive, holder, provider, acked, probing, cleaning>>

SendAuthorization(o, p) ==
  /\ o \in alive /\ probing[o] = p
  /\ row[p].startup = "authorized" /\ cleaning[o] = Idle
  /\ p \notin acked
  /\ acked' = acked \cup {p}
  /\ UNCHANGED <<alive, holder, row, helper, provider, probing, cleaning>>

(* After the message the helper asks the database once more. *)
assertReadinessHelper(p) ==
  /\ helper[p] = "waiting" /\ p \in acked
  /\ helper' = [helper EXCEPT ![p] =
       IF p \in readinessProcesses /\ row[p].startup = "authorized"
       THEN "asserted" ELSE "dead"]
  /\ UNCHANGED <<alive, holder, row, provider, acked, probing, cleaning>>

SpawnProvider(p) ==
  /\ helper[p] = "asserted"
  /\ \/ /\ helper' = [helper EXCEPT ![p] = "running"]
        /\ provider' = [provider EXCEPT ![p] = {"provider"}]
     \/ helper' = [helper EXCEPT ![p] = "dead"] /\ UNCHANGED provider
  /\ UNCHANGED <<alive, holder, row, acked, probing, cleaning>>

Fork(p) ==
  /\ provider[p] # {}
  /\ \E kind \in {"scrubbed", "escaped"} :
       /\ kind = "scrubbed" => provider[p] \cap Grouped # {}
       /\ kind = "escaped" => provider[p] \cap {"provider", "escaped"} # {}
       /\ provider' = [provider EXCEPT ![p] = @ \cup {kind}]
  /\ UNCHANGED <<alive, holder, row, helper, acked, probing, cleaning>>

ProviderEnds(p) ==
  /\ \E kind \in provider[p] : provider' = [provider EXCEPT ![p] = @ \ {kind}]
  /\ UNCHANGED <<alive, holder, row, helper, acked, probing, cleaning>>

MutGiveUpWithOwner(p) ==
  /\ helper[p] \in {"starting", "waiting"}
  /\ row[p].owner \notin alive
  /\ helper' = [helper EXCEPT ![p] = "dead"]
  /\ UNCHANGED <<alive, holder, row, provider, acked, probing, cleaning>>

(* Startup times out after ten seconds, or the owner is gone. *)
GiveUp(p) ==
  /\ helper[p] \in {"starting", "waiting"}
  /\ helper' = [helper EXCEPT ![p] = "dead"]
  /\ UNCHANGED <<alive, holder, row, provider, acked, probing, cleaning>>

(* A helper whose provider ended stays the leader of its group until its    *)
(* owner is done with it, or is gone; a killed one leaves its group behind. *)
HelperEnds(p) ==
  /\ helper[p] \in {"asserted", "running"}
  /\ helper' = [helper EXCEPT ![p] = "dead"]
  /\ UNCHANGED <<alive, holder, row, provider, acked, probing, cleaning>>

-----------------------------------------------------------------------------
(* Cleaning up                                                              *)

(* The owner itself while it holds the build; anyone once it is dead. *)
assertReadinessCleanupOwner(c, p) ==
  \/ row[p].owner = c /\ holder = c
  \/ row[p].owner \notin alive

(* A helper that was not authorized loses the right to start anything, in   *)
(* the transaction that begins the cleanup.                                 *)
MutRevokeAnything(c, p) ==
  /\ c \in alive /\ cleaning[c] = Idle /\ probing[c] \in {None, p}
  /\ p \in readinessProcesses
  /\ row[p].revision < MaxCleanup + 3
  /\ assertReadinessCleanupOwner(c, p)
  /\ row' = Revised(p, "revoked")
  /\ cleaning' = [cleaning EXCEPT ![c] =
       [probe |-> p, phase |-> "looking", startup |-> row'[p].startup,
        revision |-> row'[p].revision]]
  /\ UNCHANGED <<alive, holder, helper, provider, acked, probing>>

BeginCleanup(c, p) ==
  /\ c \in alive /\ cleaning[c] = Idle /\ probing[c] \in {None, p}
  /\ p \in readinessProcesses
  /\ row[p].revision < MaxCleanup + 3
  /\ assertReadinessCleanupOwner(c, p)
  /\ row' = IF row[p].startup \in {"intended", "registered"}
            THEN Revised(p, "revoked") ELSE row
  /\ cleaning' = [cleaning EXCEPT ![c] =
       [probe |-> p, phase |-> "looking", startup |-> row'[p].startup,
        revision |-> row'[p].revision]]
  /\ UNCHANGED <<alive, holder, helper, provider, acked, probing>>

(* Terminate, and in the end kill, what can still be identified: the group  *)
(* while its leader lives, and whatever carries the tag.                    *)
Signal(c) ==
  LET p == cleaning[c].probe
  IN  /\ cleaning[c].phase = "looking" /\ cleaning[c].startup = "authorized"
      /\ \/ /\ \E kind \in provider[p] :
                /\ kind = "scrubbed" => helper[p] # "dead"
                /\ provider' = [provider EXCEPT ![p] = @ \ {kind}]
            /\ UNCHANGED helper
         \/ /\ helper[p] # "dead"
            /\ helper' = [helper EXCEPT ![p] = "dead"]
            /\ UNCHANGED provider
      /\ UNCHANGED <<alive, holder, row, acked, probing, cleaning>>

Phase(c, phase) == cleaning' = [cleaning EXCEPT ![c].phase = phase]

MutLookAtHelperOnly(c) ==
  LET p == cleaning[c].probe
  IN  /\ cleaning[c].phase = "looking"
      /\ \/ cleaning[c].startup = "revoked" /\ Phase(c, "gone")
         \/ /\ cleaning[c].startup = "authorized"
            /\ helper[p] = "dead"
            /\ Phase(c, "ungrouped")
      /\ UNCHANGED <<alive, holder, row, helper, provider, acked, probing>>

(* A revoked row needs no look; an authorized one needs a helper and a      *)
(* process group that are gone, and then an empty inventory of the tag.     *)
LookAtGroup(c) ==
  LET p == cleaning[c].probe
  IN  /\ cleaning[c].phase = "looking"
      /\ \/ cleaning[c].startup = "revoked" /\ Phase(c, "gone")
         \/ /\ cleaning[c].startup = "authorized"
            /\ helper[p] = "dead" /\ provider[p] \cap Grouped = {}
            /\ Phase(c, "ungrouped")
      /\ UNCHANGED <<alive, holder, row, helper, provider, acked, probing>>

LookForTag(c) ==
  LET p == cleaning[c].probe
  IN  /\ cleaning[c].phase = "ungrouped"
      /\ Phase(c, IF "escaped" \in provider[p] THEN "looking" ELSE "gone")
      /\ UNCHANGED <<alive, holder, row, helper, provider, acked, probing>>

(* Five seconds are over, or the inventory cannot be read. *)
MissDeadline(c) ==
  /\ cleaning[c].phase \in {"looking", "ungrouped"}
  /\ Phase(c, "unknown")
  /\ UNCHANGED <<alive, holder, row, helper, provider, acked, probing>>

(* What was seen is written to the row it was seen of, if that row did not  *)
(* change; the owner then ends its wait and lets go of the helper.          *)
RecordCleanup(c) ==
  LET p == cleaning[c].probe
      same == /\ p \in readinessProcesses
              /\ row[p].revision = cleaning[c].revision
              /\ assertReadinessCleanupOwner(c, p)
  IN  /\ cleaning[c].phase \in {"gone", "unknown"}
      /\ row' = IF same
                THEN [row EXCEPT ![p].quiescent = cleaning[c].phase = "gone",
                                 ![p].revision = @ + 1]
                ELSE row
      /\ cleaning' = [cleaning EXCEPT ![c] = Idle]
      /\ probing' = [probing EXCEPT ![c] = None]
      /\ UNCHANGED <<alive, holder, helper, provider, acked>>

-----------------------------------------------------------------------------

HelperStep(p) ==
  \/ registerReadinessHelper(p) \/ assertReadinessHelper(p) \/ SpawnProvider(p)
  \/ GiveUp(p) \/ HelperEnds(p) \/ Fork(p) \/ ProviderEnds(p)

OwnerStep(o) ==
  \/ AcquireAdmission(o) \/ ReleaseAdmission(o) \/ Die(o)
  \/ \E p \in Probe : \/ beginOwnedPreparationProcess(o, p) \/ SpawnHelper(o, p)
                      \/ authorizeReadinessHelper(o, p) \/ SendAuthorization(o, p)
                      \/ revokeReadinessHelper(o, p)
                      \/ BeginCleanup(o, p)
  \/ Signal(o) \/ LookAtGroup(o) \/ LookForTag(o) \/ MissDeadline(o) \/ RecordCleanup(o)

Next ==
  \/ \E p \in Probe : HelperStep(p)
  \/ \E o \in Proc : OwnerStep(o)

Spec == Init /\ [][Next]_vars

(* A helper registers, and leaves its gate by its timer if by nothing else. *)
TimeOut(p) == helper[p] = "waiting" /\ GiveUp(p)

FairSpec ==
  /\ Spec
  /\ \A p \in Probe : WF_vars(registerReadinessHelper(p)) /\ WF_vars(TimeOut(p))

-----------------------------------------------------------------------------
(* Properties                                                               *)

(* A row that stopped blocking the run leaves nothing behind: no process of *)
(* the probe runs, and its helper cannot start one any more, however late   *)
(* the observation was written and whoever made it.                         *)
QuiescentMeansGone ==
  \A p \in Probe : row[p].quiescent =>
    /\ provider[p] = {}
    /\ helper[p] \notin {"asserted", "running"}

(* Providers of two probes never run side by side, over all the owners the  *)
(* run ever had.                                                            *)
OneProbeAtATime ==
  \A p, q \in Probe : provider[p] # {} /\ provider[q] # {} => p = q

(* Revocation and authorization exclude each other for ever. *)
RevokedNeverRuns ==
  \A p \in Probe : row[p].startup = "revoked" =>
    /\ provider[p] = {}
    /\ helper[p] \notin {"asserted", "running"}

(* Whoever acquires the build after another works beside no provider of a   *)
(* probe that its predecessor started, whichever way the predecessor went.  *)
(* A supervisor that takes the role back from its own dead worker does not  *)
(* acquire it this way: NoUnattendedReplay of WorkerSupervisor covers that. *)
SuccessorAlone ==
  \A p \in Probe : holder \in alive /\ holder # row[p].owner => provider[p] = {}

(* No helper stays at its gate for ever. *)
GateOpensOrShuts ==
  \A p \in Probe : helper[p] \in {"starting", "waiting"} ~>
                     helper[p] \notin {"starting", "waiting"}
=============================================================================
