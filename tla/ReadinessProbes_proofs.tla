------------------------ MODULE ReadinessProbes_proofs -------------------------
(***************************************************************************)
(* Proofs about the readiness probes of a run, for every number of owners  *)
(* and probes.                                                             *)
(*                                                                         *)
(* The inductive invariant says what is final.  A startup that became      *)
(* authorized or revoked stays so, only an authorized one has processes,   *)
(* and a dead helper stays dead; therefore what a cleanup saw is still     *)
(* true when it is written, although processes went on in between.         *)
(***************************************************************************)
EXTENDS ReadinessProbes, TLAPS

(* Only an authorized probe starts or has processes. *)
AuthorizedOnly ==
  \A p \in Probe :
    provider[p] # {} \/ helper[p] \in {"asserted", "running"}
      => row[p].startup = "authorized"

(* A row that no longer blocks is final, and its processes are gone. *)
ResolvedGone ==
  \A p \in Probe : row[p].quiescent =>
    /\ row[p].startup \in {"authorized", "revoked"}
    /\ row[p].startup = "authorized" => helper[p] = "dead" /\ provider[p] = {}

(* What a cleanup remembers of its row and saw of the processes. *)
Observed(c) ==
  LET p == cleaning[c].probe
  IN  cleaning[c].phase # "idle" =>
        /\ p \in Probe
        /\ cleaning[c].startup \in {"authorized", "revoked"}
        /\ row[p].startup = cleaning[c].startup
        /\ cleaning[c].phase = "ungrouped" =>
             /\ cleaning[c].startup = "authorized"
             /\ helper[p] = "dead" /\ provider[p] \cap Grouped = {}
        /\ cleaning[c].phase = "gone" /\ cleaning[c].startup = "authorized" =>
             helper[p] = "dead" /\ provider[p] = {}

(* At most one row blocks the run, and it is its holder's. *)
OneUnresolved ==
  /\ \A p, q \in readinessProcesses : p = q
  /\ \A p \in readinessProcesses : holder \in alive => holder = row[p].owner

IInv ==
  /\ TypeOK
  /\ AuthorizedOnly
  /\ ResolvedGone
  /\ \A c \in Proc : Observed(c)
  /\ OneUnresolved

-----------------------------------------------------------------------------
(* Types                                                                    *)

LEMMA TypeInit == Init => TypeOK
BY ProbeAssumption DEF Init, TypeOK, NoRow, Idle, Startup, Place, Kind, Grouped

(* A cleanup that goes on to its next phase is still a cleanup.             *)
LEMMA PhaseType ==
  ASSUME NEW K, NEW c, NEW R, NEW S, NEW o \in K, NEW T, NEW phase \in T,
         c \in [K -> [probe: R, startup: S, revision: Nat, phase: T]]
  PROVE  [c EXCEPT ![o].phase = phase] \in [K -> [probe: R, startup: S, revision: Nat, phase: T]]
OBVIOUS

LEMMA TypeNext == TypeOK /\ [Next]_vars => TypeOK'
<1> SUFFICES ASSUME TypeOK, [Next]_vars PROVE TypeOK'
  OBVIOUS
<1> USE DEF TypeOK, NoRow, Idle, Startup, Place, Kind, Grouped
<1>1. ASSUME NEW o \in Proc, AcquireAdmission(o) PROVE TypeOK'
  BY <1>1 DEF AcquireAdmission
<1>2. ASSUME NEW o \in Proc, ReleaseAdmission(o) PROVE TypeOK'
  BY <1>2 DEF ReleaseAdmission
<1>3. ASSUME NEW o \in Proc, Die(o) PROVE TypeOK'
  BY <1>3 DEF Die
<1>4. ASSUME NEW o \in Proc, NEW p \in Probe, beginOwnedPreparationProcess(o, p) PROVE TypeOK'
  BY <1>4 DEF beginOwnedPreparationProcess
<1>5. ASSUME NEW o \in Proc, NEW p \in Probe, SpawnHelper(o, p) PROVE TypeOK'
  BY <1>5 DEF SpawnHelper
<1>6. ASSUME NEW o \in Proc, NEW p \in Probe, authorizeReadinessHelper(o, p) PROVE TypeOK'
  BY <1>6 DEF authorizeReadinessHelper, Revised
<1>7. ASSUME NEW o \in Proc, NEW p \in Probe, revokeReadinessHelper(o, p) PROVE TypeOK'
  BY <1>7 DEF revokeReadinessHelper, Revised
<1>8. ASSUME NEW o \in Proc, NEW p \in Probe, SendAuthorization(o, p) PROVE TypeOK'
  BY <1>8 DEF SendAuthorization
<1>9. ASSUME NEW o \in Proc, NEW p \in Probe, BeginCleanup(o, p) PROVE TypeOK'
  BY <1>9 DEF BeginCleanup, Revised, assertReadinessCleanupOwner
<1>10. ASSUME NEW o \in Proc, Signal(o) PROVE TypeOK'
  BY <1>10 DEF Signal
<1>11. ASSUME NEW o \in Proc, LookAtGroup(o) PROVE TypeOK'
  BY <1>11 DEF LookAtGroup, Phase
<1>12. ASSUME NEW o \in Proc, LookForTag(o) PROVE TypeOK'
  <2>1. PICK phase \in {"looking", "gone"} : cleaning' = [cleaning EXCEPT ![o].phase = phase]
    BY <1>12 DEF LookForTag, Phase
  <2>2. /\ phase \in {"idle", "looking", "ungrouped", "gone", "unknown"}
        /\ cleaning \in [Proc -> [probe: Probe \cup {None}, startup: Startup, revision: Nat,
            phase: {"idle", "looking", "ungrouped", "gone", "unknown"}]]
    OBVIOUS
  <2> HIDE DEF TypeOK, Startup
  <2>3. cleaning' \in [Proc -> [probe: Probe \cup {None}, startup: Startup, revision: Nat,
            phase: {"idle", "looking", "ungrouped", "gone", "unknown"}]]
    BY <2>1, <2>2, PhaseType
  <2>4. QED
    BY <1>12, <2>3 DEF LookForTag, TypeOK
<1>13. ASSUME NEW o \in Proc, MissDeadline(o) PROVE TypeOK'
  BY <1>13 DEF MissDeadline, Phase
<1>14. ASSUME NEW o \in Proc, RecordCleanup(o) PROVE TypeOK'
  <2>1. row' \in [Probe -> [startup: Startup, quiescent: BOOLEAN,
            owner: Proc \cup {None}, revision: Nat]]
    <3>1. (cleaning[o].phase = "gone") \in BOOLEAN
      OBVIOUS
    <3>2. CASE cleaning[o].phase = "gone"
      BY <1>14, <3>1, <3>2 DEF RecordCleanup, readinessProcesses
    <3>3. CASE cleaning[o].phase # "gone"
      BY <1>14, <3>1, <3>3 DEF RecordCleanup, readinessProcesses
    <3>4. QED
      BY <3>2, <3>3
  <2>2. cleaning' \in [Proc -> [probe: Probe \cup {None}, startup: Startup, revision: Nat,
            phase: {"idle", "looking", "ungrouped", "gone", "unknown"}]]
    BY <1>14 DEF RecordCleanup, Phase
  <2>3. probing' \in [Proc -> Probe \cup {None}]
    BY <1>14 DEF RecordCleanup, Phase
  <2>4. QED
    BY <1>14, <2>1, <2>2, <2>3 DEF RecordCleanup
<1>15. ASSUME NEW p \in Probe, registerReadinessHelper(p) PROVE TypeOK'
  BY <1>15 DEF registerReadinessHelper, Revised
<1>16. ASSUME NEW p \in Probe, assertReadinessHelper(p) PROVE TypeOK'
  BY <1>16 DEF assertReadinessHelper
<1>17. ASSUME NEW p \in Probe, SpawnProvider(p) PROVE TypeOK'
  <2>1. provider' \in [Probe -> SUBSET Kind]
    BY <1>17 DEF SpawnProvider, Phase
  <2>2. helper' \in [Probe -> Place]
    BY <1>17 DEF SpawnProvider, Phase
  <2>3. QED
    BY <1>17, <2>1, <2>2 DEF SpawnProvider
<1>18. ASSUME NEW p \in Probe, GiveUp(p) PROVE TypeOK'
  BY <1>18 DEF GiveUp
<1>19. ASSUME NEW p \in Probe, HelperEnds(p) PROVE TypeOK'
  BY <1>19 DEF HelperEnds
<1>20. ASSUME NEW p \in Probe, Fork(p) PROVE TypeOK'
  BY <1>20 DEF Fork
<1>21. ASSUME NEW p \in Probe, ProviderEnds(p) PROVE TypeOK'
  BY <1>21 DEF ProviderEnds
<1>22. CASE UNCHANGED vars
  BY <1>22 DEF vars
<1>23. QED
  BY <1>1, <1>2, <1>3, <1>4, <1>5, <1>6, <1>7, <1>8, <1>9, <1>10, <1>11, <1>12, <1>13, <1>14, <1>15, <1>16, <1>17, <1>18, <1>19, <1>20, <1>21, <1>22 DEF Next, OwnerStep, HelperStep

(* Every variable keeps its type. *)
THEOREM TypeCorrect == Spec => []TypeOK
<1>1. QED
  BY TypeInit, TypeNext, PTL DEF Spec

-----------------------------------------------------------------------------
(* The inductive invariant                                                  *)

LEMMA InvInit == Init => IInv
BY TypeInit DEF Init, IInv, AuthorizedOnly, ResolvedGone, Observed, OneUnresolved,
                readinessProcesses, NoRow, Idle

LEMMA InvNext == IInv /\ [Next]_vars => IInv'
<1> SUFFICES ASSUME IInv, [Next]_vars PROVE IInv'
  OBVIOUS
<1>0. TypeOK /\ TypeOK'
  BY TypeNext DEF IInv
<1> DEFINE Goal == /\ AuthorizedOnly' /\ ResolvedGone'
                   /\ (\A c \in Proc : Observed(c))' /\ OneUnresolved'
<1>1. ASSUME NEW o \in Proc, AcquireAdmission(o) PROVE Goal
  <2>1. AuthorizedOnly'
    BY <1>0, <1>1 DEF IInv, TypeOK, AuthorizedOnly, AcquireAdmission
  <2>2. ResolvedGone'
    BY <1>0, <1>1 DEF IInv, TypeOK, ResolvedGone, AuthorizedOnly, AcquireAdmission
  <2>3. (\A c \in Proc : Observed(c))'
    BY <1>0, <1>1 DEF IInv, TypeOK, Observed, AuthorizedOnly, AcquireAdmission
  <2>4. OneUnresolved'
    BY <1>0, <1>1 DEF IInv, TypeOK, OneUnresolved, readinessProcesses, AuthorizedOnly, ResolvedGone, AcquireAdmission
  <2>5. QED
    BY <2>1, <2>2, <2>3, <2>4
<1>2. ASSUME NEW o \in Proc, ReleaseAdmission(o) PROVE Goal
  <2>1. AuthorizedOnly'
    BY <1>0, <1>2 DEF IInv, TypeOK, AuthorizedOnly, ReleaseAdmission
  <2>2. ResolvedGone'
    BY <1>0, <1>2 DEF IInv, TypeOK, ResolvedGone, AuthorizedOnly, ReleaseAdmission
  <2>3. (\A c \in Proc : Observed(c))'
    BY <1>0, <1>2 DEF IInv, TypeOK, Observed, AuthorizedOnly, ReleaseAdmission
  <2>4. OneUnresolved'
    BY <1>0, <1>2, ProbeAssumption DEF IInv, TypeOK, OneUnresolved, readinessProcesses, AuthorizedOnly, ResolvedGone, ReleaseAdmission
  <2>5. QED
    BY <2>1, <2>2, <2>3, <2>4
<1>3. ASSUME NEW o \in Proc, Die(o) PROVE Goal
  <2>1. AuthorizedOnly'
    BY <1>0, <1>3 DEF IInv, TypeOK, AuthorizedOnly, Die
  <2>2. ResolvedGone'
    BY <1>0, <1>3 DEF IInv, TypeOK, ResolvedGone, AuthorizedOnly, Die
  <2>3. (\A c \in Proc : Observed(c))'
    <3> SUFFICES ASSUME NEW c \in Proc PROVE Observed(c)'
      OBVIOUS
    <3>1. CASE c = o
      BY <1>0, <1>3, <3>1 DEF IInv, TypeOK, Observed, AuthorizedOnly, Die, Idle
    <3>2. CASE c # o
      BY <1>0, <1>3, <3>2 DEF IInv, TypeOK, Observed, AuthorizedOnly, Die, Idle
    <3>3. QED
      BY <3>1, <3>2
  <2>4. OneUnresolved'
    BY <1>0, <1>3 DEF IInv, TypeOK, OneUnresolved, readinessProcesses, AuthorizedOnly, ResolvedGone, Die
  <2>5. QED
    BY <2>1, <2>2, <2>3, <2>4
<1>4. ASSUME NEW o \in Proc, NEW p \in Probe, beginOwnedPreparationProcess(o, p) PROVE Goal
  <2>1. AuthorizedOnly'
    BY <1>0, <1>4 DEF IInv, TypeOK, AuthorizedOnly, beginOwnedPreparationProcess, NoRow
  <2>2. ResolvedGone'
    BY <1>0, <1>4 DEF IInv, TypeOK, ResolvedGone, AuthorizedOnly, beginOwnedPreparationProcess, NoRow
  <2>3. (\A c \in Proc : Observed(c))'
    BY <1>0, <1>4 DEF IInv, TypeOK, Observed, AuthorizedOnly, beginOwnedPreparationProcess, NoRow
  <2>4. OneUnresolved'
    BY <1>0, <1>4 DEF IInv, TypeOK, OneUnresolved, readinessProcesses, AuthorizedOnly, ResolvedGone, beginOwnedPreparationProcess, NoRow
  <2>5. QED
    BY <2>1, <2>2, <2>3, <2>4
<1>5. ASSUME NEW o \in Proc, NEW p \in Probe, SpawnHelper(o, p) PROVE Goal
  <2>1. AuthorizedOnly'
    BY <1>0, <1>5 DEF IInv, TypeOK, AuthorizedOnly, SpawnHelper
  <2>2. ResolvedGone'
    BY <1>0, <1>5 DEF IInv, TypeOK, ResolvedGone, AuthorizedOnly, SpawnHelper
  <2>3. (\A c \in Proc : Observed(c))'
    BY <1>0, <1>5 DEF IInv, TypeOK, Observed, AuthorizedOnly, SpawnHelper
  <2>4. OneUnresolved'
    BY <1>0, <1>5 DEF IInv, TypeOK, OneUnresolved, readinessProcesses, AuthorizedOnly, ResolvedGone, SpawnHelper
  <2>5. QED
    BY <2>1, <2>2, <2>3, <2>4
<1>6. ASSUME NEW o \in Proc, NEW p \in Probe, authorizeReadinessHelper(o, p) PROVE Goal
  <2>1. AuthorizedOnly'
    BY <1>0, <1>6 DEF IInv, TypeOK, AuthorizedOnly, authorizeReadinessHelper, Revised
  <2>2. ResolvedGone'
    BY <1>0, <1>6 DEF IInv, TypeOK, ResolvedGone, AuthorizedOnly, authorizeReadinessHelper, Revised
  <2>3. (\A c \in Proc : Observed(c))'
    BY <1>0, <1>6 DEF IInv, TypeOK, Observed, AuthorizedOnly, authorizeReadinessHelper, Revised
  <2>4. OneUnresolved'
    BY <1>0, <1>6 DEF IInv, TypeOK, OneUnresolved, readinessProcesses, AuthorizedOnly, ResolvedGone, authorizeReadinessHelper, Revised
  <2>5. QED
    BY <2>1, <2>2, <2>3, <2>4
<1>7. ASSUME NEW o \in Proc, NEW p \in Probe, revokeReadinessHelper(o, p) PROVE Goal
  <2>1. AuthorizedOnly'
    BY <1>0, <1>7 DEF IInv, TypeOK, AuthorizedOnly, revokeReadinessHelper, Revised
  <2>2. ResolvedGone'
    BY <1>0, <1>7 DEF IInv, TypeOK, ResolvedGone, AuthorizedOnly, revokeReadinessHelper, Revised
  <2>3. (\A c \in Proc : Observed(c))'
    BY <1>0, <1>7 DEF IInv, TypeOK, Observed, AuthorizedOnly, revokeReadinessHelper, Revised
  <2>4. OneUnresolved'
    BY <1>0, <1>7 DEF IInv, TypeOK, OneUnresolved, readinessProcesses, AuthorizedOnly, ResolvedGone, revokeReadinessHelper, Revised
  <2>5. QED
    BY <2>1, <2>2, <2>3, <2>4
<1>8. ASSUME NEW o \in Proc, NEW p \in Probe, SendAuthorization(o, p) PROVE Goal
  <2>1. AuthorizedOnly'
    BY <1>0, <1>8 DEF IInv, TypeOK, AuthorizedOnly, SendAuthorization
  <2>2. ResolvedGone'
    BY <1>0, <1>8 DEF IInv, TypeOK, ResolvedGone, AuthorizedOnly, SendAuthorization
  <2>3. (\A c \in Proc : Observed(c))'
    BY <1>0, <1>8 DEF IInv, TypeOK, Observed, AuthorizedOnly, SendAuthorization
  <2>4. OneUnresolved'
    BY <1>0, <1>8 DEF IInv, TypeOK, OneUnresolved, readinessProcesses, AuthorizedOnly, ResolvedGone, SendAuthorization
  <2>5. QED
    BY <2>1, <2>2, <2>3, <2>4
<1>9. ASSUME NEW o \in Proc, NEW p \in Probe, BeginCleanup(o, p) PROVE Goal
  <2>1. AuthorizedOnly'
    BY <1>0, <1>9 DEF IInv, TypeOK, AuthorizedOnly, BeginCleanup, Revised, assertReadinessCleanupOwner
  <2>2. ResolvedGone'
    BY <1>0, <1>9 DEF IInv, TypeOK, ResolvedGone, AuthorizedOnly, BeginCleanup, Revised, assertReadinessCleanupOwner
  <2>3. (\A c \in Proc : Observed(c))'
    <3> SUFFICES ASSUME NEW c \in Proc PROVE Observed(c)'
      OBVIOUS
    <3>1. CASE c = o
      <4>1. cleaning'[o] = [probe |-> p, phase |-> "looking", startup |-> row'[p].startup,
                            revision |-> row'[p].revision]
        BY <1>9 DEF IInv, TypeOK, BeginCleanup
      <4>2. row'[p].startup \in {"authorized", "revoked"}
        BY <1>9 DEF IInv, TypeOK, BeginCleanup, Revised, readinessProcesses, Startup
      <4>3. QED
        BY <3>1, <4>1, <4>2 DEF Observed
    <3>2. CASE c # o
      BY <1>0, <1>9, <3>2 DEF IInv, TypeOK, Observed, AuthorizedOnly, BeginCleanup, Idle, Revised, assertReadinessCleanupOwner
    <3>3. QED
      BY <3>1, <3>2
  <2>4. OneUnresolved'
    BY <1>0, <1>9 DEF IInv, TypeOK, OneUnresolved, readinessProcesses, AuthorizedOnly, ResolvedGone, BeginCleanup, Revised, assertReadinessCleanupOwner
  <2>5. QED
    BY <2>1, <2>2, <2>3, <2>4
<1>10. ASSUME NEW o \in Proc, Signal(o) PROVE Goal
  <2>1. AuthorizedOnly'
    BY <1>0, <1>10 DEF IInv, TypeOK, AuthorizedOnly, Signal
  <2>2. ResolvedGone'
    BY <1>0, <1>10 DEF IInv, TypeOK, ResolvedGone, AuthorizedOnly, Signal
  <2>3. (\A c \in Proc : Observed(c))'
    BY <1>0, <1>10 DEF IInv, TypeOK, Observed, AuthorizedOnly, Signal
  <2>4. OneUnresolved'
    BY <1>0, <1>10 DEF IInv, TypeOK, OneUnresolved, readinessProcesses, AuthorizedOnly, ResolvedGone, Signal
  <2>5. QED
    BY <2>1, <2>2, <2>3, <2>4
<1>11. ASSUME NEW o \in Proc, LookAtGroup(o) PROVE Goal
  <2>1. AuthorizedOnly'
    BY <1>0, <1>11 DEF IInv, TypeOK, AuthorizedOnly, LookAtGroup, Phase
  <2>2. ResolvedGone'
    BY <1>0, <1>11 DEF IInv, TypeOK, ResolvedGone, AuthorizedOnly, LookAtGroup, Phase
  <2>3. (\A c \in Proc : Observed(c))'
    <3> SUFFICES ASSUME NEW c \in Proc PROVE Observed(c)'
      OBVIOUS
    <3>1. CASE c = o
      BY <1>0, <1>11, <3>1 DEF IInv, TypeOK, Observed, AuthorizedOnly, LookAtGroup, Idle, Phase
    <3>2. CASE c # o
      BY <1>0, <1>11, <3>2 DEF IInv, TypeOK, Observed, AuthorizedOnly, LookAtGroup, Idle, Phase
    <3>3. QED
      BY <3>1, <3>2
  <2>4. OneUnresolved'
    BY <1>0, <1>11 DEF IInv, TypeOK, OneUnresolved, readinessProcesses, AuthorizedOnly, ResolvedGone, LookAtGroup, Phase
  <2>5. QED
    BY <2>1, <2>2, <2>3, <2>4
<1>12. ASSUME NEW o \in Proc, LookForTag(o) PROVE Goal
  <2>1. AuthorizedOnly'
    BY <1>0, <1>12 DEF IInv, TypeOK, AuthorizedOnly, LookForTag, Phase
  <2>2. ResolvedGone'
    BY <1>0, <1>12 DEF IInv, TypeOK, ResolvedGone, AuthorizedOnly, LookForTag, Phase
  <2>3. (\A c \in Proc : Observed(c))'
    <3> SUFFICES ASSUME NEW c \in Proc PROVE Observed(c)'
      OBVIOUS
    <3>1. CASE c = o
      <4>1. CASE "escaped" \in provider[cleaning[o].probe]
        BY <1>0, <1>12, <3>1, <4>1 DEF IInv, TypeOK, Observed, LookForTag, Phase
      <4>2. CASE "escaped" \notin provider[cleaning[o].probe]
        <5>1. provider[cleaning[o].probe] = {}
          BY <1>12, <4>2 DEF IInv, TypeOK, Observed, LookForTag, Kind, Grouped
        <5>2. cleaning'[o] = [cleaning[o] EXCEPT !.phase = "gone"]
          BY <1>12, <4>2 DEF IInv, TypeOK, LookForTag, Phase
        <5>3. QED
          BY <1>12, <3>1, <5>1, <5>2 DEF IInv, TypeOK, Observed, LookForTag
      <4>3. QED
        BY <4>1, <4>2
    <3>2. CASE c # o
      BY <1>0, <1>12, <3>2 DEF IInv, TypeOK, Observed, AuthorizedOnly, LookForTag, Idle, Phase
    <3>3. QED
      BY <3>1, <3>2
  <2>4. OneUnresolved'
    BY <1>0, <1>12 DEF IInv, TypeOK, OneUnresolved, readinessProcesses, AuthorizedOnly, ResolvedGone, LookForTag, Phase
  <2>5. QED
    BY <2>1, <2>2, <2>3, <2>4
<1>13. ASSUME NEW o \in Proc, MissDeadline(o) PROVE Goal
  <2>1. AuthorizedOnly'
    BY <1>0, <1>13 DEF IInv, TypeOK, AuthorizedOnly, MissDeadline, Phase
  <2>2. ResolvedGone'
    BY <1>0, <1>13 DEF IInv, TypeOK, ResolvedGone, AuthorizedOnly, MissDeadline, Phase
  <2>3. (\A c \in Proc : Observed(c))'
    BY <1>0, <1>13 DEF IInv, TypeOK, Observed, AuthorizedOnly, MissDeadline, Phase
  <2>4. OneUnresolved'
    BY <1>0, <1>13 DEF IInv, TypeOK, OneUnresolved, readinessProcesses, AuthorizedOnly, ResolvedGone, MissDeadline, Phase
  <2>5. QED
    BY <2>1, <2>2, <2>3, <2>4
<1>14. ASSUME NEW o \in Proc, RecordCleanup(o) PROVE Goal
  <2>1. AuthorizedOnly'
    BY <1>0, <1>14 DEF IInv, TypeOK, AuthorizedOnly, RecordCleanup, assertReadinessCleanupOwner
  <2>2. ResolvedGone'
    BY <1>0, <1>14 DEF IInv, TypeOK, ResolvedGone, AuthorizedOnly, RecordCleanup, assertReadinessCleanupOwner
  <2>3. (\A c \in Proc : Observed(c))'
    <3> SUFFICES ASSUME NEW c \in Proc PROVE Observed(c)'
      OBVIOUS
    <3>1. CASE c = o
      BY <1>0, <1>14, <3>1 DEF IInv, TypeOK, Observed, AuthorizedOnly, RecordCleanup, Idle, assertReadinessCleanupOwner
    <3>2. CASE c # o
      BY <1>0, <1>14, <3>2 DEF IInv, TypeOK, Observed, AuthorizedOnly, RecordCleanup, Idle, assertReadinessCleanupOwner
    <3>3. QED
      BY <3>1, <3>2
  <2>4. OneUnresolved'
    BY <1>0, <1>14 DEF IInv, TypeOK, OneUnresolved, readinessProcesses, AuthorizedOnly, ResolvedGone, RecordCleanup, assertReadinessCleanupOwner
  <2>5. QED
    BY <2>1, <2>2, <2>3, <2>4
<1>15. ASSUME NEW p \in Probe, registerReadinessHelper(p) PROVE Goal
  <2>1. AuthorizedOnly'
    BY <1>0, <1>15 DEF IInv, TypeOK, AuthorizedOnly, registerReadinessHelper, Revised
  <2>2. ResolvedGone'
    BY <1>0, <1>15 DEF IInv, TypeOK, ResolvedGone, AuthorizedOnly, registerReadinessHelper, Revised
  <2>3. (\A c \in Proc : Observed(c))'
    BY <1>0, <1>15 DEF IInv, TypeOK, Observed, AuthorizedOnly, registerReadinessHelper, Revised
  <2>4. OneUnresolved'
    BY <1>0, <1>15 DEF IInv, TypeOK, OneUnresolved, readinessProcesses, AuthorizedOnly, ResolvedGone, registerReadinessHelper, Revised
  <2>5. QED
    BY <2>1, <2>2, <2>3, <2>4
<1>16. ASSUME NEW p \in Probe, assertReadinessHelper(p) PROVE Goal
  <2>1. AuthorizedOnly'
    BY <1>0, <1>16 DEF IInv, TypeOK, AuthorizedOnly, assertReadinessHelper
  <2>2. ResolvedGone'
    BY <1>0, <1>16 DEF IInv, TypeOK, ResolvedGone, AuthorizedOnly, assertReadinessHelper
  <2>3. (\A c \in Proc : Observed(c))'
    BY <1>0, <1>16 DEF IInv, TypeOK, Observed, AuthorizedOnly, assertReadinessHelper
  <2>4. OneUnresolved'
    BY <1>0, <1>16 DEF IInv, TypeOK, OneUnresolved, readinessProcesses, AuthorizedOnly, ResolvedGone, assertReadinessHelper
  <2>5. QED
    BY <2>1, <2>2, <2>3, <2>4
<1>17. ASSUME NEW p \in Probe, SpawnProvider(p) PROVE Goal
  <2>1. AuthorizedOnly'
    BY <1>0, <1>17 DEF IInv, TypeOK, AuthorizedOnly, SpawnProvider
  <2>2. ResolvedGone'
    BY <1>0, <1>17 DEF IInv, TypeOK, ResolvedGone, AuthorizedOnly, SpawnProvider
  <2>3. (\A c \in Proc : Observed(c))'
    BY <1>0, <1>17 DEF IInv, TypeOK, Observed, AuthorizedOnly, SpawnProvider
  <2>4. OneUnresolved'
    BY <1>0, <1>17 DEF IInv, TypeOK, OneUnresolved, readinessProcesses, AuthorizedOnly, ResolvedGone, SpawnProvider
  <2>5. QED
    BY <2>1, <2>2, <2>3, <2>4
<1>18. ASSUME NEW p \in Probe, GiveUp(p) PROVE Goal
  <2>1. AuthorizedOnly'
    BY <1>0, <1>18 DEF IInv, TypeOK, AuthorizedOnly, GiveUp
  <2>2. ResolvedGone'
    BY <1>0, <1>18 DEF IInv, TypeOK, ResolvedGone, AuthorizedOnly, GiveUp
  <2>3. (\A c \in Proc : Observed(c))'
    BY <1>0, <1>18 DEF IInv, TypeOK, Observed, AuthorizedOnly, GiveUp
  <2>4. OneUnresolved'
    BY <1>0, <1>18 DEF IInv, TypeOK, OneUnresolved, readinessProcesses, AuthorizedOnly, ResolvedGone, GiveUp
  <2>5. QED
    BY <2>1, <2>2, <2>3, <2>4
<1>19. ASSUME NEW p \in Probe, HelperEnds(p) PROVE Goal
  <2>1. AuthorizedOnly'
    BY <1>0, <1>19 DEF IInv, TypeOK, AuthorizedOnly, HelperEnds
  <2>2. ResolvedGone'
    BY <1>0, <1>19 DEF IInv, TypeOK, ResolvedGone, AuthorizedOnly, HelperEnds
  <2>3. (\A c \in Proc : Observed(c))'
    BY <1>0, <1>19 DEF IInv, TypeOK, Observed, AuthorizedOnly, HelperEnds
  <2>4. OneUnresolved'
    BY <1>0, <1>19 DEF IInv, TypeOK, OneUnresolved, readinessProcesses, AuthorizedOnly, ResolvedGone, HelperEnds
  <2>5. QED
    BY <2>1, <2>2, <2>3, <2>4
<1>20. ASSUME NEW p \in Probe, Fork(p) PROVE Goal
  <2>1. AuthorizedOnly'
    BY <1>0, <1>20 DEF IInv, TypeOK, AuthorizedOnly, Fork, Grouped
  <2>2. ResolvedGone'
    BY <1>0, <1>20 DEF IInv, TypeOK, ResolvedGone, AuthorizedOnly, Fork, Grouped
  <2>3. (\A c \in Proc : Observed(c))'
    BY <1>0, <1>20 DEF IInv, TypeOK, Observed, AuthorizedOnly, Fork, Grouped
  <2>4. OneUnresolved'
    BY <1>0, <1>20 DEF IInv, TypeOK, OneUnresolved, readinessProcesses, AuthorizedOnly, ResolvedGone, Fork, Grouped
  <2>5. QED
    BY <2>1, <2>2, <2>3, <2>4
<1>21. ASSUME NEW p \in Probe, ProviderEnds(p) PROVE Goal
  <2>1. AuthorizedOnly'
    BY <1>0, <1>21 DEF IInv, TypeOK, AuthorizedOnly, ProviderEnds
  <2>2. ResolvedGone'
    BY <1>0, <1>21 DEF IInv, TypeOK, ResolvedGone, AuthorizedOnly, ProviderEnds
  <2>3. (\A c \in Proc : Observed(c))'
    BY <1>0, <1>21 DEF IInv, TypeOK, Observed, AuthorizedOnly, ProviderEnds
  <2>4. OneUnresolved'
    BY <1>0, <1>21 DEF IInv, TypeOK, OneUnresolved, readinessProcesses, AuthorizedOnly, ResolvedGone, ProviderEnds
  <2>5. QED
    BY <2>1, <2>2, <2>3, <2>4
<1>22. CASE UNCHANGED vars
  BY <1>22 DEF vars, IInv, TypeOK, AuthorizedOnly, ResolvedGone, Observed, OneUnresolved,
               readinessProcesses
<1>23. QED
  BY <1>0, <1>1, <1>2, <1>3, <1>4, <1>5, <1>6, <1>7, <1>8, <1>9, <1>10, <1>11, <1>12, <1>13, <1>14, <1>15, <1>16, <1>17, <1>18, <1>19, <1>20, <1>21, <1>22 DEF Next, OwnerStep, HelperStep, IInv

LEMMA Inductive == Spec => []IInv
<1>1. QED
  BY InvInit, InvNext, PTL DEF Spec

-----------------------------------------------------------------------------
(* What it gives                                                            *)

(* No process of a probe outlives the row that blocks the run, and its      *)
(* helper can start none afterwards (finishing and reconciling a probe).    *)
THEOREM QuiescentProbesAreGone == Spec => []QuiescentMeansGone
<1>1. IInv => QuiescentMeansGone
  BY DEF IInv, ResolvedGone, AuthorizedOnly, QuiescentMeansGone
<1>2. QED
  BY <1>1, Inductive, PTL

(* A helper whose capability was revoked never starts a provider, however   *)
(* its registration, its timer and the messages of its owner interleave.    *)
THEOREM RevokedHelpersStayInert == Spec => []RevokedNeverRuns
<1>1. IInv => RevokedNeverRuns
  BY DEF IInv, AuthorizedOnly, RevokedNeverRuns
<1>2. QED
  BY <1>1, Inductive, PTL

(* Providers of two probes of a run never run side by side.                 *)
THEOREM ProbesAreSequential == Spec => []OneProbeAtATime
<1>1. IInv => OneProbeAtATime
  BY DEF IInv, AuthorizedOnly, ResolvedGone, OneUnresolved, readinessProcesses,
         OneProbeAtATime
<1>2. QED
  BY <1>1, Inductive, PTL

(* A successor of the build works beside no provider of its predecessor.    *)
THEOREM SuccessorsWorkAlone == Spec => []SuccessorAlone
<1>1. IInv => SuccessorAlone
  BY DEF IInv, AuthorizedOnly, ResolvedGone, OneUnresolved, readinessProcesses,
         SuccessorAlone
<1>2. QED
  BY <1>1, Inductive, PTL
=============================================================================
