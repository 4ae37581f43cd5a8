------------------------- MODULE BuildAdmission_proofs -------------------------
(***************************************************************************)
(* Theorems about BuildAdmission for every set of processes, runs and      *)
(* launches, whatever hosts and process ids they have.                     *)
(***************************************************************************)
EXTENDS BuildAdmission, FiniteSetTheorems, TLAPS

-----------------------------------------------------------------------------
(* What changing a launch and granting ownership do to the types.           *)

LEMMA StateChange ==
  ASSUME NEW row \in LaunchRow, NEW s \in LaunchState
  PROVE  [row EXCEPT !.state = s] \in LaunchRow
BY SMT DEF LaunchRow

LEMMA AckChange ==
  ASSUME NEW row \in LaunchRow, NEW b \in BOOLEAN
  PROVE  [row EXCEPT !.acked = b] \in LaunchRow
BY SMT DEF LaunchRow

LEMMA GrantTypes ==
  ASSUME TypeOK, NEW p \in Proc, NEW r \in Run, Grant(p, r)
  PROVE  /\ admission' \in AdmissionRow
         /\ authority' \in [Proc -> AdmissionRow \cup {NoAdmission}]
         /\ nextToken' \in Nat \ {0}
<1> DEFINE row == [token |-> nextToken, run |-> r, proc |-> p]
<1>1. row \in AdmissionRow
  BY SMT DEF TypeOK, AdmissionRow
<1>2. admission' = row /\ authority' = [authority EXCEPT ![p] = row] /\ nextToken' = nextToken + 1
  BY DEF Grant
<1> QED
  BY <1>1, <1>2, SMT DEF TypeOK

LEMMA GrantLeaseTypes ==
  ASSUME TypeOK, NEW p \in Proc, NEW r \in Run, GrantLease(p, r)
  PROVE  /\ lease' \in LeaseRow
         /\ sequence' = lease'.generation
         /\ sequence' > sequence
         /\ lease'.proc = p
         /\ granted' = [granted EXCEPT ![r] = sequence']
         /\ leased' = [leased EXCEPT ![p] = lease']
         /\ granted' \in [Run -> Nat]
         /\ leased' \in [Proc -> LeaseRow \cup {NoLease}]
<1> DEFINE base == IF sequence > lease.generation THEN sequence ELSE lease.generation
           generation == base + 1
           row == [generation |-> generation, run |-> r, proc |-> p]
<1>1. lease.generation \in Nat /\ sequence \in Nat
  BY SMT DEF TypeOK, LeaseRow, NoLease
<1>2. generation \in Nat \ {0} /\ generation > sequence
  BY <1>1, SMT
<1>3. row \in LeaseRow /\ row.generation = generation /\ row.proc = p
  BY <1>2, SMT DEF LeaseRow
<1>4. /\ lease' = row /\ sequence' = generation
      /\ granted' = [granted EXCEPT ![r] = generation]
      /\ leased' = [leased EXCEPT ![p] = row]
  BY DEF GrantLease, GrantGeneration
<1>5. /\ granted' \in [Run -> Nat]
      /\ leased' \in [Proc -> LeaseRow \cup {NoLease}]
  BY <1>2, <1>3, <1>4, SMT DEF TypeOK
<1> QED
  BY <1>2, <1>3, <1>4, <1>5

-----------------------------------------------------------------------------
(* Every action keeps the rows well formed: in particular a reconciled      *)
(* launch gets one of the stored states, and tokens are never negative.     *)
LEMMA TypeInit ==
  ASSUME Init PROVE TypeOK
BY ConstantsAssumption, SMT DEF Init, TypeOK, AdmissionRow, NoAdmission, LeaseRow, NoLease,
             LaunchRow, LaunchState, NoLaunchRow

LEMMA TypeStep ==
  ASSUME TypeOK, [Next]_vars PROVE TypeOK'
<1> USE ConstantsAssumption
<1>1. CASE UNCHANGED vars
  BY <1>1, SMT DEF TypeOK, vars, procVars, ownerVars, leaseVars
<1>2. ASSUME NEW p \in Proc, ProcStep(p) PROVE TypeOK'
  <2>0. TypeOK
    OBVIOUS
  <2>1. CASE StartCommand(p)
    BY <2>0, <2>1, SMT DEF TypeOK, StartCommand, ownerVars, leaseVars
  <2>2. CASE Exit(p)
    BY <2>0, <2>2, SMT DEF TypeOK, Exit, AdmissionRow, NoAdmission, LeaseRow, NoLease
  <2>3. ASSUME NEW r \in Run, AcquireAdmission(p, r),
               UNCHANGED <<procVars, leaseVars, supervisor, unresolved>>
        PROVE  TypeOK'
    <3>1. launches' \in [LaunchId -> LaunchRow]
      BY <2>0, <2>3, SMT DEF AcquireAdmission, RetireReserved, TypeOK, LaunchRow, LaunchState
    <3>2. /\ admission' \in AdmissionRow \cup {NoAdmission}
          /\ authority' \in [Proc -> AdmissionRow \cup {NoAdmission}]
          /\ nextToken' \in Nat \ {0}
      BY <2>0, <2>3, SMT DEF AcquireAdmission, Grant, TypeOK, AdmissionRow
    <3> QED
      BY <2>0, <2>3, <3>1, <3>2, SMT DEF TypeOK, procVars, leaseVars
  <2>4. CASE \E r \in Run : AcquireBuildAdmission(p, r)
    BY <2>3, <2>4 DEF AcquireBuildAdmission
  <2>5. CASE \E r \in Run : AcquireRecoveryAdmission(p, r)
    BY <2>3, <2>5 DEF AcquireRecoveryAdmission
  <2>6. CASE \E r \in Run : ReacquireCoordinator(p, r)
    BY <2>3, <2>6 DEF ReacquireCoordinator
  <2>7. CASE \E r \in Run : AcquireLease(p, r)
    <3>1. PICK r \in Run : AcquireLease(p, r)
      BY <2>7
    <3>2. GrantLease(p, r)
      BY <3>1 DEF AcquireLease
    <3> QED
      BY <2>0, <3>1, <3>2, GrantLeaseTypes, SMT DEF TypeOK, AcquireLease, procVars, ownerVars
  <2>8. CASE ReleaseBuildAdmission(p)
    BY <2>0, <2>8, SMT DEF TypeOK, ReleaseBuildAdmission, AdmissionRow, NoAdmission,
         procVars, leaseVars
  <2>9. CASE ReleaseLease(p)
    BY <2>0, <2>9, SMT DEF TypeOK, ReleaseLease, LeaseRow, NoLease, procVars, ownerVars
  <2>10. CASE BeginTrackerMutation(p)
    <3>1. GrantLease(p, TrackerRun) /\ Grant(p, TrackerRun)
      BY <2>10 DEF BeginTrackerMutation
    <3>2. /\ lease' \in LeaseRow /\ sequence' = lease'.generation
          /\ granted' \in [Run -> Nat]
          /\ leased' \in [Proc -> LeaseRow \cup {NoLease}]
      BY <2>0, <3>1, GrantLeaseTypes
    <3>3. sequence' \in Nat
      BY <3>2, SMT DEF LeaseRow
    <3>4. /\ admission' \in AdmissionRow \cup {NoAdmission}
          /\ authority' \in [Proc -> AdmissionRow \cup {NoAdmission}]
          /\ nextToken' \in Nat \ {0}
      BY <2>0, <3>1, GrantTypes
    <3>5. UNCHANGED <<proc, carries, launches, supervisor, unresolved>>
      BY <2>10 DEF BeginTrackerMutation, procVars
    <3> QED
      BY <2>0, <3>2, <3>3, <3>4, <3>5 DEF TypeOK
  <2>11. CASE StartSupervisor(p)
    BY <2>0, <2>11, SMT DEF TypeOK, StartSupervisor, Authorized, AdmissionRow, procVars, ownerVars, leaseVars
  <2>12. CASE StopSupervisor(p)
    BY <2>0, <2>12, SMT DEF TypeOK, StopSupervisor, procVars, ownerVars, leaseVars
  <2>13. CASE BeginDispatch(p)
    BY <2>0, <2>13, SMT DEF TypeOK, BeginDispatch, Authorized, AdmissionRow, NoAdmission,
         procVars, ownerVars, leaseVars
  <2>14. CASE SettleDispatch(p)
    BY <2>0, <2>14, SMT DEF TypeOK, SettleDispatch, procVars, ownerVars, leaseVars
  <2>15. CASE RegisterChild(p)
    BY <2>0, <2>15, SMT DEF TypeOK, RegisterChild, LaunchRow, procVars, ownerVars, leaseVars
  <2>16. CASE ClaimLaunch(p)
    <3> DEFINE l == carries[p]
    <3>1. l \in LaunchId /\ launches[l] \in LaunchRow
      BY <2>0, <2>16 DEF TypeOK, ClaimLaunch
    <3>2. [launches[l] EXCEPT !.state = "claimed"] \in LaunchRow
      BY <3>1, StateChange DEF LaunchState
    <3>3. launches' = [launches EXCEPT ![l] = [launches[l] EXCEPT !.state = "claimed"]]
      BY <2>16 DEF ClaimLaunch
    <3>4. launches' \in [LaunchId -> LaunchRow]
      BY <2>0, <3>1, <3>2, <3>3 DEF TypeOK
    <3>5. Grant(p, admission.run)
      BY <2>16 DEF ClaimLaunch
    <3>6. admission.run \in Run
      BY <2>0, <2>16, <3>1, SMT DEF TypeOK, ClaimLaunch, AdmissionRow, NoAdmission
    <3> QED
      BY <2>0, <2>16, <3>4, <3>5, <3>6, GrantTypes, SMT DEF TypeOK, ClaimLaunch, procVars, leaseVars
  <2> QED
    BY <1>2, <2>1, <2>2, <2>4, <2>5, <2>6, <2>7, <2>8, <2>9, <2>10, <2>11, <2>12,
       <2>13, <2>14, <2>15, <2>16 DEF ProcStep
<1>3. ASSUME NEW p \in Proc, NEW l \in LaunchId, LaunchStep(p, l) PROVE TypeOK'
  <2>0. TypeOK
    OBVIOUS
  <2>1. CASE ReserveLaunch(p, l)
    <3> DEFINE row == [state |-> "reserved", run |-> authority[p].run,
                       launcher |-> authority[p].token, by |-> p,
                       child |-> NoProc, acked |-> FALSE]
    <3>1. authority[p].run \in Run /\ authority[p].token \in Nat
      BY <2>0, <2>1, SMT DEF TypeOK, ReserveLaunch, Authorized, AdmissionRow, NoAdmission
    <3>2. row \in LaunchRow
      BY <3>1, SMT DEF LaunchRow, LaunchState
    <3>3. launches' = [launches EXCEPT ![l] = row]
      BY <2>1 DEF ReserveLaunch
    <3> QED
      BY <2>0, <2>1, <3>2, <3>3, SMT DEF TypeOK, ReserveLaunch, procVars, ownerVars, leaseVars
  <2>2. CASE DispatchLaunch(p, l)
    <3>1. launches[l] \in LaunchRow
      BY <2>0 DEF TypeOK
    <3>2. [launches[l] EXCEPT !.state = "dispatching"] \in LaunchRow
      BY <3>1, StateChange DEF LaunchState
    <3>3. launches' = [launches EXCEPT ![l] = [launches[l] EXCEPT !.state = "dispatching"]]
      BY <2>2 DEF DispatchLaunch
    <3> QED
      BY <2>0, <2>2, <3>2, <3>3, SMT DEF TypeOK, DispatchLaunch, procVars, ownerVars, leaseVars
  <2>3. CASE FailLaunch(p, l)
    <3>1. launches[l] \in LaunchRow
      BY <2>0 DEF TypeOK
    <3>2. [launches[l] EXCEPT !.state = "failed"] \in LaunchRow
      BY <3>1, StateChange DEF LaunchState
    <3>3. launches' = [launches EXCEPT ![l] = [launches[l] EXCEPT !.state = "failed"]]
      BY <2>3 DEF FailLaunch
    <3> QED
      BY <2>0, <2>3, <3>2, <3>3, SMT DEF TypeOK, FailLaunch, procVars, ownerVars, leaseVars
  <2>4. CASE AcknowledgeChild(p, l)
    <3>1. launches[l] \in LaunchRow
      BY <2>0 DEF TypeOK
    <3>2. [launches[l] EXCEPT !.acked = TRUE] \in LaunchRow
      BY <3>1, AckChange, TRUE \in BOOLEAN
    <3>3. launches' = [launches EXCEPT ![l] = [launches[l] EXCEPT !.acked = TRUE]]
      BY <2>4 DEF AcknowledgeChild
    <3> QED
      BY <2>0, <2>4, <3>2, <3>3, SMT DEF TypeOK, AcknowledgeChild, procVars, ownerVars, leaseVars
  <2>5. CASE ReconcileLaunch(p, l)
    <3>1. launches[l] \in LaunchRow
      BY <2>0 DEF TypeOK
    <3>2. [launches[l] EXCEPT !.state = "failed"] \in LaunchRow
      BY <3>1, StateChange DEF LaunchState
    <3>3. launches' = [launches EXCEPT ![l] = [launches[l] EXCEPT !.state = "failed"]]
      BY <2>5 DEF ReconcileLaunch
    <3> QED
      BY <2>0, <2>5, <3>2, <3>3, SMT DEF TypeOK, ReconcileLaunch, procVars, ownerVars, leaseVars
  <2>6. CASE \E c \in Proc : SpawnChild(p, l, c)
    BY <2>0, <2>6, SMT DEF TypeOK, SpawnChild, ownerVars, leaseVars
  <2> QED
    BY <1>3, <2>1, <2>2, <2>3, <2>4, <2>5, <2>6 DEF LaunchStep
<1> QED
  BY <1>1, <1>2, <1>3 DEF Next

(* Every reachable state is well typed, whatever the processes, runs and    *)
(* launches are: no handler of workflowDb.ts stores a half made row.        *)
THEOREM TypeCorrect == Spec => []TypeOK
BY TypeInit, TypeStep, PTL DEF Spec

-----------------------------------------------------------------------------
(* The steps that change who owns the project or may come to own it; all    *)
(* the ways to acquire the admission are one step here.                     *)
OwnershipStep ==
  \/ UNCHANGED <<proc, carries, admission, authority, nextToken, launches>>
  \/ \E p \in Proc :
       \/ StartCommand(p) \/ Exit(p)
       \/ \E r \in Run : /\ Running(p) /\ AcquireAdmission(p, r)
                         /\ UNCHANGED procVars
       \/ ReleaseBuildAdmission(p) \/ RegisterChild(p) \/ ClaimLaunch(p)
  \/ \E p \in Proc, l \in LaunchId : LaunchStep(p, l)

LEMMA StepsOfOwnership ==
  ASSUME [Next]_vars PROVE OwnershipStep
<1>1. CASE UNCHANGED vars
  BY <1>1 DEF vars, procVars, ownerVars, OwnershipStep
<1>2. ASSUME NEW p \in Proc, ProcStep(p) PROVE OwnershipStep
  <2>1. CASE \/ \E r \in Run : AcquireLease(p, r)
             \/ ReleaseLease(p) \/ StartSupervisor(p) \/ StopSupervisor(p)
             \/ BeginDispatch(p) \/ SettleDispatch(p)
    BY <2>1 DEF AcquireLease, ReleaseLease, StartSupervisor, StopSupervisor, BeginDispatch,
         SettleDispatch, procVars, ownerVars, OwnershipStep
  <2>2. CASE BeginTrackerMutation(p)
    <3>1. AcquireAdmission(p, TrackerRun) /\ Running(p) /\ UNCHANGED procVars
      BY <2>2 DEF BeginTrackerMutation, AcquireAdmission, CanReplace
    <3> QED
      BY <3>1, ConstantsAssumption DEF OwnershipStep
  <2>3. CASE \E r \in Run : \/ AcquireBuildAdmission(p, r)
                             \/ AcquireRecoveryAdmission(p, r)
                             \/ ReacquireCoordinator(p, r)
    BY <2>3 DEF AcquireBuildAdmission, AcquireRecoveryAdmission, ReacquireCoordinator,
         procVars, OwnershipStep
  <2>4. CASE \/ StartCommand(p) \/ Exit(p) \/ ReleaseBuildAdmission(p)
             \/ RegisterChild(p) \/ ClaimLaunch(p)
    BY <2>4 DEF OwnershipStep
  <2> QED
    BY <1>2, <2>1, <2>2, <2>3, <2>4 DEF ProcStep
<1>3. ASSUME NEW p \in Proc, NEW l \in LaunchId, LaunchStep(p, l) PROVE OwnershipStep
  BY <1>3 DEF OwnershipStep
<1> QED
  BY <1>1, <1>2, <1>3 DEF Next

(* Which processes another may take for dead: only those that run no more.  *)
LEMMA DeadDoNotRun ==
  ASSUME NEW o \in Proc, NEW p \in Proc, Classify(o, p) = "dead"
  PROVE  ~ Running(p)
BY DEF Classify, Probe, Occupants

LEMMA OwnershipInvInit ==
  ASSUME Init PROVE OwnershipInv
<1>1. TypeOK
  BY TypeInit
<1> QED
  BY <1>1, SMT DEF Init, OwnershipInv, TokensMinted, OwnCopies, LaunchShape, OneOpenLaunch,
     Born, OpenLaunchOwned, Open, NoAdmission, NoLaunchRow, Running

LEMMA OwnershipInvStep ==
  ASSUME OwnershipInv, TypeOK', OwnershipStep
  PROVE  OwnershipInv'
<1> USE ConstantsAssumption DEF OwnershipInv
<1>1. CASE UNCHANGED <<proc, carries, admission, authority, nextToken, launches>>
  BY <1>1 DEF TokensMinted, OwnCopies, LaunchShape, OneOpenLaunch, Born, OpenLaunchOwned,
     Open, Running
<1>2. ASSUME NEW p \in Proc, StartCommand(p) PROVE OwnershipInv'
  BY <1>2, SMT DEF StartCommand, CanStart, ownerVars, leaseVars, TypeOK,
     TokensMinted, OwnCopies, LaunchShape, OneOpenLaunch, Born, OpenLaunchOwned, Open, Running
<1>3. ASSUME NEW p \in Proc, Exit(p) PROVE OwnershipInv'
  BY <1>3, SMT DEF Exit, TypeOK, NoAdmission, AdmissionRow,
     TokensMinted, OwnCopies, LaunchShape, OneOpenLaunch, Born, OpenLaunchOwned, Open, Running
<1>4. ASSUME NEW p \in Proc, ReleaseBuildAdmission(p) PROVE OwnershipInv'
  BY <1>4, SMT DEF ReleaseBuildAdmission, Authorized, procVars, TypeOK, NoAdmission, AdmissionRow,
     TokensMinted, OwnCopies, LaunchShape, OneOpenLaunch, Born, OpenLaunchOwned, Open, Running
<1>5. ASSUME NEW p \in Proc, RegisterChild(p) PROVE OwnershipInv'
  BY <1>5, SMT DEF RegisterChild, procVars, ownerVars, TypeOK, LaunchRow,
     TokensMinted, OwnCopies, LaunchShape, OneOpenLaunch, Born, OpenLaunchOwned, Open, Running
<1>6. ASSUME NEW c \in Proc, ClaimLaunch(c) PROVE OwnershipInv'
  <2> DEFINE l == carries[c]
             row == [token |-> nextToken, run |-> admission.run, proc |-> c]
  <2>1. /\ l \in LaunchId /\ Open(l) /\ Running(c) /\ admission # NoAdmission
        /\ admission \in AdmissionRow /\ admission.run \in Run
        /\ launches[l].run = admission.run
    BY <1>6, SMT DEF ClaimLaunch, TypeOK, Open, OpenLaunchOwned, AdmissionRow
  <2>2. /\ launches' = [launches EXCEPT ![l].state = "claimed"]
        /\ admission' = row
        /\ authority' = [authority EXCEPT ![c] = row]
        /\ nextToken' = nextToken + 1
        /\ proc' = proc /\ carries' = carries
    BY <1>6 DEF ClaimLaunch, Grant, procVars
  <2>3. row # NoAdmission /\ row.token = nextToken /\ row.proc = c /\ row \in AdmissionRow
    BY <2>1, SMT DEF TypeOK, AdmissionRow, NoAdmission
  <2>4. \A k \in LaunchId : /\ launches'[k].launcher = launches[k].launcher
                            /\ launches'[k].child = launches[k].child
                            /\ launches'[k].acked = launches[k].acked
    BY <2>1, <2>2, SMT DEF TypeOK, LaunchRow
  <2>5. \A k \in LaunchId : ~ Open(k)'
    BY <2>1, <2>2, SMT DEF TypeOK, LaunchRow, OneOpenLaunch, Open
  <2>6. nextToken \in Nat
    BY DEF TypeOK
  <2>7. TokensMinted'
    <3>1. \A p \in Proc : authority[p].token \in Nat /\ authority[p].token < nextToken
      BY SMT DEF TokensMinted, TypeOK, AdmissionRow, NoAdmission
    <3>2. \A p \in Proc : authority'[p] \in {authority[p], row}
      BY <2>2 DEF TypeOK
    <3>3. \A p \in Proc : authority'[p].token < nextToken'
      BY <3>1, <3>2, <2>2, <2>3, <2>6, SMT
    <3>4. \A k \in LaunchId : launches'[k].launcher < nextToken'
      BY <2>2, <2>4, <2>6, SMT DEF TokensMinted, TypeOK, LaunchRow
    <3> QED
      BY <3>3, <3>4, <2>2, <2>3, <2>6, SMT DEF TokensMinted
  <2>8. OwnCopies'
    <3> SUFFICES ASSUME NEW p \in Proc, authority'[p] # NoAdmission
                 PROVE  /\ proc'[p] = "running" /\ authority'[p].proc = p
                        /\ authority'[p].token = admission'.token
                             => authority'[p] = admission'
      BY DEF OwnCopies, Running
    <3>1. CASE p = c
      BY <3>1, <2>1, <2>2, <2>3, SMT DEF TypeOK, Running
    <3>2. CASE p # c
      <4>1. authority'[p] = authority[p]
        BY <3>2, <2>2 DEF TypeOK
      <4>2. authority[p].token < nextToken
        BY DEF TokensMinted
      <4>3. authority[p].token \in Nat
        BY SMT DEF TypeOK, AdmissionRow, NoAdmission
      <4> QED
        BY <4>1, <4>2, <4>3, <2>2, <2>3, <2>6, SMT DEF OwnCopies, Running
    <3> QED
      BY <3>1, <3>2
  <2>9. LaunchShape'
    BY <2>2, <2>4, <2>5, SMT DEF LaunchShape
  <2>10. OneOpenLaunch' /\ OpenLaunchOwned'
    BY <2>5 DEF OneOpenLaunch, OpenLaunchOwned
  <2>11. Born'
    BY <2>1, <2>2, <2>3, SMT DEF Born, Running
  <2> QED
    BY <2>7, <2>8, <2>9, <2>10, <2>11
<1>7. ASSUME NEW p \in Proc, NEW r \in Run, Running(p), AcquireAdmission(p, r), UNCHANGED procVars
      PROVE  OwnershipInv'
  BY <1>7, SMT DEF AcquireAdmission, RetireReserved, CanReplace, Grant, procVars, TypeOK,
     LaunchRow, AdmissionRow, NoAdmission,
     TokensMinted, OwnCopies, LaunchShape, OneOpenLaunch, Born, OpenLaunchOwned, Open, Running
<1>8. ASSUME NEW p \in Proc, NEW l \in LaunchId, LaunchStep(p, l) PROVE OwnershipInv'
  <2> USE DEF Open, Running
  <2>1. CASE ReserveLaunch(p, l)
    BY <2>1, SMT DEF ReserveLaunch, Authorized, procVars, ownerVars, TypeOK, LaunchRow, AdmissionRow, NoAdmission,
       TokensMinted, OwnCopies, LaunchShape, OneOpenLaunch, Born, OpenLaunchOwned
  <2>2. CASE DispatchLaunch(p, l)
    BY <2>2, SMT DEF DispatchLaunch, procVars, ownerVars, TypeOK, LaunchRow,
       TokensMinted, OwnCopies, LaunchShape, OneOpenLaunch, Born, OpenLaunchOwned
  <2>3. CASE FailLaunch(p, l)
    BY <2>3, SMT DEF FailLaunch, procVars, ownerVars, TypeOK, LaunchRow,
       TokensMinted, OwnCopies, LaunchShape, OneOpenLaunch, Born, OpenLaunchOwned
  <2>4. CASE AcknowledgeChild(p, l)
    BY <2>4, SMT DEF AcknowledgeChild, procVars, ownerVars, TypeOK, LaunchRow,
       TokensMinted, OwnCopies, LaunchShape, OneOpenLaunch, Born, OpenLaunchOwned
  <2>5. CASE ReconcileLaunch(p, l)
    BY <2>5, SMT DEF ReconcileLaunch, procVars, ownerVars, TypeOK, LaunchRow,
       TokensMinted, OwnCopies, LaunchShape, OneOpenLaunch, Born, OpenLaunchOwned
  <2>6. CASE \E c \in Proc : SpawnChild(p, l, c)
    BY <2>6, SMT DEF SpawnChild, CanStart, ownerVars, TypeOK, LaunchRow,
       TokensMinted, OwnCopies, LaunchShape, OneOpenLaunch, Born, OpenLaunchOwned
  <2> QED
    BY <1>8, <2>1, <2>2, <2>3, <2>4, <2>5, <2>6 DEF LaunchStep
<1> QED
  BY <1>1, <1>2, <1>3, <1>4, <1>5, <1>6, <1>7, <1>8 DEF OwnershipStep

LEMMA OwnershipInvariant == Spec => []OwnershipInv
<1>1. OwnershipInv /\ [Next]_vars => OwnershipInv'
  BY TypeStep, StepsOfOwnership, OwnershipInvStep DEF OwnershipInv
<1> QED
  BY OwnershipInvInit, <1>1, PTL DEF Spec

(* Whatever the interleaving of crashes, acquisitions and claims: a launch  *)
(* that can still produce an owner was made under the admission held now,   *)
(* so no admission is ever replaced under a child that may yet claim it.    *)
THEOREM OpenLaunchesOwned == Spec => []OpenLaunchOwned
BY OwnershipInvariant, PTL DEF OwnershipInv

(* The process that holds the admission, and those that are no more.        *)
Owner  == admission.proc
Exited == {p \in Proc : proc[p] = "exited"}

(* Facts of a state in which p holds the admission.                         *)
LEMMA OwnerAlive ==
  ASSUME OwnershipInv, NEW p \in Proc, Authorized(p)
  PROVE  Owner = p /\ p \notin Exited /\ p # NoProc
BY ConstantsAssumption, SMT DEF OwnershipInv, OwnCopies, Authorized, TypeOK, AdmissionRow,
   NoAdmission, Running, Owner, Exited

-----------------------------------------------------------------------------
(* The lease half: remembered leases name their process, and no run was     *)
(* ever worked under a generation above the sequence.                       *)

LEMMA LeaseCopiesStep ==
  ASSUME TypeOK, LeaseCopies, [Next]_vars
  PROVE  LeaseCopies'
<1> USE DEF LeaseCopies
<1>1. CASE UNCHANGED leaseVars
  BY <1>1 DEF leaseVars
<1>2. ASSUME NEW p \in Proc, NEW r \in Run, GrantLease(p, r) PROVE LeaseCopies'
  BY <1>2, GrantLeaseTypes, SMT DEF TypeOK
<1>3. ASSUME NEW p \in Proc, Exit(p) PROVE LeaseCopies'
  BY <1>3, SMT DEF Exit, TypeOK
<1>4. ASSUME NEW p \in Proc, ReleaseLease(p) PROVE LeaseCopies'
  BY <1>4, SMT DEF ReleaseLease, TypeOK
<1>5. ASSUME NEW p \in Proc, ProcStep(p) PROVE LeaseCopies'
  BY <1>1, <1>2, <1>3, <1>4, <1>5, ConstantsAssumption
     DEF ProcStep, StartCommand, AcquireBuildAdmission, AcquireRecoveryAdmission,
         ReacquireCoordinator, AcquireLease, ReleaseBuildAdmission, BeginTrackerMutation,
         StartSupervisor, StopSupervisor, BeginDispatch, SettleDispatch, RegisterChild, ClaimLaunch
<1>6. ASSUME NEW p \in Proc, NEW l \in LaunchId, LaunchStep(p, l) PROVE LeaseCopies'
  BY <1>1, <1>6 DEF LaunchStep, ReserveLaunch, DispatchLaunch, FailLaunch, AcknowledgeChild,
     ReconcileLaunch, SpawnChild
<1> QED
  BY <1>1, <1>5, <1>6 DEF Next, vars

LEMMA LeaseCopiesInvariant == Spec => []LeaseCopies
<1>1. Init => LeaseCopies
  BY SMT DEF Init, LeaseCopies, NoLease
<1> QED
  BY <1>1, LeaseCopiesStep, TypeCorrect, PTL DEF Spec

(* At most one process can get a write past the fence triggers, and it is   *)
(* the one the row names: two tokens of one value never meet in memory.     *)
THEOREM WritersAreSingle == Spec => []SingleWriter
<1>1. OwnershipInv /\ LeaseCopies => SingleWriter
  BY SMT DEF OwnershipInv, OwnCopies, LeaseCopies, SingleWriter, Writers, Authorized, TypeOK,
     AdmissionRow, NoAdmission
<1> QED
  BY <1>1, OwnershipInvariant, LeaseCopiesInvariant, PTL

(* A lease never gets a generation a run was worked under before, whatever  *)
(* was released, crashed or taken over since.                               *)
THEOREM LeaseGenerationsGrow == Spec => GenerationsGrow
<1> DEFINE Grows == lease' # lease /\ lease' # NoLease
                      => \A r \in Run : granted[r] < lease'.generation
<1>1. ASSUME TypeOK, LeaseCopies, [Next]_vars PROVE [Grows]_vars
  <2>1. CASE lease' \in {lease, NoLease}
    BY <2>1
  <2>2. ASSUME NEW p \in Proc, NEW r \in Run, GrantLease(p, r) PROVE Grows
    BY <1>1, <2>2, GrantLeaseTypes, SMT DEF TypeOK, LeaseCopies
  <2>3. ASSUME NEW p \in Proc, ProcStep(p) PROVE Grows
    BY <2>1, <2>2, <2>3, ConstantsAssumption
       DEF ProcStep, StartCommand, Exit, AcquireBuildAdmission, AcquireRecoveryAdmission,
           ReacquireCoordinator, AcquireLease, ReleaseLease, ReleaseBuildAdmission,
           BeginTrackerMutation, StartSupervisor, StopSupervisor, BeginDispatch, SettleDispatch,
           RegisterChild, ClaimLaunch, leaseVars
  <2>4. ASSUME NEW p \in Proc, NEW l \in LaunchId, LaunchStep(p, l) PROVE Grows
    BY <2>1, <2>4 DEF LaunchStep, ReserveLaunch, DispatchLaunch, FailLaunch, AcknowledgeChild,
       ReconcileLaunch, SpawnChild, leaseVars
  <2> QED
    BY <1>1, <2>1, <2>3, <2>4 DEF Next, vars, leaseVars
<1> QED
  BY <1>1, TypeCorrect, LeaseCopiesInvariant, PTL DEF Spec, GenerationsGrow

(* A launch that was claimed or retired stays so: no handler reopens it,    *)
(* however late its child or its launcher wakes up.                         *)
THEOREM LaunchesSettleOnce == Spec => LaunchSettledOnce
<1> DEFINE Final(l) == launches[l].state \in {"claimed", "failed"}
                         => launches'[l].state = launches[l].state
<1>1. ASSUME TypeOK, OwnershipStep, NEW l \in LaunchId PROVE Final(l)
  <2>1. CASE UNCHANGED launches
    BY <2>1
  <2>2. ASSUME NEW p \in Proc, NEW r \in Run, AcquireAdmission(p, r) PROVE Final(l)
    BY <1>1, <2>2, SMT DEF AcquireAdmission, RetireReserved, TypeOK
  <2>3. ASSUME NEW p \in Proc, RegisterChild(p) \/ ClaimLaunch(p) PROVE Final(l)
    BY <1>1, <2>3, SMT DEF RegisterChild, ClaimLaunch, TypeOK, LaunchRow
  <2>4. ASSUME NEW p \in Proc, NEW k \in LaunchId, LaunchStep(p, k) PROVE Final(l)
    <3>1. CASE ReserveLaunch(p, k)
      BY <1>1, <3>1, SMT DEF ReserveLaunch, TypeOK, NoLaunchRow
    <3>2. CASE DispatchLaunch(p, k)
      BY <1>1, <3>2, SMT DEF DispatchLaunch, TypeOK
    <3>3. CASE FailLaunch(p, k) \/ ReconcileLaunch(p, k)
      BY <1>1, <3>3, SMT DEF FailLaunch, ReconcileLaunch, Open, TypeOK
    <3>4. CASE AcknowledgeChild(p, k)
      BY <1>1, <3>4, SMT DEF AcknowledgeChild, TypeOK, LaunchRow
    <3>5. CASE \E c \in Proc : SpawnChild(p, k, c)
      BY <3>5 DEF SpawnChild
    <3> QED
      BY <2>4, <3>1, <3>2, <3>3, <3>4, <3>5 DEF LaunchStep
  <2> QED
    BY <1>1, <2>1, <2>2, <2>3, <2>4 DEF OwnershipStep, StartCommand, Exit, ReleaseBuildAdmission
<1>2. ASSUME TypeOK, [Next]_vars PROVE [\A l \in LaunchId : Final(l)]_vars
  BY <1>1, <1>2, StepsOfOwnership
<1> QED
  BY <1>2, TypeCorrect, PTL DEF Spec, LaunchSettledOnce

-----------------------------------------------------------------------------
(* A provider action that may still be running belongs to the build that is *)
(* admitted, or is the only one; a tracker mutation dispatches nothing.  A  *)
(* supervisor that runs keeps every other build out, as long as those who   *)
(* look for it look on its host.                                            *)

SupervisorsNear == \A s \in Supervised, p \in Proc : Host[s] = Host[p]

Supervising(r) == supervisor[r] # NoProc /\ Running(supervisor[r])

IsolationInv ==
  /\ \A r, q \in unresolved : r = q
  /\ admission # NoAdmission /\ admission.run # TrackerRun => unresolved \subseteq {admission.run}
  /\ \A r \in Run : supervisor[r] \in Supervised \cup {NoProc}
  /\ \A r \in Run : supervisor[r] # NoProc => proc[supervisor[r]] # "idle"
  /\ \A r \in Run : Supervising(r) =>
       /\ unresolved \subseteq {r}
       /\ admission # NoAdmission => admission.run = r
       /\ \A q \in Run : Supervising(q) => q = r

(* A lease and an admission held by two live processes never meet: a launch *)
(* that is open was made by the admitted process after it gave its lease    *)
(* up, and nobody takes a lease beside it.                                  *)
LaunchAgainstLease ==
  \A l \in LaunchId : Open(l) =>
    /\ launches[l].by = admission.proc
    /\ lease # NoLease => ~ Running(lease.proc)

LeaseInv ==
  /\ lease # NoLease => proc[lease.proc] # "idle"
  /\ lease # NoLease /\ Running(lease.proc) => leased[lease.proc] = lease
  /\ \A r \in Run : supervisor[r] = NoProc
  /\ LaunchAgainstLease
  /\ LeaseExcludesBuild

(* Granting writes a row for the run and the process it names.              *)
LEMMA GrantedRow ==
  ASSUME TypeOK, NEW p \in Proc, NEW r \in Run, Grant(p, r)
  PROVE  admission' # NoAdmission /\ admission'.run = r /\ admission'.proc = p
BY ConstantsAssumption, SMT DEF Grant, TypeOK, NoAdmission

(* Whoever finds every supervisor gone may rely on it.                      *)
LEMMA NobodySupervises ==
  ASSUME SupervisorsNear, IsolationInv, NEW p \in Proc, SupervisorsGone(p), NEW r \in Run
  PROVE  ~ Supervising(r)
<1> SUFFICES ASSUME Supervising(r) PROVE FALSE
  OBVIOUS
<1>1. supervisor[r] \in Supervised /\ supervisor[r] \in Proc /\ supervisor[r] # NoProc
  BY ConstantsAssumption DEF IsolationInv, Supervising
<1>2. Classify(p, supervisor[r]) = "dead"
  BY <1>1 DEF SupervisorsGone, ClassifySupervisor, Classify, SupervisorsNear
<1> QED
  BY <1>1, <1>2, DeadDoNotRun DEF Supervising

LEMMA IsolationStep ==
  ASSUME SupervisorsNear, OwnershipInv, IsolationInv, [Next]_vars
  PROVE  IsolationInv'
<1> USE ConstantsAssumption
<1>0. TypeOK /\ admission \in AdmissionRow \cup {NoAdmission}
  BY DEF OwnershipInv, TypeOK
<1>1. CASE UNCHANGED <<admission, unresolved, supervisor, proc>>
  BY <1>1 DEF IsolationInv, Supervising, Running
(* An admission without a rival to the run's uncertain work. *)
<1>2. ASSUME NEW p \in Proc, NEW r \in Run, Grant(p, r), UNCHANGED <<unresolved, supervisor, proc>>,
             r # TrackerRun => unresolved \subseteq {r},
             \A q \in Run : Supervising(q) => q = r
      PROVE  IsolationInv'
  <2>1. admission' # NoAdmission /\ admission'.run = r
    BY <1>0, <1>2, GrantedRow
  <2> QED
    BY <1>2, <2>1 DEF IsolationInv, Supervising, Running
<1>3. ASSUME NEW p \in Proc, StartCommand(p) PROVE IsolationInv'
  BY <1>0, <1>3, SMT DEF StartCommand, CanStart, ownerVars, IsolationInv, Supervising, Running, TypeOK
<1>4. ASSUME NEW p \in Proc, Exit(p) PROVE IsolationInv'
  BY <1>0, <1>4, SMT DEF Exit, IsolationInv, Supervising, Running, TypeOK
<1>5. ASSUME NEW p \in Proc, NEW r \in Run, AcquireBuildAdmission(p, r) PROVE IsolationInv'
  <2>1. \A q \in Run : ~ Supervising(q)
    BY <1>5, NobodySupervises DEF AcquireBuildAdmission
  <2> QED
    BY <1>2, <1>5, <2>1 DEF AcquireBuildAdmission, AcquireAdmission, procVars
<1>6. ASSUME NEW p \in Proc, NEW r \in Run, AcquireRecoveryAdmission(p, r) PROVE IsolationInv'
  <2>1. \A q \in Run : ~ Supervising(q)
    BY <1>6, NobodySupervises DEF AcquireRecoveryAdmission
  <2> QED
    BY <1>2, <1>6, <2>1 DEF AcquireRecoveryAdmission, AcquireAdmission, procVars
<1>7. ASSUME NEW p \in Proc, NEW r \in Run, ReacquireCoordinator(p, r) PROVE IsolationInv'
  <2>1. Supervising(r)
    BY <1>7 DEF ReacquireCoordinator, Supervising, Running
  <2> QED
    BY <1>2, <1>7, <2>1 DEF ReacquireCoordinator, AcquireAdmission, procVars, IsolationInv
<1>8. ASSUME NEW p \in Proc, BeginTrackerMutation(p) PROVE IsolationInv'
  <2>1. \A q \in Run : ~ Supervising(q)
    BY <1>8, NobodySupervises DEF BeginTrackerMutation
  <2> QED
    BY <1>2, <1>8, <2>1 DEF BeginTrackerMutation, procVars
<1>9. ASSUME NEW p \in Proc, ReleaseBuildAdmission(p) PROVE IsolationInv'
  BY <1>9 DEF ReleaseBuildAdmission, procVars, IsolationInv, Supervising, Running
<1>10. ASSUME NEW c \in Proc, ClaimLaunch(c) PROVE IsolationInv'
  <2>1. admission # NoAdmission /\ admission.run \in Run /\ Grant(c, admission.run)
    BY <1>0, <1>10, SMT DEF ClaimLaunch, AdmissionRow
  <2> QED
    BY <1>2, <1>10, <2>1 DEF ClaimLaunch, procVars, IsolationInv
<1>11. ASSUME NEW p \in Proc, StartSupervisor(p) PROVE IsolationInv'
  <2>1. /\ admission # NoAdmission /\ admission.run \in Run /\ admission.run # TrackerRun
        /\ p \in Supervised /\ Running(p) /\ admission' = admission /\ unresolved' = unresolved
        /\ proc' = proc /\ supervisor' = [supervisor EXCEPT ![admission.run] = p]
    BY <1>0, <1>11, SMT DEF StartSupervisor, Authorized, AdmissionRow, procVars, ownerVars
  <2>2. \A q \in Run : ~ Supervising(q)
    BY <1>11, NobodySupervises DEF StartSupervisor
  <2>3. \A q \in Run : Supervising(q)' => q = admission.run
    BY <1>0, <2>1, <2>2 DEF Supervising, Running, TypeOK
  <2> QED
    BY <1>0, <2>1, <2>3, SMT DEF IsolationInv, Supervising, Running, TypeOK
<1>12. ASSUME NEW p \in Proc, StopSupervisor(p) PROVE IsolationInv'
  BY <1>0, <1>12 DEF StopSupervisor, procVars, ownerVars, IsolationInv, Supervising, Running, TypeOK
<1>13. ASSUME NEW p \in Proc, BeginDispatch(p) PROVE IsolationInv'
  <2>1. /\ admission # NoAdmission /\ admission.run # TrackerRun
        /\ unresolved' = unresolved \cup {admission.run} /\ unresolved \subseteq {admission.run}
        /\ UNCHANGED <<admission, supervisor, proc>>
    BY <1>13 DEF BeginDispatch, Authorized, IsolationInv, procVars, ownerVars
  <2> QED
    BY <2>1 DEF IsolationInv, Supervising, Running
<1>14. ASSUME NEW p \in Proc, SettleDispatch(p) PROVE IsolationInv'
  BY <1>14 DEF SettleDispatch, procVars, ownerVars, IsolationInv, Supervising, Running
<1>15. ASSUME NEW p \in Proc, ProcStep(p) PROVE IsolationInv'
  BY <1>1, <1>3, <1>4, <1>5, <1>6, <1>7, <1>8, <1>9, <1>10, <1>11, <1>12, <1>13, <1>14, <1>15
     DEF ProcStep, AcquireLease, ReleaseLease, RegisterChild, procVars, ownerVars
<1>16. ASSUME NEW p \in Proc, NEW l \in LaunchId, LaunchStep(p, l) PROVE IsolationInv'
  <2>1. CASE \E c \in Proc : SpawnChild(p, l, c)
    BY <1>0, <2>1, SMT DEF SpawnChild, CanStart, ownerVars, IsolationInv, Supervising, Running, TypeOK
  <2> QED
    BY <1>1, <1>16, <2>1 DEF LaunchStep, ReserveLaunch, DispatchLaunch, FailLaunch, AcknowledgeChild,
       ReconcileLaunch, procVars, ownerVars
<1> QED
  BY <1>1, <1>15, <1>16 DEF Next, vars, procVars, ownerVars

(* As long as those who look for a supervisor look on its host, no build    *)
(* dispatches a provider action while one of another build may be running,  *)
(* also when supervisors take the admission back from their dead workers.   *)
THEOREM DispatchesIsolated ==
  ASSUME SupervisorsNear
  PROVE  Spec => []DispatchIsolation
<1>1. Init => IsolationInv
  BY SMT DEF Init, IsolationInv, NoAdmission, Supervising
<1>2. OwnershipInv /\ IsolationInv /\ [Next]_vars => IsolationInv'
  BY IsolationStep
<1>3. IsolationInv => DispatchIsolation
  <2> SUFFICES ASSUME IsolationInv PROVE Cardinality(unresolved) <= 1
    BY DEF DispatchIsolation
  <2>1. CASE unresolved = {}
    BY <2>1, FS_EmptySet
  <2>2. ASSUME NEW r \in unresolved PROVE Cardinality(unresolved) = 1
    <3>1. unresolved = {r}
      BY <2>2 DEF IsolationInv
    <3> QED
      BY <3>1, FS_Singleton
  <2> QED
    BY <2>1, <2>2
<1> QED
  BY <1>1, <1>2, <1>3, OwnershipInvariant, PTL DEF Spec

-----------------------------------------------------------------------------
(* The other half of exclusion: builds and commands under the lease.        *)

NoSupervisors == Supervised = {}

(* A lease that was just granted is remembered by the process it names.     *)
LEMMA GrantedLease ==
  ASSUME TypeOK, NEW p \in Proc, NEW r \in Run, GrantLease(p, r)
  PROVE  lease' # NoLease /\ lease'.proc = p /\ leased'[p] = lease'
<1>1. lease' \in LeaseRow /\ lease'.proc = p /\ leased' = [leased EXCEPT ![p] = lease']
  BY GrantLeaseTypes
<1>2. lease' # NoLease
  BY <1>1, SMT DEF LeaseRow, NoLease
<1>3. leased'[p] = lease'
  BY <1>1 DEF TypeOK
<1> QED
  BY <1>1, <1>2, <1>3

(* Without an admission no launch is open.                                  *)
LEMMA NoAdmissionNoLaunch ==
  ASSUME OwnershipInv, admission = NoAdmission, NEW l \in LaunchId
  PROVE  ~ Open(l)
BY SMT DEF OwnershipInv, OpenLaunchOwned, LaunchShape, NoAdmission

(* An admission that replaces another leaves no launch open.                *)
LEMMA AcquiredWithoutLaunches ==
  ASSUME OwnershipInv, NEW p \in Proc, NEW r \in Run, AcquireAdmission(p, r), NEW l \in LaunchId
  PROVE  ~ Open(l)'
<1>1. CASE admission = NoAdmission
  BY <1>1, NoAdmissionNoLaunch DEF AcquireAdmission, Open
<1>2. CASE admission # NoAdmission
  <2>1. Open(l) => launches[l].run = admission.run /\ launches[l].state = "reserved"
    BY <1>2 DEF AcquireAdmission, CanReplace, OwnershipInv, OpenLaunchOwned, Open
  <2>2. launches' = RetireReserved(admission.run) /\ launches[l] \in LaunchRow
    BY <1>2 DEF AcquireAdmission, OwnershipInv, TypeOK
  <2>3. CASE Open(l)
    <3>1. launches'[l] = [launches[l] EXCEPT !.state = "failed"]
      BY <2>1, <2>2, <2>3 DEF RetireReserved
    <3>2. launches'[l].state = "failed"
      BY <2>2, <3>1, SMT DEF LaunchRow
    <3> QED
      BY <3>2 DEF Open
  <2>4. CASE ~ Open(l)
    BY <2>2, <2>4 DEF RetireReserved, Open
  <2> QED
    BY <2>3, <2>4
<1> QED
  BY <1>1, <1>2

(* No step opens a launch but the reservation.                              *)
LEMMA OnlyReservedOpens ==
  ASSUME OwnershipInv, NEW p \in Proc, NEW l \in LaunchId, NEW k \in LaunchId,
         \/ DispatchLaunch(p, l) \/ FailLaunch(p, l) \/ AcknowledgeChild(p, l) \/ ReconcileLaunch(p, l)
  PROVE  launches'[k].by = launches[k].by /\ (Open(k)' => Open(k))
BY SMT DEF OwnershipInv, DispatchLaunch, FailLaunch, AcknowledgeChild, ReconcileLaunch, TypeOK, LaunchRow, Open

LEMMA LeaseInvStep ==
  ASSUME NoSupervisors, OwnershipInv, LeaseInv, [Next]_vars
  PROVE  LeaseInv'
<1> USE ConstantsAssumption
<1>0. TypeOK /\ admission \in AdmissionRow \cup {NoAdmission}
  BY DEF OwnershipInv, TypeOK
<1> DEFINE LeaseRemembered ==
             /\ lease # NoLease => proc[lease.proc] # "idle"
             /\ lease # NoLease /\ Running(lease.proc) => leased[lease.proc] = lease
           Unsupervised == \A r \in Run : supervisor[r] = NoProc
<1>1. CASE UNCHANGED <<admission, lease, leased, launches, supervisor, proc>>
  BY <1>1 DEF LeaseInv, LaunchAgainstLease, LeaseExcludesBuild, Open, Running
(* Processes begin and end. *)
<1>2. ASSUME NEW p \in Proc, CanStart(p), proc' = [proc EXCEPT ![p] = "running"],
             UNCHANGED <<admission, lease, leased, launches, supervisor>>
      PROVE  LeaseInv'
  <2>1. lease # NoLease => lease.proc # p
    BY <1>2 DEF CanStart, LeaseInv
  <2>2. admission # NoAdmission => admission.proc # p
    BY <1>2 DEF CanStart, OwnershipInv, Born
  <2>3. \A q : q # p /\ q \in Proc => proc'[q] = proc[q]
    BY <1>0, <1>2 DEF TypeOK
  <2>4. (lease # NoLease => lease.proc \in Proc) /\ (admission # NoAdmission => admission.proc \in Proc)
    BY <1>0, SMT DEF TypeOK, LeaseRow, AdmissionRow
  <2> QED
    BY <1>2, <2>1, <2>2, <2>3, <2>4 DEF LeaseInv, LaunchAgainstLease, LeaseExcludesBuild, Open, Running
<1>3. ASSUME NEW p \in Proc, Exit(p) PROVE LeaseInv'
  <2>1. \A q \in Proc : Running(q)' => Running(q) /\ q # p
    BY <1>0, <1>3 DEF Exit, Running, TypeOK
  <2>2. (lease # NoLease => lease.proc \in Proc) /\ (admission # NoAdmission => admission.proc \in Proc)
    BY <1>0, SMT DEF TypeOK, LeaseRow, AdmissionRow
  <2>3. LeaseRemembered'
    BY <1>0, <1>3, <2>1, <2>2 DEF Exit, LeaseInv, TypeOK
  <2> QED
    BY <1>3, <2>1, <2>2, <2>3 DEF Exit, LeaseInv, LaunchAgainstLease, LeaseExcludesBuild, Open
(* An admission is taken, handed over or given back. *)
<1>4. ASSUME NEW p \in Proc, NEW r \in Run, AcquireAdmission(p, r), Running(p), LeaseOwnerGone(p),
             UNCHANGED <<procVars, leaseVars, supervisor>>
      PROVE  LeaseInv'
  <2>1. lease # NoLease => ~ Running(lease.proc)
    <3> SUFFICES ASSUME lease # NoLease PROVE ~ Running(lease.proc)
      OBVIOUS
    <3>1. lease.proc \in Proc /\ Classify(p, lease.proc) = "dead"
      BY <1>0, <1>4, SMT DEF TypeOK, LeaseRow, LeaseOwnerGone
    <3> QED
      BY <3>1, DeadDoNotRun
  <2>2. \A l \in LaunchId : ~ Open(l)'
    BY <1>4, AcquiredWithoutLaunches
  <2> QED
    BY <1>4, <2>1, <2>2 DEF LeaseInv, LaunchAgainstLease, LeaseExcludesBuild, Running, procVars, leaseVars
<1>5. ASSUME NEW p \in Proc, ReleaseBuildAdmission(p) PROVE LeaseInv'
  <2>1. \A l \in LaunchId : ~ Open(l)
    BY <1>5 DEF ReleaseBuildAdmission, Authorized, OwnershipInv, OpenLaunchOwned
  <2> QED
    BY <1>5, <2>1 DEF ReleaseBuildAdmission, LeaseInv, LaunchAgainstLease, LeaseExcludesBuild, Open, Running,
       procVars, leaseVars
<1>6. ASSUME NEW c \in Proc, ClaimLaunch(c) PROVE LeaseInv'
  <2> DEFINE l == carries[c]
  <2>1. /\ l \in LaunchId /\ Open(l) /\ launches' = [launches EXCEPT ![l].state = "claimed"]
        /\ UNCHANGED <<procVars, leaseVars, supervisor>>
    BY <1>0, <1>6 DEF ClaimLaunch, TypeOK, Open
  <2>2. \A k \in LaunchId : ~ Open(k)'
    BY <1>0, <2>1, SMT DEF OwnershipInv, OneOpenLaunch, Open, TypeOK, LaunchRow
  <2>3. lease # NoLease => ~ Running(lease.proc)
    BY <2>1 DEF LeaseInv, LaunchAgainstLease
  <2> QED
    BY <2>1, <2>2, <2>3 DEF LeaseInv, LaunchAgainstLease, LeaseExcludesBuild, Running, procVars, leaseVars
<1>7. ASSUME NEW p \in Proc, RegisterChild(p) PROVE LeaseInv'
  <2>1. \A k \in LaunchId : launches'[k].by = launches[k].by /\ launches'[k].state = launches[k].state
    BY <1>0, <1>7, SMT DEF RegisterChild, TypeOK, LaunchRow
  <2> QED
    BY <1>7, <2>1 DEF RegisterChild, LeaseInv, LaunchAgainstLease, LeaseExcludesBuild, Open, Running,
       procVars, ownerVars, leaseVars
(* The lease is taken or given back. *)
<1>8. ASSUME NEW p \in Proc, NEW r \in Run, AcquireLease(p, r) PROVE LeaseInv'
  <2>1. lease' # NoLease /\ lease'.proc = p /\ leased'[p] = lease' /\ Running(p)
        /\ UNCHANGED <<procVars, ownerVars, launches, supervisor>>
    BY <1>0, <1>8, GrantedLease DEF AcquireLease
  <2>2. CASE admission = NoAdmission
    <3>1. \A l \in LaunchId : ~ Open(l)
      BY <2>2, NoAdmissionNoLaunch
    <3> QED
      BY <2>1, <2>2, <3>1 DEF LeaseInv, LaunchAgainstLease, LeaseExcludesBuild, Open, Running, procVars, ownerVars
  <2>3. CASE admission # NoAdmission /\ Authorized(p)
    <3>1. admission.proc = p
      BY <2>3, OwnerAlive DEF Owner
    <3>2. \A l \in LaunchId : ~ Open(l)
      BY <1>8, <3>1 DEF AcquireLease, LeaseInv, LaunchAgainstLease
    <3> QED
      BY <2>1, <3>1, <3>2 DEF LeaseInv, LaunchAgainstLease, LeaseExcludesBuild, Open, Running, procVars, ownerVars
  <2>4. CASE /\ admission # NoAdmission /\ Classify(p, admission.proc) = "dead"
             /\ ~ \E l \in LaunchId : Open(l) /\ launches[l].run = admission.run
    <3>1. \A l \in LaunchId : ~ Open(l)
      BY <2>4 DEF OwnershipInv, OpenLaunchOwned
    <3>2. ~ Running(admission.proc)
      BY <1>0, <2>4, DeadDoNotRun, SMT DEF AdmissionRow
    <3> QED
      BY <2>1, <3>1, <3>2 DEF LeaseInv, LaunchAgainstLease, LeaseExcludesBuild, Open, Running, procVars, ownerVars
  <2> QED
    BY <1>8, <2>2, <2>3, <2>4 DEF AcquireLease, Authorized
<1>9. ASSUME NEW p \in Proc, ReleaseLease(p) PROVE LeaseInv'
  BY <1>9 DEF ReleaseLease, LeaseInv, LaunchAgainstLease, LeaseExcludesBuild, Open, Running, procVars, ownerVars
<1>10. ASSUME NEW p \in Proc, BeginTrackerMutation(p) PROVE LeaseInv'
  <2>1. /\ lease'.proc = p /\ leased'[p] = lease' /\ admission'.proc = p /\ Running(p)
        /\ UNCHANGED <<procVars, launches, supervisor>>
    BY <1>0, <1>10, GrantedLease, GrantedRow DEF BeginTrackerMutation
  <2>2. \A l \in LaunchId : ~ Open(l)
    BY <1>10, NoAdmissionNoLaunch DEF BeginTrackerMutation
  <2> QED
    BY <2>1, <2>2 DEF LeaseInv, LaunchAgainstLease, LeaseExcludesBuild, Open, Running, procVars
(* Supervisors. *)
<1>11. ASSUME NEW p \in Proc, StartSupervisor(p) \/ StopSupervisor(p)
                             \/ \E r \in Run : ReacquireCoordinator(p, r)
       PROVE  FALSE
  BY <1>0, <1>11 DEF ReacquireCoordinator, StartSupervisor, StopSupervisor, NoSupervisors, LeaseInv
<1>12. ASSUME NEW p \in Proc, ProcStep(p) PROVE LeaseInv'
  <2>1. CASE StartCommand(p)
    BY <1>2, <2>1 DEF StartCommand, ownerVars, leaseVars
  <2>2. CASE \E r \in Run : AcquireBuildAdmission(p, r) \/ AcquireRecoveryAdmission(p, r)
    BY <1>4, <2>2 DEF AcquireBuildAdmission, AcquireRecoveryAdmission
  <2>3. CASE BeginDispatch(p) \/ SettleDispatch(p)
    BY <1>1, <2>3 DEF BeginDispatch, SettleDispatch, procVars, ownerVars, leaseVars
  <2> QED
    BY <1>3, <1>5, <1>6, <1>7, <1>8, <1>9, <1>10, <1>11, <1>12, <2>1, <2>2, <2>3 DEF ProcStep
<1>13. ASSUME NEW p \in Proc, NEW l \in LaunchId, LaunchStep(p, l) PROVE LeaseInv'
  <2>1. CASE ReserveLaunch(p, l)
    <3>1. /\ admission.proc = p /\ Running(p) /\ (leased[p] = NoLease \/ leased[p] # lease)
          /\ UNCHANGED <<procVars, ownerVars, leaseVars, supervisor>>
      BY <2>1, OwnerAlive DEF ReserveLaunch, Authorized, Owner
    <3>2. lease # NoLease => ~ Running(lease.proc)
      BY <2>1, <3>1 DEF ReserveLaunch, Authorized, LeaseInv, LeaseExcludesBuild
    <3>3. \A k \in LaunchId : Open(k)' => launches'[k].by = admission.proc
      BY <1>0, <2>1, <3>1, SMT DEF ReserveLaunch, TypeOK, LaunchRow, LeaseInv, LaunchAgainstLease, Open
    <3> QED
      BY <3>1, <3>2, <3>3 DEF LeaseInv, LaunchAgainstLease, LeaseExcludesBuild, Running, procVars, ownerVars, leaseVars
  <2>2. CASE \/ DispatchLaunch(p, l) \/ FailLaunch(p, l) \/ AcknowledgeChild(p, l) \/ ReconcileLaunch(p, l)
    <3>1. \A k \in LaunchId : launches'[k].by = launches[k].by /\ (Open(k)' => Open(k))
      BY <2>2, OnlyReservedOpens
    <3>2. UNCHANGED <<procVars, ownerVars, leaseVars, supervisor>>
      BY <2>2 DEF DispatchLaunch, FailLaunch, AcknowledgeChild, ReconcileLaunch
    <3> QED
      BY <3>1, <3>2 DEF LeaseInv, LaunchAgainstLease, LeaseExcludesBuild, Running, procVars, ownerVars, leaseVars
  <2>3. CASE \E c \in Proc : SpawnChild(p, l, c)
    BY <1>2, <2>3 DEF SpawnChild, ownerVars, leaseVars
  <2> QED
    BY <1>13, <2>1, <2>2, <2>3 DEF LaunchStep
<1> QED
  BY <1>1, <1>12, <1>13 DEF Next, vars, procVars, ownerVars, leaseVars

(* Where no build is supervised, a build and a command under the project    *)
(* lease never belong to two live processes, however launches, takeovers    *)
(* and deaths are interleaved.                                              *)
THEOREM LeasesExcludeBuilds ==
  ASSUME NoSupervisors
  PROVE  Spec => []LeaseExcludesBuild
<1>1. Init => LeaseInv
  BY SMT DEF Init, LeaseInv, LaunchAgainstLease, LeaseExcludesBuild, Open, NoLease, NoAdmission, NoLaunchRow
<1>2. OwnershipInv /\ LeaseInv /\ [Next]_vars => LeaseInv'
  BY LeaseInvStep
<1>3. LeaseInv => LeaseExcludesBuild
  BY DEF LeaseInv
<1> QED
  BY <1>1, <1>2, <1>3, OwnershipInvariant, PTL DEF Spec

-----------------------------------------------------------------------------
(* The rows implement OwnershipHandoff.                                     *)

(* While one launch is open no other is, so an heir has no rival.           *)
LEMMA HeirOfLaunch ==
  ASSUME OwnershipInv, NEW l \in LaunchId, Open(l)
  PROVE  Heirs = IF launches[l].state = "dispatching" /\ launches[l].acked
                 THEN {launches[l].child} ELSE {}
BY SMT DEF OwnershipInv, OneOpenLaunch, Open, Heirs

LEMMA NoHeirWithoutLaunch ==
  ASSUME \A l \in LaunchId : launches[l].state # "dispatching"
  PROVE  Heirs = {}
BY DEF Heirs

(* The steps of OwnershipHandoff, with its variables replaced.              *)

LEMMA HandoffStutters ==
  ASSUME UNCHANGED <<Owner, Exited, Heirs>> PROVE UNCHANGED Handoff!vars
BY DEF Handoff!vars, Exited, Owner

LEMMA HandoffTakes ==
  ASSUME NEW p \in Proc, p \notin Exited, Owner = NoProc \/ Owner \in Exited,
         Heirs = {}, Owner' = p, UNCHANGED <<Exited, Heirs>>
  PROVE  Handoff!Next
<1>1. Handoff!Take(p)
  BY DEF Handoff!Take, Exited, Owner
<1> QED
  BY <1>1 DEF Handoff!Next

LEMMA HandoffAccepts ==
  ASSUME NEW c \in Proc, Owner # NoProc, Owner \notin Exited,
         Heirs = {}, Heirs' = {c}, UNCHANGED <<Owner, Exited>>
  PROVE  Handoff!Next
<1>1. Handoff!Accept(c)
  BY DEF Handoff!Accept, Exited, Owner
<1> QED
  BY <1>1 DEF Handoff!Next

LEMMA HandoffInherits ==
  ASSUME NEW c \in Proc, c \in Heirs \ Exited,
         Owner' = c, Heirs' = {}, UNCHANGED Exited
  PROVE  Handoff!Next
<1>1. Handoff!Inherit(c)
  BY DEF Handoff!Inherit, Exited, Owner
<1> QED
  BY <1>1 DEF Handoff!Next

LEMMA HandoffForgets ==
  ASSUME Heirs # {}, Heirs \subseteq Exited, Heirs' = {}, UNCHANGED <<Owner, Exited>>
  PROVE  Handoff!Next
BY DEF Handoff!Forget, Handoff!Next, Exited, Owner

LEMMA HandoffReleases ==
  ASSUME Owner # NoProc, Owner \notin Exited, Heirs = {},
         Owner' = NoProc, UNCHANGED <<Exited, Heirs>>
  PROVE  Handoff!Next
BY DEF Handoff!Release, Handoff!Next, Exited, Owner

LEMMA HandoffDies ==
  ASSUME NEW p \in Proc, p \notin Exited, Exited' = Exited \cup {p},
         UNCHANGED <<Owner, Heirs>>
  PROVE  Handoff!Next
<1>1. Handoff!Die(p)
  BY DEF Handoff!Die, Exited, Owner
<1> QED
  BY <1>1 DEF Handoff!Next

LEMMA HandoffStep ==
  ASSUME OwnershipInv, OwnershipInv', OwnershipStep
  PROVE  [Handoff!Next]_(Handoff!vars)
<1> USE ConstantsAssumption DEF OwnershipInv
<1>1. CASE UNCHANGED <<proc, carries, admission, authority, nextToken, launches>>
  BY <1>1, HandoffStutters DEF Owner, Exited, Heirs
<1>2. ASSUME NEW p \in Proc, StartCommand(p) PROVE UNCHANGED <<Owner, Exited, Heirs>>
  <2>1. Exited' = Exited
    BY <1>2, SMT DEF StartCommand, CanStart, Exited, TypeOK
  <2> QED
    BY <1>2, <2>1 DEF StartCommand, ownerVars, Owner, Heirs
<1>3. ASSUME NEW p \in Proc, Exit(p) PROVE Handoff!Next
  <2>1. p \notin Exited /\ Exited' = Exited \cup {p}
    BY <1>3, SMT DEF Exit, Running, Exited, TypeOK
  <2>2. UNCHANGED <<Owner, Heirs>>
    BY <1>3 DEF Exit, Owner, Heirs
  <2> QED
    BY <2>1, <2>2, HandoffDies
<1>4. ASSUME NEW p \in Proc, NEW r \in Run, Running(p), AcquireAdmission(p, r), UNCHANGED procVars
      PROVE  Handoff!Next
  <2>1. \A l \in LaunchId : launches[l].state # "dispatching"
    <3>1. CASE admission = NoAdmission
      BY <3>1, SMT DEF OpenLaunchOwned, LaunchShape, Open, NoAdmission
    <3>2. CASE admission # NoAdmission
      BY <1>4, <3>2 DEF AcquireAdmission, CanReplace, OpenLaunchOwned, Open
    <3> QED
      BY <3>1, <3>2
  <2>2. \A l \in LaunchId : launches'[l].state # "dispatching"
    BY <1>4, <2>1, SMT DEF AcquireAdmission, RetireReserved, TypeOK, LaunchRow
  <2>3. Heirs = {} /\ Heirs' = {}
    BY <2>1, <2>2 DEF Heirs
  <2>4. Owner = NoProc \/ Owner \in Exited
    <3>1. CASE admission = NoAdmission
      BY <3>1, SMT DEF NoAdmission, Owner
    <3>2. CASE admission # NoAdmission
      <4>1. Owner \in Proc /\ proc[Owner] # "idle"
        BY <3>2, SMT DEF Born, TypeOK, AdmissionRow, Owner
      <4>2. ~ Running(Owner)
        BY <1>4, <3>2, <4>1, DeadDoNotRun DEF AcquireAdmission, CanReplace, Owner
      <4> QED
        BY <4>1, <4>2, SMT DEF TypeOK, Running, Exited
    <3> QED
      BY <3>1, <3>2
  <2>5. Owner' = p
    BY <1>4, SMT DEF AcquireAdmission, Grant, Owner
  <2>6. p \notin Exited /\ UNCHANGED Exited
    BY <1>4 DEF Running, Exited, procVars
  <2> QED
    BY <2>3, <2>4, <2>5, <2>6, HandoffTakes
<1>5. ASSUME NEW p \in Proc, ReleaseBuildAdmission(p) PROVE Handoff!Next
  <2>1. Owner = p /\ p \notin Exited /\ p # NoProc
    BY <1>5, OwnerAlive DEF ReleaseBuildAdmission
  <2>2. \A l \in LaunchId : ~ Open(l)
    BY <1>5 DEF ReleaseBuildAdmission, Authorized, OpenLaunchOwned
  <2>3. Heirs = {}
    BY <2>2, NoHeirWithoutLaunch DEF Open
  <2>4. Owner' = NoProc
    BY <1>5, SMT DEF ReleaseBuildAdmission, NoAdmission, Owner
  <2>5. UNCHANGED <<Exited, Heirs>>
    BY <1>5 DEF ReleaseBuildAdmission, procVars, Exited, Heirs
  <2> QED
    BY <2>1, <2>3, <2>4, <2>5, HandoffReleases
<1>6. ASSUME NEW p \in Proc, RegisterChild(p) PROVE UNCHANGED <<Owner, Exited, Heirs>>
  <2>1. ~ launches[carries[p]].acked /\ carries[p] \in LaunchId
    BY <1>6 DEF RegisterChild, LaunchShape, TypeOK
  <2>2. \A k \in LaunchId : /\ launches'[k].state = launches[k].state
                            /\ launches'[k].acked = launches[k].acked
                            /\ launches[k].acked => launches'[k].child = launches[k].child
    BY <1>6, <2>1, SMT DEF RegisterChild, TypeOK, LaunchRow
  <2>3. Heirs' = Heirs
    BY <2>2, SMT DEF Heirs
  <2> QED
    BY <1>6, <2>3 DEF RegisterChild, procVars, ownerVars, Owner, Exited
<1>7. ASSUME NEW c \in Proc, ClaimLaunch(c) PROVE Handoff!Next
  <2> DEFINE l == carries[c]
  <2>1. l \in LaunchId /\ launches[l].state = "dispatching" /\ launches[l].acked
        /\ launches[l].child = c /\ Running(c)
    BY <1>7 DEF ClaimLaunch, TypeOK
  <2>2. Heirs = {c}
    BY <2>1, HeirOfLaunch DEF Open
  <2>3. \A k \in LaunchId : launches'[k].state # "dispatching"
    BY <1>7, <2>1, SMT DEF ClaimLaunch, OneOpenLaunch, Open, TypeOK, LaunchRow
  <2>4. Heirs' = {}
    BY <2>3 DEF Heirs
  <2>5. Owner' = c
    BY <1>7, SMT DEF ClaimLaunch, Grant, Owner
  <2>6. c \notin Exited /\ UNCHANGED Exited
    BY <1>7, <2>1 DEF ClaimLaunch, procVars, Running, Exited
  <2> QED
    BY <2>2, <2>4, <2>5, <2>6, HandoffInherits
<1>8. ASSUME NEW p \in Proc, NEW l \in LaunchId, LaunchStep(p, l)
      PROVE  Handoff!Next \/ UNCHANGED <<Owner, Exited, Heirs>>
  <2>1. CASE ReserveLaunch(p, l)
    <3>1. \A k \in LaunchId : launches'[k] = launches[k]
             \/ (launches'[k].state = "reserved" /\ launches[k].state = "absent")
      BY <2>1, SMT DEF ReserveLaunch, TypeOK, NoLaunchRow
    <3>2. Heirs' = Heirs
      BY <3>1 DEF Heirs
    <3> QED
      BY <2>1, <3>2 DEF ReserveLaunch, procVars, ownerVars, Owner, Exited
  <2>2. CASE DispatchLaunch(p, l)
    <3>1. ~ launches[l].acked
      BY <2>2 DEF DispatchLaunch, LaunchShape
    <3>2. \A k \in LaunchId : launches'[k] = launches[k]
             \/ (~ launches'[k].acked /\ ~ launches[k].acked)
      BY <2>2, <3>1, SMT DEF DispatchLaunch, TypeOK, LaunchRow
    <3>3. Heirs' = Heirs
      BY <3>2 DEF Heirs
    <3> QED
      BY <2>2, <3>3 DEF DispatchLaunch, procVars, ownerVars, Owner, Exited
  <2>3. CASE FailLaunch(p, l) \/ ReconcileLaunch(p, l)
    <3>0. /\ UNCHANGED <<Owner, Exited>> /\ Open(l)
          /\ launches' = [launches EXCEPT ![l].state = "failed"]
      BY <2>3 DEF FailLaunch, ReconcileLaunch, procVars, ownerVars, Owner, Exited
    <3>1. CASE launches[l].state = "dispatching" /\ launches[l].acked
      <4> DEFINE c == launches[l].child
      <4>1. c \in Proc /\ carries[c] = l
        BY <3>1, SMT DEF LaunchShape, TypeOK, LaunchRow
      <4>2. ReconcileLaunch(p, l)
        BY <2>3, <4>1 DEF FailLaunch
      <4>3. ~ Running(c)
        BY <3>1, <4>1, <4>2, DeadDoNotRun DEF ReconcileLaunch, SafeToRetire
      <4>4. c \in Exited
        BY <4>1, <4>3, SMT DEF Born, TypeOK, Running, Exited
      <4>5. Heirs = {c}
        BY <3>0, <3>1, HeirOfLaunch
      <4>6. \A k \in LaunchId : launches'[k].state # "dispatching"
        BY <3>0, SMT DEF OneOpenLaunch, Open, TypeOK, LaunchRow
      <4>7. Heirs' = {}
        BY <4>6 DEF Heirs
      <4> QED
        BY <3>0, <4>4, <4>5, <4>7, HandoffForgets
    <3>2. CASE ~ (launches[l].state = "dispatching" /\ launches[l].acked)
      <4>1. \A k \in LaunchId : launches'[k] = launches[k]
               \/ /\ launches'[k].state # "dispatching"
                  /\ ~ (launches[k].state = "dispatching" /\ launches[k].acked)
        BY <3>0, <3>2, SMT DEF TypeOK, LaunchRow
      <4>2. Heirs' = Heirs
        BY <4>1 DEF Heirs
      <4> QED
        BY <3>0, <4>2
    <3> QED
      BY <3>1, <3>2
  <2>4. CASE AcknowledgeChild(p, l)
    <3> DEFINE c == launches[l].child
    <3>1. /\ launches[l].state = "dispatching" /\ ~ launches[l].acked /\ c \in Proc
          /\ launches' = [launches EXCEPT ![l].acked = TRUE]
      BY <2>4, SMT DEF AcknowledgeChild, TypeOK, LaunchRow
    <3>2. Heirs = {}
      BY <3>1, HeirOfLaunch DEF Open
    <3>3. /\ launches'[l].state = "dispatching" /\ launches'[l].acked /\ launches'[l].child = c
          /\ \A k \in LaunchId : k # l => launches'[k].state # "dispatching"
      BY <3>1, SMT DEF OneOpenLaunch, Open, TypeOK, LaunchRow
    <3>4. Heirs' = {c}
      BY <3>3 DEF Heirs
    <3>5. Owner = p /\ p \notin Exited /\ p # NoProc
      BY <2>4, OwnerAlive DEF AcknowledgeChild
    <3>6. UNCHANGED <<Owner, Exited>>
      BY <2>4 DEF AcknowledgeChild, procVars, ownerVars, Owner, Exited
    <3> QED
      BY <3>1, <3>2, <3>4, <3>5, <3>6, HandoffAccepts
  <2>5. CASE \E c \in Proc : SpawnChild(p, l, c)
    <3>1. Exited' = Exited
      BY <2>5, SMT DEF SpawnChild, CanStart, Exited, TypeOK
    <3> QED
      BY <2>5, <3>1 DEF SpawnChild, ownerVars, Owner, Heirs
  <2> QED
    BY <1>8, <2>1, <2>2, <2>3, <2>4, <2>5 DEF LaunchStep
<1> QED
  BY <1>1, <1>2, <1>3, <1>4, <1>5, <1>6, <1>7, <1>8, HandoffStutters DEF OwnershipStep

LEMMA HandoffInit ==
  ASSUME Init PROVE Handoff!Init
<1>1. admission.proc = NoProc
  BY SMT DEF Init, NoAdmission
<1>2. \A l \in LaunchId : launches[l].state # "dispatching"
  BY SMT DEF Init, NoLaunchRow
<1>3. Heirs = {}
  BY <1>2, NoHeirWithoutLaunch
<1>4. {p \in Proc : proc[p] = "exited"} = {}
  BY SMT DEF Init
<1> QED
  BY <1>1, <1>3, <1>4 DEF Handoff!Init

(* No live owner of the project is ever replaced but by the child it        *)
(* acknowledged, and an acknowledged child is not forgotten while it lives, *)
(* for any number of processes on any hosts: the rows and launches of       *)
(* workflowDb.ts implement the abstract handoff.                            *)
THEOREM RefinesHandoff == Spec => ImplementsHandoff
<1>1. OwnershipInv /\ OwnershipInv' /\ [Next]_vars => [Handoff!Next]_(Handoff!vars)
  BY StepsOfOwnership, HandoffStep
<1>2. Init => Handoff!Init
  BY HandoffInit
<1> QED
  BY <1>1, <1>2, OwnershipInvariant, PTL DEF Spec, ImplementsHandoff, Handoff!Spec
=============================================================================
