------------------------ MODULE WorkerSupervisor_proofs ------------------------
(***************************************************************************)
(* Theorems about WorkerSupervisor for every number of supervisors and     *)
(* workers and every policy.                                               *)
(*                                                                         *)
(* The argument has two halves.  A supervisor in its loop is the one the   *)
(* row names, so nobody takes the role beside it, and its memory agrees    *)
(* with the row: its saves are never refused there.  A worker that acts    *)
(* holds the admission, is a child of the supervisor the row names, and is *)
(* the worker that supervisor watches: so when a supervisor decides, none  *)
(* of its workers acts, and nobody makes the run visible, or running, behind *)
(* its back.                                                               *)
(***************************************************************************)
EXTENDS WorkerSupervisor, FiniteSetTheorems, TLAPS

Looping  == {"deciding", "spawning", "recording", "watching", "reconciling",
             "settling", "judging", "backoff"}
Closing  == {"waiting", "withheld", "exhausted", "stopping", "closing", "failing", "parking"}
Places   == {"off", "admitted"} \cup Looping \cup Closing \cup {"ended", "exited", "dead"}
Acting   == {"preparing", "working"}
Asking   == {"deciding", "spawning", "backoff"}

WorkerRow == [life: {"unborn", "exited"} \cup Gated \cup Claimed, parent: Supervisor \cup {None},
              generation: Nat, stopping: BOOLEAN, claimed: BOOLEAN,
              end: {"none", "zero", "two", "error", "signal"}]

TypeOK ==
  /\ pc \in [Supervisor -> Places]
  /\ memory \in [Supervisor -> Record]
  /\ stop \in [Supervisor -> BOOLEAN]
  /\ outcome \in [Supervisor -> {"none", "crashed", "completed", "waiting", "failed"}]
  /\ row \in Record
  /\ run.status \in Status
  /\ worker \in [Worker -> WorkerRow]
  /\ owner \in Supervisor \cup Worker \cup {None}
  /\ evidence \in BOOLEAN /\ uncertain \in BOOLEAN /\ probing \in BOOLEAN

(* What holds of a worker.                                                  *)
Births ==
  \A w \in Worker : /\ worker[w].life = "unborn" => worker[w].parent = None
                    /\ worker[w].life # "unborn" => worker[w].parent \in Supervisor
Holding == \A w \in Worker : worker[w].life \in Acting => owner = w
Visible == /\ \A w \in Worker : worker[w].life = "working" => evidence
           /\ uncertain => evidence

(* What holds of the supervisor the row names, and of the admission.        *)
Agrees(s) == /\ memory[s].pid = row.pid
             /\ memory[s].generation = row.generation
             /\ memory[s].workerGeneration = row.workerGeneration
             /\ memory[s].checkpointRestarts = row.checkpointRestarts
             /\ memory[s].runRestarts = row.runRestarts
Role ==
  \A s \in Supervisor :
    /\ pc[s] \in Looping => row.pid = s /\ row.status = "running" /\ memory[s].status = "running"
    /\ row.pid = s => pc[s] \notin {"off", "admitted"}
    /\ row.pid = s /\ LiveSupervisor(s) => Agrees(s)
    /\ pc[s] = "judging" => outcome[s] # "none"
Admission ==
  \A s \in Supervisor : /\ pc[s] = "admitted" => owner = s
                        /\ pc[s] \in {"off", "admitted"} => ChildrenOf(s) = {}
Owned ==
  row.pid \in Supervisor =>
    /\ owner \in Worker => worker[owner].parent = row.pid
    /\ owner \in Supervisor /\ owner # row.pid => ChildrenOf(owner) = {}
Attended ==
  \A s \in Supervisor :
    /\ pc[s] \in {"recording", "watching", "reconciling", "settling"} => Watched(s) \in Worker
    /\ pc[s] \notin {"exited", "dead"} =>
         \A w \in ChildrenOf(s) : LiveWorker(w) => pc[s] \in {"recording", "watching"} /\ Watched(s) = w

(* What holds where a worker may be replaced.                               *)
Quiet ==
  \A s \in Supervisor :
    pc[s] \in Asking /\ ChildrenOf(s) # {} => ~ evidence /\ ~ probing
Parked ==
  \A s \in Supervisor :
    row.pid = s /\ pc[s] \in {"stopping", "closing", "ended"} => run.status # "running"

Restarted == {w \in Worker : worker[w].life # "unborn" /\ Automatic(w)}
Generations ==
  \A s \in Supervisor : pc[s] \in Looping =>
    \A w \in ChildrenOf(s) : /\ worker[w].generation <= memory[s].workerGeneration
                             /\ pc[s] = "spawning" => worker[w].generation < memory[s].workerGeneration
Counted ==
  /\ IsFiniteSet(Restarted)
  /\ Cardinality(Restarted) <= row.runRestarts /\ row.runRestarts <= RunLimit
  /\ Cardinality(Restarted) <= row.checkpointRestarts /\ row.checkpointRestarts <= CheckpointLimit
  /\ \A s \in Supervisor : pc[s] \in Asking /\ ChildrenOf(s) # {} =>
       /\ Cardinality(Restarted) < row.runRestarts
       /\ Cardinality(Restarted) < row.checkpointRestarts

IInv ==
  /\ TypeOK /\ Births /\ Holding /\ Visible /\ Role /\ Admission /\ Owned /\ Attended
  /\ Quiet /\ Parked /\ Generations /\ Counted

-----------------------------------------------------------------------------
(* The records: what an assignment to some of their fields leaves.          *)

Statuses == {"starting", "running", "waiting_for_human", "stopping", "stopped", "failed"}

LEMMA RecordFields ==
  ASSUME NEW r \in Record
  PROVE  /\ r.status \in Statuses /\ r.pid \in Supervisor \cup {None} /\ r.generation \in Nat
         /\ r.workerGeneration \in Nat /\ r.checkpointRestarts \in Nat /\ r.runRestarts \in Nat
         /\ r.workerPid \in Worker \cup {None}
BY SMT DEF Record, Statuses

Marked(r, st, x) == [r EXCEPT !.status = st, !.workerPid = x]
Numbered(r)      == [r EXCEPT !.status = "running", !.workerGeneration = @ + 1]
Charged(r)       == [r EXCEPT !.workerPid = None, !.checkpointRestarts = @ + 1, !.runRestarts = @ + 1]
Employing(r, w)  == [r EXCEPT !.workerPid = w]
Taken(r, s)      == [r EXCEPT !.status = "running", !.pid = s, !.generation = @ + 1]
Released(r, st)  == [r EXCEPT !.status = st, !.pid = None, !.workerPid = None]
Orphaned(r)      == [r EXCEPT !.status = "stopping"]

SameRestarts(m, r) == m.checkpointRestarts = r.checkpointRestarts /\ m.runRestarts = r.runRestarts
SameFence(m, r) == m.pid = r.pid /\ m.generation = r.generation
SameRecord(m, r) == /\ SameFence(m, r) /\ SameRestarts(m, r)
                    /\ m.workerGeneration = r.workerGeneration

LEMMA StatusWritten ==
  ASSUME NEW r \in Record, NEW st \in Statuses, NEW x \in Worker \cup {None}
  PROVE  /\ Marked(r, st, x) \in Record /\ SameRecord(Marked(r, st, x), r)
         /\ Marked(r, st, x).status = st /\ Marked(r, st, x).workerPid = x
<1>1. Marked(r, st, x) = [[r EXCEPT !.status = st] EXCEPT !.workerPid = x]
  BY DEF Marked
<1>2. \A k \in Record : [k EXCEPT !.status = st] \in Record /\ [k EXCEPT !.workerPid = x] \in Record
  BY SMT DEF Record, Statuses
<1>3. Marked(r, st, x) \in Record
  BY <1>1, <1>2
<1>4. /\ Marked(r, st, x).status = st /\ Marked(r, st, x).workerPid = x
      /\ SameRecord(Marked(r, st, x), r)
  BY SMT DEF Record, Marked, SameRecord, SameFence, SameRestarts
<1> QED
  BY <1>3, <1>4

LEMMA GenerationWritten ==
  ASSUME NEW r \in Record
  PROVE  /\ Numbered(r) \in Record /\ SameFence(Numbered(r), r) /\ SameRestarts(Numbered(r), r)
         /\ Numbered(r).status = "running" /\ Numbered(r).workerGeneration = r.workerGeneration + 1
<1>1. PICK n \in Nat : n = r.workerGeneration + 1
  BY RecordFields, SMT
<1>2. Numbered(r) = [[r EXCEPT !.status = "running"] EXCEPT !.workerGeneration = n]
  BY <1>1, SMT DEF Record, Numbered
<1>3. \A k \in Record : [k EXCEPT !.status = "running"] \in Record /\ [k EXCEPT !.workerGeneration = n] \in Record
  BY <1>1, SMT DEF Record
<1>4. Numbered(r) \in Record
  BY <1>2, <1>3
<1>5. /\ SameFence(Numbered(r), r) /\ SameRestarts(Numbered(r), r)
      /\ Numbered(r).status = "running" /\ Numbered(r).workerGeneration = r.workerGeneration + 1
  BY SMT DEF Record, Numbered, SameFence, SameRestarts
<1> QED
  BY <1>4, <1>5

LEMMA RestartWritten ==
  ASSUME NEW r \in Record
  PROVE  /\ Charged(r) \in Record /\ SameFence(Charged(r), r)
         /\ Charged(r).status = r.status /\ Charged(r).workerGeneration = r.workerGeneration
         /\ Charged(r).checkpointRestarts = r.checkpointRestarts + 1
         /\ Charged(r).runRestarts = r.runRestarts + 1
<1>1. PICK i \in Nat, j \in Nat : i = r.checkpointRestarts + 1 /\ j = r.runRestarts + 1
  BY RecordFields, SMT
<1>2. Charged(r) = [[[r EXCEPT !.workerPid = None] EXCEPT !.checkpointRestarts = i] EXCEPT !.runRestarts = j]
  BY <1>1, SMT DEF Record, Charged
<1>3. \A k \in Record : /\ [k EXCEPT !.workerPid = None] \in Record
                        /\ [k EXCEPT !.checkpointRestarts = i] \in Record
                        /\ [k EXCEPT !.runRestarts = j] \in Record
  BY <1>1, SMT DEF Record
<1>4. Charged(r) \in Record
  BY <1>2, <1>3
<1>5. /\ SameFence(Charged(r), r)
      /\ Charged(r).status = r.status /\ Charged(r).workerGeneration = r.workerGeneration
      /\ Charged(r).checkpointRestarts = r.checkpointRestarts + 1
      /\ Charged(r).runRestarts = r.runRestarts + 1
  BY SMT DEF Record, Charged, SameFence
<1> QED
  BY <1>4, <1>5

LEMMA WorkerWritten ==
  ASSUME NEW r \in Record, NEW w \in Worker
  PROVE  /\ Employing(r, w) \in Record /\ SameRecord(Employing(r, w), r)
         /\ Employing(r, w).status = r.status /\ Employing(r, w).workerPid = w
BY SMT DEF Record, Employing, SameRecord, SameFence, SameRestarts

LEMMA RowTaken ==
  ASSUME NEW r \in Record, NEW s \in Supervisor
  PROVE  /\ Taken(r, s) \in Record /\ SameRestarts(Taken(r, s), r)
         /\ Taken(r, s).status = "running" /\ Taken(r, s).pid = s
<1>1. PICK n \in Nat : n = r.generation + 1
  BY RecordFields, SMT
<1>2. Taken(r, s) = [[[r EXCEPT !.status = "running"] EXCEPT !.pid = s] EXCEPT !.generation = n]
  BY <1>1, SMT DEF Record, Taken
<1>3. \A k \in Record : /\ [k EXCEPT !.status = "running"] \in Record
                        /\ [k EXCEPT !.pid = s] \in Record
                        /\ [k EXCEPT !.generation = n] \in Record
  BY <1>1, SMT DEF Record
<1>4. Taken(r, s) \in Record
  BY <1>2, <1>3
<1>5. SameRestarts(Taken(r, s), r) /\ Taken(r, s).status = "running" /\ Taken(r, s).pid = s
  BY SMT DEF Record, Taken, SameRestarts
<1> QED
  BY <1>4, <1>5

LEMMA RowReleased ==
  ASSUME NEW r \in Record, NEW st \in Statuses
  PROVE  /\ Released(r, st) \in Record /\ SameRestarts(Released(r, st), r)
         /\ Released(r, st).pid = None
<1>1. Released(r, st) = [[[r EXCEPT !.status = st] EXCEPT !.pid = None] EXCEPT !.workerPid = None]
  BY DEF Released
<1>2. \A k \in Record : /\ [k EXCEPT !.status = st] \in Record
                        /\ [k EXCEPT !.pid = None] \in Record
                        /\ [k EXCEPT !.workerPid = None] \in Record
  BY SMT DEF Record, Statuses
<1>3. Released(r, st) \in Record
  BY <1>1, <1>2
<1>4. Released(r, st).pid = None /\ SameRestarts(Released(r, st), r)
  BY SMT DEF Record, Released, SameRestarts
<1> QED
  BY <1>3, <1>4

LEMMA RowOrphaned ==
  ASSUME NEW r \in Record
  PROVE  Orphaned(r) \in Record /\ SameRecord(Orphaned(r), r)
BY SMT DEF Record, Orphaned, SameRecord, SameFence, SameRestarts

LEMMA Forgotten ==
  ASSUME NEW n \in Nat
  PROVE  [initialSupervisorState EXCEPT !.generation = n] \in Record
BY SMT DEF Record, initialSupervisorState

-----------------------------------------------------------------------------
(* Workers: who is born, and what counts as a restart.                      *)

SameBirth(w) == /\ worker'[w].life = "unborn" <=> worker[w].life = "unborn"
                /\ worker'[w].parent = worker[w].parent
                /\ worker'[w].generation = worker[w].generation

LEMMA SameFamilies ==
  ASSUME \A w \in Worker : SameBirth(w)
  PROVE  /\ \A s : ChildrenOf(s)' = ChildrenOf(s)
         /\ Restarted' = Restarted
<1>1. \A s : ChildrenOf(s)' = ChildrenOf(s)
  BY DEF ChildrenOf, SameBirth
<1>2. \A w \in Worker : Automatic(w)' <=> Automatic(w)
  <2> SUFFICES ASSUME NEW w \in Worker PROVE Automatic(w)' <=> Automatic(w)
    OBVIOUS
  <2>1. worker'[w].parent = worker[w].parent
    BY DEF SameBirth
  <2>2. ChildrenOf(Parent(w))' = ChildrenOf(Parent(w))
    BY <2>1 DEF ChildrenOf, SameBirth, Parent
  <2>3. \A v \in ChildrenOf(Parent(w)) : v \in Worker
    BY DEF ChildrenOf
  <2> QED
    BY <2>2, <2>3 DEF Automatic, SameBirth
<1> QED
  BY <1>1, <1>2 DEF Restarted, SameBirth

(* Where a supervisor is, and whether it lives. *)
LEMMA Alive ==
  ASSUME NEW s \in Supervisor
  PROVE  /\ pc[s] \in Looping \cup Closing \cup {"admitted"} => LiveSupervisor(s) /\ Live(s)
         /\ pc[s] \in Looping => pc[s] \notin Closing \cup {"off", "admitted", "ended", "exited", "dead"}
         /\ pc[s] \in Asking => pc[s] \in Looping
         /\ ~ Live(None)
BY SupervisorAssumption DEF LiveSupervisor, Live, Over, Looping, Closing, Asking

(* A worker that acts holds the admission, and lives. *)
LEMMA ActorLives ==
  ASSUME IInv, NEW w \in Worker, worker[w].life \in Acting
  PROVE  owner = w /\ LiveWorker(w) /\ Live(owner) /\ owner \notin Supervisor /\ w \in ChildrenOf(worker[w].parent)
BY SupervisorAssumption DEF IInv, Holding, LiveWorker, Live, Acting, Claimed, ChildrenOf

(* While a worker acts, the supervisor the row names is not deciding, has   *)
(* not returned, and is not about to.                                       *)
LEMMA NobodyDecides ==
  ASSUME IInv, NEW w \in Worker, worker[w].life \in Acting, NEW s \in Supervisor, row.pid = s
  PROVE  pc[s] \in {"recording", "watching", "exited", "dead"}
<1>1. owner = w /\ LiveWorker(w) /\ w \in ChildrenOf(worker[w].parent)
  BY ActorLives
<1>2. worker[w].parent = s
  BY <1>1 DEF IInv, Owned
<1> QED
  BY <1>1, <1>2 DEF IInv, Attended

(* A supervisor in its loop is the one the row names, and its memory agrees *)
(* with the row: no save or lifecycle write of it is refused.               *)
LEMMA InTheLoop ==
  ASSUME IInv, NEW s \in Supervisor, pc[s] \in Looping
  PROVE  /\ row.pid = s /\ row.status = "running" /\ memory[s].status = "running"
         /\ Agrees(s) /\ Fenced(s) /\ LiveSupervisor(s)
         /\ \A p \in Supervisor : pc[p] \in Looping => p = s
BY Alive DEF IInv, Role, Agrees, Fenced

-----------------------------------------------------------------------------
(* A turn of a supervisor: what its steps have in common that leave the     *)
(* workers alone.                                                           *)

SameCounts == /\ row'.runRestarts = row.runRestarts
              /\ row'.checkpointRestarts = row.checkpointRestarts

CountsRestart(s) == /\ pc'[s] = "backoff"
                    /\ row'.runRestarts = row.runRestarts + 1 /\ row.runRestarts < RunLimit
                    /\ row'.checkpointRestarts = row.checkpointRestarts + 1
                    /\ row.checkpointRestarts < CheckpointLimit

(* What it leaves alone. *)
Around(s) ==
  /\ UNCHANGED <<worker, evidence, uncertain>>
  /\ owner' = owner \/ (~ Live(owner) /\ owner' = s /\ row.pid = s)
  /\ probing' => probing
  /\ run'.status = "running" => run.status = "running"
  /\ \A p \in Supervisor \ {s} :
       pc'[p] = pc[p] /\ memory'[p] = memory[p] /\ outcome'[p] = outcome[p]

(* What it makes of the records. *)
Kept(s) ==
  /\ row'.pid = row.pid
  /\ row.pid = s => Agrees(s)'
  /\ row.pid # s => row' = row
  /\ SameCounts \/ CountsRestart(s)
  /\ memory'[s].workerGeneration = memory[s].workerGeneration + (IF pc'[s] = "spawning" THEN 1 ELSE 0)

(* Where it leads. *)
Moved(s) ==
  /\ pc[s] \in Looping \cup Closing /\ pc'[s] \in Looping \cup Closing \cup {"ended"}
  /\ pc'[s] \in Looping => /\ pc[s] \in Looping
                           /\ row'.status = "running" /\ memory'[s].status = "running"
  /\ pc'[s] # "recording"
  /\ pc'[s] \in {"watching", "reconciling", "settling"} =>
       /\ memory'[s].workerPid = memory[s].workerPid
       /\ pc[s] \in {"recording", "watching", "reconciling", "settling"}
  /\ pc[s] \in {"recording", "watching"} =>
       (pc[s] = "recording" /\ pc'[s] = "watching") \/ ~ LiveWorker(Watched(s))
  /\ pc'[s] \in Asking => pc[s] \in Asking \/ (CountsRestart(s) /\ ~ evidence /\ ~ probing)
  /\ pc'[s] \in {"stopping", "closing", "ended"} /\ row.pid = s => run'.status # "running"
  /\ pc'[s] = "judging" => outcome'[s] # "none"

Turn(s) == Around(s) /\ Kept(s) /\ Moved(s)

LEMMA TurnKeeps ==
  ASSUME IInv, NEW s \in Supervisor, TypeOK', Turn(s)
  PROVE  IInv'
<1>1. /\ worker' = worker /\ \A w \in Worker : SameBirth(w)
      /\ \A p : ChildrenOf(p)' = ChildrenOf(p)
      /\ Restarted' = Restarted
  BY SameFamilies DEF Turn, Around, Kept, Moved, SameBirth
<1>2. pc[s] \in Looping \cup Closing /\ LiveSupervisor(s) /\ Live(s)
  BY Alive DEF Turn, Around, Kept, Moved
<1>3. Births'
  BY <1>1 DEF IInv, Births
<1>4. Holding'
  BY <1>1, ActorLives DEF IInv, Holding, Turn, Around, Kept, Moved
<1>5. Visible'
  BY <1>1 DEF IInv, Visible, Turn, Around, Kept, Moved
<1>6. Role'
  <2> SUFFICES ASSUME NEW p \in Supervisor
               PROVE  /\ pc'[p] \in Looping => /\ row'.pid = p /\ row'.status = "running"
                                               /\ memory'[p].status = "running"
                      /\ row'.pid = p => pc'[p] \notin {"off", "admitted"}
                      /\ row'.pid = p /\ LiveSupervisor(p)' => Agrees(p)'
                      /\ pc'[p] = "judging" => outcome'[p] # "none"
    BY DEF Role
  <2>1. CASE p = s
    <3>1. pc'[p] \in Looping => row'.pid = p /\ row'.status = "running" /\ memory'[p].status = "running"
      BY <2>1, InTheLoop DEF Turn, Around, Kept, Moved
    <3>2. pc'[p] \notin {"off", "admitted"}
      BY <2>1 DEF Turn, Around, Kept, Moved, Looping, Closing
    <3> QED
      BY <2>1, <3>1, <3>2 DEF Turn, Around, Kept, Moved
  <2>2. CASE p # s
    <3>1. pc'[p] = pc[p] /\ memory'[p] = memory[p] /\ outcome'[p] = outcome[p] /\ row'.pid = row.pid
      BY <2>2 DEF Turn, Around, Kept, Moved
    <3>2. row.pid = p => row' = row
      BY <2>2 DEF Turn, Around, Kept, Moved
    <3>3. LiveSupervisor(p)' <=> LiveSupervisor(p)
      BY <3>1 DEF LiveSupervisor
    <3>4. row.pid = p /\ Agrees(p) => Agrees(p)'
      BY <3>1, <3>2 DEF Agrees
    <3> QED
      BY <3>1, <3>2, <3>3, <3>4 DEF IInv, Role
  <2> QED
    BY <2>1, <2>2
<1>7. Admission'
  <2> SUFFICES ASSUME NEW p \in Supervisor
               PROVE  /\ pc'[p] = "admitted" => owner' = p
                      /\ pc'[p] \in {"off", "admitted"} => ChildrenOf(p)' = {}
    BY DEF Admission
  <2>1. pc'[s] \notin {"off", "admitted"}
    BY DEF Turn, Around, Kept, Moved, Looping, Closing
  <2>2. p # s => pc'[p] = pc[p]
    BY DEF Turn, Around, Kept, Moved
  <2>3. pc[p] = "admitted" => owner = p /\ Live(owner)
    BY Alive DEF IInv, Admission
  <2> QED
    BY <1>1, <2>1, <2>2, <2>3 DEF IInv, Admission, Turn, Around, Kept, Moved
<1>8. Owned'
  <2>1. CASE owner' = owner
    BY <1>1, <2>1 DEF IInv, Owned, Turn, Around, Kept, Moved
  <2>2. CASE owner' = s /\ row.pid = s
    BY <1>1, <2>2, SupervisorAssumption DEF Owned, Turn, Around, Kept, Moved
  <2> QED
    BY <2>1, <2>2 DEF Turn, Around, Kept, Moved
<1>9. Attended'
  <2> SUFFICES ASSUME NEW p \in Supervisor
               PROVE  /\ pc'[p] \in {"recording", "watching", "reconciling", "settling"} => Watched(p)' \in Worker
                      /\ pc'[p] \notin {"exited", "dead"} =>
                           \A w \in ChildrenOf(p)' : LiveWorker(w)' =>
                              pc'[p] \in {"recording", "watching"} /\ Watched(p)' = w
    BY DEF Attended
  <2>1. CASE p # s
    <3>1. pc'[p] = pc[p] /\ Watched(p)' = Watched(p)
      BY <2>1 DEF Turn, Around, Kept, Moved, Watched
    <3> QED
      BY <1>1, <3>1 DEF IInv, Attended, LiveWorker
  <2>2. CASE p = s
    <3>1. pc'[p] \in {"recording", "watching", "reconciling", "settling"} =>
            Watched(p)' = Watched(p) /\ Watched(p) \in Worker
      BY <2>2 DEF Turn, Around, Kept, Moved, Watched, IInv, Attended
    <3>2. pc[p] \notin {"exited", "dead"}
      BY <2>2 DEF Turn, Around, Kept, Moved, Looping, Closing
    <3>3. ASSUME NEW w \in ChildrenOf(p), LiveWorker(w)
          PROVE  pc'[p] = "watching" /\ Watched(p)' = w
      <4>1. pc[p] \in {"recording", "watching"} /\ Watched(p) = w
        BY <3>2, <3>3 DEF IInv, Attended
      <4> QED
        BY <2>2, <3>1, <3>3, <4>1 DEF Turn, Around, Kept, Moved
    <3>4. ChildrenOf(p)' = ChildrenOf(p) /\ \A w \in Worker : LiveWorker(w)' <=> LiveWorker(w)
      BY <1>1 DEF LiveWorker
    <3> QED
      BY <3>1, <3>3, <3>4 DEF ChildrenOf
  <2> QED
    BY <2>1, <2>2
<1>10. Quiet'
  <2> SUFFICES ASSUME NEW p \in Supervisor, pc'[p] \in Asking, ChildrenOf(p) # {}
               PROVE  ~ evidence' /\ ~ probing'
    BY <1>1 DEF Quiet
  <2>1. CASE p = s
    BY <2>1 DEF IInv, Quiet, Turn, Around, Kept, Moved
  <2>2. CASE p # s
    BY <2>2 DEF IInv, Quiet, Turn, Around, Kept, Moved
  <2> QED
    BY <2>1, <2>2
<1>11. Parked'
  <2> SUFFICES ASSUME NEW p \in Supervisor, row'.pid = p, pc'[p] \in {"stopping", "closing", "ended"}
               PROVE  run'.status # "running"
    BY DEF Parked
  <2>1. CASE p = s
    BY <2>1 DEF Turn, Around, Kept, Moved
  <2>2. CASE p # s
    BY <2>2 DEF IInv, Parked, Turn, Around, Kept, Moved
  <2> QED
    BY <2>1, <2>2
<1>12. Generations'
  <2> SUFFICES ASSUME NEW p \in Supervisor, pc'[p] \in Looping, NEW w \in ChildrenOf(p)
               PROVE  /\ worker[w].generation <= memory'[p].workerGeneration
                      /\ pc'[p] = "spawning" => worker[w].generation < memory'[p].workerGeneration
    BY <1>1 DEF Generations
  <2>0. w \in Worker
    BY DEF ChildrenOf
  <2>1. CASE p = s
    <3>1. pc[s] \in Looping
      BY <2>1 DEF Turn, Around, Kept, Moved
    <3>2. worker[w].generation \in Nat /\ memory[s].workerGeneration \in Nat
      BY <2>0, RecordFields DEF IInv, TypeOK, WorkerRow
    <3>3. worker[w].generation <= memory[s].workerGeneration
      BY <2>1, <3>1 DEF IInv, Generations
    <3>4. memory'[s].workerGeneration = memory[s].workerGeneration + (IF pc'[s] = "spawning" THEN 1 ELSE 0)
      BY DEF Turn, Around, Kept, Moved
    <3>5. CASE pc'[s] = "spawning"
      BY <2>1, <3>2, <3>3, <3>4, <3>5, SMT
    <3>6. CASE pc'[s] # "spawning"
      BY <2>1, <3>2, <3>3, <3>4, <3>6, SMT
    <3> QED
      BY <3>5, <3>6
  <2>2. CASE p # s
    BY <2>2 DEF IInv, Generations, Turn, Around, Kept, Moved
  <2> QED
    BY <2>1, <2>2
<1>13. Counted'
  <2>1. Cardinality(Restarted) \in Nat /\ IsFiniteSet(Restarted)
    BY FS_CardinalityType DEF IInv, Counted
  <2>2. /\ row.runRestarts \in Nat /\ row.checkpointRestarts \in Nat
        /\ RunLimit \in Nat /\ CheckpointLimit \in Nat
    BY RecordFields, SupervisorAssumption DEF IInv, TypeOK
  <2>3. /\ Cardinality(Restarted) <= row.runRestarts /\ row.runRestarts <= RunLimit
        /\ Cardinality(Restarted) <= row.checkpointRestarts /\ row.checkpointRestarts <= CheckpointLimit
    BY DEF IInv, Counted
  <2>4. CASE SameCounts
    <3>1. ASSUME NEW p \in Supervisor, pc'[p] \in Asking, ChildrenOf(p) # {}
          PROVE  Cardinality(Restarted) < row.runRestarts /\ Cardinality(Restarted) < row.checkpointRestarts
      <4>0. p = s => ~ CountsRestart(s)
        BY <2>2, <2>4, SMT DEF SameCounts, CountsRestart
      <4>1. pc[p] \in Asking
        BY <3>1, <4>0 DEF Turn, Around, Kept, Moved
      <4> QED
        BY <3>1, <4>1 DEF IInv, Counted
    <3> QED
      BY <1>1, <2>1, <2>3, <2>4, <3>1 DEF Counted, SameCounts
  <2>5. CASE CountsRestart(s)
    <3>1. PICK c \in Nat, i \in Nat, j \in Nat : /\ c = Cardinality(Restarted)
                                                 /\ i = row.runRestarts /\ j = row.checkpointRestarts
      BY <2>1, <2>2
    <3>2. row'.runRestarts = i + 1 /\ i < RunLimit /\ row'.checkpointRestarts = j + 1 /\ j < CheckpointLimit
      BY <2>5, <3>1 DEF CountsRestart
    <3>3. c < row'.runRestarts /\ row'.runRestarts <= RunLimit /\ c <= row'.runRestarts
      BY <2>2, <2>3, <3>1, <3>2, SMT
    <3>4. c < row'.checkpointRestarts /\ row'.checkpointRestarts <= CheckpointLimit /\ c <= row'.checkpointRestarts
      BY <2>2, <2>3, <3>1, <3>2, SMT
    <3> QED
      BY <1>1, <2>1, <3>1, <3>3, <3>4 DEF Counted
  <2> QED
    BY <2>4, <2>5 DEF Turn, Around, Kept, Moved
<1> QED
  BY <1>3, <1>4, <1>5, <1>6, <1>7, <1>8, <1>9, <1>10, <1>11, <1>12, <1>13 DEF IInv

-----------------------------------------------------------------------------
(* Each of those steps is a turn.                                           *)

LEMMA Went ==
  ASSUME TypeOK, NEW s \in Supervisor, NEW place \in Places, Goto(s, place)
  PROVE  /\ pc' \in [Supervisor -> Places] /\ pc'[s] = place
         /\ \A p \in Supervisor \ {s} : pc'[p] = pc[p]
BY DEF TypeOK, Goto

LEMMA Remembered ==
  ASSUME TypeOK, NEW s \in Supervisor, NEW m \in Record, memory' = [memory EXCEPT ![s] = m]
  PROVE  /\ memory' \in [Supervisor -> Record] /\ memory'[s] = m
         /\ \A p \in Supervisor \ {s} : memory'[p] = memory[p]
BY DEF TypeOK

LEMMA SavedInTheLoop ==
  ASSUME IInv, NEW s \in Supervisor, pc[s] \in Looping, NEW m \in Record, NEW place \in Places,
         Save(s, m, place)
  PROVE  /\ row' = m /\ memory'[s] = m /\ pc'[s] = place
         /\ memory' \in [Supervisor -> Record] /\ row' \in Record /\ pc' \in [Supervisor -> Places]
         /\ \A p \in Supervisor \ {s} : pc'[p] = pc[p] /\ memory'[p] = memory[p]
<1>1. Fenced(s) /\ TypeOK
  BY InTheLoop DEF IInv
<1>2. row' = m /\ Goto(s, place) /\ memory' = [memory EXCEPT ![s] = m]
  BY <1>1 DEF Save
<1> QED
  BY <1>1, <1>2, Went, Remembered

LEMMA KeptUnsaved ==
  ASSUME IInv, NEW s \in Supervisor, pc[s] \in Looping \cup Closing, pc'[s] # "spawning",
         row' = row, SameRecord(memory'[s], memory[s])
  PROVE  Kept(s)
<1>1. row.pid = s => Agrees(s)
  BY Alive DEF IInv, Role
<1>2. row.pid = s => Agrees(s)'
  BY <1>1 DEF Agrees, SameRecord, SameFence, SameRestarts
<1>3. memory[s].workerGeneration + 0 = memory[s].workerGeneration
  BY RecordFields, SMT DEF IInv, TypeOK
<1> QED
  BY <1>2, <1>3 DEF Kept, SameCounts, SameRecord

LEMMA SaveTurns ==
  ASSUME IInv, NEW s \in Supervisor, pc[s] \in Looping, NEW place \in Looping \cup Closing,
         NEW m \in Record, SameFence(m, memory[s]),
         SameRestarts(m, memory[s])
           \/ (/\ place = "backoff"
               /\ m.runRestarts = memory[s].runRestarts + 1 /\ memory[s].runRestarts < RunLimit
               /\ m.checkpointRestarts = memory[s].checkpointRestarts + 1
               /\ memory[s].checkpointRestarts < CheckpointLimit),
         m.workerGeneration = memory[s].workerGeneration + (IF place = "spawning" THEN 1 ELSE 0),
         Save(s, m, place), UNCHANGED <<stop, run, ownVars, workVars>>,
         outcome' = outcome \/ Judged(s)
  PROVE  /\ TypeOK' /\ Around(s) /\ Kept(s)
         /\ row' = m /\ memory'[s] = m /\ pc'[s] = place
<1>1. TypeOK /\ place \in Places
  BY DEF IInv, Places
<1>2. /\ row' = m /\ memory'[s] = m /\ pc'[s] = place
      /\ memory' \in [Supervisor -> Record] /\ row' \in Record /\ pc' \in [Supervisor -> Places]
      /\ \A p \in Supervisor \ {s} : pc'[p] = pc[p] /\ memory'[p] = memory[p]
  BY <1>1, SavedInTheLoop
<1>3. row.pid = s /\ Agrees(s)
  BY InTheLoop
<1>4. /\ outcome' \in [Supervisor -> {"none", "crashed", "completed", "waiting", "failed"}]
      /\ \A p \in Supervisor \ {s} : outcome'[p] = outcome[p]
  BY <1>1 DEF TypeOK, Judged
<1>5. TypeOK'
  BY <1>1, <1>2, <1>4 DEF TypeOK, ownVars, workVars
<1>6. Around(s)
  BY <1>2, <1>4 DEF Around, ownVars, workVars
<1>7. row'.pid = row.pid /\ Agrees(s)'
  BY <1>2, <1>3 DEF Agrees, SameFence
<1>8. SameCounts \/ CountsRestart(s)
  BY <1>2, <1>3 DEF SameCounts, CountsRestart, SameRestarts, Agrees
<1> QED
  BY <1>2, <1>3, <1>5, <1>6, <1>7, <1>8 DEF Kept

LEMMA PlainNumber ==
  ASSUME IInv, NEW s \in Supervisor
  PROVE  /\ memory[s] \in Record
         /\ memory[s].workerGeneration + 0 = memory[s].workerGeneration
         /\ memory[s].workerGeneration \in Nat
BY RecordFields, SMT DEF IInv, TypeOK

LEMMA WaitForHumanTurns ==
  ASSUME IInv, NEW s \in Supervisor, WaitForHuman(s)
  PROVE  TypeOK' /\ Turn(s)
<1> DEFINE m == Marked(memory[s], "waiting_for_human", None)
<1>1. pc[s] = "deciding" /\ pc[s] \in Looping
  BY DEF WaitForHuman, Looping
<1>2. m \in Record /\ SameRecord(m, memory[s])
  BY StatusWritten, PlainNumber DEF Statuses
<1>3. Save(s, m, "waiting") /\ UNCHANGED <<stop, outcome, run, ownVars, workVars>>
  BY DEF WaitForHuman, Marked
<1> HIDE DEF m
<1>4. /\ TypeOK' /\ Around(s) /\ Kept(s)
      /\ row' = m /\ memory'[s] = m /\ pc'[s] = "waiting"
  BY <1>1, <1>2, <1>3, SaveTurns, PlainNumber DEF SameRecord, Closing
<1>5. Moved(s)
  BY <1>1, <1>4 DEF Moved, Looping, Closing, Asking
<1> QED
  BY <1>4, <1>5 DEF Turn

LEMMA PublishGenerationTurns ==
  ASSUME IInv, NEW s \in Supervisor, PublishGeneration(s)
  PROVE  TypeOK' /\ Turn(s)
<1> DEFINE m == Numbered(memory[s])
<1>1. pc[s] = "deciding" /\ pc[s] \in Looping
  BY DEF PublishGeneration, Looping
<1>2. /\ m \in Record /\ SameFence(m, memory[s]) /\ SameRestarts(m, memory[s])
      /\ m.status = "running" /\ m.workerGeneration = memory[s].workerGeneration + 1
  BY GenerationWritten, PlainNumber
<1>3. Save(s, m, "spawning") /\ UNCHANGED <<stop, outcome, run, ownVars, workVars>>
  BY DEF PublishGeneration, Numbered
<1> HIDE DEF m
<1>4. /\ TypeOK' /\ Around(s) /\ Kept(s)
      /\ row' = m /\ memory'[s] = m /\ pc'[s] = "spawning"
  BY <1>1, <1>2, <1>3, SaveTurns DEF Looping
<1>5. Moved(s)
  BY <1>1, <1>2, <1>4 DEF Moved, Looping, Closing, Asking
<1> QED
  BY <1>4, <1>5 DEF Turn

LEMMA RecordWorkerTurns ==
  ASSUME IInv, NEW s \in Supervisor, RecordWorker(s)
  PROVE  TypeOK' /\ Turn(s)
<1>1. pc[s] = "recording" /\ pc[s] \in Looping
  BY DEF RecordWorker, Looping
<1>2. PICK m : m = memory[s]
  OBVIOUS
<1>3. Save(s, m, "watching") /\ UNCHANGED <<stop, outcome, run, ownVars, workVars>>
  BY <1>2 DEF RecordWorker
<1>4. /\ m \in Record /\ SameFence(m, memory[s]) /\ SameRestarts(m, memory[s])
      /\ m.workerGeneration = memory[s].workerGeneration + 0
  BY <1>2, PlainNumber DEF SameFence, SameRestarts
<1>5. /\ TypeOK' /\ Around(s) /\ Kept(s)
      /\ row' = m /\ memory'[s] = m /\ pc'[s] = "watching"
  BY <1>1, <1>3, <1>4, SaveTurns DEF Looping
<1>6. m.status = "running"
  BY <1>1, <1>2, InTheLoop
<1>7. Moved(s)
  BY <1>1, <1>2, <1>5, <1>6 DEF Moved, Looping, Closing, Asking
<1> QED
  BY <1>5, <1>7 DEF Turn

LEMMA WithholdRestartTurns ==
  ASSUME IInv, NEW s \in Supervisor, WithholdRestart(s)
  PROVE  TypeOK' /\ Turn(s)
<1> DEFINE m == Marked(memory[s], "waiting_for_human", None)
<1>1. pc[s] = "judging" /\ pc[s] \in Looping
  BY DEF WithholdRestart, Crashed, Looping
<1>2. m \in Record /\ SameRecord(m, memory[s])
  BY StatusWritten, PlainNumber DEF Statuses
<1>3. Save(s, m, "withheld") /\ Judged(s) /\ UNCHANGED <<stop, run, ownVars, workVars>>
  BY DEF WithholdRestart, Marked
<1> HIDE DEF m
<1>4. /\ TypeOK' /\ Around(s) /\ Kept(s)
      /\ row' = m /\ memory'[s] = m /\ pc'[s] = "withheld"
  BY <1>1, <1>2, <1>3, SaveTurns, PlainNumber DEF SameRecord, Closing
<1>5. Moved(s)
  BY <1>1, <1>4 DEF Moved, Looping, Closing, Asking
<1> QED
  BY <1>4, <1>5 DEF Turn

LEMMA ExhaustBudgetTurns ==
  ASSUME IInv, NEW s \in Supervisor, ExhaustBudget(s)
  PROVE  TypeOK' /\ Turn(s)
<1> DEFINE m == Marked(memory[s], "failed", None)
<1>1. pc[s] = "judging" /\ pc[s] \in Looping
  BY DEF ExhaustBudget, Crashed, Looping
<1>2. m \in Record /\ SameRecord(m, memory[s])
  BY StatusWritten, PlainNumber DEF Statuses
<1>3. Save(s, m, "exhausted") /\ Judged(s) /\ UNCHANGED <<stop, run, ownVars, workVars>>
  BY DEF ExhaustBudget, Marked
<1> HIDE DEF m
<1>4. /\ TypeOK' /\ Around(s) /\ Kept(s)
      /\ row' = m /\ memory'[s] = m /\ pc'[s] = "exhausted"
  BY <1>1, <1>2, <1>3, SaveTurns, PlainNumber DEF SameRecord, Closing
<1>5. Moved(s)
  BY <1>1, <1>4 DEF Moved, Looping, Closing, Asking
<1> QED
  BY <1>4, <1>5 DEF Turn

(* The only way to a back-off: nothing of the run is visible, and both      *)
(* counts were below their limits.                                          *)
LEMMA ScheduleRestartTurns ==
  ASSUME IInv, NEW s \in Supervisor, ScheduleRestart(s)
  PROVE  TypeOK' /\ Turn(s)
<1> DEFINE m == Charged(memory[s])
<1>1. pc[s] = "judging" /\ pc[s] \in Looping /\ preparationEligibility /\ Restartable(s)
  BY DEF ScheduleRestart, Crashed, Looping
<1>2. /\ m \in Record /\ SameFence(m, memory[s])
      /\ m.status = memory[s].status /\ m.workerGeneration = memory[s].workerGeneration
      /\ m.checkpointRestarts = memory[s].checkpointRestarts + 1
      /\ m.runRestarts = memory[s].runRestarts + 1
  BY RestartWritten, PlainNumber
<1>3. Save(s, m, "backoff") /\ Judged(s) /\ UNCHANGED <<stop, run, ownVars, workVars>>
  BY DEF ScheduleRestart, Charged
<1> HIDE DEF m
<1>4. /\ TypeOK' /\ Around(s) /\ Kept(s)
      /\ row' = m /\ memory'[s] = m /\ pc'[s] = "backoff"
  BY <1>1, <1>2, <1>3, SaveTurns, PlainNumber DEF Restartable, Looping
<1>5. memory[s].status = "running" /\ Agrees(s)
  BY <1>1, InTheLoop
<1>6. CountsRestart(s) /\ ~ evidence /\ ~ probing
  BY <1>1, <1>2, <1>4, <1>5 DEF CountsRestart, Agrees, Restartable, preparationEligibility
<1>7. Moved(s)
  BY <1>1, <1>2, <1>4, <1>5, <1>6 DEF Moved, Looping, Closing, Asking
<1> QED
  BY <1>4, <1>7 DEF Turn

(* The steps that save nothing. *)
Results == {"none", "crashed", "completed", "waiting", "failed"}

LEMMA UnsavedTurns ==
  ASSUME IInv, NEW s \in Supervisor, pc[s] \in Looping \cup Closing,
         NEW place \in Places \ {"spawning"}, Goto(s, place),
         UNCHANGED <<row, stop, worker, evidence, uncertain>>,
         owner' = owner \/ (~ Live(owner) /\ owner' = s /\ row.pid = s),
         probing' \in BOOLEAN, probing' => probing,
         run'.status \in Status, run'.status = "running" => run.status = "running",
         memory' \in [Supervisor -> Record], SameRecord(memory'[s], memory[s]),
         outcome' \in [Supervisor -> Results],
         \A p \in Supervisor \ {s} : memory'[p] = memory[p] /\ outcome'[p] = outcome[p]
  PROVE  TypeOK' /\ Around(s) /\ Kept(s) /\ pc'[s] = place
<1>1. TypeOK
  BY DEF IInv
<1>2. /\ pc' \in [Supervisor -> Places] /\ pc'[s] = place
      /\ \A p \in Supervisor \ {s} : pc'[p] = pc[p]
  BY <1>1, Went
<1>3. TypeOK'
  BY <1>1, <1>2 DEF TypeOK, Results
<1>4. Around(s)
  BY <1>2 DEF Around
<1>5. Kept(s)
  BY <1>2, KeptUnsaved
<1> QED
  BY <1>2, <1>3, <1>4, <1>5

LEMMA Unchanging ==
  ASSUME IInv, NEW s \in Supervisor
  PROVE  /\ memory \in [Supervisor -> Record] /\ outcome \in [Supervisor -> Results]
         /\ SameRecord(memory[s], memory[s]) /\ run.status \in Status /\ probing \in BOOLEAN
BY DEF IInv, TypeOK, SameRecord, SameFence, SameRestarts, Results

LEMMA Moves ==
  ASSUME run.status \in Status, NEW s \in Supervisor, NEW status \in Status \ {"running"},
         NEW checkpoint, NEW place, MoveIfRunning(s, status, checkpoint, place)
  PROVE  /\ run'.status \in Status
         /\ run'.status = "running" => run.status = "running"
         /\ (Goto(s, place) /\ run'.status # "running") \/ Goto(s, "failing")
BY DEF MoveIfRunning, Move, Status

LEMMA ParkWaitingRunTurns ==
  ASSUME IInv, NEW s \in Supervisor, ParkWaitingRun(s)
  PROVE  TypeOK' /\ Turn(s)
<1>1. /\ pc[s] = "waiting" /\ MoveIfRunning(s, "paused", "parked", "ended")
      /\ UNCHANGED <<memory, stop, outcome, row, worker, owner, evidence, uncertain, probing>>
  BY DEF ParkWaitingRun, ownVars, workVars
<1>2. /\ run'.status \in Status /\ (run'.status = "running" => run.status = "running")
      /\ (Goto(s, "ended") /\ run'.status # "running") \/ Goto(s, "failing")
  BY <1>1, Unchanging, Moves DEF Status, Terminal
<1>3. PICK place \in {"ended", "failing"} : Goto(s, place) /\ (place = "ended" => run'.status # "running")
  BY <1>2 DEF Goto
<1> place \in Places \ {"spawning"} /\ pc[s] \in Looping \cup Closing
  BY <1>1 DEF Closing, Places
<1>4. TypeOK' /\ Around(s) /\ Kept(s) /\ pc'[s] = place
  BY <1>1, <1>2, <1>3, UnsavedTurns, Unchanging
<1>5. Moved(s)
  BY <1>1, <1>3, <1>4 DEF Moved, Looping, Closing, Asking
<1> QED
  BY <1>4, <1>5 DEF Turn

LEMMA FailExhaustedRunTurns ==
  ASSUME IInv, NEW s \in Supervisor, FailExhaustedRun(s)
  PROVE  TypeOK' /\ Turn(s)
<1>1. /\ pc[s] = "exhausted" /\ MoveIfRunning(s, "failed", "parked", "ended")
      /\ UNCHANGED <<memory, stop, outcome, row, worker, owner, evidence, uncertain, probing>>
  BY DEF FailExhaustedRun, ownVars, workVars
<1>2. /\ run'.status \in Status /\ (run'.status = "running" => run.status = "running")
      /\ (Goto(s, "ended") /\ run'.status # "running") \/ Goto(s, "failing")
  BY <1>1, Unchanging, Moves DEF Status, Terminal
<1>3. PICK place \in {"ended", "failing"} : Goto(s, place) /\ (place = "ended" => run'.status # "running")
  BY <1>2 DEF Goto
<1> place \in Places \ {"spawning"} /\ pc[s] \in Looping \cup Closing
  BY <1>1 DEF Closing, Places
<1>4. TypeOK' /\ Around(s) /\ Kept(s) /\ pc'[s] = place
  BY <1>1, <1>2, <1>3, UnsavedTurns, Unchanging
<1>5. Moved(s)
  BY <1>1, <1>3, <1>4 DEF Moved, Looping, Closing, Asking
<1> QED
  BY <1>4, <1>5 DEF Turn

LEMMA ParkWithheldRunTurns ==
  ASSUME IInv, NEW s \in Supervisor, ParkWithheldRun(s)
  PROVE  TypeOK' /\ Turn(s)
<1>1. /\ pc[s] = "withheld" /\ Move(s, "paused", "parked", "ended")
      /\ UNCHANGED <<memory, stop, outcome, row, worker, owner, evidence, uncertain, probing>>
  BY DEF ParkWithheldRun, ownVars, workVars
<1>2. /\ run'.status \in Status /\ (run'.status = "running" => run.status = "running")
      /\ (Goto(s, "ended") /\ run'.status # "running") \/ Goto(s, "failing")
  BY <1>1, Unchanging DEF Move, Status
<1>3. PICK place \in {"ended", "failing"} : Goto(s, place) /\ (place = "ended" => run'.status # "running")
  BY <1>2 DEF Goto
<1> place \in Places \ {"spawning"} /\ pc[s] \in Looping \cup Closing
  BY <1>1 DEF Closing, Places
<1>4. TypeOK' /\ Around(s) /\ Kept(s) /\ pc'[s] = place
  BY <1>1, <1>2, <1>3, UnsavedTurns, Unchanging
<1>5. Moved(s)
  BY <1>1, <1>3, <1>4 DEF Moved, Looping, Closing, Asking
<1> QED
  BY <1>4, <1>5 DEF Turn

LEMMA WakeUpTurns ==
  ASSUME IInv, NEW s \in Supervisor, WakeUp(s)
  PROVE  TypeOK' /\ Turn(s)
<1>1. /\ pc[s] = "backoff" /\ pc[s] \in Looping /\ Goto(s, "deciding")
      /\ UNCHANGED <<memory, stop, outcome, row, run, worker, owner, evidence, uncertain, probing>>
  BY DEF WakeUp, rowVars, ownVars, workVars, Looping
<1>2. TypeOK' /\ Around(s) /\ Kept(s) /\ pc'[s] = "deciding"
  BY <1>1, UnsavedTurns, Unchanging DEF Looping, Places
<1>3. Moved(s)
  BY <1>1, <1>2, InTheLoop DEF Moved, Looping, Closing, Asking
<1> QED
  BY <1>2, <1>3 DEF Turn

LEMMA FailLaunchTurns ==
  ASSUME IInv, NEW s \in Supervisor, FailLaunch(s)
  PROVE  TypeOK' /\ Turn(s)
<1>1. /\ pc[s] = "spawning" /\ pc[s] \in Looping /\ Goto(s, "failing")
      /\ owner' = IF CanReacquire(s) THEN s ELSE owner
      /\ UNCHANGED <<memory, stop, outcome, row, run, worker, evidence, uncertain, probing>>
  BY DEF FailLaunch, rowVars, workVars, Looping
<1>2. owner' = owner \/ (~ Live(owner) /\ owner' = s /\ row.pid = s)
  BY <1>1, InTheLoop DEF CanReacquire
<1>3. TypeOK' /\ Around(s) /\ Kept(s) /\ pc'[s] = "failing"
  BY <1>1, <1>2, UnsavedTurns, Unchanging DEF Closing, Places
<1>4. Moved(s)
  BY <1>1, <1>3 DEF Moved, Looping, Closing, Asking
<1> QED
  BY <1>3, <1>4 DEF Turn

LEMMA StopLoopTurns ==
  ASSUME IInv, NEW s \in Supervisor, StopLoop(s)
  PROVE  TypeOK' /\ Turn(s)
<1> DEFINE m == Marked(memory[s], "stopped", None)
<1>1. m \in Record /\ SameRecord(m, memory[s])
  BY StatusWritten, PlainNumber DEF Statuses
<1>2. /\ pc[s] = "deciding" /\ MoveIfRunning(s, "paused", "parked", "stopping")
      /\ UNCHANGED <<stop, outcome, row, worker, owner, evidence, uncertain, probing>>
  BY DEF StopLoop, ownVars, workVars
<1>3. memory' = [memory EXCEPT ![s] = m]
  BY Unchanging DEF StopLoop, Marked
<1> HIDE DEF m
<1>4. /\ memory' \in [Supervisor -> Record] /\ memory'[s] = m
      /\ \A p \in Supervisor \ {s} : memory'[p] = memory[p]
  BY <1>1, <1>3, Remembered DEF IInv
<1>5. /\ run'.status \in Status /\ (run'.status = "running" => run.status = "running")
      /\ (Goto(s, "stopping") /\ run'.status # "running") \/ Goto(s, "failing")
  BY <1>2, Unchanging, Moves DEF Status, Terminal
<1>6. PICK place \in {"stopping", "failing"} : Goto(s, place) /\ (place = "stopping" => run'.status # "running")
  BY <1>5 DEF Goto
<1> place \in Places \ {"spawning"} /\ pc[s] \in Looping \cup Closing
  BY <1>2 DEF Looping, Closing, Places
<1>7. TypeOK' /\ Around(s) /\ Kept(s) /\ pc'[s] = place
  BY <1>1, <1>2, <1>4, <1>5, <1>6, UnsavedTurns, Unchanging
<1>8. Moved(s)
  BY <1>2, <1>6, <1>7 DEF Moved, Looping, Closing, Asking
<1> QED
  BY <1>7, <1>8 DEF Turn

LEMMA JudgeEndedTurns ==
  ASSUME IInv, NEW s \in Supervisor, JudgeEnded(s)
  PROVE  TypeOK' /\ Turn(s)
<1>1. /\ pc[s] = "judging" /\ outcome[s] # "crashed" /\ Judged(s)
      /\ UNCHANGED <<stop, row, worker, owner, evidence, uncertain, probing>>
  BY DEF JudgeEnded, ownVars, workVars
<1>2. outcome[s] \in {"completed", "waiting", "failed"}
  BY <1>1, Unchanging DEF Results, IInv, Role
<1>3. PICK st \in Statuses : memory' = [memory EXCEPT ![s] = Marked(memory[s], st, None)]
  <2>1. CASE outcome[s] = "completed"
    <3>1. memory' = [memory EXCEPT ![s].workerPid = None, ![s].status = "stopped"]
      BY <2>1, Zenon DEF JudgeEnded
    <3>2. memory' = [memory EXCEPT ![s] = Marked(memory[s], "stopped", None)]
      BY <3>1, PlainNumber, Unchanging DEF Marked, Record
    <3> QED
      BY <3>2 DEF Statuses
  <2>2. CASE outcome[s] = "waiting"
    <3>1. memory' = [memory EXCEPT ![s].workerPid = None, ![s].status = "waiting_for_human"]
      BY <2>2 DEF JudgeEnded
    <3>2. memory' = [memory EXCEPT ![s] = Marked(memory[s], "waiting_for_human", None)]
      BY <3>1, PlainNumber, Unchanging DEF Marked, Record
    <3> QED
      BY <3>2 DEF Statuses
  <2>3. CASE outcome[s] = "failed"
    <3>1. memory' = [memory EXCEPT ![s].workerPid = None, ![s].status = "failed"]
      BY <2>3 DEF JudgeEnded
    <3>2. memory' = [memory EXCEPT ![s] = Marked(memory[s], "failed", None)]
      BY <3>1, PlainNumber, Unchanging DEF Marked, Record
    <3> QED
      BY <3>2 DEF Statuses
  <2> QED
    BY <1>2, <2>1, <2>2, <2>3
<1> DEFINE m == Marked(memory[s], st, None)
<1>4. m \in Record /\ SameRecord(m, memory[s]) /\ memory' = [memory EXCEPT ![s] = m]
  BY <1>3, StatusWritten, PlainNumber
<1> HIDE DEF m
<1>5. /\ memory' \in [Supervisor -> Record] /\ memory'[s] = m
      /\ \A p \in Supervisor \ {s} : memory'[p] = memory[p]
  BY <1>4, Remembered DEF IInv
<1>6. PICK status \in {"failed", "paused"} : MoveIfRunning(s, status, "parked", "closing")
  BY DEF JudgeEnded
<1>7. /\ run'.status \in Status /\ (run'.status = "running" => run.status = "running")
      /\ (Goto(s, "closing") /\ run'.status # "running") \/ Goto(s, "failing")
  BY <1>6, Unchanging, Moves DEF Status, Terminal
<1>8. PICK place \in {"closing", "failing"} : Goto(s, place) /\ (place = "closing" => run'.status # "running")
  BY <1>7 DEF Goto
<1>9. /\ outcome' \in [Supervisor -> Results]
      /\ \A p \in Supervisor \ {s} : outcome'[p] = outcome[p]
  BY <1>1, Unchanging DEF Judged, Results
<1> place \in Places \ {"spawning"} /\ pc[s] \in Looping \cup Closing
  BY <1>1 DEF Looping, Closing, Places
<1>10. TypeOK' /\ Around(s) /\ Kept(s) /\ pc'[s] = place
  BY <1>1, <1>4, <1>5, <1>7, <1>8, <1>9, UnsavedTurns, Unchanging
<1>11. Moved(s)
  BY <1>1, <1>8, <1>10 DEF Moved, Looping, Closing, Asking
<1> QED
  BY <1>10, <1>11 DEF Turn

LEMMA Outcomes ==
  ASSUME IInv, NEW s \in Supervisor, NEW result \in Results \ {"none"}, Settled(s, result)
  PROVE  /\ outcome' \in [Supervisor -> Results] /\ outcome'[s] = result /\ outcome'[s] # "none"
         /\ \A p \in Supervisor \ {s} : outcome'[p] = outcome[p]
         /\ Goto(s, "judging")
BY Unchanging DEF Settled, Results

(* The supervisor sees the end only of a worker that ended.                 *)
LEMMA NoticeExitTurns ==
  ASSUME IInv, NEW s \in Supervisor, NoticeExit(s)
  PROVE  TypeOK' /\ Turn(s)
<1>1. /\ pc[s] = "watching" /\ pc[s] \in Looping /\ ~ LiveWorker(Watched(s))
      /\ UNCHANGED <<memory, stop, row, run, worker, owner, evidence, uncertain, probing>>
  BY DEF NoticeExit, rowVars, ownVars, workVars, Looping
<1>2. row.status = "running" /\ memory[s].status = "running"
  BY <1>1, InTheLoop
<1>3. CASE Goto(s, "reconciling") /\ UNCHANGED outcome
  <2>1. TypeOK' /\ Around(s) /\ Kept(s) /\ pc'[s] = "reconciling"
    BY <1>1, <1>3, UnsavedTurns, Unchanging DEF Places, Looping
  <2>2. Moved(s)
    BY <1>1, <1>2, <2>1 DEF Moved, Looping, Closing, Asking
  <2> QED
    BY <2>1, <2>2 DEF Turn
<1>4. CASE Settled(s, "failed")
  <2>1. /\ outcome' \in [Supervisor -> Results] /\ outcome'[s] # "none"
        /\ \A p \in Supervisor \ {s} : outcome'[p] = outcome[p]
        /\ Goto(s, "judging")
    BY <1>4, Outcomes DEF Results
  <2>2. TypeOK' /\ Around(s) /\ Kept(s) /\ pc'[s] = "judging"
    BY <1>1, <2>1, UnsavedTurns, Unchanging DEF Places, Looping
  <2>3. Moved(s)
    BY <1>1, <1>2, <2>1, <2>2 DEF Moved, Looping, Closing, Asking
  <2> QED
    BY <2>2, <2>3 DEF Turn
<1> QED
  BY <1>3, <1>4 DEF NoticeExit

LEMMA ReconcileExitTurns ==
  ASSUME IInv, NEW s \in Supervisor, ReconcileExit(s)
  PROVE  TypeOK' /\ Turn(s)
<1>1. /\ pc[s] = "reconciling" /\ pc[s] \in Looping /\ probing' \in BOOLEAN /\ (probing' => probing)
      /\ UNCHANGED <<memory, stop, row, run, worker, owner, evidence, uncertain>>
  BY Unchanging DEF ReconcileExit, rowVars, ownVars, Looping
<1>2. row.status = "running" /\ memory[s].status = "running"
  BY <1>1, InTheLoop
<1>3. \/ Goto(s, "settling") /\ UNCHANGED outcome
      \/ \E result \in Results \ {"none"} : Settled(s, result)
  <2>1. \/ Goto(s, "settling") /\ UNCHANGED outcome
        \/ Settled(s, "waiting") \/ Settled(s, "crashed")
        \/ Settled(s, "completed") \/ Settled(s, "failed")
    BY Zenon DEF ReconcileExit
  <2> QED
    BY <2>1 DEF Results
<1>4. CASE Goto(s, "settling") /\ UNCHANGED outcome
  <2>1. TypeOK' /\ Around(s) /\ Kept(s) /\ pc'[s] = "settling"
    BY <1>1, <1>4, UnsavedTurns, Unchanging DEF Places, Looping
  <2>2. Moved(s)
    BY <1>1, <1>2, <2>1 DEF Moved, Looping, Closing, Asking
  <2> QED
    BY <2>1, <2>2 DEF Turn
<1>5. ASSUME NEW result \in Results \ {"none"}, Settled(s, result)
      PROVE  TypeOK' /\ Turn(s)
  <2>1. /\ outcome' \in [Supervisor -> Results] /\ outcome'[s] # "none"
        /\ \A p \in Supervisor \ {s} : outcome'[p] = outcome[p]
        /\ Goto(s, "judging")
    BY <1>5, Outcomes
  <2>2. TypeOK' /\ Around(s) /\ Kept(s) /\ pc'[s] = "judging"
    BY <1>1, <2>1, UnsavedTurns, Unchanging DEF Places, Looping
  <2>3. Moved(s)
    BY <1>1, <1>2, <2>1, <2>2 DEF Moved, Looping, Closing, Asking
  <2> QED
    BY <2>2, <2>3 DEF Turn
<1> QED
  BY <1>3, <1>4, <1>5

LEMMA SettleSignalledTurns ==
  ASSUME IInv, NEW s \in Supervisor, SettleSignalled(s)
  PROVE  TypeOK' /\ Turn(s)
<1>1. /\ pc[s] = "settling" /\ pc[s] \in Looping
      /\ UNCHANGED <<memory, stop, row, worker, owner, evidence, uncertain, probing>>
  BY DEF SettleSignalled, ownVars, workVars, Looping
<1>2. row.status = "running" /\ memory[s].status = "running"
  BY <1>1, InTheLoop
<1>3. /\ run'.status = "paused" \/ run' = run
      /\ Settled(s, "crashed") \/ Settled(s, "waiting") \/ Settled(s, "failed")
  BY DEF SettleSignalled
<1>4. PICK result \in Results \ {"none"} : Settled(s, result)
  BY <1>3 DEF Results
<1>5. /\ outcome' \in [Supervisor -> Results] /\ outcome'[s] # "none"
      /\ \A p \in Supervisor \ {s} : outcome'[p] = outcome[p]
      /\ Goto(s, "judging")
  BY <1>4, Outcomes
<1>6. run'.status \in Status /\ (run'.status = "running" => run.status = "running")
  BY <1>3, Unchanging DEF Status
<1>7. TypeOK' /\ Around(s) /\ Kept(s) /\ pc'[s] = "judging"
  BY <1>1, <1>5, <1>6, UnsavedTurns, Unchanging DEF Places, Looping
<1>8. Moved(s)
  BY <1>1, <1>2, <1>5, <1>7 DEF Moved, Looping, Closing, Asking
<1> QED
  BY <1>7, <1>8 DEF Turn

(* A supervisor the row still names may park its run.                       *)
LEMMA ParkFailedRunTurns ==
  ASSUME IInv, NEW s \in Supervisor, ParkFailedRun(s)
  PROVE  TypeOK' /\ Turn(s)
<1>1. /\ pc[s] = "parking" /\ Goto(s, "ended")
      /\ UNCHANGED <<memory, stop, outcome, row, worker, owner, evidence, uncertain, probing>>
  BY DEF ParkFailedRun, ownVars, workVars
<1>2. PICK status \in {"failed", "paused"} :
        run' = IF run.status = "running" /\ MayMove(s, status)
                 THEN [status |-> status, checkpoint |-> "parked"] ELSE run
  BY DEF ParkFailedRun
<1>3. run'.status \in Status /\ (run'.status = "running" => run.status = "running")
  BY <1>2, Unchanging DEF Status
<1>4. row.pid = s => run'.status # "running"
  <2>1. row.pid = s => Agrees(s)
    BY <1>1, Alive DEF IInv, Role, Closing
  <2>2. row.pid = s /\ run.status = "running" => MayMove(s, status)
    BY <2>1 DEF MayMove, Agrees, Terminal
  <2> QED
    BY <1>2, <2>2
<1>5. TypeOK' /\ Around(s) /\ Kept(s) /\ pc'[s] = "ended"
  BY <1>1, <1>3, UnsavedTurns, Unchanging DEF Places, Closing
<1>6. Moved(s)
  BY <1>1, <1>4, <1>5 DEF Moved, Looping, Closing, Asking
<1> QED
  BY <1>5, <1>6 DEF Turn

(* Outside the loop the fence may be gone, and the save refused.            *)
LEMMA SaveAndReturnTurns ==
  ASSUME IInv, NEW s \in Supervisor, SaveAndReturn(s)
  PROVE  TypeOK' /\ Turn(s)
<1>1. /\ pc[s] \in {"stopping", "closing"} /\ pc[s] \in Closing /\ pc[s] \notin Looping
      /\ UNCHANGED <<stop, outcome, run, worker, owner, evidence, uncertain, probing>>
  BY DEF SaveAndReturn, ownVars, workVars, Looping, Closing
<1>2. memory' = memory
  BY Unchanging DEF SaveAndReturn, Save
<1>3. row.pid = s => Agrees(s) /\ run.status # "running"
  BY <1>1, Alive DEF IInv, Role, Parked
<1>4. CASE Fenced(s) /\ row' = memory[s] /\ Goto(s, "ended")
  <2>1. /\ pc' \in [Supervisor -> Places] /\ pc'[s] = "ended"
        /\ \A p \in Supervisor \ {s} : pc'[p] = pc[p]
    BY <1>4, Went DEF IInv, Places
  <2>2. TypeOK'
    BY <1>1, <1>2, <1>4, <2>1, PlainNumber DEF IInv, TypeOK
  <2>3. Around(s)
    BY <1>1, <1>2, <2>1 DEF Around
  <2>4. Kept(s)
    BY <1>2, <1>3, <1>4, <2>1, PlainNumber DEF Kept, Fenced, Agrees, SameCounts
  <2>5. Moved(s)
    BY <1>1, <1>3, <2>1 DEF Moved, Looping, Closing, Asking
  <2> QED
    BY <2>2, <2>3, <2>4, <2>5 DEF Turn
<1>5. CASE row' = row /\ Goto(s, "failing")
  <2>1. TypeOK' /\ Around(s) /\ Kept(s) /\ pc'[s] = "failing"
    BY <1>1, <1>2, <1>5, UnsavedTurns, Unchanging DEF Places, Closing
  <2>2. Moved(s)
    BY <1>1, <2>1 DEF Moved, Looping, Closing, Asking
  <2> QED
    BY <2>1, <2>2 DEF Turn
<1> QED
  BY <1>4, <1>5 DEF SaveAndReturn, Save

LEMMA SaveFailureTurns ==
  ASSUME IInv, NEW s \in Supervisor, SaveFailure(s)
  PROVE  TypeOK' /\ Turn(s)
<1> DEFINE m == Marked(memory[s], "failed", None)
<1>1. m \in Record /\ SameRecord(m, memory[s])
  BY StatusWritten, PlainNumber DEF Statuses
<1>2. /\ pc[s] = "failing" /\ pc[s] \in Closing /\ pc[s] \notin Looping
      /\ UNCHANGED <<stop, outcome, run, worker, owner, evidence, uncertain, probing>>
  BY DEF SaveFailure, ownVars, workVars, Looping, Closing
<1>3. memory' = [memory EXCEPT ![s] = m]
  BY Unchanging DEF SaveFailure, Marked
<1> HIDE DEF m
<1>4. /\ memory' \in [Supervisor -> Record] /\ memory'[s] = m
      /\ \A p \in Supervisor \ {s} : memory'[p] = memory[p]
  BY <1>1, <1>3, Remembered DEF IInv
<1>5. row.pid = s => Agrees(s)
  BY <1>2, Alive DEF IInv, Role
<1>6. CASE Fenced(s) /\ row' = memory'[s] /\ Goto(s, "parking")
  <2>1. /\ pc' \in [Supervisor -> Places] /\ pc'[s] = "parking"
        /\ \A p \in Supervisor \ {s} : pc'[p] = pc[p]
    BY <1>6, Went DEF IInv, Places, Closing
  <2>2. TypeOK'
    BY <1>1, <1>2, <1>4, <1>6, <2>1 DEF IInv, TypeOK
  <2>3. Around(s)
    BY <1>2, <1>4, <2>1 DEF Around
  <2>4. row'.pid = row.pid /\ Agrees(s)' /\ SameCounts /\ row.pid = s
    BY <1>1, <1>4, <1>5, <1>6 DEF Fenced, Agrees, SameCounts, SameRecord, SameFence, SameRestarts
  <2>5. Kept(s)
    BY <1>1, <1>4, <2>1, <2>4, PlainNumber DEF Kept, SameRecord
  <2>6. Moved(s)
    BY <1>2, <2>1 DEF Moved, Looping, Closing, Asking
  <2> QED
    BY <2>2, <2>3, <2>5, <2>6 DEF Turn
<1>7. CASE ~ Fenced(s) /\ row' = row /\ Goto(s, "ended")
  <2>1. row.pid # s
    BY <1>5, <1>7 DEF Fenced, Agrees
  <2>2. TypeOK' /\ Around(s) /\ Kept(s) /\ pc'[s] = "ended"
    BY <1>1, <1>2, <1>4, <1>7, UnsavedTurns, Unchanging DEF Places
  <2>3. Moved(s)
    BY <1>2, <2>1, <2>2 DEF Moved, Looping, Closing, Asking
  <2> QED
    BY <2>2, <2>3 DEF Turn
<1> QED
  BY <1>6, <1>7 DEF SaveFailure

-----------------------------------------------------------------------------
(* What the steps of workers, signals and people have in common.            *)

RowStands == /\ SameRecord(row', row)
             /\ \A s \in Supervisor : pc[s] \in Looping => row'.status = row.status

SomebodyActs == \E w \in Worker : worker[w].life \in Acting

Toil ==
  /\ UNCHANGED <<pc, memory, outcome>>
  /\ \A w \in Worker : /\ SameBirth(w)
                       /\ LiveWorker(w)' => LiveWorker(w)
                       /\ worker'[w].life \in Acting => owner' = w
                       /\ worker'[w].life = "working" => evidence'
  /\ uncertain' => evidence'
  /\ \/ owner' = owner
     \/ owner \in Worker /\ owner' = None
     \/ owner \in Supervisor /\ owner' \in ChildrenOf(owner)
  /\ RowStands
  /\ evidence' => evidence \/ SomebodyActs
  /\ probing' => probing \/ SomebodyActs
  /\ run'.status = "running" => run.status = "running" \/ SomebodyActs

LEMMA ToilKeeps ==
  ASSUME IInv, TypeOK', Toil
  PROVE  IInv'
<1>1. /\ \A p : ChildrenOf(p)' = ChildrenOf(p)
      /\ Restarted' = Restarted /\ \A w \in Worker : SameBirth(w)
  BY SameFamilies DEF Toil
<1>2. pc' = pc /\ memory' = memory /\ outcome' = outcome
  BY DEF Toil
<1>3. SameRecord(row', row)
  BY DEF Toil, RowStands
<1>4. Births' /\ Holding' /\ Visible'
  <2>1. Births'
    BY <1>1 DEF IInv, Births, SameBirth
  <2>2. Holding' /\ Visible'
    BY DEF Toil, Holding, Visible
  <2> QED
    BY <2>1, <2>2
<1>5. Role'
  <2>1. \A s \in Supervisor : LiveSupervisor(s)' <=> LiveSupervisor(s)
    BY <1>2 DEF LiveSupervisor
  <2>2. \A s \in Supervisor : Agrees(s) => Agrees(s)'
    BY <1>2, <1>3 DEF Agrees, SameRecord, SameFence, SameRestarts
  <2>3. row'.pid = row.pid /\ \A s \in Supervisor : pc[s] \in Looping => row'.status = row.status
    BY <1>3 DEF SameRecord, SameFence, Toil, RowStands
  <2> QED
    BY <1>2, <2>1, <2>2, <2>3 DEF IInv, Role
<1>6. Admission'
  <2>1. ASSUME NEW s \in Supervisor, pc[s] = "admitted" PROVE owner' = s
    <3>1. owner = s /\ ChildrenOf(s) = {}
      BY <2>1 DEF IInv, Admission
    <3> QED
      BY <3>1, SupervisorAssumption DEF Toil
  <2> QED
    BY <1>1, <1>2, <2>1 DEF IInv, Admission
<1>7. Owned'
  <2>1. row'.pid = row.pid
    BY <1>3 DEF SameRecord, SameFence
  <2>2. \A w \in Worker : worker'[w].parent = worker[w].parent
    BY <1>1 DEF SameBirth
  <2>3. CASE owner' = owner
    BY <1>1, <2>1, <2>2, <2>3 DEF IInv, Owned
  <2>4. CASE owner' = None
    BY <2>4, SupervisorAssumption DEF Owned
  <2>5. CASE owner \in Supervisor /\ owner' \in ChildrenOf(owner)
    <3>1. owner' \in Worker /\ worker[owner'].parent = owner /\ owner' \notin Supervisor
      BY <2>5, SupervisorAssumption DEF ChildrenOf
    <3>2. row.pid \in Supervisor => owner = row.pid
      BY <2>5 DEF IInv, Owned
    <3> QED
      BY <2>1, <2>2, <3>1, <3>2 DEF Owned
  <2> QED
    BY <2>3, <2>4, <2>5 DEF Toil
<1>8. Attended'
  <2>1. \A s : Watched(s)' = Watched(s)
    BY <1>2 DEF Watched
  <2>2. \A w \in Worker : LiveWorker(w)' => LiveWorker(w)
    BY DEF Toil
  <2>3. \A s : \A w \in ChildrenOf(s) : w \in Worker
    BY DEF ChildrenOf
  <2> QED
    BY <1>1, <1>2, <2>1, <2>2, <2>3 DEF IInv, Attended
<1>9. ASSUME SomebodyActs, NEW s \in Supervisor, row.pid = s
      PROVE  pc[s] \notin Asking \cup {"stopping", "closing", "ended"}
  BY <1>9, NobodyDecides DEF SomebodyActs, Asking
<1>10. Quiet'
  <2> SUFFICES ASSUME NEW s \in Supervisor, pc[s] \in Asking, ChildrenOf(s) # {}
               PROVE  ~ evidence' /\ ~ probing'
    BY <1>1, <1>2 DEF Quiet
  <2>1. row.pid = s
    BY InTheLoop, Alive
  <2>2. ~ SomebodyActs
    BY <1>9, <2>1
  <2> QED
    BY <2>2 DEF IInv, Quiet, Toil
<1>11. Parked'
  <2> SUFFICES ASSUME NEW s \in Supervisor, row.pid = s, pc[s] \in {"stopping", "closing", "ended"}
               PROVE  run'.status # "running"
    BY <1>2, <1>3 DEF Parked, SameRecord, SameFence
  <2>1. ~ SomebodyActs
    BY <1>9
  <2> QED
    BY <2>1 DEF IInv, Parked, Toil
<1>12. Generations'
  BY <1>1, <1>2 DEF IInv, Generations, SameBirth, ChildrenOf
<1>13. Counted'
  BY <1>1, <1>2, <1>3 DEF IInv, Counted, SameRecord, SameRestarts
<1> QED
  BY <1>4, <1>5, <1>6, <1>7, <1>8, <1>10, <1>11, <1>12, <1>13 DEF IInv

(* The row of a worker after a step of it. *)
Lives(r, l)     == [r EXCEPT !.life = l]
Gone(r, l, how) == [r EXCEPT !.life = l, !.end = how]
Warned(r)       == [r EXCEPT !.stopping = TRUE]
Claiming(r)     == [r EXCEPT !.life = "preparing", !.claimed = TRUE]
Born(r, s, n)   == [r EXCEPT !.life = "gated", !.parent = s, !.generation = n]

SameParent(m, r) == m.parent = r.parent /\ m.generation = r.generation
LifeKinds == {"unborn", "exited"} \cup Gated \cup Claimed
EndKinds  == {"none", "zero", "two", "error", "signal"}

LEMMA WorkerWrites ==
  ASSUME NEW r \in WorkerRow, NEW l \in LifeKinds, NEW how \in EndKinds
  PROVE  /\ Lives(r, l) \in WorkerRow /\ SameParent(Lives(r, l), r) /\ Lives(r, l).life = l
         /\ Gone(r, l, how) \in WorkerRow /\ SameParent(Gone(r, l, how), r) /\ Gone(r, l, how).life = l
         /\ Warned(r) \in WorkerRow /\ SameParent(Warned(r), r) /\ Warned(r).life = r.life
         /\ Claiming(r) \in WorkerRow /\ SameParent(Claiming(r), r) /\ Claiming(r).life = "preparing"
<1>0. \A k \in WorkerRow, i \in LifeKinds, j \in EndKinds, p \in BOOLEAN :
        /\ [k EXCEPT !.life = i] \in WorkerRow /\ [k EXCEPT !.end = j] \in WorkerRow
        /\ [k EXCEPT !.stopping = p] \in WorkerRow /\ [k EXCEPT !.claimed = p] \in WorkerRow
  <2>1. WorkerRow = [life: LifeKinds, parent: Supervisor \cup {None}, generation: Nat,
                     stopping: BOOLEAN, claimed: BOOLEAN, end: EndKinds]
    BY DEF WorkerRow, LifeKinds, EndKinds
  <2> QED
    BY <2>1, SMT
<1>1. /\ Lives(r, l) \in WorkerRow /\ SameParent(Lives(r, l), r) /\ Lives(r, l).life = l
      /\ Warned(r) \in WorkerRow /\ SameParent(Warned(r), r) /\ Warned(r).life = r.life
  <2>1. Lives(r, l) \in WorkerRow /\ Warned(r) \in WorkerRow
    BY <1>0 DEF Lives, Warned
  <2>2. /\ SameParent(Lives(r, l), r) /\ Lives(r, l).life = l
        /\ SameParent(Warned(r), r) /\ Warned(r).life = r.life
    BY SMT DEF WorkerRow, Lives, Warned, SameParent
  <2> QED
    BY <2>1, <2>2
<1>2. "preparing" \in LifeKinds
  BY DEF LifeKinds, Claimed
<1>3. /\ Gone(r, l, how) = [[r EXCEPT !.life = l] EXCEPT !.end = how]
      /\ Claiming(r) = [[r EXCEPT !.life = "preparing"] EXCEPT !.claimed = TRUE]
  BY DEF Gone, Claiming
<1>4. Gone(r, l, how) \in WorkerRow /\ Claiming(r) \in WorkerRow
  <2>1. \A k \in WorkerRow : /\ [k EXCEPT !.life = l] \in WorkerRow /\ [k EXCEPT !.end = how] \in WorkerRow
                             /\ [k EXCEPT !.life = "preparing"] \in WorkerRow
                             /\ [k EXCEPT !.claimed = TRUE] \in WorkerRow
    <3> SUFFICES ASSUME NEW k \in WorkerRow
                 PROVE  /\ [k EXCEPT !.life = l] \in WorkerRow /\ [k EXCEPT !.end = how] \in WorkerRow
                        /\ [k EXCEPT !.life = "preparing"] \in WorkerRow
                        /\ [k EXCEPT !.claimed = TRUE] \in WorkerRow
      OBVIOUS
    <3>1. TRUE \in BOOLEAN
      OBVIOUS
    <3> QED
      BY <1>0, <1>2, <3>1
  <2> QED
    BY <1>3, <2>1
<1>5. /\ SameParent(Gone(r, l, how), r) /\ Gone(r, l, how).life = l
      /\ SameParent(Claiming(r), r) /\ Claiming(r).life = "preparing"
  BY SMT DEF WorkerRow, Gone, Claiming, SameParent
<1> QED
  BY <1>1, <1>4, <1>5

LEMMA WorkerBorn ==
  ASSUME NEW r \in WorkerRow, NEW s \in Supervisor, NEW n \in Nat
  PROVE  /\ Born(r, s, n) \in WorkerRow /\ Born(r, s, n).life = "gated"
         /\ Born(r, s, n).parent = s /\ Born(r, s, n).generation = n
<1>1. Born(r, s, n) = [[[r EXCEPT !.life = "gated"] EXCEPT !.parent = s] EXCEPT !.generation = n]
  BY DEF Born
<1>2. \A k \in WorkerRow : /\ [k EXCEPT !.life = "gated"] \in WorkerRow
                           /\ [k EXCEPT !.parent = s] \in WorkerRow
                           /\ [k EXCEPT !.generation = n] \in WorkerRow
  BY SMT DEF WorkerRow, Gated
<1>3. Born(r, s, n) \in WorkerRow
  BY <1>1, <1>2
<1>4. Born(r, s, n).life = "gated" /\ Born(r, s, n).parent = s /\ Born(r, s, n).generation = n
  BY SMT DEF WorkerRow, Born
<1> QED
  BY <1>3, <1>4

LEMMA OneWorker ==
  ASSUME TypeOK, NEW w \in Worker, NEW m \in WorkerRow, worker' = [worker EXCEPT ![w] = m],
         SameParent(m, worker[w]), m.life = "unborn" <=> worker[w].life = "unborn",
         m.life \in Gated \cup Claimed => LiveWorker(w)
  PROVE  /\ worker' \in [Worker -> WorkerRow] /\ worker'[w] = m
         /\ \A v \in Worker \ {w} : worker'[v] = worker[v]
         /\ \A v \in Worker : SameBirth(v) /\ (LiveWorker(v)' => LiveWorker(v))
<1>1. /\ worker' \in [Worker -> WorkerRow] /\ worker'[w] = m
      /\ \A v \in Worker \ {w} : worker'[v] = worker[v]
  BY DEF TypeOK
<1>2. \A v \in Worker : SameBirth(v)
  BY <1>1 DEF SameBirth, SameParent
<1>3. \A v \in Worker : LiveWorker(v)' => LiveWorker(v)
  BY <1>1 DEF LiveWorker
<1> QED
  BY <1>1, <1>2, <1>3

LEMMA RowStays ==
  ASSUME row' = row
  PROVE  RowStands
BY DEF RowStands, SameRecord, SameFence, SameRestarts

LEMMA WorkersRow ==
  ASSUME IInv, NEW w \in Worker
  PROVE  worker[w] \in WorkerRow /\ worker[w].end \in EndKinds
BY DEF IInv, TypeOK, WorkerRow, EndKinds

(* A step that only moves one worker, and not into action.                  *)
LEMMA WorkerOnly ==
  ASSUME IInv, NEW w \in Worker, NEW m \in WorkerRow, worker' = [worker EXCEPT ![w] = m],
         SameParent(m, worker[w]), m.life = "unborn" <=> worker[w].life = "unborn",
         m.life \in Gated \cup Claimed => LiveWorker(w),
         m.life \in Acting => m.life = worker[w].life,
         UNCHANGED <<pc, memory, outcome, row, run, owner, evidence, uncertain, probing>>,
         stop' \in [Supervisor -> BOOLEAN]
  PROVE  TypeOK' /\ Toil
<1>1. /\ worker' \in [Worker -> WorkerRow] /\ worker'[w] = m
      /\ \A v \in Worker \ {w} : worker'[v] = worker[v]
      /\ \A v \in Worker : SameBirth(v) /\ (LiveWorker(v)' => LiveWorker(v))
  BY OneWorker DEF IInv
<1>2. TypeOK'
  BY <1>1 DEF IInv, TypeOK
<1>3. \A v \in Worker : worker'[v].life \in Acting => worker'[v].life = worker[v].life
  BY <1>1
<1>4. \A v \in Worker : /\ worker'[v].life \in Acting => owner' = v
                        /\ worker'[v].life = "working" => evidence'
  BY <1>3 DEF IInv, Holding, Visible, Acting
<1>5. uncertain' => evidence'
  BY DEF IInv, Visible
<1>6. Toil
  BY <1>1, <1>4, <1>5, RowStays DEF Toil
<1> QED
  BY <1>2, <1>6

LEMMA RequestStopToils ==
  ASSUME IInv, NEW s \in Supervisor, RequestStop(s)
  PROVE  TypeOK' /\ Toil
<1>1. UNCHANGED <<pc, memory, outcome, row, run, owner, evidence, uncertain, probing>>
  BY DEF RequestStop, rowVars, workVars
<1>2. stop' \in [Supervisor -> BOOLEAN]
  BY DEF RequestStop, IInv, TypeOK
<1>3. CASE pc[s] = "backoff"
  <2>1. worker' = worker
    BY <1>3 DEF RequestStop
  <2>2. TypeOK'
    BY <1>1, <1>2, <2>1 DEF IInv, TypeOK
  <2>3. \A v \in Worker : SameBirth(v) /\ (LiveWorker(v)' => LiveWorker(v))
    BY <2>1 DEF SameBirth, LiveWorker
  <2>4. Toil
    BY <1>1, <2>1, <2>3, RowStays DEF Toil, IInv, Holding, Visible
  <2> QED
    BY <2>2, <2>4
<1>4. CASE pc[s] # "backoff"
  <2>1. Watched(s) \in Worker
    BY <1>4 DEF RequestStop, Awaiting, IInv, Attended
  <2>2. PICK w \in Worker : w = Watched(s)
    BY <2>1
  <2> DEFINE m == Warned(worker[w])
  <2>3. worker' = [worker EXCEPT ![w] = m]
    BY <1>4, <2>2 DEF RequestStop, Warned, IInv, TypeOK
  <2>4. m \in WorkerRow /\ SameParent(m, worker[w]) /\ m.life = worker[w].life
    BY WorkersRow, WorkerWrites DEF LifeKinds
  <2> HIDE DEF m
  <2> QED
    BY <1>1, <1>2, <2>3, <2>4, WorkerOnly DEF LiveWorker
<1> QED
  BY <1>3, <1>4

LEMMA WorkerHeartbeatTimeoutToils ==
  ASSUME IInv, NEW s \in Supervisor, WorkerHeartbeatTimeout(s)
  PROVE  TypeOK' /\ Toil
<1>1. /\ UNCHANGED <<pc, memory, outcome, row, run, owner, evidence, uncertain, probing>>
      /\ stop' \in [Supervisor -> BOOLEAN]
  BY DEF WorkerHeartbeatTimeout, rowVars, workVars, IInv, TypeOK
<1>2. PICK w \in Worker : w = Watched(s)
  BY DEF WorkerHeartbeatTimeout, IInv, Attended
<1> DEFINE m == Warned(worker[w])
<1>3. worker' = [worker EXCEPT ![w] = m]
  BY <1>2 DEF WorkerHeartbeatTimeout, Warned, IInv, TypeOK
<1>4. m \in WorkerRow /\ SameParent(m, worker[w]) /\ m.life = worker[w].life
  BY WorkersRow, WorkerWrites DEF LifeKinds
<1> HIDE DEF m
<1> QED
  BY <1>1, <1>3, <1>4, WorkerOnly DEF LiveWorker

LEMMA EndsToils ==
  ASSUME IInv, NEW w \in Worker, NEW how \in EndKinds, worker[w].life # "unborn", Ends(w, how),
         UNCHANGED <<pc, memory, stop, outcome, row, run, owner, evidence, uncertain, probing>>
  PROVE  TypeOK' /\ Toil
<1> DEFINE m == Gone(worker[w], "exited", how)
<1>1. worker' = [worker EXCEPT ![w] = m]
  BY DEF Ends, Gone, IInv, TypeOK
<1>2. m \in WorkerRow /\ SameParent(m, worker[w]) /\ m.life = "exited"
  BY WorkersRow, WorkerWrites DEF LifeKinds
<1> HIDE DEF m
<1>3. stop' \in [Supervisor -> BOOLEAN]
  BY DEF IInv, TypeOK
<1> QED
  BY <1>1, <1>2, <1>3, WorkerOnly DEF Gated, Claimed, Acting

LEMMA AcknowledgeWorkerToils ==
  ASSUME IInv, NEW w \in Worker, AcknowledgeWorker(w)
  PROVE  TypeOK' /\ Toil
<1>1. /\ worker[w].life = "gated"
      /\ UNCHANGED <<pc, memory, stop, outcome, row, run, owner, evidence, uncertain, probing>>
  BY DEF AcknowledgeWorker, rowVars, workVars
<1>2. CASE Ends(w, "signal")
  BY <1>1, <1>2, EndsToils DEF EndKinds
<1>3. CASE worker' = [worker EXCEPT ![w].life = "acked"]
  <2> DEFINE m == Lives(worker[w], "acked")
  <2>1. worker' = [worker EXCEPT ![w] = m]
    BY <1>3 DEF Lives, IInv, TypeOK
  <2>2. m \in WorkerRow /\ SameParent(m, worker[w]) /\ m.life = "acked"
    <3>1. "acked" \in LifeKinds
      BY DEF LifeKinds, Gated
    <3> QED
      BY <3>1, WorkersRow, WorkerWrites
  <2> HIDE DEF m
  <2>3. stop' \in [Supervisor -> BOOLEAN] /\ LiveWorker(w)
    BY <1>1 DEF IInv, TypeOK, LiveWorker, Gated
  <2> QED
    BY <1>1, <2>1, <2>2, <2>3, WorkerOnly DEF Acting
<1> QED
  BY <1>2, <1>3 DEF AcknowledgeWorker

LEMMA ExitWorkerToils ==
  ASSUME IInv, NEW w \in Worker, ExitWorker(w)
  PROVE  TypeOK' /\ Toil
BY EndsToils, WorkersRow DEF ExitWorker, rowVars, workVars

LEMMA LoseWorkerToils ==
  ASSUME IInv, NEW w \in Worker, LoseWorker(w)
  PROVE  TypeOK' /\ Toil
<1>1. worker[w].life # "unborn"
  BY DEF LoseWorker, LiveWorker, Gated, Claimed
<1> QED
  BY <1>1, EndsToils DEF LoseWorker, rowVars, workVars, EndKinds

(* A worker claims from the supervisor that holds the admission: no other   *)
(* worker acts then.                                                        *)
LEMMA ClaimWorkerLaunchToils ==
  ASSUME IInv, NEW w \in Worker, ClaimWorkerLaunch(w)
  PROVE  TypeOK' /\ Toil
<1> DEFINE m == Claiming(worker[w])
<1>1. /\ worker[w].life = "acked" /\ owner = worker[w].parent /\ owner' = w
      /\ UNCHANGED <<pc, memory, stop, outcome, row, run, evidence, uncertain, probing>>
  BY DEF ClaimWorkerLaunch, rowVars, workVars, Parent
<1>2. worker' = [worker EXCEPT ![w] = m]
  BY DEF ClaimWorkerLaunch, Claiming, IInv, TypeOK
<1>3. m \in WorkerRow /\ SameParent(m, worker[w]) /\ m.life = "preparing"
  BY WorkersRow, WorkerWrites DEF LifeKinds
<1> HIDE DEF m
<1>4. LiveWorker(w) /\ owner \in Supervisor /\ w \in ChildrenOf(owner)
  BY <1>1 DEF LiveWorker, Gated, IInv, Births, ChildrenOf
<1>5. /\ worker' \in [Worker -> WorkerRow] /\ worker'[w] = m
      /\ \A v \in Worker \ {w} : worker'[v] = worker[v]
      /\ \A v \in Worker : SameBirth(v) /\ (LiveWorker(v)' => LiveWorker(v))
  BY <1>1, <1>2, <1>3, <1>4, OneWorker DEF IInv
<1>6. \A v \in Worker : /\ worker'[v].life \in Acting => owner' = v
                        /\ worker'[v].life = "working" => evidence'
  BY <1>1, <1>3, <1>4, <1>5, ActorLives DEF IInv, Visible
<1>7. TypeOK'
  BY <1>1, <1>5 DEF IInv, TypeOK
<1>8. Toil
  BY <1>1, <1>4, <1>5, <1>6, RowStays DEF Toil, IInv, Visible
<1> QED
  BY <1>7, <1>8

(* What a worker writes while it acts. *)
LEMMA Acts ==
  ASSUME IInv, NEW w \in Worker, worker[w].life \in Acting,
         UNCHANGED <<pc, memory, stop, outcome, row, worker, owner>>,
         evidence' = evidence, uncertain' \in BOOLEAN, probing' \in BOOLEAN,
         uncertain' => evidence, run' = run
  PROVE  TypeOK' /\ Toil
<1>1. SomebodyActs
  BY DEF SomebodyActs
<1>2. TypeOK'
  BY DEF IInv, TypeOK
<1>3. \A v \in Worker : SameBirth(v) /\ (LiveWorker(v)' => LiveWorker(v))
  BY DEF SameBirth, LiveWorker
<1>4. \A v \in Worker : /\ worker'[v].life \in Acting => owner' = v
                        /\ worker'[v].life = "working" => evidence'
  BY DEF IInv, Holding, Visible
<1>5. Toil
  BY <1>1, <1>3, <1>4, RowStays DEF Toil
<1> QED
  BY <1>2, <1>5

LEMMA ProbeRuntimeToils ==
  ASSUME IInv, NEW w \in Worker, ProbeRuntime(w)
  PROVE  TypeOK' /\ Toil
BY Acts DEF ProbeRuntime, rowVars, ownVars, Acting, IInv, TypeOK, Visible

LEMMA DispatchProviderToils ==
  ASSUME IInv, NEW w \in Worker, DispatchProvider(w)
  PROVE  TypeOK' /\ Toil
BY Acts DEF DispatchProvider, rowVars, ownVars, Acting, IInv, TypeOK, Visible

LEMMA AskHumanToils ==
  ASSUME IInv, NEW w \in Worker, AskHuman(w)
  PROVE  TypeOK' /\ Toil
BY Acts DEF AskHuman, rowVars, ownVars, Acting, IInv, TypeOK, Visible

(* The step that makes the run visible, and running, again.                 *)
LEMMA BeginImplementationToils ==
  ASSUME IInv, NEW w \in Worker, BeginImplementation(w)
  PROVE  TypeOK' /\ Toil
<1> DEFINE m == Lives(worker[w], "working")
<1>1. /\ worker[w].life = "preparing" /\ owner = w /\ evidence' = TRUE /\ run'.status = "running"
      /\ UNCHANGED <<pc, memory, stop, outcome, row, owner, uncertain, probing>>
  BY DEF BeginImplementation
<1>2. worker' = [worker EXCEPT ![w] = m]
  BY DEF BeginImplementation, Lives, IInv, TypeOK
<1>3. m \in WorkerRow /\ SameParent(m, worker[w]) /\ m.life = "working"
  <2>1. "working" \in LifeKinds
    BY DEF LifeKinds, Claimed
  <2> QED
    BY <2>1, WorkersRow, WorkerWrites
<1> HIDE DEF m
<1>4. LiveWorker(w) /\ SomebodyActs
  BY <1>1 DEF LiveWorker, Claimed, SomebodyActs, Acting
<1>5. /\ worker' \in [Worker -> WorkerRow] /\ worker'[w] = m
      /\ \A v \in Worker \ {w} : worker'[v] = worker[v]
      /\ \A v \in Worker : SameBirth(v) /\ (LiveWorker(v)' => LiveWorker(v))
  BY <1>1, <1>2, <1>3, <1>4, OneWorker DEF IInv
<1>6. \A v \in Worker : worker'[v].life \in Acting => owner' = v
  BY <1>1, <1>5 DEF IInv, Holding
<1>7. TypeOK'
  BY <1>1, <1>5 DEF IInv, TypeOK, Status
<1>8. Toil
  BY <1>1, <1>4, <1>5, <1>6, RowStays DEF Toil
<1> QED
  BY <1>7, <1>8

LEMMA FinishWorkToils ==
  ASSUME IInv, NEW w \in Worker, NEW how \in {"zero", "two", "error"}, FinishWork(w, how)
  PROVE  TypeOK' /\ Toil
<1> DEFINE m == Gone(worker[w], "leaving", how)
<1>1. /\ worker[w].life \in Acting /\ owner = w /\ owner' = None
      /\ run'.status \in {"completed", "paused"} \/ run' = run
      /\ UNCHANGED <<pc, memory, stop, outcome, row, evidence, uncertain, probing>>
  BY DEF FinishWork, workVars, Acting
<1>2. worker' = [worker EXCEPT ![w] = m]
  BY DEF FinishWork, Gone, IInv, TypeOK
<1>3. m \in WorkerRow /\ SameParent(m, worker[w]) /\ m.life = "leaving"
  <2>1. "leaving" \in LifeKinds /\ how \in EndKinds
    BY DEF LifeKinds, Claimed, EndKinds
  <2> QED
    BY <2>1, WorkersRow, WorkerWrites
<1> HIDE DEF m
<1>4. LiveWorker(w) /\ owner = w
  BY <1>1, ActorLives
<1>5. /\ worker' \in [Worker -> WorkerRow] /\ worker'[w] = m
      /\ \A v \in Worker \ {w} : worker'[v] = worker[v]
      /\ \A v \in Worker : SameBirth(v) /\ (LiveWorker(v)' => LiveWorker(v))
  BY <1>1, <1>2, <1>3, <1>4, OneWorker DEF IInv, Acting
<1>6. \A v \in Worker : worker'[v].life \notin Acting
  BY <1>3, <1>4, <1>5 DEF IInv, Holding, Acting
<1>7. run'.status \in Status /\ (run'.status = "running" => run.status = "running")
  BY <1>1 DEF Status, Terminal, IInv, TypeOK
<1>8. TypeOK'
  BY <1>1, <1>5, <1>7 DEF IInv, TypeOK
<1>9. Toil
  BY <1>1, <1>5, <1>6, <1>7, RowStays DEF Toil, Acting, IInv, Visible
<1> QED
  BY <1>8, <1>9

(* An orphan that still holds the admission writes the row of a supervisor  *)
(* that is dead.                                                            *)
LEMMA OrphanWorkerToils ==
  ASSUME IInv, NEW w \in Worker, OrphanWorker(w)
  PROVE  TypeOK' /\ Toil
<1> DEFINE m == Gone(worker[w], "leaving", "signal")
<1>1. /\ worker[w].life \in Acting /\ ~ LiveSupervisor(worker[w].parent)
      /\ UNCHANGED <<pc, memory, stop, outcome, owner, evidence, uncertain, probing>>
  BY DEF OrphanWorker, workVars, Acting, Parent
<1>2. worker' = [worker EXCEPT ![w] = m]
  BY DEF OrphanWorker, Gone, IInv, TypeOK
<1>3. m \in WorkerRow /\ SameParent(m, worker[w]) /\ m.life = "leaving"
  <2>1. "leaving" \in LifeKinds /\ "signal" \in EndKinds
    BY DEF LifeKinds, Claimed, EndKinds
  <2> QED
    BY <2>1, WorkersRow, WorkerWrites
<1> HIDE DEF m
<1>4. LiveWorker(w) /\ owner = w
  BY <1>1, ActorLives
<1>5. /\ worker' \in [Worker -> WorkerRow] /\ worker'[w] = m
      /\ \A v \in Worker \ {w} : worker'[v] = worker[v]
      /\ \A v \in Worker : SameBirth(v) /\ (LiveWorker(v)' => LiveWorker(v))
  BY <1>1, <1>2, <1>3, <1>4, OneWorker DEF IInv, Acting
<1>6. \A v \in Worker : worker'[v].life \notin Acting
  BY <1>3, <1>4, <1>5 DEF IInv, Holding, Acting
<1>7. /\ row' \in Record /\ RowStands
      /\ run'.status \in Status /\ (run'.status = "running" => run.status = "running")
  <2>1. CASE row' = row /\ run' = run
    BY <2>1, RowStays DEF IInv, TypeOK
  <2>2. CASE row' = Orphaned(row) /\ run'.status = "paused"
    <3>1. row' \in Record /\ SameRecord(row', row)
      BY <2>2, RowOrphaned DEF IInv, TypeOK
    <3>2. ASSUME NEW s \in Supervisor, pc[s] \in Looping PROVE FALSE
      <4>1. row.pid = s /\ LiveSupervisor(s)
        BY <3>2, InTheLoop
      <4>2. worker[w].parent = s
        BY <1>4, <4>1 DEF IInv, Owned
      <4> QED
        BY <1>1, <4>1, <4>2
    <3> QED
      BY <2>2, <3>1, <3>2 DEF RowStands, Status
  <2>3. (row' = row /\ run' = run) \/ (row' = Orphaned(row) /\ run'.status = "paused")
    BY DEF OrphanWorker, rowVars, Orphaned
  <2> QED
    BY <2>1, <2>2, <2>3
<1>8. TypeOK'
  BY <1>1, <1>5, <1>7 DEF IInv, TypeOK
<1>9. Toil
  BY <1>1, <1>5, <1>6, <1>7 DEF Toil, Acting, IInv, Visible
<1> QED
  BY <1>8, <1>9

LEMMA AnswerToils ==
  ASSUME IInv, Answer
  PROVE  TypeOK' /\ Toil
<1>1. /\ UNCHANGED <<pc, memory, stop, outcome, row, run, worker, owner, evidence>>
      /\ uncertain' \in BOOLEAN /\ probing' \in BOOLEAN
      /\ (uncertain' => uncertain) /\ (probing' => probing)
  <2>1. uncertain \in BOOLEAN /\ probing \in BOOLEAN
    BY DEF IInv, TypeOK
  <2>2. UNCHANGED <<pc, memory, stop, outcome, row, run, worker, owner, evidence>>
    BY DEF Answer, rowVars, ownVars
  <2>3. /\ uncertain' = uncertain \/ uncertain' = FALSE
        /\ probing' = probing \/ probing' = FALSE
    BY Zenon DEF Answer
  <2>4. uncertain' \in BOOLEAN /\ (uncertain' => uncertain)
    <3>1. CASE uncertain' = FALSE
      BY <3>1, Zenon
    <3>2. CASE uncertain' = uncertain
      BY <2>1, <3>2, Zenon
    <3> QED
      BY <2>3, <3>1, <3>2
  <2>5. probing' \in BOOLEAN /\ (probing' => probing)
    <3>1. CASE probing' = FALSE
      BY <3>1, Zenon
    <3>2. CASE probing' = probing
      BY <2>1, <3>2, Zenon
    <3> QED
      BY <2>3, <3>1, <3>2
  <2> QED
    BY <2>2, <2>4, <2>5
<1>2. TypeOK'
  BY <1>1 DEF IInv, TypeOK
<1>3. \A v \in Worker : SameBirth(v) /\ (LiveWorker(v)' => LiveWorker(v))
  BY <1>1 DEF SameBirth, LiveWorker
<1>4. \A v \in Worker : /\ worker'[v].life \in Acting => owner' = v
                        /\ worker'[v].life = "working" => evidence'
  BY <1>1 DEF IInv, Holding, Visible
<1>5. Toil
  BY <1>1, <1>3, <1>4, RowStays DEF Toil, IInv, Visible
<1> QED
  BY <1>2, <1>5

-----------------------------------------------------------------------------
(* A supervisor comes, takes the role, and goes.                            *)

LEMMA StartSupervisorKeeps ==
  ASSUME IInv, NEW s \in Supervisor, StartSupervisor(s)
  PROVE  IInv'
<1>1. /\ pc[s] = "off" /\ Goto(s, "admitted") /\ ~ Live(owner) /\ owner' = s
      /\ UNCHANGED <<memory, stop, outcome, row, run, worker, evidence, uncertain, probing>>
  BY DEF StartSupervisor, rowVars, workVars
<1>2. /\ pc' \in [Supervisor -> Places] /\ pc'[s] = "admitted"
      /\ \A p \in Supervisor \ {s} : pc'[p] = pc[p]
  BY <1>1, Went DEF IInv, Places
<1>3. /\ \A p : ChildrenOf(p)' = ChildrenOf(p)
      /\ Restarted' = Restarted
  BY <1>1, SameFamilies DEF SameBirth
<1>4. TypeOK'
  BY <1>1, <1>2 DEF IInv, TypeOK
<1>5. Births' /\ Visible'
  BY <1>1 DEF IInv, Births, Visible
<1>6. Holding'
  BY <1>1, ActorLives DEF Holding
<1>7. row.pid # s /\ ChildrenOf(s) = {}
  BY <1>1 DEF IInv, Role, Admission
<1>8. Role'
  <2>1. \A p \in Supervisor \ {s} : (LiveSupervisor(p)' <=> LiveSupervisor(p)) /\ (Agrees(p)' <=> Agrees(p))
    BY <1>1, <1>2 DEF LiveSupervisor, Agrees
  <2>2. pc'[s] \notin Looping
    BY <1>2 DEF Looping
  <2> QED
    BY <1>1, <1>2, <1>7, <2>1, <2>2 DEF IInv, Role
<1>9. Admission'
  <2>1. ASSUME NEW p \in Supervisor, pc[p] = "admitted" PROVE FALSE
    BY <1>1, <2>1, Alive DEF IInv, Admission
  <2> QED
    BY <1>1, <1>2, <1>3, <1>7, <2>1 DEF IInv, Admission
<1>10. Owned'
  BY <1>1, <1>3, <1>7, SupervisorAssumption DEF Owned
<1>11. Attended'
  <2>1. \A p : Watched(p)' = Watched(p) /\ \A w \in Worker : LiveWorker(w)' <=> LiveWorker(w)
    BY <1>1 DEF Watched, LiveWorker
  <2>2. \A p : \A w \in ChildrenOf(p) : w \in Worker
    BY DEF ChildrenOf
  <2> QED
    BY <1>2, <1>3, <1>7, <2>1, <2>2 DEF IInv, Attended
<1>12. Quiet' /\ Parked' /\ Generations'
  <2>1. pc'[s] \notin Asking \cup Looping \cup {"stopping", "closing", "ended"}
    BY <1>2 DEF Asking, Looping
  <2>2. Quiet' /\ Parked'
    BY <1>1, <1>2, <1>3, <2>1 DEF IInv, Quiet, Parked
  <2>3. Generations'
    BY <1>1, <1>2, <1>3, <2>1 DEF IInv, Generations
  <2> QED
    BY <2>2, <2>3
<1>13. Counted'
  <2>1. pc'[s] \notin Asking
    BY <1>2 DEF Asking
  <2> QED
    BY <1>1, <1>2, <1>3, <2>1 DEF IInv, Counted
<1> QED
  BY <1>4, <1>5, <1>6, <1>8, <1>9, <1>10, <1>11, <1>12, <1>13 DEF IInv

(* Nobody is in the loop when the role is taken: the row would name it,     *)
(* running and alive.                                                       *)
LEMMA TakeRoleKeeps ==
  ASSUME IInv, NEW s \in Supervisor, TakeRole(s)
  PROVE  IInv'
<1>1. /\ pc[s] = "admitted"
      /\ UNCHANGED <<stop, outcome, run, worker, evidence, uncertain, probing>>
  BY DEF TakeRole, workVars
<1>2. /\ \A p : ChildrenOf(p)' = ChildrenOf(p)
      /\ Restarted' = Restarted
  BY <1>1, SameFamilies DEF SameBirth
<1>3. owner = s /\ row.pid # s /\ ChildrenOf(s) = {}
  BY <1>1 DEF IInv, Admission, Role
<1>4. \A w \in Worker : worker[w].life \notin Acting
  BY <1>3, ActorLives
<1>5. Births' /\ Visible' /\ Holding'
  BY <1>1, <1>4 DEF IInv, Births, Visible, Holding
<1>6. \A p : \A w \in Worker : LiveWorker(w)' <=> LiveWorker(w)
  BY <1>1 DEF LiveWorker
<1>7. \A p : \A w \in ChildrenOf(p) : w \in Worker
  BY DEF ChildrenOf
<1>8. CASE /\ Goto(s, "ended") /\ UNCHANGED <<memory, row>>
           /\ owner' = IF owner = s THEN None ELSE owner
  <2>1. /\ pc' \in [Supervisor -> Places] /\ pc'[s] = "ended"
        /\ \A p \in Supervisor \ {s} : pc'[p] = pc[p]
    BY <1>8, Went DEF IInv, Places
  <2>2. owner' = None
    BY <1>3, <1>8
  <2>3. TypeOK'
    BY <1>1, <1>8, <2>1, <2>2 DEF IInv, TypeOK
  <2>4. Role'
    <3>1. \A p \in Supervisor \ {s} : (LiveSupervisor(p)' <=> LiveSupervisor(p)) /\ (Agrees(p)' <=> Agrees(p))
      BY <1>8, <2>1 DEF LiveSupervisor, Agrees
    <3>2. pc'[s] \notin Looping
      BY <2>1 DEF Looping
    <3> QED
      BY <1>1, <1>3, <1>8, <2>1, <3>1, <3>2 DEF IInv, Role
  <2>5. Admission'
    <3>1. \A p \in Supervisor \ {s} : pc[p] # "admitted"
      BY <1>3 DEF IInv, Admission
    <3> QED
      BY <1>2, <2>1, <3>1 DEF IInv, Admission
  <2>6. Owned'
    BY <2>2, SupervisorAssumption DEF Owned
  <2>7. Attended'
    <3>1. \A p : Watched(p)' = Watched(p)
      BY <1>8 DEF Watched
    <3> QED
      BY <1>2, <1>3, <1>6, <1>7, <2>1, <3>1 DEF IInv, Attended
  <2>8. pc'[s] \notin Asking \cup Looping
    BY <2>1 DEF Asking, Looping
  <2>9. Quiet' /\ Parked'
    BY <1>1, <1>2, <1>3, <1>8, <2>1, <2>8 DEF IInv, Quiet, Parked
  <2>10. Generations'
    BY <1>1, <1>2, <1>8, <2>1, <2>8 DEF IInv, Generations
  <2>11. Counted'
    BY <1>1, <1>2, <1>8, <2>1, <2>8 DEF IInv, Counted
  <2> QED
    BY <1>5, <2>3, <2>4, <2>5, <2>6, <2>7, <2>9, <2>10, <2>11 DEF IInv
<1>9. CASE /\ ~ (row.status = "running" /\ Live(row.pid))
           /\ row' = Taken(row, s) /\ memory' = [memory EXCEPT ![s] = row'] /\ Goto(s, "deciding")
           /\ owner' = owner
  <2>1. /\ pc' \in [Supervisor -> Places] /\ pc'[s] = "deciding"
        /\ \A p \in Supervisor \ {s} : pc'[p] = pc[p]
    BY <1>9, Went DEF IInv, Places, Looping
  <2>2. /\ row' \in Record /\ SameRestarts(row', row) /\ row'.status = "running" /\ row'.pid = s
    BY <1>9, RowTaken DEF IInv, TypeOK
  <2>3. /\ memory' \in [Supervisor -> Record] /\ memory'[s] = row'
        /\ \A p \in Supervisor \ {s} : memory'[p] = memory[p]
    BY <1>9, <2>2 DEF IInv, TypeOK
  <2>4. \A p \in Supervisor : pc[p] \notin Looping
    BY <1>9, InTheLoop, Alive
  <2>5. TypeOK'
    BY <1>1, <1>9, <2>1, <2>2, <2>3 DEF IInv, TypeOK
  <2>6. Role'
    <3>1. Agrees(s)'
      BY <2>3 DEF Agrees
    <3>2. \A p \in Supervisor \ {s} : row'.pid # p
      BY <2>2
    <3> QED
      BY <1>1, <2>1, <2>2, <2>3, <2>4, <3>1, <3>2 DEF IInv, Role
  <2>7. Admission'
    <3>1. pc'[s] # "admitted" /\ pc'[s] # "off"
      BY <2>1
    <3> QED
      BY <1>2, <1>9, <2>1, <3>1 DEF IInv, Admission
  <2>8. Owned'
    BY <1>3, <1>9, <2>2, SupervisorAssumption DEF Owned
  <2>9. Attended'
    <3>1. \A p \in Supervisor \ {s} : Watched(p)' = Watched(p)
      BY <2>3 DEF Watched
    <3> QED
      BY <1>2, <1>3, <1>6, <1>7, <2>1, <3>1 DEF IInv, Attended
  <2>10. Quiet'
    BY <1>2, <1>3, <2>1, <2>4, Alive DEF Quiet
  <2>11. Parked'
    BY <2>1, <2>2 DEF Parked
  <2>12. Generations'
    BY <1>2, <1>3, <2>1, <2>4 DEF Generations
  <2>13. Counted'
    BY <1>2, <1>3, <2>1, <2>2, <2>4, Alive DEF IInv, Counted, SameRestarts
  <2> QED
    BY <1>5, <2>5, <2>6, <2>7, <2>8, <2>9, <2>10, <2>11, <2>12, <2>13 DEF IInv
<1> QED
  BY <1>8, <1>9 DEF TakeRole, Taken

LEMMA DepartKeeps ==
  ASSUME IInv, NEW s \in Supervisor, LiveSupervisor(s), NEW place \in {"exited", "dead"},
         Goto(s, place), Forget(s), UNCHANGED <<run, owner, worker, evidence, uncertain, probing>>,
         row' = row \/ (row.pid = s /\ row' = Released(row, "failed"))
  PROVE  IInv'
<1>1. /\ pc' \in [Supervisor -> Places] /\ pc'[s] = place
      /\ \A p \in Supervisor \ {s} : pc'[p] = pc[p]
  BY Went DEF IInv, Places
<1>2. /\ memory' \in [Supervisor -> Record]
      /\ \A p \in Supervisor \ {s} : memory'[p] = memory[p]
  <2>1. PICK m : m = [initialSupervisorState EXCEPT !.generation = memory[s].generation]
    OBVIOUS
  <2>2. m \in Record
    BY <2>1, PlainNumber, RecordFields, Forgotten
  <2>3. memory' = [memory EXCEPT ![s] = m]
    BY <2>1 DEF Forget
  <2> QED
    BY <2>2, <2>3, Remembered DEF IInv
<1>3. /\ outcome' \in [Supervisor -> Results] /\ stop' \in [Supervisor -> BOOLEAN]
      /\ \A p \in Supervisor \ {s} : outcome'[p] = outcome[p]
  BY Unchanging DEF Forget, Results, IInv, TypeOK
<1>4. /\ \A p : ChildrenOf(p)' = ChildrenOf(p)
      /\ Restarted' = Restarted
  BY SameFamilies DEF SameBirth
<1>5. /\ row' \in Record /\ SameRestarts(row', row)
      /\ row' = row \/ (row.pid = s /\ row'.pid = None)
  <2>1. row \in Record
    BY DEF IInv, TypeOK
  <2>2. Released(row, "failed") \in Record /\ SameRestarts(Released(row, "failed"), row) /\ Released(row, "failed").pid = None
    BY <2>1, RowReleased DEF Statuses
  <2> QED
    BY <2>1, <2>2 DEF SameRestarts
<1>6. \A p \in Supervisor \ {s} : row.pid = p => row' = row
  BY <1>5
<1>7. TypeOK'
  BY <1>1, <1>2, <1>3, <1>5 DEF IInv, TypeOK, Results
<1>8. Births' /\ Visible' /\ Holding'
  BY DEF IInv, Births, Visible, Holding
<1>9. Role'
  <2> SUFFICES ASSUME NEW p \in Supervisor
               PROVE  /\ pc'[p] \in Looping => /\ row'.pid = p /\ row'.status = "running"
                                               /\ memory'[p].status = "running"
                      /\ row'.pid = p => pc'[p] \notin {"off", "admitted"}
                      /\ row'.pid = p /\ LiveSupervisor(p)' => Agrees(p)'
                      /\ pc'[p] = "judging" => outcome'[p] # "none"
    BY DEF Role
  <2>1. CASE p = s
    BY <1>1, <2>1 DEF Looping, LiveSupervisor, Over
  <2>2. CASE p # s
    <3>1. pc'[p] = pc[p] /\ memory'[p] = memory[p] /\ outcome'[p] = outcome[p]
      BY <1>1, <1>2, <1>3, <2>2
    <3>2. (row.pid = p => row' = row) /\ (row'.pid = p => row' = row)
      BY <1>5, <2>2, SupervisorAssumption
    <3>3. LiveSupervisor(p)' <=> LiveSupervisor(p)
      BY <3>1 DEF LiveSupervisor
    <3>4. row' = row => (Agrees(p)' <=> Agrees(p))
      BY <3>1 DEF Agrees
    <3> QED
      BY <3>1, <3>2, <3>3, <3>4 DEF IInv, Role
  <2> QED
    BY <2>1, <2>2
<1>10. Admission'
  BY <1>1, <1>4 DEF IInv, Admission
<1>11. Owned'
  <2>1. row' = row \/ row'.pid \notin Supervisor
    BY <1>5, SupervisorAssumption
  <2> QED
    BY <1>4, <2>1 DEF IInv, Owned
<1>12. Attended'
  <2>1. \A p \in Supervisor \ {s} : Watched(p)' = Watched(p)
    BY <1>2 DEF Watched
  <2>2. \A w \in Worker : LiveWorker(w)' <=> LiveWorker(w)
    BY DEF LiveWorker
  <2>3. \A p : \A w \in ChildrenOf(p) : w \in Worker
    BY DEF ChildrenOf
  <2> QED
    BY <1>1, <1>4, <2>1, <2>2, <2>3 DEF IInv, Attended
<1>13. pc'[s] \notin Asking \cup Looping \cup {"stopping", "closing", "ended"}
  BY <1>1 DEF Asking, Looping
<1>14. Quiet'
  BY <1>1, <1>4, <1>13 DEF IInv, Quiet
<1>15. Parked'
  <2>1. \A p \in Supervisor \ {s} : row'.pid = p => row' = row
    BY <1>5, SupervisorAssumption
  <2> QED
    BY <1>1, <1>13, <2>1 DEF IInv, Parked
<1>16. Generations'
  BY <1>1, <1>2, <1>4, <1>13 DEF IInv, Generations
<1>17. Counted'
  BY <1>1, <1>4, <1>5, <1>13 DEF IInv, Counted, SameRestarts
<1> QED
  BY <1>7, <1>8, <1>9, <1>10, <1>11, <1>12, <1>14, <1>15, <1>16, <1>17 DEF IInv

LEMMA KillSupervisorKeeps ==
  ASSUME IInv, NEW s \in Supervisor, KillSupervisor(s)
  PROVE  IInv'
BY DepartKeeps DEF KillSupervisor, rowVars, ownVars, workVars

LEMMA ExitSupervisorKeeps ==
  ASSUME IInv, NEW s \in Supervisor, ExitSupervisor(s)
  PROVE  IInv'
<1>1. LiveSupervisor(s)
  BY DEF ExitSupervisor, Awaiting, LiveSupervisor, Over
<1>2. row' = row \/ (row.pid = s /\ row' = Released(row, "failed"))
  BY DEF ExitSupervisor, Released
<1> QED
  BY <1>1, <1>2, DepartKeeps DEF ExitSupervisor, ownVars, workVars

LEMMA reconcileStaleSupervisorKeeps ==
  ASSUME IInv, reconcileStaleSupervisor
  PROVE  IInv'
<1>1. /\ row.pid # None /\ ~ Live(row.pid) /\ row' = Released(row, "stopped") /\ run'.status = "paused"
      /\ UNCHANGED <<pc, memory, stop, outcome, worker, owner, evidence, uncertain, probing>>
  BY DEF reconcileStaleSupervisor, Released, ownVars, workVars
<1>2. row' \in Record /\ SameRestarts(row', row) /\ row'.pid = None
  BY <1>1, RowReleased DEF IInv, TypeOK, Statuses
<1>3. /\ \A p : ChildrenOf(p)' = ChildrenOf(p)
      /\ Restarted' = Restarted
  BY <1>1, SameFamilies DEF SameBirth
<1>4. \A p \in Supervisor : pc[p] \notin Looping /\ row'.pid # p
  BY <1>1, <1>2, InTheLoop, Alive, SupervisorAssumption
<1>5. TypeOK'
  BY <1>1, <1>2 DEF IInv, TypeOK, Status
<1>6. Births' /\ Visible' /\ Holding'
  BY <1>1 DEF IInv, Births, Visible, Holding
<1>7. Role'
  BY <1>1, <1>4 DEF IInv, Role
<1>8. Admission'
  BY <1>1, <1>3 DEF IInv, Admission
<1>9. Owned'
  BY <1>2, SupervisorAssumption DEF Owned
<1>10. Attended'
  <2>1. \A p : Watched(p)' = Watched(p) /\ \A w \in Worker : LiveWorker(w)' <=> LiveWorker(w)
    BY <1>1 DEF Watched, LiveWorker
  <2>2. \A p : \A w \in ChildrenOf(p) : w \in Worker
    BY DEF ChildrenOf
  <2> QED
    BY <1>1, <1>3, <2>1, <2>2 DEF IInv, Attended
<1>11. Quiet' /\ Parked' /\ Generations'
  BY <1>1, <1>4, Alive DEF Quiet, Parked, Generations
<1>12. Counted'
  BY <1>1, <1>2, <1>3, <1>4, Alive DEF IInv, Counted, SameRestarts
<1> QED
  BY <1>5, <1>6, <1>7, <1>8, <1>9, <1>10, <1>11, <1>12 DEF IInv

-----------------------------------------------------------------------------
(* A worker is born: the only step that may make a restart, and the strict  *)
(* inequality of the counts at a deciding supervisor is what pays for it.   *)

LEMMA BirthCounts ==
  ASSUME IInv, NEW s \in Supervisor, NEW w \in Worker, pc[s] = "spawning",
         worker[w].life = "unborn",
         worker'[w].life = "gated", worker'[w].parent = s,
         worker'[w].generation = memory[s].workerGeneration,
         \A v \in Worker \ {w} : worker'[v] = worker[v]
  PROVE  /\ ChildrenOf(s)' = ChildrenOf(s) \cup {w}
         /\ \A p \in Supervisor \ {s} : ChildrenOf(p)' = ChildrenOf(p)
         /\ Restarted' = Restarted \cup (IF ChildrenOf(s) = {} THEN {} ELSE {w})
         /\ w \notin Restarted
<1>1. /\ ChildrenOf(s)' = ChildrenOf(s) \cup {w}
      /\ \A p \in Supervisor \ {s} : ChildrenOf(p)' = ChildrenOf(p)
  BY DEF ChildrenOf
<1>2. \A v \in ChildrenOf(s) : v \in Worker /\ v # w /\ worker[v].generation < worker'[w].generation
  BY DEF IInv, Generations, Looping, ChildrenOf
<1>3. worker'[w].generation \in Nat /\ \A v \in Worker : worker[v].generation \in Nat
  BY PlainNumber DEF IInv, TypeOK, WorkerRow
<1>4. ~ (worker'[w].generation < worker'[w].generation)
  BY <1>3, SMT
<1>5. Automatic(w)' <=> ChildrenOf(s) # {}
  <2>1. Automatic(w)' <=> \E v \in ChildrenOf(s) \cup {w} : worker'[v].generation < worker'[w].generation
    BY <1>1 DEF Automatic, Parent
  <2>2. \A v \in ChildrenOf(s) : worker'[v].generation < worker'[w].generation
    BY <1>2
  <2> QED
    BY <1>4, <2>1, <2>2
<1>6. ASSUME NEW v \in Worker, v # w, worker[v].life # "unborn" PROVE Automatic(v)' <=> Automatic(v)
  <2>1. worker'[v] = worker[v] /\ worker[v].parent \in Supervisor /\ v \in ChildrenOf(worker[v].parent)
    BY <1>6 DEF IInv, Births, ChildrenOf
  <2>2. \A u \in ChildrenOf(worker[v].parent) : u \in Worker /\ u # w /\ worker'[u] = worker[u]
    BY DEF ChildrenOf
  <2>4. Automatic(v) <=> \E u \in ChildrenOf(worker[v].parent) : worker[u].generation < worker[v].generation
    BY DEF Automatic, Parent
  <2>5. CASE worker[v].parent = s
    <3>1. worker[v].generation < worker'[w].generation
      BY <1>2, <2>1, <2>5
    <3>2. \A i, j \in Nat : i < j => ~ (j < i)
      BY SMT
    <3>3. ~ (worker'[w].generation < worker[v].generation)
      BY <1>3, <1>6, <3>1, <3>2
    <3>4. \A u \in ChildrenOf(s) : worker'[u].generation = worker[u].generation
      BY <2>2, <2>5
    <3>5. worker'[v].parent = s
      BY <2>1, <2>5
    <3>6. Automatic(v)' <=> \E u \in ChildrenOf(s) \cup {w} : worker'[u].generation < worker[v].generation
      BY <1>1, <2>1, <3>5 DEF Automatic, Parent, ChildrenOf
    <3> QED
      BY <2>4, <2>5, <3>3, <3>4, <3>6
  <2>6. CASE worker[v].parent # s
    <3>1. PICK p \in Supervisor \ {s} : p = worker[v].parent
      BY <2>1, <2>6
    <3>2. worker'[v].parent = p /\ ChildrenOf(p)' = ChildrenOf(p)
      BY <1>1, <2>1, <3>1
    <3>3. Automatic(v)' <=> \E u \in ChildrenOf(p) : worker'[u].generation < worker[v].generation
      BY <2>1, <3>1, <3>2 DEF Automatic, Parent, ChildrenOf
    <3> QED
      BY <2>2, <2>4, <3>1, <3>3
  <2> QED
    BY <2>5, <2>6
<1>7. Restarted' = Restarted \cup (IF ChildrenOf(s) = {} THEN {} ELSE {w})
  BY <1>5, <1>6 DEF Restarted
<1>8. w \notin Restarted
  BY DEF Restarted
<1> QED
  BY <1>1, <1>7, <1>8

LEMMA SpawnWorkerKeeps ==
  ASSUME IInv, NEW s \in Supervisor, NEW w \in Worker, SpawnWorker(s, w)
  PROVE  IInv'
<1> DEFINE m == Born(worker[w], s, memory[s].workerGeneration)
<1> DEFINE k == Employing(memory[s], w)
<1>1. /\ pc[s] = "spawning" /\ pc[s] \in Looping /\ worker[w].life = "unborn"
      /\ CanReacquire(s) /\ owner' = s /\ Goto(s, "recording")
      /\ UNCHANGED <<stop, outcome, row, run, evidence, uncertain, probing>>
  BY DEF SpawnWorker, rowVars, workVars, Looping
<1>2. worker' = [worker EXCEPT ![w] = m] /\ memory' = [memory EXCEPT ![s] = k]
  BY DEF SpawnWorker, Born, Employing, IInv, TypeOK
<1>3. /\ m \in WorkerRow /\ m.life = "gated" /\ m.parent = s
      /\ m.generation = memory[s].workerGeneration
  BY WorkersRow, PlainNumber, WorkerBorn
<1>4. k \in Record /\ SameRecord(k, memory[s]) /\ k.status = memory[s].status /\ k.workerPid = w
  BY PlainNumber, WorkerWritten
<1> HIDE DEF m, k
<1>5. /\ worker' \in [Worker -> WorkerRow] /\ worker'[w] = m
      /\ \A v \in Worker \ {w} : worker'[v] = worker[v]
  BY <1>2, <1>3 DEF IInv, TypeOK
<1>6. /\ memory' \in [Supervisor -> Record] /\ memory'[s] = k
      /\ \A p \in Supervisor \ {s} : memory'[p] = memory[p]
  BY <1>2, <1>4, Remembered DEF IInv
<1>7. /\ pc' \in [Supervisor -> Places] /\ pc'[s] = "recording"
      /\ \A p \in Supervisor \ {s} : pc'[p] = pc[p]
  BY <1>1, Went DEF IInv, Places, Looping
<1>8. /\ ChildrenOf(s)' = ChildrenOf(s) \cup {w}
      /\ \A p \in Supervisor \ {s} : ChildrenOf(p)' = ChildrenOf(p)
      /\ Restarted' = Restarted \cup (IF ChildrenOf(s) = {} THEN {} ELSE {w})
      /\ w \notin Restarted
  BY <1>1, <1>3, <1>5, BirthCounts
<1>9. /\ row.pid = s /\ row.status = "running" /\ memory[s].status = "running" /\ Agrees(s)
      /\ \A p \in Supervisor : pc[p] \in Looping => p = s
  BY <1>1, InTheLoop
<1>10. owner = s \/ ~ Live(owner)
  BY <1>1 DEF CanReacquire
<1>11. \A v \in Worker : worker[v].life \notin Acting
  BY <1>10, ActorLives
<1>12. \A p \in Supervisor \ {s} : pc[p] # "admitted"
  BY <1>10, Alive DEF IInv, Admission
<1>13. TypeOK'
  BY <1>1, <1>5, <1>6, <1>7 DEF IInv, TypeOK
<1>14. Births' /\ Holding' /\ Visible'
  <2>1. Births'
    BY <1>3, <1>5 DEF IInv, Births
  <2>2. \A v \in Worker : worker'[v].life \notin Acting /\ worker'[v].life # "working"
    BY <1>3, <1>5, <1>11 DEF Acting
  <2> QED
    BY <1>1, <2>1, <2>2 DEF IInv, Holding, Visible
<1>15. Role'
  <2> SUFFICES ASSUME NEW p \in Supervisor
               PROVE  /\ pc'[p] \in Looping => /\ row'.pid = p /\ row'.status = "running"
                                               /\ memory'[p].status = "running"
                      /\ row'.pid = p => pc'[p] \notin {"off", "admitted"}
                      /\ row'.pid = p /\ LiveSupervisor(p)' => Agrees(p)'
                      /\ pc'[p] = "judging" => outcome'[p] # "none"
    BY DEF Role
  <2>1. CASE p = s
    <3>1. Agrees(s)'
      BY <1>1, <1>4, <1>6, <1>9 DEF Agrees, SameRecord, SameFence, SameRestarts
    <3> QED
      BY <1>1, <1>4, <1>6, <1>7, <1>9, <2>1, <3>1
  <2>2. CASE p # s
    BY <1>1, <1>7, <1>9, <2>2 DEF IInv, Role, Looping
  <2> QED
    BY <2>1, <2>2
<1>16. Admission'
  BY <1>7, <1>8, <1>12 DEF IInv, Admission
<1>17. Owned'
  BY <1>1, <1>9, SupervisorAssumption DEF Owned
<1>18. Attended'
  <2> SUFFICES ASSUME NEW p \in Supervisor
               PROVE  /\ pc'[p] \in {"recording", "watching", "reconciling", "settling"} => Watched(p)' \in Worker
                      /\ pc'[p] \notin {"exited", "dead"} =>
                           \A v \in ChildrenOf(p)' : LiveWorker(v)' =>
                              pc'[p] \in {"recording", "watching"} /\ Watched(p)' = v
    BY DEF Attended
  <2>1. \A q : \A v \in ChildrenOf(q) : v \in Worker /\ v # w /\ (LiveWorker(v)' <=> LiveWorker(v))
    BY <1>1, <1>5 DEF ChildrenOf, LiveWorker
  <2>2. CASE p = s
    <3>1. Watched(s)' = w
      BY <1>4, <1>6 DEF Watched
    <3>2. \A v \in ChildrenOf(s) : ~ LiveWorker(v)
      BY <1>1 DEF IInv, Attended
    <3> QED
      BY <1>7, <1>8, <2>1, <2>2, <3>1, <3>2
  <2>3. CASE p # s
    <3>1. pc'[p] = pc[p] /\ Watched(p)' = Watched(p) /\ ChildrenOf(p)' = ChildrenOf(p)
      BY <1>6, <1>7, <1>8, <2>3 DEF Watched
    <3> QED
      BY <2>1, <3>1 DEF IInv, Attended
  <2> QED
    BY <2>2, <2>3
<1>19. \A p \in Supervisor : pc'[p] \notin Asking
  <2>1. pc'[s] \notin Asking
    BY <1>7 DEF Asking
  <2> QED
    BY <1>7, <1>9, <2>1, Alive
<1>20. Quiet'
  BY <1>19 DEF Quiet
<1>21. Parked'
  BY <1>1, <1>7, <1>9 DEF Parked
<1>22. Generations'
  <2> SUFFICES ASSUME NEW p \in Supervisor, pc'[p] \in Looping, NEW v \in ChildrenOf(p)'
               PROVE  /\ worker'[v].generation <= memory'[p].workerGeneration
                      /\ pc'[p] = "spawning" => worker'[v].generation < memory'[p].workerGeneration
    BY DEF Generations
  <2>1. p = s
    BY <1>7, <1>9
  <2>2. memory'[s].workerGeneration = memory[s].workerGeneration /\ memory[s].workerGeneration \in Nat
    BY <1>4, <1>6, PlainNumber DEF SameRecord
  <2>3. CASE v = w
    <3>1. memory[s].workerGeneration <= memory[s].workerGeneration
      BY <2>2, SMT
    <3> QED
      BY <1>3, <1>5, <1>7, <2>1, <2>2, <2>3, <3>1
  <2>4. CASE v \in ChildrenOf(s)
    <3>1. v # w /\ v \in Worker
      BY <1>1, <2>4 DEF ChildrenOf
    <3> QED
      BY <1>1, <1>5, <1>7, <2>1, <2>2, <2>4, <3>1 DEF IInv, Generations
  <2> QED
    BY <1>8, <2>1, <2>3, <2>4
<1>23. Counted'
  <2>1. Cardinality(Restarted) \in Nat /\ IsFiniteSet(Restarted)
    BY FS_CardinalityType DEF IInv, Counted
  <2>2. /\ IsFiniteSet(Restarted')
        /\ Cardinality(Restarted') <= row.runRestarts /\ Cardinality(Restarted') <= row.checkpointRestarts
    <3>1. CASE ChildrenOf(s) = {}
      BY <1>8, <3>1 DEF IInv, Counted
    <3>2. CASE ChildrenOf(s) # {}
      <4>1. Restarted' = Restarted \cup {w}
        BY <1>8, <3>2
      <4>2. IsFiniteSet(Restarted') /\ Cardinality(Restarted') = Cardinality(Restarted) + 1
        BY <1>8, <2>1, <4>1, FS_AddElement
      <4>3. Cardinality(Restarted) < row.runRestarts /\ Cardinality(Restarted) < row.checkpointRestarts
        BY <1>1, <3>2 DEF IInv, Counted, Asking
      <4>4. row.runRestarts \in Nat /\ row.checkpointRestarts \in Nat
        BY RecordFields DEF IInv, TypeOK
      <4>5. \A i, j \in Nat : i < j => i + 1 <= j
        BY SMT
      <4> QED
        BY <2>1, <4>2, <4>3, <4>4, <4>5
    <3> QED
      BY <3>1, <3>2
  <2> QED
    BY <1>1, <1>19, <2>2 DEF IInv, Counted
<1> QED
  BY <1>13, <1>14, <1>15, <1>16, <1>17, <1>18, <1>20, <1>21, <1>22, <1>23 DEF IInv

-----------------------------------------------------------------------------
(* The invariant, and what follows from it.                                 *)

LEMMA InitInv == Init => IInv
<1> SUFFICES ASSUME Init PROVE IInv
  OBVIOUS
<1>1. initialSupervisorState \in Record
  BY SupervisorAssumption, SMT DEF Record, initialSupervisorState
<1>2. TypeOK
  <2>1. worker \in [Worker -> WorkerRow]
    <3>1. [life |-> "unborn", parent |-> None, generation |-> 0,
           stopping |-> FALSE, claimed |-> FALSE, end |-> "none"] \in WorkerRow
      BY SMT DEF WorkerRow
    <3> QED
      BY <3>1 DEF Init
  <2> QED
    BY <1>1, <2>1 DEF Init, TypeOK, Places, Status
<1>3. \A w \in Worker : worker[w].life = "unborn" /\ worker[w].parent = None
  BY DEF Init
<1>4. /\ row.pid = None /\ row.runRestarts = 0 /\ row.checkpointRestarts = 0
      /\ \A s \in Supervisor : pc[s] = "off" /\ row.pid # s
  BY SupervisorAssumption DEF Init, initialSupervisorState
<1>5. Births /\ Holding /\ Visible
  BY <1>3 DEF Init, Births, Holding, Visible, Acting
<1>6. \A s \in Supervisor : ChildrenOf(s) = {}
  BY <1>3 DEF ChildrenOf
<1>7. \A s \in Supervisor : pc[s] \notin Looping /\ pc[s] \notin Asking
  BY <1>4 DEF Looping, Asking
<1>8. Role /\ Admission /\ Owned /\ Attended /\ Quiet /\ Parked /\ Generations
  BY <1>4, <1>6, <1>7, SupervisorAssumption DEF Role, Admission, Owned, Attended, Quiet, Parked, Generations
<1>9. Counted
  <2>1. Restarted = {}
    BY <1>3 DEF Restarted
  <2>2. IsFiniteSet(Restarted) /\ Cardinality(Restarted) = 0
    BY <2>1, FS_EmptySet
  <2>3. \A n \in Nat : 0 <= n
    BY SMT
  <2> QED
    BY <1>4, <1>7, <2>2, <2>3, SupervisorAssumption DEF Counted
<1> QED
  BY <1>2, <1>5, <1>8, <1>9 DEF IInv

LEMMA StutterKeeps ==
  ASSUME IInv, UNCHANGED vars
  PROVE  IInv'
<1> USE DEF vars, rowVars, ownVars, workVars
<1>1. /\ \A p : ChildrenOf(p)' = ChildrenOf(p)
      /\ Restarted' = Restarted
  BY SameFamilies DEF SameBirth
<1>2. TypeOK' /\ Births' /\ Holding' /\ Visible' /\ Parked'
  BY DEF IInv, TypeOK, Births, Holding, Visible, Parked
<1>3. Role'
  BY DEF IInv, Role, Agrees, LiveSupervisor
<1>4. Admission' /\ Owned' /\ Quiet'
  BY <1>1 DEF IInv, Admission, Owned, Quiet
<1>5. Attended'
  BY <1>1 DEF IInv, Attended, Watched, LiveWorker
<1>6. Generations' /\ Counted'
  BY <1>1 DEF IInv, Generations, Counted
<1> QED
  BY <1>2, <1>3, <1>4, <1>5, <1>6 DEF IInv

LEMMA LoopKeeps ==
  ASSUME IInv, NEW s \in Supervisor, Loop(s)
  PROVE  IInv'
<1>1. CASE TakeRole(s)
  BY <1>1, TakeRoleKeeps
<1>2. CASE \E w \in Worker : SpawnWorker(s, w)
  BY <1>2, SpawnWorkerKeeps
<1>3. CASE WaitForHuman(s) \/ ParkWaitingRun(s) \/ PublishGeneration(s) \/ FailLaunch(s)
           \/ RecordWorker(s) \/ StopLoop(s) \/ SaveAndReturn(s)
  BY <1>3, WaitForHumanTurns, ParkWaitingRunTurns, PublishGenerationTurns, FailLaunchTurns,
     RecordWorkerTurns, StopLoopTurns, SaveAndReturnTurns, TurnKeeps
<1>4. CASE NoticeExit(s) \/ ReconcileExit(s) \/ SettleSignalled(s) \/ JudgeEnded(s)
           \/ WithholdRestart(s) \/ ParkWithheldRun(s)
  BY <1>4, NoticeExitTurns, ReconcileExitTurns, SettleSignalledTurns, JudgeEndedTurns,
     WithholdRestartTurns, ParkWithheldRunTurns, TurnKeeps
<1>5. CASE ExhaustBudget(s) \/ FailExhaustedRun(s) \/ ScheduleRestart(s) \/ WakeUp(s)
           \/ SaveFailure(s) \/ ParkFailedRun(s)
  BY <1>5, ExhaustBudgetTurns, FailExhaustedRunTurns, ScheduleRestartTurns, WakeUpTurns,
     SaveFailureTurns, ParkFailedRunTurns, TurnKeeps
<1> QED
  BY <1>1, <1>2, <1>3, <1>4, <1>5 DEF Loop

LEMMA WorkerStepKeeps ==
  ASSUME IInv, NEW w \in Worker, WorkerStep(w)
  PROVE  IInv'
<1>1. CASE AcknowledgeWorker(w) \/ ClaimWorkerLaunch(w) \/ ProbeRuntime(w) \/ BeginImplementation(w)
           \/ DispatchProvider(w) \/ AskHuman(w)
  BY <1>1, AcknowledgeWorkerToils, ClaimWorkerLaunchToils, ProbeRuntimeToils,
     BeginImplementationToils, DispatchProviderToils, AskHumanToils, ToilKeeps
<1>2. CASE \E how \in {"zero", "two", "error"} : FinishWork(w, how)
  BY <1>2, FinishWorkToils, ToilKeeps
<1>3. CASE ExitWorker(w) \/ LoseWorker(w) \/ OrphanWorker(w)
  BY <1>3, ExitWorkerToils, LoseWorkerToils, OrphanWorkerToils, ToilKeeps
<1> QED
  BY <1>1, <1>2, <1>3 DEF WorkerStep

LEMMA InvStep == IInv /\ [Next]_vars => IInv'
<1> SUFFICES ASSUME IInv, [Next]_vars PROVE IInv'
  OBVIOUS
<1>1. ASSUME NEW s \in Supervisor, StartSupervisor(s) PROVE IInv'
  BY <1>1, StartSupervisorKeeps
<1>2. ASSUME NEW s \in Supervisor, Loop(s) PROVE IInv'
  BY <1>2, LoopKeeps
<1>3. ASSUME NEW s \in Supervisor, RequestStop(s) \/ WorkerHeartbeatTimeout(s) PROVE IInv'
  BY <1>3, RequestStopToils, WorkerHeartbeatTimeoutToils, ToilKeeps
<1>4. ASSUME NEW s \in Supervisor, KillSupervisor(s) \/ ExitSupervisor(s) PROVE IInv'
  BY <1>4, KillSupervisorKeeps, ExitSupervisorKeeps
<1>5. ASSUME NEW w \in Worker, WorkerStep(w) PROVE IInv'
  BY <1>5, WorkerStepKeeps
<1>6. CASE reconcileStaleSupervisor
  BY <1>6, reconcileStaleSupervisorKeeps
<1>7. CASE Answer
  BY <1>7, AnswerToils, ToilKeeps
<1>8. CASE UNCHANGED vars
  BY <1>8, StutterKeeps
<1> QED
  BY <1>1, <1>2, <1>3, <1>4, <1>5, <1>6, <1>7, <1>8 DEF Next

(* Every reachable state satisfies the inductive invariant: the supervisor  *)
(* the row names and the worker that holds the admission belong together,   *)
(* and the durable counts bound the restarts (worker-supervisor's loop).    *)
THEOREM SupervisionInvariant == Spec => []IInv
<1>1. Init => IInv
  BY InitInv
<1>2. IInv /\ [Next]_vars => IInv'
  BY InvStep
<1> QED
  BY <1>1, <1>2, PTL DEF Spec

(* However many supervisors come and go, one worker at a time probes,       *)
(* builds or dispatches: it holds the admission, which has one holder.      *)
THEOREM WorkersExclude == Spec => []SoleWorker
<1>1. IInv => SoleWorker
  BY DEF IInv, Holding, SoleWorker, Acting
<1> QED
  BY <1>1, SupervisionInvariant, PTL

(* The restarts nobody asked for stay within both limits of the policy, for *)
(* any limits and over all supervisors of the run: each was counted in the  *)
(* row before its worker was born.                                          *)
THEOREM RestartsWithinBudget == Spec => []RestartBudget
<1>1. IInv => RestartBudget
  <2> SUFFICES ASSUME IInv PROVE RestartBudget
    OBVIOUS
  <2>1. Cardinality(Restarted) \in Nat
    BY FS_CardinalityType DEF IInv, Counted
  <2>2. row.runRestarts \in Nat /\ row.checkpointRestarts \in Nat /\ RunLimit \in Nat /\ CheckpointLimit \in Nat
    BY RecordFields, SupervisorAssumption DEF IInv, TypeOK
  <2>3. \A i, j, k \in Nat : i <= j /\ j <= k => i <= k
    BY SMT
  <2>4. Cardinality(Restarted) <= RunLimit /\ Cardinality(Restarted) <= CheckpointLimit
    BY <2>1, <2>2, <2>3 DEF IInv, Counted
  <2> QED
    BY <2>4 DEF RestartBudget, Restarted
<1> QED
  BY <1>1, SupervisionInvariant, PTL

(* A supervisor that returned and whose role nobody took since left the run *)
(* parked, whichever of its writes were refused on the way.                 *)
THEOREM ReturnsPark == Spec => []ReturnedRunParked
<1>1. IInv => ReturnedRunParked
  BY DEF IInv, Parked, ReturnedRunParked
<1> QED
  BY <1>1, SupervisionInvariant, PTL

(* A worker replaced without a person's request is replaced where nothing   *)
(* of the run is visible, no provider action is open and no probe remains:  *)
(* what the supervisor looked at when it scheduled the restart still holds  *)
(* when the worker is born, through the back-off and the save between.      *)
THEOREM ReplaysAttended == Spec => NoUnattendedReplay
<1> DEFINE Replay(w) == /\ worker[w].life = "unborn" /\ worker'[w].life = "gated"
                        /\ \E v \in Worker \ {w} : worker[v].parent = worker'[w].parent
<1>1. ASSUME IInv, [Next]_vars
      PROVE  \A w \in Worker : Replay(w) => ~ evidence /\ ~ uncertain /\ ~ probing
  <2> SUFFICES ASSUME NEW w \in Worker, Replay(w) PROVE ~ evidence /\ ~ uncertain /\ ~ probing
    OBVIOUS
  <2>1. CASE \E s \in Supervisor, x \in Worker : SpawnWorker(s, x)
    <3>1. PICK s \in Supervisor, x \in Worker : SpawnWorker(s, x)
      BY <2>1
    <3>2. /\ pc[s] = "spawning"
          /\ worker' = [worker EXCEPT ![x] = Born(worker[x], s, memory[s].workerGeneration)]
      BY <1>1, <3>1 DEF SpawnWorker, Born, IInv, TypeOK
    <3>3. worker[x] \in WorkerRow /\ memory[s].workerGeneration \in Nat
      BY <1>1, WorkersRow, PlainNumber
    <3>4. worker'[x].parent = s
      BY <1>1, <3>2, <3>3, WorkerBorn DEF IInv, TypeOK
    <3>5. x = w
      BY <1>1, <3>2 DEF IInv, TypeOK
    <3>6. PICK v \in Worker : worker[v].parent = s
      BY <3>4, <3>5
    <3>7. v \in ChildrenOf(s)
      BY <1>1, <3>6, SupervisorAssumption DEF ChildrenOf, IInv, Births
    <3> QED
      BY <1>1, <3>2, <3>7 DEF IInv, Quiet, Visible, Asking
  <2>2. CASE ~ \E s \in Supervisor, x \in Worker : SpawnWorker(s, x)
    <3>1. SameBirth(w)
      <4>1. ASSUME NEW s \in Supervisor, Turn(s) PROVE SameBirth(w)
        BY <4>1 DEF Turn, Around, SameBirth
      <4>2. CASE Toil
        BY <4>2 DEF Toil
      <4>3. CASE worker' = worker
        BY <4>3 DEF SameBirth
      <4>4. ASSUME NEW s \in Supervisor, Loop(s) PROVE SameBirth(w)
        <5>1. CASE TakeRole(s)
          BY <4>3, <5>1 DEF TakeRole
        <5>2. CASE WaitForHuman(s) \/ ParkWaitingRun(s) \/ PublishGeneration(s) \/ FailLaunch(s)
                   \/ RecordWorker(s) \/ StopLoop(s) \/ SaveAndReturn(s)
          BY <1>1, <4>1, <5>2, WaitForHumanTurns, ParkWaitingRunTurns, PublishGenerationTurns,
             FailLaunchTurns, RecordWorkerTurns, StopLoopTurns, SaveAndReturnTurns
        <5>3. CASE NoticeExit(s) \/ ReconcileExit(s) \/ SettleSignalled(s) \/ JudgeEnded(s)
                   \/ WithholdRestart(s) \/ ParkWithheldRun(s)
          BY <1>1, <4>1, <5>3, NoticeExitTurns, ReconcileExitTurns, SettleSignalledTurns,
             JudgeEndedTurns, WithholdRestartTurns, ParkWithheldRunTurns
        <5>4. CASE ExhaustBudget(s) \/ FailExhaustedRun(s) \/ ScheduleRestart(s) \/ WakeUp(s)
                   \/ SaveFailure(s) \/ ParkFailedRun(s)
          BY <1>1, <4>1, <5>4, ExhaustBudgetTurns, FailExhaustedRunTurns, ScheduleRestartTurns,
             WakeUpTurns, SaveFailureTurns, ParkFailedRunTurns
        <5> QED
          BY <2>2, <4>4, <5>1, <5>2, <5>3, <5>4 DEF Loop
      <4>5. ASSUME NEW s \in Supervisor, RequestStop(s) \/ WorkerHeartbeatTimeout(s) PROVE SameBirth(w)
        BY <1>1, <4>2, <4>5, RequestStopToils, WorkerHeartbeatTimeoutToils
      <4>6. ASSUME NEW s \in Supervisor, StartSupervisor(s) \/ KillSupervisor(s) \/ ExitSupervisor(s)
            PROVE  SameBirth(w)
        BY <4>3, <4>6 DEF StartSupervisor, KillSupervisor, ExitSupervisor, ownVars
      <4>7. ASSUME NEW x \in Worker, WorkerStep(x) PROVE SameBirth(w)
        <5>1. CASE AcknowledgeWorker(x) \/ ClaimWorkerLaunch(x) \/ ProbeRuntime(x) \/ BeginImplementation(x)
                   \/ DispatchProvider(x) \/ AskHuman(x)
          BY <1>1, <4>2, <5>1, AcknowledgeWorkerToils, ClaimWorkerLaunchToils, ProbeRuntimeToils,
             BeginImplementationToils, DispatchProviderToils, AskHumanToils
        <5>2. CASE \E how \in {"zero", "two", "error"} : FinishWork(x, how)
          BY <1>1, <4>2, <5>2, FinishWorkToils
        <5>3. CASE ExitWorker(x) \/ LoseWorker(x) \/ OrphanWorker(x)
          BY <1>1, <4>2, <5>3, ExitWorkerToils, LoseWorkerToils, OrphanWorkerToils
        <5> QED
          BY <4>7, <5>1, <5>2, <5>3 DEF WorkerStep
      <4>8. CASE reconcileStaleSupervisor
        BY <4>3, <4>8 DEF reconcileStaleSupervisor, ownVars
      <4>9. CASE Answer
        BY <1>1, <4>2, <4>9, AnswerToils
      <4>10. CASE UNCHANGED vars
        BY <4>3, <4>10 DEF vars, ownVars
      <4> QED
        BY <1>1, <4>4, <4>5, <4>6, <4>7, <4>8, <4>9, <4>10 DEF Next
    <3> QED
      BY <3>1 DEF SameBirth
  <2> QED
    BY <2>1, <2>2
<1> DEFINE Attentive ==
      \A w \in Worker :
        worker[w].life = "unborn" /\ worker'[w].life = "gated"
          /\ (\E v \in Worker \ {w} : worker[v].parent = worker'[w].parent)
        => ~ evidence /\ ~ uncertain /\ ~ probing
<1>2. IInv /\ [Next]_vars => [Attentive]_vars
  BY <1>1
<1> QED
  BY <1>2, SupervisionInvariant, PTL DEF Spec, NoUnattendedReplay
===============================================================================
