--------------------------- MODULE StartOver_proofs ---------------------------
(***************************************************************************)
(* Theorems about TrackerPublications and StartOver, for every number of   *)
(* processes, tickets, populations and resets.                             *)
(*                                                                         *)
(* The invariants are built one on the other:                              *)
(*  - RInv: a process that resets, saves or starts over holds the build    *)
(*    admission, and which command is at which place.  It holds for all    *)
(*    constants, in the tracker alone and beside start-overs, and is why   *)
(*    a reset is made once.                                                *)
(*  - PInv and Files: where a population's receipt, row, staged copy and   *)
(*    the files are, as far as it came, and that every process that        *)
(*    recovers or makes it is where the stores say, until two commands     *)
(*    are at populations at once.                                          *)
(*  - VInv: what a process read of an operation, and the operation's row.  *)
(*    With it EInv, what makes a run superseded, whoever starts over, and  *)
(*    WInv, where the work is at each step in Git, until two processes are *)
(*    at start-overs at once.                                              *)
(***************************************************************************)
EXTENDS StartOver, SequenceTheorems, TLAPS

(* The places of the commands, in groups.                                  *)
Making    == {"pop-stage", "pop-commit", "pop-mark", "pop-tickets", "pop-delivery",
              "pop-finish", "pop-close"}
Resetting == {"reset-commit", "reset-stage", "reset-publish", "reset-close"}
Saving    == {"save-rename", "save-settle"}
Asking    == {"so-preview", "so-retire", "so-admit"}
Git       == {"git-switch", "git-commit", "git-back", "git-reset", "git-fresh"}
Archiving == {"so-recollect", "so-plan", "so-restore", "so-preserve"} \cup Git
Ending    == {"so-reset", "so-reset-done", "so-supersede", "so-complete"}
Owning    == Resetting \cup Saving \cup Archiving \cup Ending
             \cup {"so-cleaned", "so-fail", "release", "build-work"}

(* The stores, and what each process keeps.                                *)
Rowed ==
  /\ status \in [Ticket -> {"planned", "done"}]
  /\ receipts \subseteq Population /\ snapshots \subseteq Population /\ resets \subseteq Reset
  /\ DOMAIN stage = Population
  /\ DOMAIN pub = Op /\ DOMAIN run = Op /\ left \subseteq Reset
Placed ==
  /\ admission.by \in Proc \cup {None, Dead}
  /\ admission = [by |-> admission.by, run |-> admission.run]
  /\ DOMAIN at = Proc /\ DOMAIN cmd = Proc /\ DOMAIN op = Proc /\ DOMAIN seen = Proc
  /\ \A p \in Proc : "own" \in DOMAIN seen[p] /\ "tickets" \in DOMAIN seen[p]
     /\ "done" \in DOMAIN seen[p]

(* Which command is at which place, and with what.                         *)
MineAt(p) ==
  /\ at[p] = "idle" => cmd[p] = None
  /\ at[p] \in {"hook"} \cup Undoing => cmd[p] \in {"populate", "apply", "reset", "update"}
  /\ at[p] = "pop-read" => cmd[p] = "populate"
  /\ at[p] \in Making \cup {"pop-begin", "pop-release"} => cmd[p] = "apply"
  /\ cmd[p] = "apply" => seen[p].own \in Population
  /\ at[p] = "reset-begin" => cmd[p] = "reset"
  /\ at[p] = "update" => cmd[p] = "update"
  /\ at[p] \in Resetting => cmd[p] \in {"reset", "start-over"} /\ op[p] \in Reset
  /\ at[p] \in Undoing \cup Making => op[p] \in Population
  /\ at[p] = "build-work" => cmd[p] = "build"
  /\ at[p] \in Saving => cmd[p] \in {"build", "start-over"}
  /\ at[p] \in Asking \cup Archiving \cup Ending \cup {"so-cleaned", "so-fail"}
     => cmd[p] = "start-over"
  /\ at[p] = "release" => cmd[p] \in {"reset", "build", "start-over"}
Mine == \A p \in Proc : MineAt(p)

(* Who resets, saves or starts over holds the admission.                   *)
Held == \A p \in Proc : at[p] \in Owning => Holds(admission, p)

(* A reset in hand is not yet, or is, in the tracker.                      *)
Resets ==
  /\ \A o \in resets : run[o] # None
  /\ \A p \in Proc : /\ at[p] \in Resetting => run[op[p]] = "running"
                     /\ at[p] = "reset-commit" => op[p] \notin resets
                     /\ at[p] \in {"reset-stage", "reset-publish",
                        "reset-close"} => op[p] \in resets

RInv == Rowed /\ Placed /\ Mine /\ Held /\ Resets

-----------------------------------------------------------------------------
(* Steps of the tracker: what a step of p leaves alone.                     *)

Elsewhere(p) ==
  \A q \in Proc \ {p} : at'[q] = at[q] /\ cmd'[q] = cmd[q] /\ op'[q] = op[q] /\ seen'[q] = seen[q]
Taken(p) == admission' = admission \/ Free(admission) \/ Holds(admission, p)

(* A step of the tracker keeps the types of the stores ...                  *)
LEMMA Rowing ==
  ASSUME Rowed, Placed, Mine, NEW p \in Proc, TrackerStep(p)
  PROVE  Rowed'
<1> USE DEF Rowed, Goto, Mark, Close, tracker, files, owners, local, Op
<1>1. CASE \/ \E c \in Command : Begin(p, c)
           \/ HookDone(p) \/ \E o \in Population : RecoverPopulation(p, o) \/ PopRead(p, o)
           \/ Release(p) \/ Leave(p) \/ Crash(p) \/ PopRelease(p)
  BY <1>1 DEF Begin, HookDone, RecoverPopulation, PopRead, Release, Leave, Crash, PopRelease
<1>2. CASE RemoveStage(p) \/ RollBack(p) \/ Republish(p) \/ RepublishDelivery(p) \/ Conclude(p) 
  <2>1. op[p] \in Population
    BY <1>2 DEF RemoveStage, RollBack, Republish, RepublishDelivery, Conclude, Mine, MineAt, Undoing
  <2> QED BY <1>2, <2>1 DEF RemoveStage, RollBack, Republish, RepublishDelivery, Conclude
<1>3. CASE PopBegin(p)
  BY <1>3 DEF PopBegin
<1>4. CASE PopStage(p) \/ PopCommit(p) \/ PopMark(p) \/ PopPublishTickets(p)
           \/ PopPublishDelivery(p) \/ PopFinish(p) \/ PopClose(p)
  <2>1. op[p] \in Population
    BY <1>4 DEF PopStage, PopCommit, PopMark, PopPublishTickets, PopPublishDelivery, PopFinish,
      PopClose, Mine, MineAt, Making
  <2> QED BY <1>4, <2>1 DEF PopStage, PopCommit, PopMark, PopPublishTickets, PopPublishDelivery,
    PopFinish, PopClose
<1>5. ASSUME NEW o \in Reset, RecoverReset(p, o) \/ ResetCommand(p, o) PROVE Rowed'
  BY <1>5 DEF RecoverReset, ResetCommand, ResetBegin
<1>6. CASE ResetCommit(p) \/ ResetStage(p) \/ ResetPublish(p) \/ ResetClose(p, "release")
           \/ ResetFails(p, "release")
  <2>1. op[p] \in Reset
    BY <1>6 DEF ResetCommit, ResetStage, ResetPublish, ResetClose, ResetFails, Mine, MineAt,
      Resetting
  <2> QED BY <1>6, <2>1 DEF ResetCommit, ResetStage, ResetPublish, ResetClose, ResetFails
<1>7. CASE \E t \in Ticket : Update(p, t)
  BY <1>7 DEF Update
<1> QED BY <1>1, <1>2, <1>3, <1>4, <1>5, <1>6, <1>7 DEF TrackerStep, PopulationStep

(* ... and of the processes, moves one of them, and takes no admission but  *)
(* a free one.                                                             *)
LEMMA Placing ==
  ASSUME Placed, Mine, Held, NEW p \in Proc, TrackerStep(p)
  PROVE  Placed' /\ Elsewhere(p) /\ Taken(p)
<1> DEFINE Framed == Placed' /\ Elsewhere(p) /\ Taken(p)
<1> USE DEF Placed, Elsewhere, Taken, Goto, tracker, files, owners, local
<1>1. ASSUME NEW c \in Command, Begin(p, c) PROVE Framed
  BY <1>1 DEF Begin
<1>2. CASE HookDone(p)
  BY <1>2 DEF HookDone
<1>3. ASSUME NEW o \in Population, RecoverPopulation(p, o) \/ PopRead(p, o) PROVE Framed
  BY <1>3 DEF RecoverPopulation, PopRead, Nothing, Op
<1>4. CASE RemoveStage(p) \/ RollBack(p) \/ Republish(p) \/ RepublishDelivery(p) \/ Conclude(p)
  BY <1>4 DEF RemoveStage, RollBack, Republish, RepublishDelivery, Conclude
<1>5. CASE PopBegin(p)
  BY <1>5 DEF PopBegin
<1>6. CASE PopStage(p) \/ PopCommit(p) \/ PopMark(p) \/ PopPublishTickets(p)
           \/ PopPublishDelivery(p) \/ PopFinish(p) \/ PopClose(p) \/ PopRelease(p)
  BY <1>6 DEF PopStage, PopCommit, PopMark, PopPublishTickets, PopPublishDelivery, PopFinish,
    PopClose, PopRelease
<1>7. ASSUME NEW o \in Reset, RecoverReset(p, o) \/ ResetCommand(p, o) PROVE Framed
  BY <1>7 DEF RecoverReset, ResetCommand, ResetBegin, Op, MayMutate, Free
<1>8. CASE ResetCommit(p) \/ ResetStage(p) \/ ResetPublish(p) \/ ResetClose(p, "release")
           \/ ResetFails(p, "release")
  BY <1>8 DEF ResetCommit, ResetStage, ResetPublish, ResetClose, ResetFails
<1>9. CASE Release(p)
  BY <1>9 DEF Release, Nobody, Held, Owning
<1>10. CASE Leave(p) \/ \E t \in Ticket : Update(p, t)
  BY <1>10 DEF Leave, Nothing, Update
<1>11. CASE Crash(p)
  BY <1>11 DEF Crash, Nothing, Holds
<1> QED BY <1>1, <1>2, <1>3, <1>4, <1>5, <1>6, <1>7, <1>8, <1>9, <1>10, <1>11 DEF TrackerStep,
  PopulationStep

(* A command is where it can be.                                           *)
LEMMA Mining ==
  ASSUME Placed, Mine, NEW p \in Proc, TrackerStep(p), Elsewhere(p)
  PROVE  Mine'
<1>1. ASSUME NEW q \in Proc \ {p} PROVE MineAt(q)'
  BY <1>1 DEF Mine, MineAt, Elsewhere
<1>2. MineAt(p)'
  <2> USE DEF Placed, MineAt, Undoing, Making, Resetting, Saving, Asking, Archiving, Ending,
    Git, Goto, Op
  <2>1. CASE \E c \in Command : Begin(p, c)
    BY <2>1, CommandsKnown DEF Begin
  <2>2. CASE HookDone(p)
    <3>1. cmd[p] \in {"populate", "apply", "reset", "update"} /\ MineAt(p)
      BY <2>2 DEF HookDone, Mine
    <3> QED BY <2>2, <3>1 DEF HookDone, Entry
  <2>3. ASSUME NEW o \in Population, RecoverPopulation(p, o) \/ PopRead(p, o) PROVE MineAt(p)'
    <3>1. CASE RecoverPopulation(p, o)
      BY <3>1 DEF RecoverPopulation, Mine
    <3>2. CASE PopRead(p, o)
      BY <3>2 DEF PopRead
    <3> QED BY <2>3, <3>1, <3>2
  <2>4. CASE RemoveStage(p) \/ RollBack(p) \/ Republish(p) \/ RepublishDelivery(p) \/ Conclude(p)
    BY <2>4 DEF RemoveStage, RollBack, Republish, RepublishDelivery, Conclude, Mine
  <2>5. CASE PopBegin(p)
    BY <2>5 DEF PopBegin, Mine
  <2>6. CASE PopStage(p) \/ PopCommit(p) \/ PopMark(p) \/ PopPublishTickets(p)
             \/ PopPublishDelivery(p)
    BY <2>6 DEF PopStage, PopCommit, PopMark, PopPublishTickets, PopPublishDelivery, Mine
  <2>7. CASE PopFinish(p) \/ PopClose(p) \/ PopRelease(p)
    BY <2>7 DEF PopFinish, PopClose, PopRelease, Mine
  <2>8. ASSUME NEW o \in Reset, RecoverReset(p, o) \/ ResetCommand(p, o) PROVE MineAt(p)'
    BY <2>8 DEF RecoverReset, ResetCommand, ResetBegin, Mine
  <2>9. CASE ResetCommit(p) \/ ResetStage(p) \/ ResetPublish(p)
    BY <2>9 DEF ResetCommit, ResetStage, ResetPublish, Mine
  <2>10. CASE cmd[p] = "reset" /\ (ResetClose(p, "release") \/ ResetFails(p, "release"))
    BY <2>10 DEF ResetClose, ResetFails, Mine
  <2>11. CASE Release(p) \/ \E t \in Ticket : Update(p, t)
    BY <2>11 DEF Release, Update, Mine
  <2>12. CASE Leave(p) \/ Crash(p)
    BY <2>12 DEF Leave, Crash, None
  <2> QED BY <2>1, <2>2, <2>3, <2>4, <2>5, <2>6, <2>7, <2>8, <2>9, <2>10, <2>11, <2>12
    DEF TrackerStep, PopulationStep
<1> QED BY <1>1, <1>2 DEF Mine

(* No one else holds what p takes.                                         *)
LEMMA HoldersAlone ==
  ASSUME Held, NEW p \in Proc, Taken(p), NEW q \in Proc \ {p}, at[q] \in Owning
  PROVE  admission' = admission
BY ProcessesNamed DEF Held, Taken, Holds, Free, None, Dead

(* Who comes to a place of an owner has taken the admission, and nobody    *)
(* takes it from him.                                                      *)
LEMMA Holding ==
  ASSUME Placed, Mine, Held, NEW p \in Proc, TrackerStep(p), Elsewhere(p), Taken(p)
  PROVE  Held'
<1>1. ASSUME NEW q \in Proc \ {p}, at'[q] \in Owning PROVE Holds(admission', q)
  BY <1>1, HoldersAlone DEF Held, Elsewhere, Holds
<1>2. at'[p] \in Owning => Holds(admission', p)
  <2> USE DEF Placed, Owning, Resetting, Saving, Archiving, Ending, Git, Goto, owners
  <2>1. CASE \E c \in Command : Begin(p, c)
    BY <2>1 DEF Begin
  <2>2. CASE HookDone(p)
    <3>1. cmd[p] \in {"populate", "apply", "reset", "update"}
      BY <2>2 DEF HookDone, Mine, MineAt
    <3> QED BY <2>2, <3>1 DEF HookDone, Entry
  <2>3. ASSUME NEW o \in Population, RecoverPopulation(p, o) \/ PopRead(p, o)
        PROVE at'[p] \notin Owning
    BY <2>3 DEF RecoverPopulation, PopRead
  <2>4. CASE RemoveStage(p) \/ RollBack(p) \/ Republish(p) \/ RepublishDelivery(p) \/ Conclude(p)
    BY <2>4 DEF RemoveStage, RollBack, Republish, RepublishDelivery, Conclude
  <2>5. CASE PopBegin(p)
    BY <2>5 DEF PopBegin
  <2>6. CASE PopStage(p) \/ PopCommit(p) \/ PopMark(p) \/ PopPublishTickets(p)
             \/ PopPublishDelivery(p)
    BY <2>6 DEF PopStage, PopCommit, PopMark, PopPublishTickets, PopPublishDelivery
  <2>7. CASE PopFinish(p) \/ PopClose(p) \/ PopRelease(p)
    BY <2>7 DEF PopFinish, PopClose, PopRelease
  <2>8. ASSUME NEW o \in Reset, RecoverReset(p, o) \/ ResetCommand(p, o)
        PROVE at'[p] \in Owning => Holds(admission', p)
    BY <2>8 DEF RecoverReset, ResetCommand, ResetBegin, Holds
  <2>9. CASE ResetCommit(p) \/ ResetStage(p) \/ ResetPublish(p)
    BY <2>9 DEF ResetCommit, ResetStage, ResetPublish, Held, Holds
  <2>10. CASE cmd[p] = "reset" /\ (ResetClose(p, "release") \/ ResetFails(p, "release"))
    BY <2>10 DEF ResetClose, ResetFails, Held, Holds
  <2>11. CASE Release(p) \/ Leave(p) \/ Crash(p) \/ \E t \in Ticket : Update(p, t)
    BY <2>11 DEF Release, Leave, Crash, Update
  <2> QED BY <2>1, <2>2, <2>3, <2>4, <2>5, <2>6, <2>7, <2>8, <2>9, <2>10, <2>11 DEF TrackerStep,
    PopulationStep
<1> QED BY <1>1, <1>2 DEF Held, Holds

(* The runs of resets that other processes are at.                         *)
Spared(p) == \A q \in Proc \ {p} : at[q] \in Resetting => run'[op[q]] = run[op[q]]

(* A step of one reset: it alone may change the events of its reset.       *)
LEMMA Resetted ==
  ASSUME Rowed, Placed, Mine, Held, Resets, NEW p \in Proc, Elsewhere(p), Taken(p),
         \/ resets' = resets /\ (\A o \in Reset : run[o] # None => run'[o] # None) /\ Spared(p)
         \/ at[p] \in Resetting /\ run' = run /\ resets' = resets \cup {op[p]}
         \/ at[p] \in Resetting /\ run'[op[p]] # None
            /\ (\A o \in Op : o # op[p] => run'[o] = run[o]) /\ resets' = resets \ {op[p]},
         at'[p] \in Resetting => /\ run'[op'[p]] = "running"
                                 /\ at'[p] = "reset-commit" => op'[p] \notin resets'
                                 /\ at'[p] \in {"reset-stage", "reset-publish",
                                    "reset-close"} => op'[p] \in resets'
  PROVE  Resets'
<1>1. ASSUME NEW o \in resets' PROVE run'[o] # None
  <2>1. o \in resets \cup {op[p]} /\ resets \subseteq Reset /\ resets \subseteq Op
    BY <1>1 DEF Rowed, Op
  <2> QED BY <1>1, <2>1 DEF Resets, None
<1>2. ASSUME NEW q \in Proc \ {p}, at'[q] \in Resetting
      PROVE  /\ run'[op'[q]] = "running"
             /\ at'[q] = "reset-commit" => op'[q] \notin resets'
             /\ at'[q] \in {"reset-stage", "reset-publish", "reset-close"} => op'[q] \in resets'
  <2>1. at[q] \in Resetting /\ at'[q] = at[q] /\ op'[q] = op[q] /\ op[q] \in Reset
    BY <1>2 DEF Elsewhere, Mine, MineAt
  <2>2. at[p] \notin Resetting
    BY <2>1, ProcessesNamed DEF Held, Owning, Holds
  <2>3. resets' = resets /\ run'[op[q]] = "running"
    BY <2>1, <2>2 DEF Spared, Resets
  <2> QED BY <2>1, <2>3 DEF Resets
<1> QED BY <1>1, <1>2 DEF Resets, Resetting

(* A step that touches the runs of populations only spares resets,         *)
LEMMA PopulationsSpare ==
  ASSUME Mine, NEW p \in Proc, \A o \in Reset : run'[o] = run[o]
  PROVE  Spared(p)
BY DEF Spared, Mine, MineAt

(* and so does a step of another reset.                                    *)
LEMMA ResetsSpare ==
  ASSUME Held, Mine, NEW p \in Proc, NEW o \in Reset,
         RecoverReset(p, o) \/ ResetCommand(p, o) \/ (ResetClose(p, "release") /\ at[p] \in Owning)
  PROVE  Spared(p)
<1> SUFFICES ASSUME NEW q \in Proc \ {p}, at[q] \in Resetting PROVE run'[op[q]] = run[op[q]]
  BY DEF Spared
<1>1. Holds(admission, q) /\ ~Holds(admission, p) /\ ~Free(admission) /\ admission # Nobody
  BY ProcessesNamed DEF Held, Owning, Holds, Free, Nobody
<1>2. at[p] \notin Owning
  BY <1>1 DEF Held
<1>3. Fenced(p, o) /\ ~MayMutate(p)
  BY <1>1 DEF Fenced, MayMutate
<1> QED BY <1>2, <1>3 DEF RecoverReset, ResetCommand, ResetBegin, Resetting, Owning

(* No step of the tracker loses a reset another process is at.             *)
LEMMA ResetsKept ==
  ASSUME RInv, NEW p \in Proc, TrackerStep(p), Elsewhere(p), Taken(p)
  PROVE  Resets'
<1> DEFINE Kept == /\ resets' = resets /\ (\A o \in Reset : run'[o] = run[o])
                   /\ at'[p] \notin Resetting
<1>0. Kept => Resets'
  BY Resetted, PopulationsSpare DEF RInv
<1> USE KindsApart DEF RInv, Rowed, Placed, Resetting, Goto, Close, tracker, Op, None
<1>1. CASE \E c \in Command : Begin(p, c)
  <2>1. Kept
    BY <1>1 DEF Begin
  <2> QED BY <1>0, <2>1
<1>2. CASE HookDone(p)
  <2>1. cmd[p] \in {"populate", "apply", "reset", "update"}
    BY <1>2 DEF HookDone, Mine, MineAt
  <2>2. Kept
    BY <1>2, <2>1 DEF HookDone, Entry
  <2> QED BY <1>0, <2>2
<1>3. ASSUME NEW o \in Population, RecoverPopulation(p, o) \/ PopRead(p, o) PROVE Resets'
  <2>1. Kept
    BY <1>3 DEF RecoverPopulation, PopRead
  <2> QED BY <1>0, <2>1
<1>4. CASE RemoveStage(p) \/ RollBack(p) \/ Republish(p) \/ RepublishDelivery(p) \/ Conclude(p)
  <2>1. op[p] \in Population
    BY <1>4 DEF RemoveStage, RollBack, Republish, RepublishDelivery, Conclude, Mine, MineAt,
      Undoing
  <2>2. Kept
    BY <1>4, <2>1 DEF RemoveStage, RollBack, Republish, RepublishDelivery, Conclude
  <2> QED BY <1>0, <2>2
<1>5. CASE PopBegin(p)
  <2>1. seen[p].own \in Population
    BY <1>5 DEF PopBegin, Mine, MineAt
  <2>2. Kept
    BY <1>5, <2>1 DEF PopBegin
  <2> QED BY <1>0, <2>2
<1>6. CASE PopStage(p) \/ PopCommit(p) \/ PopMark(p) \/ PopPublishTickets(p)
           \/ PopPublishDelivery(p) \/ PopFinish(p) \/ PopRelease(p)
  <2>1. Kept
    BY <1>6 DEF PopStage, PopCommit, PopMark, PopPublishTickets, PopPublishDelivery, PopFinish,
      PopRelease
  <2> QED BY <1>0, <2>1
<1>7. CASE PopClose(p)
  <2>1. op[p] \in Population
    BY <1>7 DEF PopClose, Mine, MineAt, Making
  <2>2. Kept
    BY <1>7, <2>1 DEF PopClose
  <2> QED BY <1>0, <2>2
<1>8. ASSUME NEW o \in Reset, RecoverReset(p, o) \/ ResetCommand(p, o) PROVE Resets'
  <2>1. Spared(p)
    BY <1>8, ResetsSpare
  <2>2. CASE RecoverReset(p, o)
    <3>1. resets' = resets /\ (\A n \in Op : run[n] # None => run'[n] # None)
          /\ at'[p] \notin Resetting
      BY <2>2 DEF RecoverReset
    <3> QED BY <2>1, <3>1, Resetted
  <2>3. CASE ResetCommand(p, o)
    <3>1. o \notin resets
      BY <2>3 DEF ResetCommand, Resets
    <3>2. /\ resets' = resets /\ \A n \in Op : run[n] # None => run'[n] # None
          /\ op'[p] = o /\ at'[p] \in {"leave", "reset-commit"}
          /\ (at'[p] = "reset-commit" => run'[o] = "running")
      BY <2>3 DEF ResetCommand, ResetBegin
    <3> QED BY <2>1, <3>1, <3>2, Resetted
  <2> QED BY <1>8, <2>2, <2>3
<1>9. CASE ResetCommit(p) \/ ResetStage(p) \/ ResetPublish(p)
  <2>1. at[p] \in Resetting /\ op[p] \in Reset /\ run' = run /\ op' = op /\ run[op[p]] = "running"
    BY <1>9 DEF ResetCommit, ResetStage, ResetPublish, Mine, MineAt, Resets
  <2>2. resets' = resets \cup {op[p]} /\ at'[p] \in {"reset-stage", "reset-publish", "reset-close"}
    BY <1>9 DEF ResetCommit, ResetStage, ResetPublish, Resets
  <2> QED BY <2>1, <2>2, Resetted
<1>10. CASE ResetClose(p, "release")
  <2>1. op[p] \in Reset /\ at[p] \in Owning
    BY <1>10 DEF ResetClose, Mine, MineAt, Owning
  <2>2. Spared(p)
    BY <1>10, <2>1, ResetsSpare
  <2>3. resets' = resets /\ (\A n \in Op : run[n] # None => run'[n] # None)
        /\ at'[p] \notin Resetting
    BY <1>10 DEF ResetClose
  <2> QED BY <2>2, <2>3, Resetted
<1>11. CASE ResetFails(p, "release")
  <2>1. at[p] \in Resetting /\ op[p] \in Reset
    BY <1>11 DEF ResetFails, Mine, MineAt
  <2>2. /\ resets' = resets \ {op[p]} /\ run'[op[p]] # None
           /\ \A o \in Op : o # op[p] => run'[o] = run[o]
        /\ at'[p] \notin Resetting
    BY <1>11, <2>1 DEF ResetFails
  <2> QED BY <2>1, <2>2, Resetted
<1>12. CASE Release(p) \/ Leave(p) \/ Crash(p) \/ \E t \in Ticket : Update(p, t)
  <2>1. Kept
    BY <1>12 DEF Release, Leave, Crash, Update
  <2> QED BY <1>0, <2>1
<1> QED BY <1>1, <1>2, <1>3, <1>4, <1>5, <1>6, <1>7, <1>8, <1>9, <1>10, <1>11, <1>12
  DEF TrackerStep, PopulationStep

-----------------------------------------------------------------------------
(* Steps of builds and of start over, but for the resets they make, change  *)
(* nothing the tracker's commands rely on.                                  *)

(* The status of tickets is not said more of: a build may finish one.      *)
Finishing == status' = status \/ \E t \in Ticket : status' = [status EXCEPT ![t] = "done"]
Modest(p) ==
  /\ Finishing
  /\ UNCHANGED <<receipts, resets, snapshots, stage, pub, left, run, op, seen>>
  /\ Elsewhere(p) /\ Taken(p) /\ Placed'
  /\ at'[p] \notin Resetting \cup Undoing \cup Making \cup {"idle", "hook", "pop-read", "pop-begin"}
  /\ cmd'[p] \in {"build", "start-over"} /\ MineAt(p)'
  /\ at'[p] \in Owning => Holds(admission', p)

Switching(p) == GitSwitch(p) \/ GitCommit(p) \/ GitBack(p) \/ GitReset(p) \/ GitFresh(p)
  \/ GitFails(p)

(* Those are all steps of builds and of start over but three.              *)
LEMMA ModestSteps ==
  ASSUME Placed, Mine, Held, NEW p \in Proc,
         \/ \E i \in {0} \cup DOMAIN so, a \in Action, pushed \in BOOLEAN : Preview(p, i, a, pushed)
         \/ Clean(p) \/ Cleaned(p)
         \/ Confirm(p) \/ Retire(p) \/ Admit(p) \/ Recollect(p) \/ Plan(p) \/ Switching(p)
            \/ RestoreFiles(p)
         \/ (\E o \in Planned : Preserve(p, o)) \/ ResetDone(p) \/ Supersede(p) \/ SaveRename(p) \/ SaveSettle(p)
            \/ Complete(p) \/ Fail(p)
         \/ \E b \in {"build", "next"} : BuildBegin(p, b)
         \/ \E t \in Ticket : BuildWork(p, t)
  PROVE  Modest(p)
<1> USE DEF Modest, Finishing, Placed, Elsewhere, MineAt, Resetting, Undoing, Making, Owning,
  Saving, Asking, Archiving, Ending, Git, Goto, quiet, tracker, owners, Enter, None
<1>1. ASSUME NEW i, NEW a, NEW pushed, Preview(p, i, a, pushed) PROVE Modest(p)
  BY <1>1 DEF Preview, Taken
<1>2. CASE Clean(p) \/ Cleaned(p)
  BY <1>2 DEF Clean, Cleaned, PutBack, Hold, Holds, Taken, MayTake, Nobody, Mine, Held
<1>3. CASE Confirm(p)
  BY <1>3 DEF Confirm, Taken, Mine
<1>4. CASE Retire(p)
  BY <1>4 DEF Retire, Refused, Taken, MayTake, Nobody, Mine
<1>5. CASE Admit(p)
  BY <1>5 DEF Admit, Refused, Hold, Holds, Taken, MayTake, Mine
<1>6. CASE Recollect(p) \/ RestoreFiles(p) \/ ResetDone(p)
  BY <1>6 DEF Recollect, RestoreFiles, ResetDone, Taken, Mine, Held, Holds
<1>11. CASE Plan(p)
  BY <1>11 DEF Plan, Taken, Mine, Held, Holds
<1>12. ASSUME NEW o \in Planned, Preserve(p, o) PROVE Modest(p)
  BY <1>12 DEF Preserve, Taken, Mine, Held, Holds
<1>7. CASE Switching(p)
  BY <1>7 DEF Switching, GitSwitch, GitCommit, GitBack, GitReset, GitFresh, GitFails, Taken,
    Mine, Held, Holds
<1>8. CASE Supersede(p) \/ SaveRename(p) \/ SaveSettle(p) \/ Complete(p) \/ Fail(p)
  BY <1>8 DEF Supersede, SaveRename, SaveSettle, StartingOver, Complete, Fail, Taken, Mine,
    Held, Holds
<1>9. CASE \E b \in {"build", "next"} : BuildBegin(p, b)
  BY <1>9 DEF BuildBegin, Hold, Holds, Taken, MayTake
<1>10. ASSUME NEW t \in Ticket, BuildWork(p, t) PROVE Modest(p)
  <2>1. Finishing
    BY <1>10 DEF BuildWork
  <2>2. at[p] = "build-work" /\ at'[p] \in {"save-rename", "release"} /\ cmd' = cmd
        /\ admission' = admission
    BY <1>10 DEF BuildWork
  <2>3. UNCHANGED <<receipts, resets, snapshots, stage, pub, left, run, op, seen>>
    BY <1>10 DEF BuildWork, files
  <2>4. Elsewhere(p) /\ Placed'
    BY <1>10, <2>2, <2>3 DEF BuildWork
  <2>5. cmd[p] = "build" /\ Holds(admission, p)
    BY <2>2 DEF Mine, Held
  <2> QED BY <2>1, <2>2, <2>3, <2>4, <2>5 DEF Taken, Holds
<1> QED BY <1>1, <1>2, <1>3, <1>4, <1>5, <1>6, <1>7, <1>8, <1>9, <1>10, <1>11, <1>12

(* They keep the invariant.                                                *)
LEMMA ModestKeeps ==
  ASSUME RInv, NEW p \in Proc, Modest(p)
  PROVE  RInv'
<1>0. Rowed' /\ Placed'
  BY DEF RInv, Rowed, Modest, Finishing
<1>1. Mine'
  <2>1. ASSUME NEW q \in Proc \ {p} PROVE MineAt(q)'
    BY <2>1 DEF RInv, Mine, MineAt, Elsewhere, Modest
  <2> QED BY <2>1 DEF Mine, Modest
<1>2. Held'
  <2>1. ASSUME NEW q \in Proc \ {p}, at'[q] \in Owning PROVE Holds(admission', q)
    BY <2>1, HoldersAlone DEF RInv, Held, Elsewhere, Holds, Modest
  <2> QED BY <2>1 DEF Held, Holds, Modest
<1>3. Resets'
  BY DEF RInv, Resets, Resetting, Modest, Elsewhere, Mine, MineAt
<1> QED BY <1>0, <1>1, <1>2, <1>3 DEF RInv

-----------------------------------------------------------------------------
(* The resets a start-over makes, step by step as those of the command.     *)

(* The three: start over resets tickets itself.                            *)
OwnReset(p) == ResetTickets(p) \/ ResetClose(p, "so-reset-done") \/ ResetFails(p, "so-fail")

(* They keep the types, the places and the resets.                         *)
LEMMA OwnResets ==
  ASSUME RInv, NEW p \in Proc, cmd[p] = "start-over", OwnReset(p),
         at[p] = "so-reset" => view[p].so.planned \in Planned
  PROVE  /\ Rowed' /\ Placed' /\ Elsewhere(p) /\ Taken(p) /\ cmd' = cmd
         /\ MineAt(p)' /\ (at'[p] \in Owning => Holds(admission', p)) /\ Resets'
         /\ at'[p] \in {"so-supersede", "so-reset-done", "leave", "reset-commit", "so-fail"}
<1> USE KindsApart, SomePlanned DEF RInv, Rowed, Placed, Elsewhere, Taken, MineAt, Holds, Resetting,
  Undoing, Making, Owning, Saving, Asking, Archiving, Ending, Git, Goto, Mark, Close, tracker,
  files, owners, Op, None
<1>1. CASE ResetTickets(p)
  <2> DEFINE o == view[p].so.planned
  <2>1. o \in Reset /\ at[p] = "so-reset" /\ Holds(admission, p)
    BY <1>1 DEF ResetTickets, Held
  <2>2. /\ Rowed' /\ Placed' /\ Elsewhere(p) /\ cmd' = cmd
        /\ at'[p] \in {"so-supersede", "so-reset-done", "leave", "reset-commit"}
    BY <1>1, <2>1 DEF ResetTickets, ResetBegin
  <2>3. Taken(p) /\ MineAt(p)' /\ (at'[p] \in Owning => Holds(admission', p))
    BY <1>1, <2>1 DEF ResetTickets, ResetBegin, MayMutate, Free, Mine
  <2>4. /\ resets' = resets /\ (\A n \in Op : run[n] # None => run'[n] # None) /\ op'[p] = o
        /\ at'[p] = "reset-commit" => o \notin resets /\ run'[o] = "running"
    BY <1>1, <2>1 DEF ResetTickets, ResetBegin, Applied
  <2>5. Spared(p)
    BY <2>1, ProcessesNamed DEF Spared, Held
  <2>6. Resets'
    BY <2>2, <2>3, <2>4, <2>5, Resetted
  <2> QED BY <2>2, <2>3, <2>6
<1>2. CASE ResetClose(p, "so-reset-done")
  <2>1. op[p] \in Reset
    BY <1>2 DEF ResetClose, Mine
  <2>2. Rowed' /\ Placed' /\ Elsewhere(p) /\ cmd' = cmd /\ at'[p] = "so-reset-done"
    BY <1>2, <2>1 DEF ResetClose
  <2>3. Taken(p) /\ MineAt(p)' /\ Holds(admission', p)
    BY <1>2 DEF ResetClose, Mine, Held
  <2>4. resets' = resets /\ (\A o \in Op : run[o] # None => run'[o] # None) /\ Spared(p)
    BY <1>2, ProcessesNamed DEF ResetClose, Spared, Held
  <2>5. Resets'
    BY <2>2, <2>3, <2>4, Resetted
  <2> QED BY <2>2, <2>3, <2>5
<1>3. CASE ResetFails(p, "so-fail")
  <2>1. op[p] \in Reset /\ at[p] \in Resetting
    BY <1>3 DEF ResetFails, Mine
  <2>2. Rowed' /\ Placed' /\ Elsewhere(p) /\ cmd' = cmd /\ at'[p] = "so-fail"
    BY <1>3, <2>1 DEF ResetFails
  <2>3. Taken(p) /\ MineAt(p)' /\ Holds(admission', p)
    BY <1>3 DEF ResetFails, Mine, Held
  <2>4. resets' = resets \ {op[p]} /\ run'[op[p]] # None
        /\ \A o \in Op : o # op[p] => run'[o] = run[o]
    BY <1>3, <2>1 DEF ResetFails
  <2>5. Resets'
    BY <2>1, <2>2, <2>3, <2>4, Resetted
  <2> QED BY <2>2, <2>3, <2>5
<1> QED BY <1>1, <1>2, <1>3 DEF OwnReset

-----------------------------------------------------------------------------
(* What a process knows of an operation, and what its row says.             *)

So(p) == cmd[p] = "start-over"
Going == {"so-retire", "so-admit", "so-fail"} \cup Archiving \cup Ending \cup Resetting \cup Saving
OpRow == [status : {None, "running", "paused", "completed"}, action : Action \cup {None},
          preserved : BOOLEAN, planned : Planned \cup {None}, reset : BOOLEAN]

(* An operation that goes on knows its reset once its work was preserved.  *)
Sound(r) == r.preserved /\ r.status # "completed" => r.planned \in Planned
OpRows == so \in Seq(OpRow) /\ \A i \in 1..Len(so) : so[i].status # None /\ Sound(so[i])

Shaped(v) == /\ "id" \in DOMAIN v /\ "so" \in DOMAIN v /\ "pushed" \in DOMAIN v
             /\ "tree" \in DOMAIN v /\ "kept" \in DOMAIN v

(* A process that goes on has a row, and a reset of a start-over in hand   *)
(* is one that was planned.                                                *)
KnowsAt(p) ==
  LET v == view[p] IN
  /\ Shaped(v) /\ v.id \in Nat /\ v.so \in OpRow /\ (v.so.preserved => v.so.planned \in Planned)
  /\ So(p) /\ (at[p] \in Going \/ (at[p] \in {"so-preview", "so-cleaned"} /\ ~Fresh(p)))
     => v.id \in 1..Len(so)
  /\ So(p) /\ at[p] \in {"so-reset", "so-reset-done"} \cup Resetting => v.so.planned \in Planned
  /\ So(p) /\ at[p] \in Resetting => op[p] = v.so.planned
VInv == OpRows /\ DOMAIN view = Proc /\ \A p \in Proc : KnowsAt(p)

(* What a step of p says of it, and that it is enough.                     *)
SoStep(p) ==
  /\ OpRows' /\ Len(so') >= Len(so) /\ DOMAIN view' = Proc /\ KnowsAt(p)'
  /\ \A q \in Proc \ {p} : view'[q] = view[q]

LEMMA SoFramed ==
  ASSUME VInv, NEW p \in Proc, Elsewhere(p), SoStep(p)
  PROVE  VInv'
<1>1. ASSUME NEW q \in Proc \ {p} PROVE KnowsAt(q)'
  <2>1. /\ view'[q] = view[q] /\ at'[q] = at[q] /\ cmd'[q] = cmd[q] /\ op'[q] = op[q]
        /\ KnowsAt(q)
    BY DEF SoStep, Elsewhere, VInv
  <2>2. Len(so) \in Nat /\ Len(so') \in Nat /\ Len(so') >= Len(so)
    BY DEF SoStep, VInv, OpRows
  <2> QED BY <2>1, <2>2 DEF KnowsAt, So, Fresh
<1> QED BY <1>1 DEF VInv, SoStep

(* A row that is written over.                                             *)
LEMMA RowWritten ==
  ASSUME OpRows, NEW i \in 1..Len(so), NEW r \in OpRow, r.status # None, Sound(r),
         so' = [so EXCEPT ![i] = r]
  PROVE  OpRows' /\ Len(so') = Len(so)
BY ExceptSeq DEF OpRows

(* The steps beside the tracker's, in groups.                              *)
Asks(p)     == \/ \E i \in {0} \cup DOMAIN so, a \in Action, pushed \in BOOLEAN : Preview(p, i, a, pushed)
               \/ Clean(p) \/ Cleaned(p) \/ Confirm(p) \/ Retire(p) \/ Admit(p)
Archives(p) == Recollect(p) \/ Plan(p) \/ Switching(p) \/ RestoreFiles(p)
               \/ \E o \in Planned : Preserve(p, o)
Ends(p)     == ResetDone(p) \/ Supersede(p) \/ Complete(p) \/ Fail(p)
Saves(p)    == SaveRename(p) \/ SaveSettle(p)
Builds(p)   == \/ \E b \in {"build", "next"} : BuildBegin(p, b)
               \/ \E t \in Ticket : BuildWork(p, t)

(* Preview, cleaning and confirmation.                                     *)
LEMMA AsksKnown ==
  ASSUME RInv, VInv, NEW p \in Proc, Asks(p)
  PROVE  SoStep(p)
<1>0. /\ so \in Seq(OpRow) /\ Len(so) \in Nat /\ DOMAIN so = 1..Len(so) /\ KnowsAt(p)
      /\ DOMAIN view = Proc
  BY LenProperties DEF VInv, OpRows
<1> USE <1>0 DEF SoStep, KnowsAt, So, Fresh, View, Goto, Going, Resetting, Saving, Archiving, Git, Ending
<1>1. ASSUME NEW i \in {0} \cup DOMAIN so, NEW a \in Action, NEW pushed \in BOOLEAN,
             Preview(p, i, a, pushed)
      PROVE  SoStep(p)
  <2> DEFINE pending == IF Open THEN so[i] ELSE [NoOp EXCEPT !.action = a]
  <2>1. /\ so' = so /\ at'[p] = "so-preview"
        /\ view' = [view EXCEPT ![p] = [NoView EXCEPT !.id = i, !.so = pending, !.pushed = pushed,
                                                    !.tree = Tree]]
    BY <1>1 DEF Preview, Enter, RInv, Placed
  <2>2. /\ view'[p].id = i /\ view'[p].so = pending /\ Shaped(view'[p])
        /\ DOMAIN view' = Proc /\ \A q \in Proc \ {p} : view'[q] = view[q]
    BY <2>1 DEF NoView, Shaped
  <2>3. /\ OpRows' /\ Len(so') >= Len(so)
    BY <2>1 DEF VInv, OpRows, Sound
  <2>4. CASE Open
    <3>1. i \in 1..Len(so) /\ pending = so[i] /\ so[i].status \in {"running", "paused"}
      BY <1>1, <2>4 DEF Preview, Pending, Resumable
    <3>2. so[i] \in OpRow /\ (so[i].preserved => so[i].planned \in Planned)
      BY <3>1 DEF VInv, OpRows, Sound
    <3> HIDE DEF pending
    <3> QED BY <2>1, <2>2, <2>3, <3>1, <3>2
  <2>5. CASE ~Open
    <3>1. pending \in OpRow /\ pending.status = None /\ pending.preserved = FALSE
      BY <2>5 DEF NoOp, OpRow
    <3>2. i \in Nat
      OBVIOUS
    <3> HIDE DEF pending
    <3> QED BY <2>1, <2>2, <2>3, <3>1, <3>2
  <2> QED BY <2>4, <2>5
<1>2. CASE Clean(p) \/ Cleaned(p)
  <2>1. /\ so' = so /\ at[p] \in {"so-preview", "so-cleaned"} /\ at'[p] \in {"so-cleaned", "so-preview"}
        /\ cmd' = cmd
        /\ \E kept, tree : view' = [view EXCEPT ![p] = [view[p] EXCEPT !.kept = kept, !.tree = tree]]
    <3>1. CASE Clean(p)
      <4>1. view' = [view EXCEPT ![p] = [view[p] EXCEPT !.kept = {<<definitions, delivery>>},
                                                       !.tree = view[p].tree]]
        BY <3>1 DEF Clean
      <4> QED BY <3>1, <4>1 DEF Clean, RInv, Placed
    <3>2. CASE Cleaned(p)
      BY <3>2 DEF Cleaned, RInv, Placed
    <3> QED BY <1>2, <3>1, <3>2
  <2>2. So(p)
    BY <2>1, <1>2 DEF Clean, Cleaned, RInv, Mine, MineAt, Asking
  <2>3. /\ view'[p].id = view[p].id /\ view'[p].so = view[p].so /\ Shaped(view'[p])
        /\ DOMAIN view' = Proc /\ \A q \in Proc \ {p} : view'[q] = view[q]
    BY <2>1 DEF Shaped
  <2>4. /\ OpRows' /\ Len(so') >= Len(so)
    BY <2>1 DEF VInv, OpRows, Sound
  <2> QED BY <2>1, <2>2, <2>3, <2>4
<1>3. CASE Confirm(p)
  <2>1. at[p] = "so-preview" /\ So(p) /\ cmd' = cmd
    BY <1>3 DEF Confirm, RInv, Mine, MineAt, Asking
  <2>2. CASE at'[p] = "leave" /\ so' = so /\ view' = view
    BY <2>1, <2>2 DEF VInv, OpRows, Sound
  <2>3. CASE ~Fresh(p) /\ at'[p] = "so-retire" /\ so' = so
             /\ view' = [view EXCEPT ![p] = [view[p] EXCEPT !.tree = {}]]
    <3>1. /\ view'[p].id = view[p].id /\ view'[p].so = view[p].so /\ Shaped(view'[p])
          /\ DOMAIN view' = Proc /\ \A q \in Proc \ {p} : view'[q] = view[q]
      BY <2>3 DEF Shaped
    <3>2. /\ OpRows' /\ Len(so') >= Len(so)
      BY <2>3 DEF VInv, OpRows, Sound
    <3> QED BY <2>1, <2>3, <3>1, <3>2
  <2>4. CASE /\ so' = Append(so, [view[p].so EXCEPT !.status = "running"]) /\ at'[p] = "so-retire"
             /\ view' = [view EXCEPT ![p] = [view[p] EXCEPT !.id = Len(so'), !.tree = {}, !.pushed = FALSE]]
    <3> DEFINE r == [view[p].so EXCEPT !.status = "running"]
    <3>1. r \in OpRow /\ r.status # None /\ Sound(r)
      BY DEF OpRow, Sound, None
    <3> HIDE DEF r
    <3>2. /\ so' \in Seq(OpRow) /\ Len(so') = Len(so) + 1 /\ so'[Len(so) + 1] = r
          /\ \A i \in 1..Len(so) : so'[i] = so[i]
      BY <2>4, <3>1, AppendProperties DEF r
    <3>3. OpRows'
      BY <3>1, <3>2 DEF VInv, OpRows, Sound
    <3>4. /\ view'[p].id = Len(so') /\ view'[p].so = view[p].so /\ Shaped(view'[p])
          /\ DOMAIN view' = Proc /\ \A q \in Proc \ {p} : view'[q] = view[q]
      BY <2>4 DEF Shaped
    <3> QED BY <2>1, <2>4, <3>2, <3>3, <3>4
  <2> QED BY <1>3, <2>2, <2>3, <2>4 DEF Confirm, RInv, Placed
<1>4. CASE Retire(p) \/ Admit(p)
  <2>1. at[p] \in {"so-retire", "so-admit"} /\ So(p) /\ cmd' = cmd /\ view' = view
        /\ view[p].id \in 1..Len(so)
    BY <1>4 DEF Retire, Admit, RInv, Mine, MineAt, Asking
  <2>2. CASE at'[p] = "leave" /\ so' \in {so, [so EXCEPT ![view[p].id].status = "paused"]}
    <3>1. CASE so' = so
      BY <2>1, <2>2, <3>1 DEF VInv, OpRows, Sound
    <3>2. CASE so' = [so EXCEPT ![view[p].id] = [so[view[p].id] EXCEPT !.status = "paused"]]
               /\ so[view[p].id].status # "completed"
      <4> DEFINE r == [so[view[p].id] EXCEPT !.status = "paused"]
      <4>1. so[view[p].id] \in OpRow /\ Sound(so[view[p].id])
        BY <2>1 DEF VInv, OpRows
      <4>2. r \in OpRow /\ r.status # None /\ Sound(r)
        BY <3>2, <4>1 DEF OpRow, Sound, None
      <4>3. OpRows' /\ Len(so') = Len(so)
        BY <2>1, <3>2, <4>2, RowWritten DEF VInv
      <4> QED BY <2>1, <2>2, <4>3 DEF VInv
    <3> QED
      <4>1. so' = so \/ (so' = [so EXCEPT ![view[p].id].status = "paused"]
                         /\ so[view[p].id] = [view[p].so EXCEPT !.status = "running"])
        BY <1>4, <2>2 DEF Retire, Admit, Refused
      <4> QED BY <3>1, <3>2, <4>1 DEF OpRow
  <2>3. CASE at'[p] = "so-admit" /\ so' = so
    BY <2>1, <2>3 DEF VInv, OpRows, Sound
  <2>4. CASE so' = so /\ at'[p] = (IF ~Fresh(p) /\ ~view[p].so.preserved /\ backup[view[p].id] # {}
                                   THEN "so-recollect"
                                   ELSE IF view[p].so.preserved THEN "so-reset" ELSE "so-plan")
    BY <2>1, <2>4 DEF VInv, OpRows, Sound
  <2> QED BY <1>4, <2>2, <2>3, <2>4 DEF Retire, Admit, Refused, RInv, Placed
<1> QED BY <1>1, <1>2, <1>3, <1>4 DEF Asks

(* The work is archived.                                                   *)
LEMMA ArchivesKnown ==
  ASSUME RInv, VInv, NEW p \in Proc, Archives(p)
  PROVE  SoStep(p)
<1>0. /\ so \in Seq(OpRow) /\ Len(so) \in Nat /\ DOMAIN so = 1..Len(so) /\ KnowsAt(p)
      /\ DOMAIN view = Proc
  BY LenProperties DEF VInv, OpRows
<1> USE <1>0 DEF SoStep, KnowsAt, So, Fresh, View, Goto, Going, Resetting, Saving, Archiving, Git, Ending
<1>1. CASE Recollect(p) \/ RestoreFiles(p) \/ Switching(p)
  <2>1. at[p] \in Archiving /\ So(p) /\ cmd' = cmd /\ view' = view /\ so' = so
    BY <1>1 DEF Recollect, RestoreFiles, Switching, GitSwitch, GitCommit, GitBack, GitReset,
      GitFresh, GitFails, RInv, Mine, MineAt
  <2>2. at'[p] \in Archiving \cup {"so-fail"}
    BY <1>1 DEF Recollect, RestoreFiles, Switching, GitSwitch, GitCommit, GitBack, GitReset,
      GitFresh, GitFails, RInv, Placed
  <2> QED BY <2>1, <2>2 DEF VInv, OpRows, Sound
<1>2. CASE Plan(p)
  <2> DEFINE i == view[p].id
  <2> DEFINE r == [so[i] EXCEPT !.preserved = FALSE, !.planned = None, !.reset = FALSE]
  <2>1. at[p] = "so-plan" /\ So(p) /\ cmd' = cmd /\ i \in 1..Len(so)
    BY <1>2 DEF Plan, RInv, Mine, MineAt
  <2>2. so' = [so EXCEPT ![i] = r] /\ at'[p] \in {"so-preserve", "git-fresh", "git-switch"}
    BY <1>2 DEF Plan, RInv, Placed
  <2>3. /\ view'[p].id = view[p].id /\ view'[p].so = view[p].so /\ Shaped(view'[p])
        /\ DOMAIN view' = Proc /\ \A q \in Proc \ {p} : view'[q] = view[q]
    BY <1>2 DEF Plan, Shaped
  <2>4. r \in OpRow /\ r.status # None /\ Sound(r)
    <3>1. so[i] \in OpRow /\ so[i].status # None
      BY <2>1 DEF VInv, OpRows
    <3>2. KnowsAt(p)
      BY DEF VInv
    <3> QED BY <2>1, <3>1, <3>2 DEF OpRow, Sound, None
  <2> HIDE DEF r
  <2>5. OpRows' /\ Len(so') = Len(so)
    BY <2>1, <2>2, <2>4, RowWritten DEF VInv
  <2> QED BY <2>1, <2>2, <2>3, <2>5
<1>3. ASSUME NEW o \in Planned, Preserve(p, o) PROVE SoStep(p)
  <2> DEFINE i == view[p].id
  <2> DEFINE r == [so[i] EXCEPT !.preserved = TRUE, !.planned = o, !.reset = FALSE]
  <2>1. at[p] = "so-preserve" /\ So(p) /\ cmd' = cmd /\ i \in 1..Len(so)
    BY <1>3 DEF Preserve, RInv, Mine, MineAt
  <2>2. so' = [so EXCEPT ![i] = r] /\ at'[p] = "so-reset"
    BY <1>3 DEF Preserve, Record, RInv, Placed
  <2>3. /\ view'[p].id = view[p].id /\ view'[p].so = r /\ Shaped(view'[p])
        /\ DOMAIN view' = Proc /\ \A q \in Proc \ {p} : view'[q] = view[q]
    BY <1>3 DEF Preserve, Record, Shaped
  <2>4. r \in OpRow /\ r.status # None /\ Sound(r) /\ r.planned \in Planned
    <3>1. so[i] \in OpRow /\ so[i].status # None
      BY <2>1 DEF VInv, OpRows
    <3>2. KnowsAt(p)
      BY DEF VInv
    <3> QED BY <2>1, <3>1, <3>2 DEF OpRow, Sound, None
  <2> HIDE DEF r
  <2>5. OpRows' /\ Len(so') = Len(so)
    BY <2>1, <2>2, <2>4, RowWritten DEF VInv
  <2> QED BY <2>1, <2>2, <2>3, <2>4, <2>5
<1> QED BY <1>1, <1>2, <1>3 DEF Archives

(* The operation ends or fails.                                            *)
LEMMA EndsKnown ==
  ASSUME RInv, VInv, NEW p \in Proc, Ends(p)
  PROVE  SoStep(p)
<1>0. /\ so \in Seq(OpRow) /\ Len(so) \in Nat /\ DOMAIN so = 1..Len(so) /\ KnowsAt(p)
      /\ DOMAIN view = Proc
  BY LenProperties DEF VInv, OpRows
<1> USE <1>0 DEF SoStep, KnowsAt, So, Fresh, View, Goto, Going, Resetting, Saving, Archiving, Git, Ending
<1> DEFINE i == view[p].id
<1>1. CASE ResetDone(p)
  <2> DEFINE r == [so[i] EXCEPT !.preserved = TRUE, !.planned = view[p].so.planned, !.reset = TRUE]
  <2>1. at[p] = "so-reset-done" /\ So(p) /\ cmd' = cmd /\ i \in 1..Len(so)
    BY <1>1 DEF ResetDone, RInv, Mine, MineAt
  <2>2. so' = [so EXCEPT ![i] = r] /\ at'[p] = "so-supersede"
    BY <1>1 DEF ResetDone, Record, RInv, Placed
  <2>3. /\ view'[p].id = view[p].id /\ view'[p].so = r /\ Shaped(view'[p])
        /\ DOMAIN view' = Proc /\ \A q \in Proc \ {p} : view'[q] = view[q]
    BY <1>1 DEF ResetDone, Record, Shaped
  <2>4. r \in OpRow /\ r.status # None /\ Sound(r) /\ r.planned \in Planned
    <3>1. so[i] \in OpRow /\ so[i].status # None
      BY <2>1 DEF VInv, OpRows
    <3>2. KnowsAt(p)
      BY DEF VInv
    <3> QED BY <2>1, <3>1, <3>2 DEF OpRow, Sound, None
  <2> HIDE DEF r
  <2>5. OpRows' /\ Len(so') = Len(so)
    BY <2>1, <2>2, <2>4, RowWritten DEF VInv
  <2> QED BY <2>1, <2>2, <2>3, <2>4, <2>5
<1>2. CASE Supersede(p)
  <2>1. /\ at[p] = "so-supersede" /\ So(p) /\ cmd' = cmd /\ so' = so
        /\ at'[p] = "save-rename" /\ view' = view
    BY <1>2 DEF Supersede, RInv, Placed, Mine, MineAt
  <2> QED BY <2>1 DEF VInv, OpRows, Sound
<1>3. CASE Complete(p) \/ Fail(p)
  <2>1. /\ at[p] \in {"so-complete", "so-fail"} /\ So(p) /\ cmd' = cmd
        /\ at'[p] = "release" /\ view' = view /\ i \in 1..Len(so)
    BY <1>3 DEF Complete, Fail, RInv, Placed, Mine, MineAt
  <2>2. ASSUME NEW r \in OpRow, r.status # None, Sound(r), so' = [so EXCEPT ![i] = r] PROVE SoStep(p)
    <3>1. OpRows' /\ Len(so') = Len(so)
      BY <2>1, <2>2, RowWritten DEF VInv
    <3> QED BY <2>1, <3>1
  <2>3. CASE Complete(p)
    <3> DEFINE r == [view[p].so EXCEPT !.status = "completed", !.planned = None]
    <3>1. r \in OpRow /\ r.status # None /\ Sound(r)
      BY DEF OpRow, Sound, None
    <3> QED BY <2>2, <2>3, <3>1 DEF Complete
  <2>4. CASE Fail(p) /\ so[i].status = "completed"
    <3>1. so' = [so EXCEPT ![i] = so[i]]
      BY <2>4 DEF Fail
    <3>2. so[i] \in OpRow /\ so[i].status # None /\ Sound(so[i])
      BY <2>1 DEF VInv, OpRows
    <3> QED BY <2>2, <3>1, <3>2
  <2>5. CASE Fail(p) /\ so[i].status # "completed"
    <3> DEFINE r == [view[p].so EXCEPT !.status = "paused"]
    <3>1. r \in OpRow /\ r.status # None /\ Sound(r)
      BY DEF OpRow, Sound, None
    <3>2. so' = [so EXCEPT ![i] = r]
      BY <2>5 DEF Fail
    <3> HIDE DEF r
    <3> QED BY <2>2, <3>1, <3>2
  <2> QED BY <1>3, <2>3, <2>4, <2>5
<1> QED BY <1>1, <1>2, <1>3 DEF Ends

(* The run's file is written.                                              *)
LEMMA SavesKnown ==
  ASSUME RInv, VInv, NEW p \in Proc, Saves(p) \/ Builds(p)
  PROVE  SoStep(p) /\ so' = so /\ view' = view
<1> USE DEF SoStep, KnowsAt, So, Fresh, Goto, Going, Resetting, Saving, Archiving, Git, Ending
<1>1. CASE Saves(p)
  <2>1. /\ at[p] \in Saving /\ cmd' = cmd /\ so' = so /\ view' = view
        /\ at'[p] \in {"save-settle", "so-complete", "release"}
    BY <1>1 DEF Saves, SaveRename, SaveSettle, RInv, Placed
  <2> QED BY <2>1 DEF VInv, OpRows, Sound
<1>2. CASE Builds(p)
  <2>1. cmd'[p] = "build" /\ so' = so /\ view' = view
    BY <1>2 DEF Builds, BuildBegin, BuildWork, Enter, RInv, Placed, Mine, MineAt
  <2> QED BY <2>1 DEF VInv, OpRows, Sound
<1> QED BY <1>1, <1>2

(* What the tracker's commands leave alone, and which of their steps a     *)
(* start-over takes.                                                       *)
Unseen(p) == UNCHANGED <<runs, so, backup, repo>> /\ DOMAIN view' = Proc
  /\ \A q \in Proc \ {p} : view'[q] = view[q]

(* A command of the tracker is no start-over and sees none.                *)
LEMMA Bystander ==
  ASSUME RInv, VInv, NEW p \in Proc, TrackerStep(p), Tracker(p), ~So(p)
  PROVE  ~So(p)' /\ Unseen(p) /\ view'[p] \in {view[p], NoView}
<1>1. cmd'[p] # "start-over"
  BY CommandsKnown DEF TrackerStep, PopulationStep, Begin, HookDone, RecoverPopulation, PopRead,
    RemoveStage, RollBack, Republish, RepublishDelivery, Conclude, PopBegin, PopStage, PopCommit,
    PopMark, PopPublishTickets, PopPublishDelivery, PopFinish, PopClose, PopRelease, RecoverReset,
    ResetCommand, ResetBegin, ResetCommit, ResetStage, ResetPublish, ResetClose, ResetFails,
    Update, Release, Leave, Crash, RInv, Placed, So, local, None
<1>2. UNCHANGED <<runs, so, backup, repo>> /\ (view' = view \/ view' = [view EXCEPT ![p] = NoView])
  BY DEF Tracker
<1>3. UNCHANGED <<runs, so, backup, repo>>
  BY <1>2
<1>4. DOMAIN view' = Proc /\ (\A q \in Proc \ {p} : view'[q] = view[q])
      /\ view'[p] \in {view[p], NoView}
  BY <1>2 DEF VInv
<1> QED BY <1>1, <1>3, <1>4 DEF So, Unseen

(* The steps of its reset.                                                 *)
LEMMA OwnTracker ==
  ASSUME RInv, VInv, NEW p \in Proc, TrackerStep(p), Tracker(p), So(p)
  PROVE  /\ Unseen(p) /\ view'[p] \in {view[p], NoView}
         /\ \/ /\ ResetCommit(p) \/ ResetStage(p) \/ ResetPublish(p)
               /\ cmd' = cmd /\ op' = op /\ view' = view
            \/ Release(p) /\ at'[p] = "leave" /\ cmd' = cmd /\ resets' = resets
            \/ at'[p] = "idle" /\ cmd'[p] = None /\ (Leave(p) \/ Crash(p)) /\ resets' = resets
<1>1. /\ UNCHANGED <<runs, so, backup, repo>>
      /\ at'[p] # "idle" => view' = view
      /\ view' = view \/ view' = [view EXCEPT ![p] = NoView]
  BY DEF Tracker
<1>2. ResetCommit(p) \/ ResetStage(p) \/ ResetPublish(p) \/ Release(p) \/ Leave(p) \/ Crash(p)
  <2>1. at[p] \notin {"idle", "hook", "pop-read", "pop-begin", "pop-release", "reset-begin",
        "update"} \cup Undoing \cup Making
    BY DEF So, RInv, Mine, MineAt, None
  <2> QED BY <2>1 DEF TrackerStep, PopulationStep, Begin, HookDone, RecoverPopulation, PopRead,
    RemoveStage, RollBack, Republish, RepublishDelivery, Conclude, PopBegin, PopStage, PopCommit,
    PopMark, PopPublishTickets, PopPublishDelivery, PopFinish, PopClose, PopRelease, RecoverReset,
    ResetCommand, Update, Undoing, Making, So
<1>3. CASE ResetCommit(p) \/ ResetStage(p) \/ ResetPublish(p)
  <2>1. cmd' = cmd /\ op' = op /\ at'[p] \in Resetting
    BY <1>3 DEF ResetCommit, ResetStage, ResetPublish, Goto, RInv, Placed, Resetting
  <2>2. view' = view
    BY <1>1, <2>1 DEF Resetting
  <2>3. UNCHANGED <<runs, so, backup, repo>>
    BY <1>1
  <2> QED BY <1>3, <2>1, <2>2, <2>3 DEF Unseen, VInv
<1>4. CASE Release(p)
  <2>1. at'[p] = "leave" /\ cmd' = cmd /\ resets' = resets
    BY <1>4 DEF Release, Goto, RInv, Placed, tracker
  <2>2. UNCHANGED <<runs, so, backup, repo>> /\ view' = view
    BY <1>1, <2>1
  <2> QED BY <1>4, <2>1, <2>2 DEF Unseen, VInv
<1>5. CASE Leave(p) \/ Crash(p)
  <2>1. at'[p] = "idle" /\ cmd'[p] = None /\ resets' = resets
    BY <1>5 DEF Leave, Crash, Goto, RInv, Placed, tracker
  <2>2. UNCHANGED <<runs, so, backup, repo>>
    BY <1>1
  <2>3. DOMAIN view' = Proc /\ (\A q \in Proc \ {p} : view'[q] = view[q])
        /\ view'[p] \in {view[p], NoView}
    BY <1>1 DEF VInv
  <2> QED BY <1>5, <2>1, <2>2, <2>3 DEF Unseen
<1> QED BY <1>2, <1>3, <1>4, <1>5

(* Who looked at an operation and left knows nothing.                      *)
LEMMA NoViewKnows ==
  ASSUME NEW p \in Proc, view'[p] \in {view[p], NoView}, KnowsAt(p), ~So(p)' \/ at'[p] = "leave"
  PROVE  KnowsAt(p)'
<1>1. Shaped(NoView) /\ NoView.id \in Nat /\ NoView.so \in OpRow /\ ~NoView.so.preserved
  BY DEF Shaped, NoView, NoOp, OpRow
<1>2. at'[p] = "leave" => at'[p] \notin Going \cup {"so-preview", "so-cleaned"} \cup Resetting
  BY DEF Going, Archiving, Ending, Resetting, Saving, Git
<1> QED BY <1>1, <1>2 DEF KnowsAt, So, Fresh, Ending

(* The tracker's commands.                                                 *)
LEMMA TrackersKnown ==
  ASSUME RInv, VInv, NEW p \in Proc, TrackerStep(p), Tracker(p)
  PROVE  SoStep(p)
<1>1. Unseen(p) /\ view'[p] \in {view[p], NoView} /\ (So(p)' => So(p)) /\ KnowsAt(p)
  BY Bystander, OwnTracker DEF VInv
<1>2. OpRows' /\ Len(so') >= Len(so)
  BY <1>1 DEF Unseen, VInv, OpRows, Sound
<1>3. KnowsAt(p)'
  <2>1. CASE ~So(p)'
    BY <1>1, <2>1, NoViewKnows
  <2>2. CASE So(p)'
    <3>1. CASE at'[p] \in Resetting /\ at[p] \in Resetting /\ view' = view /\ op' = op
      BY <1>1, <2>2, <3>1 DEF KnowsAt, Unseen, So, Resetting, Going
    <3>2. CASE at'[p] = "leave"
      BY <1>1, <3>2, NoViewKnows
    <3> QED
      BY <1>1, <2>2, <3>1, <3>2, OwnTracker DEF ResetCommit, ResetStage, ResetPublish, Goto, RInv,
        Placed, Resetting, So, None
  <2> QED BY <2>1, <2>2
<1> QED BY <1>1, <1>2, <1>3 DEF SoStep, Unseen

(* The reset of the operation.                                             *)
LEMMA OwnResetsKnown ==
  ASSUME RInv, VInv, NEW p \in Proc, So(p), OwnReset(p), ResetTickets(p) \/ Tracker(p)
  PROVE  SoStep(p) /\ Unseen(p) /\ view' = view
<1>0. KnowsAt(p) /\ (at[p] = "so-reset" => view[p].so.planned \in Planned)
  BY DEF VInv, KnowsAt
<1>1. /\ Elsewhere(p) /\ cmd' = cmd
      /\ at'[p] \in {"so-supersede", "so-reset-done", "leave", "reset-commit", "so-fail"}
  BY <1>0, OwnResets DEF So
<1>2. at[p] \in {"so-reset"} \cup Resetting
  BY DEF OwnReset, ResetTickets, ResetClose, ResetFails, Resetting
<1>3. UNCHANGED <<runs, so, backup, repo>> /\ view' = view
  BY <1>1 DEF ResetTickets, Tracker, Elsewhere, RInv, Placed
<1>4. at'[p] = "reset-commit" => op'[p] = view[p].so.planned
  BY <1>1 DEF OwnReset, ResetTickets, ResetBegin, ResetClose, ResetFails, Goto, RInv, Placed
<1>5. KnowsAt(p)'
  BY <1>0, <1>1, <1>2, <1>3, <1>4 DEF KnowsAt, Fresh, So, Resetting, Saving, Going, Archiving,
    Git, Ending
<1>6. OpRows' /\ Len(so') >= Len(so)
  BY <1>3 DEF VInv, OpRows, Sound
<1> QED BY <1>3, <1>5, <1>6 DEF SoStep, Unseen, VInv

(* The invariant of rows, places, the admission and resets, for any        *)
(* constants, whether start over is there or not.                          *)

(* What else is true of a step of p.                                       *)
Local(p) == /\ Elsewhere(p) /\ Taken(p) /\ Placed' /\ MineAt(p)'
            /\ at'[p] \in Owning => Holds(admission', p)

(* A step of the tracker keeps it,                                         *)
LEMMA TrackerKeeps ==
  ASSUME RInv, NEW p \in Proc, TrackerStep(p)
  PROVE  RInv' /\ Local(p)
<1>1. Rowed' /\ Placed' /\ Elsewhere(p) /\ Taken(p)
  BY Rowing, Placing DEF RInv
<1>2. Mine' /\ Held' /\ Resets'
  BY <1>1, Mining, Holding, ResetsKept DEF RInv
<1> QED BY <1>1, <1>2 DEF RInv, Local, Mine, Held, Holds

(* a tracker at rest has it,                                               *)
LEMMA RowsAtRest ==
  ASSUME NEW old \in SUBSET Population, Populated(old)
  PROVE  RInv
<1> USE DEF Populated, Op, None, Nobody, Nothing
<1>1. Rowed
  BY DEF Rowed
<1>2. Placed
  BY DEF Placed
<1>3. Mine
  BY DEF Mine, MineAt, Undoing, Making, Resetting, Saving, Asking, Archiving, Ending, Git
<1>4. Held
  BY DEF Held, Owning, Resetting, Saving, Archiving, Ending, Git
<1>5. Resets
  BY DEF Resets, Resetting
<1> QED BY <1>1, <1>2, <1>3, <1>4, <1>5 DEF RInv

(* and a reset made by start over keeps it.                                *)
LEMMA OwnResetsKeep ==
  ASSUME RInv, NEW p \in Proc, cmd[p] = "start-over", OwnReset(p),
         at[p] = "so-reset" => view[p].so.planned \in Planned
  PROVE  RInv' /\ Local(p)
<1>1. /\ Rowed' /\ Placed' /\ Elsewhere(p) /\ Taken(p) /\ MineAt(p)' /\ Resets'
      /\ at'[p] \in Owning => Holds(admission', p)
  BY OwnResets
<1>2. Mine'
  <2>1. ASSUME NEW q \in Proc \ {p} PROVE MineAt(q)'
    BY <1>1, <2>1 DEF RInv, Mine, MineAt, Elsewhere
  <2> QED BY <1>1, <2>1 DEF Mine
<1>3. Held'
  <2>1. ASSUME NEW q \in Proc \ {p}, at'[q] \in Owning PROVE Holds(admission', q)
    BY <1>1, <2>1, HoldersAlone DEF RInv, Held, Elsewhere, Holds
  <2> QED BY <1>1, <2>1 DEF Held, Holds
<1> QED BY <1>1, <1>2, <1>3 DEF RInv, Local

(* Nobody of the command line moves.                                       *)
Unmoved == UNCHANGED <<tracker, files, pub, left, run, parent, owners, local>>

(* Nothing else is in it.                                                  *)
LEMMA RInvStands ==
  ASSUME RInv, Unmoved
  PROVE  RInv'
BY DEF RInv, Rowed, Placed, Mine, MineAt, Held, Holds, Resets, Unmoved, tracker, files, owners,
  local

(* Every state of the tracker's commands alone: whoever resets holds the   *)
(* admission, and its reset is in the tracker exactly from its commit on.  *)
THEOREM RowsInvariant == Spec => []RInv
<1>1. Init => RInv
  BY RowsAtRest DEF Init
<1>2. RInv /\ [Next]_tvars => RInv'
  <2> SUFFICES ASSUME RInv, [Next]_tvars PROVE RInv'
    OBVIOUS
  <2>1. CASE UNCHANGED tvars
    BY <2>1, RInvStands DEF tvars, Unmoved
  <2>2. CASE Next
    BY <2>2, TrackerKeeps DEF Next
  <2> QED BY <2>1, <2>2
<1> QED BY <1>1, <1>2, PTL DEF Spec

(* All steps of StartOver, in groups.                                      *)
LEMMA StartSteps ==
  ASSUME RInv, SNext
  PROVE  \/ \E p \in Proc : \/ TrackerStep(p) /\ Tracker(p)
                            \/ So(p) /\ OwnReset(p) /\ (ResetTickets(p) \/ Tracker(p))
                            \/ (Asks(p) \/ Archives(p) \/ Ends(p) \/ Saves(p) \/ Builds(p))
                               /\ Modest(p)
         \/ (\E w \in {"fix", "touch"} : Edit(w)) /\ Unmoved
<1>1. ASSUME NEW p \in Proc, Tracker(p)
      PROVE  TrackerStep(p) \/ (So(p) /\ OwnReset(p))
  BY <1>1 DEF Tracker, OwnReset, So
<1>2. ASSUME NEW p \in Proc, Asks(p) \/ Archives(p) \/ Ends(p) \/ Saves(p) \/ Builds(p)
      PROVE  Modest(p)
  BY <1>2, ModestSteps DEF Asks, Archives, Ends, Saves, Builds, RInv
<1>3. ASSUME NEW p \in Proc, StartOverStep(p)
      PROVE  Asks(p) \/ Archives(p) \/ Ends(p) \/ Saves(p) \/ ResetTickets(p)
  BY <1>3 DEF StartOverStep, Asks, Archives, Ends, Saves, Switching
<1>4. ASSUME NEW p \in Proc, ResetTickets(p)
      PROVE  So(p) /\ OwnReset(p)
  BY <1>4 DEF ResetTickets, OwnReset, RInv, Mine, MineAt, Ending, So
<1>5. ASSUME NEW w \in {"fix", "touch"}, Edit(w) PROVE Unmoved
  BY <1>5 DEF Edit, Unmoved, quiet, tracker, files, local
<1> QED BY <1>1, <1>2, <1>3, <1>4, <1>5 DEF SNext, Step, Builds

(* What processes know of operations: before the first one,                *)
LEMMA KnownAtStart == SInit => VInv
<1> SUFFICES ASSUME SInit PROVE VInv
  OBVIOUS
<1>1. so = <<>> /\ Len(so) = 0 /\ OpRows
  BY EmptySeq DEF SInit, OpRows
<1>2. ASSUME NEW p \in Proc PROVE KnowsAt(p)
  BY DEF SInit, Populated, KnowsAt, So, None, Shaped, NoView, NoOp, OpRow
<1> QED BY <1>1, <1>2 DEF SInit, VInv

(* when no operation moves,                                                *)
LEMMA KnownStands ==
  ASSUME VInv, UNCHANGED <<at, cmd, op, so, view>>
  PROVE  VInv'
BY DEF VInv, OpRows, Sound, KnowsAt, So, Fresh

(* and after every step.                                                   *)
BInv == RInv /\ VInv
LEMMA BesideStep == BInv /\ [SNext]_svars => BInv'
<1> SUFFICES ASSUME RInv, VInv, [SNext]_svars PROVE RInv' /\ VInv'
  BY DEF BInv
<1>1. CASE UNCHANGED svars
  BY <1>1, RInvStands, KnownStands DEF svars, tvars, local, Unmoved
<1>2. ASSUME NEW p \in Proc, TrackerStep(p), Tracker(p) PROVE RInv' /\ VInv'
  BY <1>2, TrackerKeeps, TrackersKnown, SoFramed DEF Local
<1>3. ASSUME NEW p \in Proc, So(p), OwnReset(p), ResetTickets(p) \/ Tracker(p) PROVE RInv' /\ VInv'
  <2>1. at[p] = "so-reset" => view[p].so.planned \in Planned
    BY <1>3 DEF VInv, KnowsAt
  <2> QED BY <1>3, <2>1, OwnResetsKeep, OwnResetsKnown, SoFramed DEF Local, So
<1>4. ASSUME NEW p \in Proc, Asks(p) \/ Archives(p) \/ Ends(p) \/ Saves(p) \/ Builds(p), Modest(p)
      PROVE  RInv' /\ VInv'
  BY <1>4, ModestKeeps, AsksKnown, ArchivesKnown, EndsKnown, SavesKnown, SoFramed DEF Modest
<1>5. ASSUME NEW w \in {"fix", "touch"}, Edit(w), Unmoved PROVE RInv' /\ VInv'
  BY <1>5, RInvStands, KnownStands DEF Edit, Unmoved, local
<1> QED BY <1>1, <1>2, <1>3, <1>4, <1>5, StartSteps

LEMMA BesideInvariant == SSpec => []BInv
<1>1. SInit => BInv
  BY RowsAtRest, KnownAtStart, SomePlanned DEF SInit, BInv
<1> QED BY <1>1, BesideStep, PTL DEF SSpec

(* Every state of the tracker's commands beside builds and start-overs:    *)
(* whoever resets, saves, archives or ends an operation holds the          *)
(* admission, however many start over, die and resume.                     *)
THEOREM RowsInvariantBeside == SSpec => []RInv
BY BesideInvariant, PTL DEF BInv

(* What ResetsOnce is about: a ticket is planned again, and by what.       *)
Replanned == \E t \in Ticket : status[t] = "done" /\ status'[t] = "planned"
Remade == \E o \in Reset : o \in resets' \ resets \/ (run[o] = "running" /\ run'[o] = "failed")

(* Only the commit of a reset, or its failure, plans a finished ticket     *)
(* again.                                                                  *)
LEMMA FailureReplans ==
  ASSUME RInv, NEW p \in Proc, ResetFails(p, "release") \/ ResetFails(p, "so-fail")
  PROVE  Remade
<1>1. at[p] \in Resetting
  BY DEF ResetFails, Resetting
<1>2. op[p] \in Reset /\ run[op[p]] = "running" /\ DOMAIN run = Op
  BY <1>1 DEF RInv, Rowed, Mine, MineAt, Resets
<1>3. run'[op[p]] = "failed"
  BY <1>2 DEF ResetFails, Close, Op
<1> QED BY <1>2, <1>3 DEF Remade

LEMMA TrackerReplans ==
  ASSUME RInv, NEW p \in Proc, TrackerStep(p), Replanned
  PROVE  Remade
<1>1. CASE ResetCommit(p)
  BY <1>1 DEF ResetCommit, RInv, Mine, MineAt, Resets, Resetting, Remade
<1>2. CASE ResetFails(p, "release")
  BY <1>2, FailureReplans
<1>3. CASE \E t \in Ticket : Update(p, t)
  BY <1>3 DEF Update, Replanned, RInv, Rowed
<1>4. CASE ~ResetCommit(p) /\ ~ResetFails(p, "release") /\ ~\E t \in Ticket : Update(p, t)
  <2>1. status' = status
    BY <1>4 DEF TrackerStep, PopulationStep, Begin, HookDone, RecoverPopulation, PopRead,
      RemoveStage, RollBack, Republish, RepublishDelivery, Conclude, PopBegin, PopStage, PopCommit,
      PopMark, PopPublishTickets, PopPublishDelivery, PopFinish, PopClose, PopRelease, RecoverReset,
      ResetCommand, ResetBegin, ResetStage, ResetPublish, ResetClose, Release, Leave, Crash, tracker
  <2> QED BY <2>1 DEF Replanned
<1> QED BY <1>1, <1>2, <1>3, <1>4

(* No step of a build or a start-over does otherwise.                      *)
LEMMA OthersReplan ==
  ASSUME RInv, NEW p \in Proc, Replanned, Modest(p) \/ OwnReset(p)
  PROVE  Remade
<1>1. CASE Modest(p)
  BY <1>1 DEF Modest, Finishing, Replanned, RInv, Rowed
<1>2. CASE ResetFails(p, "so-fail")
  BY <1>2, FailureReplans
<1>3. CASE ResetTickets(p) \/ ResetClose(p, "so-reset-done")
  BY <1>3 DEF ResetTickets, ResetBegin, ResetClose, Replanned, tracker
<1> QED BY <1>1, <1>2, <1>3 DEF OwnReset

(* A ticket that was finished is planned again only by a reset that was    *)
(* not made before, or by one that fails and puts back what it found.      *)
THEOREM ResetsAreOnce == Spec => ResetsOnce
<1> DEFINE Body == (\E t \in Ticket : status[t] = "done" /\ status'[t] = "planned")
  => \E o \in Reset : \/ o \in resets' \ resets
                      \/ run[o] = "running" /\ run'[o] = "failed"
<1>1. RInv /\ [Next]_tvars => [Body]_<<status, resets, run>>
  <2> SUFFICES ASSUME RInv, [Next]_tvars, Replanned PROVE Remade
    BY DEF Replanned, Remade
  <2>1. CASE UNCHANGED tvars
    BY <2>1 DEF Replanned, tvars, tracker
  <2>2. CASE Next
    BY <2>2, TrackerReplans DEF Next
  <2> QED BY <2>1, <2>2
<1> QED BY <1>1, RowsInvariant, PTL DEF Spec, ResetsOnce

(* The same beside builds and start-overs, whatever anybody does beside    *)
(* them: a start-over that is resumed, fails or is confirmed twice takes   *)
(* back no work a ticket was finished with after its reset.                *)
THEOREM ResetsAreOnceBeside == SSpec => ResetsOnce
<1> DEFINE Body == (\E t \in Ticket : status[t] = "done" /\ status'[t] = "planned")
  => \E o \in Reset : \/ o \in resets' \ resets
                      \/ run[o] = "running" /\ run'[o] = "failed"
<1>1. RInv /\ [SNext]_svars => [Body]_<<status, resets, run>>
  <2> SUFFICES ASSUME RInv, [SNext]_svars, Replanned PROVE Remade
    BY DEF Replanned, Remade
  <2>1. CASE UNCHANGED tracker
    BY <2>1 DEF Replanned, tracker
  <2>2. CASE SNext
    BY <2>1, <2>2, StartSteps, TrackerReplans, OthersReplan DEF Unmoved
  <2> QED BY <2>1, <2>2 DEF svars, tvars
<1> QED BY <1>1, RowsInvariantBeside, PTL DEF SSpec, ResetsOnce

-----------------------------------------------------------------------------
(* Populations.  What holds however many commands are at them at once.      *)

(* Which populations are made, and which are neither made nor undone.      *)
Made       == {o \in Population : pub[o] = "committed"}
Unfinished == {o \in Population : pub[o] \notin {None, "committed", "rolled_back"}}

(* Two processes never make the same population.                           *)
Owners ==
  /\ \A p, q \in Proc : p # q /\ cmd[p] = "apply" /\ cmd[q] = "apply" => seen[p].own # seen[q].own
  /\ \A p \in Proc : at[p] \in Making => op[p] = seen[p].own

(* What anybody may write into a file has a receipt.                       *)
Receipted ==
  /\ definitions \subseteq receipts /\ delivery \subseteq receipts
  /\ \A o \in Population : /\ stage[o] \subseteq receipts \cup {o}
                           /\ pub[o] \in {"tracker_committed", "published"} => o \in receipts
  /\ \A p \in Proc : /\ seen[p].tickets \subseteq receipts \cup {seen[p].own}
                     /\ at[p] \in {"republish", "republish-delivery", "pop-mark", "pop-tickets",
                        "pop-delivery"} => op[p] \in receipts

(* Commands that were at populations at once are remembered.               *)
Noticed == Overlap => overlapped

(* Nobody comes to a population that another one makes.                    *)
LEMMA OwnersKept ==
  ASSUME RInv, Owners, NEW p \in Proc, TrackerStep(p), Elsewhere(p), MineAt(p)'
  PROVE  Owners'
<1> DEFINE Kept == /\ cmd'[p] = "apply" => cmd[p] = "apply" /\ seen'[p].own = seen[p].own
                   /\ at'[p] \in Making => op'[p] = seen'[p].own
<1>0. Kept => Owners'
  BY DEF Owners, Elsewhere
<1> USE DEF RInv, Placed, Goto, local
<1>1. CASE \E c \in Command : Begin(p, c)
  <2>1. at'[p] = "hook" /\ cmd'[p] # "apply"
    BY <1>1, CommandsKnown DEF Begin
  <2> QED BY <1>0, <2>1 DEF Making
<1>2. CASE HookDone(p)
  <2>1. /\ cmd[p] \in {"populate", "apply", "reset", "update"} /\ cmd' = cmd /\ seen' = seen
        /\ at'[p] = Entry[cmd[p]]
    BY <1>2 DEF HookDone, Mine, MineAt
  <2> QED BY <1>0, <2>1 DEF Making, Entry
<1>3. ASSUME NEW o \in Population, PopRead(p, o) PROVE Owners'
  <2>1. /\ seen'[p].own = o /\ at'[p] = "hook"
        /\ \A q \in Proc \ {p} : seen'[q] = seen[q] /\ seen[q].own # o
    BY <1>3 DEF PopRead
  <2> QED BY <2>1 DEF Owners, Elsewhere, Making
<1>4. CASE PopBegin(p)
  BY <1>0, <1>4 DEF PopBegin, Making
<1>5. CASE PopStage(p) \/ PopCommit(p) \/ PopMark(p) \/ PopPublishTickets(p)
           \/ PopPublishDelivery(p) \/ PopFinish(p) \/ PopClose(p)
  <2>1. at[p] \in Making /\ cmd' = cmd /\ seen' = seen /\ op' = op
    BY <1>5 DEF PopStage, PopCommit, PopMark, PopPublishTickets, PopPublishDelivery, PopFinish,
      PopClose, Making
  <2> QED BY <1>0, <2>1 DEF Owners
<1>6. CASE Leave(p) \/ Crash(p)
  <2>1. cmd'[p] # "apply" /\ at'[p] = "idle"
    BY <1>6 DEF Leave, Crash, None
  <2> QED BY <1>0, <2>1 DEF Making
<1>7. ASSUME NEW o, RecoverPopulation(p, o) \/ RecoverReset(p, o) \/ ResetCommand(p, o) PROVE Kept
  BY <1>7 DEF RecoverPopulation, RecoverReset, ResetCommand, ResetBegin, Making
<1>8. CASE RemoveStage(p) \/ RollBack(p) \/ Republish(p) \/ RepublishDelivery(p) \/ Conclude(p)
           \/ PopRelease(p) \/ Release(p) \/ \E t \in Ticket : Update(p, t)
  BY <1>0, <1>8 DEF RemoveStage, RollBack, Republish, RepublishDelivery, Conclude, PopRelease,
    Release, Update, Making
<1>9. CASE ResetCommit(p) \/ ResetStage(p) \/ ResetPublish(p) \/ ResetClose(p, "release")
           \/ ResetFails(p, "release")
  BY <1>0, <1>9 DEF ResetCommit, ResetStage, ResetPublish, ResetClose, ResetFails, Making
<1> QED BY <1>0, <1>1, <1>2, <1>3, <1>4, <1>5, <1>6, <1>7, <1>8, <1>9 DEF TrackerStep,
  PopulationStep

(* Every step of the tracker keeps what is said of receipts.               *)
LEMMA ReceiptedKept ==
  ASSUME RInv, Owners, Receipted, NEW p \in Proc, TrackerStep(p), Elsewhere(p)
  PROVE  Receipted'
<1> DEFINE Backed(x)  == at'[x] \in {"republish", "republish-delivery", "pop-mark", "pop-tickets",
                                    "pop-delivery"} => op'[x] \in receipts'
           Kept == /\ receipts \subseteq receipts'
                   /\ definitions' \subseteq receipts' /\ delivery' \subseteq receipts'
                   /\ \A o \in Population : stage'[o] = stage[o]
                   /\ \A o \in Population : pub'[o] \in {"tracker_committed", "published"}
                                            => pub'[o] = pub[o] \/ o \in receipts'
                   /\ seen'[p].tickets \subseteq receipts' \cup {seen'[p].own}
                   /\ Backed(p)
<1>0. Kept => Receipted'
  BY DEF Receipted, Elsewhere
<1> USE DEF RInv, Rowed, Placed, Goto, Mark, Close, tracker, files, local, Op
<1>1. CASE \E c \in Command : Begin(p, c)
  <2>1. Kept
    BY <1>1 DEF Begin, Receipted
  <2> QED BY <1>0, <2>1
<1>2. CASE HookDone(p)
  <2>1. cmd[p] \in {"populate", "apply", "reset", "update"} /\ at'[p] = Entry[cmd[p]]
    BY <1>2 DEF HookDone, Mine, MineAt
  <2>2. Kept
    BY <1>2, <2>1 DEF HookDone, Entry, Receipted
  <2> QED BY <1>0, <2>2
<1>3. ASSUME NEW o \in Population, RecoverPopulation(p, o) PROVE Receipted'
  <2>1. Kept
    BY <1>3 DEF RecoverPopulation, Receipted
  <2> QED BY <1>0, <2>1
<1>4. ASSUME NEW o \in Population, PopRead(p, o) PROVE Receipted'
  <2>1. /\ seen'[p].own = o /\ seen'[p].tickets = definitions \cup {o} /\ at'[p] = "hook"
        /\ UNCHANGED <<tracker, files, pub>>
    BY <1>4 DEF PopRead
  <2>2. Kept
    BY <2>1 DEF Receipted
  <2> QED BY <1>0, <2>2
<1>5. CASE RemoveStage(p) \/ PopClose(p)
  <2>1. /\ UNCHANGED <<receipts, definitions, delivery, pub, seen, op>>
        /\ stage' = [stage EXCEPT ![op[p]] = {}] /\ at'[p] \in {"undo-row", "pop-release"}
    BY <1>5 DEF RemoveStage, PopClose
  <2> QED BY <2>1 DEF Receipted, Elsewhere
<1>6. CASE Conclude(p)
  <2>1. /\ UNCHANGED <<receipts, definitions, delivery, seen, op>>
        /\ stage' \in {stage, [stage EXCEPT ![op[p]] = {}]} /\ at'[p] \in {"hook", "refused"}
        /\ pub' \in {pub, [pub EXCEPT ![op[p]] = "committed"]}
    BY <1>6 DEF Conclude
  <2> QED BY <2>1 DEF Receipted, Elsewhere
<1>7. CASE RollBack(p) \/ PopRelease(p) \/ Release(p) \/ (\E t \in Ticket : Update(p, t))
  <2>1. Kept
    BY <1>7 DEF RollBack, PopRelease, Release, Update, Receipted
  <2> QED BY <1>0, <2>1
<1>8. CASE Republish(p) \/ RepublishDelivery(p) \/ PopPublishTickets(p) \/ PopPublishDelivery(p)
  <2>1. op[p] \in receipts /\ op[p] \in Population
    BY <1>8 DEF Republish, RepublishDelivery, PopPublishTickets, PopPublishDelivery, Receipted,
      Mine, MineAt, Undoing, Making
  <2>2. stage[op[p]] \subseteq receipts
    BY <2>1 DEF Receipted
  <2>3. Kept
    BY <1>8, <2>1, <2>2 DEF Republish, RepublishDelivery, PopPublishTickets, PopPublishDelivery,
      Receipted
  <2> QED BY <1>0, <2>3
<1>9. CASE PopBegin(p)
  <2>1. Kept
    BY <1>9 DEF PopBegin, Receipted
  <2> QED BY <1>0, <2>1
<1>10. CASE PopStage(p)
  <2>1. /\ UNCHANGED <<receipts, definitions, delivery, seen, op>> /\ at'[p] = "pop-commit"
        /\ stage' = [stage EXCEPT ![op[p]] = seen[p].tickets]
        /\ pub' = [pub EXCEPT ![op[p]] = "staged"] /\ op[p] = seen[p].own
    BY <1>10 DEF PopStage, Owners, Making
  <2> QED BY <2>1 DEF Receipted, Elsewhere
<1>11. CASE PopCommit(p) \/ PopMark(p) \/ PopFinish(p)
  <2>1. Kept
    BY <1>11 DEF PopCommit, PopMark, PopFinish, Receipted
  <2> QED BY <1>0, <2>1
<1>12. ASSUME NEW o \in Reset, RecoverReset(p, o) \/ ResetCommand(p, o) PROVE Receipted'
  <2>1. /\ UNCHANGED <<receipts, files>> /\ (\A x \in Population : pub'[x] = pub[x])
        /\ seen'[p].tickets = seen[p].tickets /\ seen'[p].own = seen[p].own
        /\ at'[p] \in {"hook", "refused", "leave", "reset-commit"}
    BY <1>12, KindsApart DEF RecoverReset, ResetCommand, ResetBegin
  <2>2. Kept
    BY <2>1 DEF Receipted
  <2> QED BY <1>0, <2>2
<1>13. CASE ResetCommit(p) \/ ResetStage(p) \/ ResetPublish(p) \/ ResetClose(p, "release")
            \/ ResetFails(p, "release")
  <2>1. op[p] \in Reset
    BY <1>13 DEF ResetCommit, ResetStage, ResetPublish, ResetClose, ResetFails, Mine, MineAt,
      Resetting
  <2>2. Kept
    BY <1>13, <2>1, KindsApart DEF ResetCommit, ResetStage, ResetPublish, ResetClose, ResetFails,
      Receipted
  <2> QED BY <1>0, <2>2
<1>14. CASE Leave(p) \/ Crash(p)
  <2>1. Kept
    BY <1>14 DEF Leave, Crash, Nothing, Receipted
  <2> QED BY <1>0, <2>1
<1> QED BY <1>1, <1>2, <1>3, <1>4, <1>5, <1>6, <1>7, <1>8, <1>9, <1>10, <1>11, <1>12, <1>13, <1>14
  DEF TrackerStep, PopulationStep

-----------------------------------------------------------------------------
(* Populations, until two commands are at them at once.                     *)

(* What the stores say of one population, wherever its process died.       *)
RowAt(o) ==
  /\ pub[o] \in {None, "prepared", "staged", "tracker_committed", "published", "committed",
     "rolled_back"}
  /\ o \in receipts => pub[o] \in {"staged", "tracker_committed", "published", "committed"}
  /\ pub[o] \in {"tracker_committed", "published", "committed"} => o \in receipts
  /\ o \in snapshots => pub[o] \in {"published", "committed"}
  /\ pub[o] = "committed" => o \in snapshots
  /\ o \in receipts /\ pub[o] # "committed" => stage[o] = receipts
  /\ pub[o] # None => run[o] # None
OneUnfinished == \A o, n \in Unfinished : o = n
Rows == (\A o \in Population : RowAt(o)) /\ OneUnfinished

(* What a process relies on that recovers a population, proposes or makes  *)
(* one.                                                                    *)
Recovering(p) ==
  /\ at[p] \in {"undo", "undo-row"} =>
       op[p] \notin receipts /\ pub[op[p]] \in {"prepared", "staged", "rolled_back"}
  /\ at[p] \in {"republish", "republish-delivery"} =>
       op[p] \in receipts /\ (pub[op[p]] = "committed" => stage[op[p]] = {})
  /\ at[p] = "conclude" => pub[op[p]] \in {"published", "committed"}
Proposing(p) ==
  cmd[p] = "apply" /\ at[p] \in {"hook", "pop-begin"} \cup Undoing => run[seen[p].own] = None
Applying(p) ==
  /\ at[p] = "pop-stage" => pub[op[p]] = "prepared" /\ op[p] \notin receipts
  /\ at[p] = "pop-commit" => pub[op[p]] = "staged" /\ op[p] \notin receipts
     /\ stage[op[p]] = receipts \cup {op[p]}
  /\ at[p] = "pop-mark" => pub[op[p]] = "staged" /\ op[p] \in receipts
  /\ at[p] \in {"pop-tickets", "pop-delivery"} => pub[op[p]] = "tracker_committed"
  /\ at[p] = "pop-finish" => pub[op[p]] = "published"
  /\ at[p] = "pop-close" => pub[op[p]] = "committed"
PlaceAt(p) == Recovering(p) /\ Proposing(p) /\ Applying(p)

(* The invariant of populations, without the files.                        *)
PInv == Rows /\ \A p \in Proc : PlaceAt(p)

(* Both files hold what was made, or that and the one the tracker has too. *)
Files ==
  /\ definitions \in {Made, receipts} /\ delivery \in {Made, receipts}
  /\ \A o \in Population : pub[o] = "published" => definitions = receipts /\ delivery = receipts
  /\ \A p \in Proc : \/ at[p] = "pop-delivery"
                     \/ at[p] = "republish-delivery" /\ stage[op[p]] # {}
                     => definitions = receipts

(* What is left to recover.                                                *)
LEMMA UnfinishedRows ==
  ASSUME Rowed
  PROVE  Unfinished = Population \cap Incomplete
BY KindsApart DEF Unfinished, Incomplete, Rowed, Op

(* There is one, and nobody is at one another process is at but where both *)
(* recover it.                                                             *)
LEMMA OneLeft ==
  ASSUME Rowed', ~Overlap'
  PROVE  OneUnfinished'
BY KindsApart DEF OneUnfinished, Unfinished, Overlap, Incomplete, Rowed, Op

LEMMA Apart ==
  ASSUME RInv, Owners, ~Overlap, NEW p \in Proc, NEW q \in Proc \ {p},
         at[p] \in Undoing \cup Making, at[q] \in Undoing \cup Making,
         at[p] \in Making \/ at[q] \in Making
  PROVE  op[p] # op[q]
<1>1. at[p] \in Making => op[p] = seen[p].own /\ cmd[p] = "apply"
  BY DEF Owners, RInv, Mine, MineAt
<1>2. at[q] \in Making => op[q] = seen[q].own /\ cmd[q] = "apply"
  BY DEF Owners, RInv, Mine, MineAt
<1> QED BY <1>1, <1>2 DEF Owners, Overlap

(* What was made has receipts, and but for the one unfinished population   *)
(* nothing else has.                                                       *)
LEMMA MadeReceipts ==
  ASSUME Rowed, Rows
  PROVE  /\ Made \subseteq receipts
         /\ Unfinished = {} => Made = receipts
         /\ \A o \in Unfinished : receipts \subseteq Made \cup {o}
<1>1. Made \subseteq receipts
  BY DEF Rows, RowAt, Made
<1>2. \A x \in receipts : x \in Made \/ x \in Unfinished
  BY DEF Rowed, Rows, RowAt, Made, Unfinished, None
<1> QED BY <1>1, <1>2 DEF Rows, OneUnfinished

(* A step that leaves populations alone,                                   *)
Still == /\ UNCHANGED <<receipts, snapshots, stage>>
         /\ \A o \in Population : pub'[o] = pub[o] /\ run'[o] = run[o]

(* keeps their rows,                                                       *)
LEMMA StillRows ==
  ASSUME Rows, Still
  PROVE  Rows' /\ Unfinished' = Unfinished /\ Made' = Made
<1>1. Unfinished' = Unfinished /\ Made' = Made
  BY DEF Still, Unfinished, Made
<1>2. \A o \in Population : RowAt(o)'
  BY DEF Rows, RowAt, Still
<1> QED BY <1>1, <1>2 DEF Rows, OneUnfinished

(* and, but for its own process, what anybody relies on.                   *)
LEMMA StillPopulations ==
  ASSUME RInv, PInv, Still, NEW p \in Proc, Elsewhere(p), PlaceAt(p)'
  PROVE  PInv'
<1>1. ASSUME NEW q \in Proc \ {p} PROVE PlaceAt(q)'
  <2>1. at'[q] = at[q] /\ cmd'[q] = cmd[q] /\ op'[q] = op[q] /\ seen'[q] = seen[q] /\ PlaceAt(q)
    BY DEF Elsewhere, PInv
  <2>2. /\ at[q] \in Undoing \cup Making => pub'[op[q]] = pub[op[q]]
        /\ cmd[q] = "apply" => run'[seen[q].own] = run[seen[q].own]
        /\ receipts' = receipts /\ stage' = stage
    BY DEF Still, RInv, Mine, MineAt
  <2> QED BY <2>1, <2>2 DEF PlaceAt, Recovering, Proposing, Applying, Undoing, Making
<1> QED BY <1>1, StillRows DEF PInv

(* Outside of those places there is nothing to rely on.                    *)
LEMMA NoPlace ==
  ASSUME NEW p \in Proc, at'[p] \notin Undoing \cup Making \cup {"hook", "pop-begin"}
  PROVE  PlaceAt(p)'
BY DEF PlaceAt, Recovering, Proposing, Applying, Undoing, Making

(* The steps that write nothing of a population.                           *)
Calmly(p) ==
  \/ \E c \in Command : Begin(p, c)
  \/ HookDone(p) \/ (\E o \in Population : RecoverPopulation(p, o) \/ PopRead(p, o))
  \/ PopPublishTickets(p) \/ PopRelease(p)
  \/ \E o \in Reset : RecoverReset(p, o) \/ ResetCommand(p, o)
  \/ ResetCommit(p) \/ ResetStage(p) \/ ResetPublish(p) \/ ResetClose(p, "release")
     \/ ResetFails(p, "release")
  \/ Release(p) \/ (\E t \in Ticket : Update(p, t)) \/ Leave(p) \/ Crash(p)

(* They come to a place only where it may be relied on.                    *)
LEMMA CalmSteps ==
  ASSUME RInv, PInv, NEW p \in Proc, Elsewhere(p), Calmly(p)
  PROVE  PInv' /\ Still
<1> DEFINE Framed == Still /\ PlaceAt(p)'
<1> SUFFICES Framed
  BY StillPopulations
<1>0. PlaceAt(p) /\ MineAt(p) /\ Unfinished = Population \cap Incomplete
  BY UnfinishedRows DEF RInv, PInv, Mine
<1> USE DEF RInv, Rowed, Placed, Still, Undoing, Making, Goto, Mark, Close, tracker, files,
  local
<1>1. CASE \E c \in Command : Begin(p, c)
  <2>1. at'[p] = "hook" /\ cmd'[p] # "apply" /\ Still
    BY <1>1, CommandsKnown DEF Begin
  <2> QED BY <2>1 DEF PlaceAt, Recovering, Proposing, Applying
<1>2. CASE HookDone(p)
  <2>1. /\ at'[p] = Entry[cmd[p]] /\ cmd' = cmd /\ seen' = seen /\ run' = run /\ Still
        /\ cmd[p] \in {"populate", "apply", "reset", "update"} /\ at[p] = "hook"
    BY <1>2 DEF HookDone, Mine, MineAt
  <2>2. at'[p] \in {"pop-read", "pop-begin", "reset-begin", "update"}
    BY <2>1 DEF Entry
  <2> QED BY <1>0, <2>1, <2>2 DEF PlaceAt, Recovering, Proposing, Applying
<1>3. ASSUME NEW o \in Population, RecoverPopulation(p, o) PROVE Framed
  <2>1. /\ o \in Unfinished /\ cmd' = cmd /\ op'[p] = o /\ seen' = seen /\ run' = run /\ Still
        /\ pub' = pub /\ at[p] = "hook"
    BY <1>0, <1>3 DEF RecoverPopulation
  <2>2. pub[o] \notin {None, "committed", "rolled_back"} /\ RowAt(o)
    BY <2>1 DEF Unfinished, PInv, Rows
  <2>3. at'[p] = IF pub[o] \notin {"tracker_committed", "published"}
                    /\ o \notin receipts THEN "undo"
                 ELSE IF pub[o] = "published" THEN "conclude" ELSE "republish"
    BY <1>3 DEF RecoverPopulation
  <2>4. /\ at'[p] = "undo" => o \notin receipts /\ pub[o] \in {"prepared", "staged"}
        /\ at'[p] = "conclude" => pub[o] = "published"
        /\ at'[p] = "republish" => o \in receipts
        /\ at'[p] \in {"undo", "conclude", "republish"}
    BY <2>2, <2>3 DEF RowAt
  <2>5. Proposing(p)'
    BY <1>0, <2>1 DEF PlaceAt, Proposing
  <2> QED BY <2>1, <2>2, <2>4, <2>5 DEF PlaceAt, Recovering, Applying
<1>4. ASSUME NEW o \in Population, PopRead(p, o) PROVE Framed
  <2>1. Still /\ at'[p] = "hook" /\ seen'[p].own = o /\ run'[o] = None
    BY <1>4 DEF PopRead
  <2> QED BY <2>1 DEF PlaceAt, Recovering, Proposing, Applying
<1>5. CASE PopPublishTickets(p)
  <2>1. Still /\ at[p] = "pop-tickets" /\ at'[p] \in {"pop-release", "pop-delivery"} /\ op' = op
        /\ pub' = pub
    BY <1>5 DEF PopPublishTickets
  <2> QED BY <1>0, <2>1 DEF PlaceAt, Recovering, Proposing, Applying
<1>6. CASE PopRelease(p) \/ Release(p) \/ (\E t \in Ticket : Update(p, t)) \/ Leave(p) \/ Crash(p)
  <2>1. Still /\ at'[p] \notin Undoing \cup Making \cup {"hook", "pop-begin"}
    BY <1>6 DEF PopRelease, Release, Update, Leave, Crash
  <2> QED BY <2>1, NoPlace
<1>7. ASSUME NEW o \in Reset, RecoverReset(p, o) PROVE Framed
  <2>1. Still /\ cmd[p] # "apply" /\ cmd' = cmd /\ at'[p] \in {"hook", "refused"}
    BY <1>7, KindsApart DEF RecoverReset, Op
  <2> QED BY <2>1 DEF PlaceAt, Recovering, Proposing, Applying
<1>8. ASSUME NEW o \in Reset, ResetCommand(p, o) PROVE Framed
  <2>1. Still /\ at'[p] \in {"leave", "reset-commit"}
    BY <1>8, KindsApart DEF ResetCommand, ResetBegin, Op
  <2> QED BY <2>1, NoPlace
<1>9. CASE ResetCommit(p) \/ ResetStage(p) \/ ResetPublish(p) \/ ResetClose(p, "release")
           \/ ResetFails(p, "release")
  <2>1. op[p] \in Reset
    BY <1>0, <1>9 DEF ResetCommit, ResetStage, ResetPublish, ResetClose, ResetFails, MineAt,
      Resetting
  <2>2. Still /\ at'[p] \in Resetting \cup {"release"}
    BY <1>9, <2>1, KindsApart DEF ResetCommit, ResetStage, ResetPublish, ResetClose, ResetFails,
      Resetting, Op
  <2> QED BY <2>2, NoPlace DEF Resetting
<1> QED BY <1>1, <1>2, <1>3, <1>4, <1>5, <1>6, <1>7, <1>8, <1>9 DEF Calmly

(* A step about population o alone.                                        *)
Only(o) ==
  /\ \A x \in Population \ {o} : /\ pub'[x] = pub[x] /\ run'[x] = run[x] /\ stage'[x] = stage[x]
                                 /\ x \in snapshots' <=> x \in snapshots
  /\ receipts' = receipts \/ (receipts' = receipts \cup {o} /\ Unfinished \subseteq {o})

(* It needs to be looked at for o alone,                                   *)
LEMMA OneRow ==
  ASSUME Rowed, Rows, NEW o \in Population, Only(o), RowAt(o)', OneUnfinished'
  PROVE  Rows'
<1>1. ASSUME NEW x \in Population \ {o} PROVE RowAt(x)'
  <2>1. /\ RowAt(x) /\ pub'[x] = pub[x] /\ run'[x] = run[x] /\ stage'[x] = stage[x]
        /\ x \in snapshots' <=> x \in snapshots
        /\ x \in receipts' <=> x \in receipts
    BY DEF Only, Rows
  <2>2. x \in receipts /\ pub[x] # "committed" => receipts' = receipts
    BY <2>1 DEF RowAt, Unfinished, Only, None
  <2> QED BY <2>1, <2>2 DEF RowAt
<1> QED BY <1>1 DEF Rows

(* and for those who are at it.                                            *)
LEMMA OtherPlaces ==
  ASSUME RInv, PInv, NEW p \in Proc, Elsewhere(p), NEW o \in Population, Only(o),
         NEW q \in Proc \ {p}, at[q] \in Undoing \cup Making => op[q] # o,
         cmd[q] = "apply" /\ at[q] \in {"hook", "pop-begin"} \cup Undoing => seen[q].own # o
  PROVE  PlaceAt(q)'
<1>1. /\ at'[q] = at[q] /\ cmd'[q] = cmd[q] /\ op'[q] = op[q] /\ seen'[q] = seen[q]
      /\ PlaceAt(q) /\ MineAt(q)
  BY DEF Elsewhere, PInv, RInv, Mine
<1>2. Proposing(q)'
  BY <1>1 DEF PlaceAt, Proposing, MineAt, Only
<1>3. CASE at[q] \notin Undoing \cup Making
  BY <1>1, <1>2, <1>3 DEF PlaceAt, Recovering, Applying, Undoing, Making
<1>4. CASE at[q] \in Undoing \cup Making
  <2>1. op[q] \in Population \ {o}
    BY <1>1, <1>4 DEF MineAt
  <2>2. /\ pub'[op[q]] = pub[op[q]] /\ stage'[op[q]] = stage[op[q]]
        /\ op[q] \in receipts' <=> op[q] \in receipts
    BY <2>1 DEF Only
  <2>3. at[q] = "pop-commit" => receipts' = receipts
    BY <1>1, <2>1 DEF PlaceAt, Applying, Only, Unfinished, None
  <2> QED BY <1>1, <1>2, <2>2, <2>3 DEF PlaceAt, Recovering, Applying
<1> QED BY <1>3, <1>4

(* Who recovers a population does not propose it.                          *)
LEMMA NotProposed ==
  ASSUME RInv, PInv, NEW p \in Proc, at[p] \in Undoing, NEW q \in Proc,
         cmd[q] = "apply", at[q] \in {"hook", "pop-begin"} \cup Undoing
  PROVE  seen[q].own # op[p]
<1>1. op[p] \in Population /\ RowAt(op[p]) /\ Recovering(p) /\ Proposing(q)
  BY DEF RInv, Mine, MineAt, PInv, Rows, PlaceAt
<1> QED BY <1>1 DEF RowAt, Recovering, Proposing, Undoing, None

(* Recovery of a population, maybe by several commands at once: its staged *)
(* files go, then the row.                                                 *)
LEMMA UndoStep ==
  ASSUME RInv, PInv, Owners, ~Overlap, OneUnfinished', NEW p \in Proc, Elsewhere(p),
         RemoveStage(p) \/ RollBack(p)
  PROVE  PInv' /\ (Files => Files')
<1> PICK o : o = op[p]
  OBVIOUS
<1>1. /\ o \in Population /\ o \notin receipts /\ pub[o] \in {"prepared", "staged", "rolled_back"}
      /\ RowAt(o) /\ at[p] \in {"undo", "undo-row"} /\ at[p] \in Undoing
  BY DEF RemoveStage, RollBack, RInv, Mine, MineAt, Undoing, PInv, PlaceAt, Recovering, Rows
<1>2. /\ UNCHANGED <<receipts, snapshots, definitions, delivery, cmd, seen, op>>
      /\ stage' \in {stage, [stage EXCEPT ![o] = {}]}
      /\ \/ pub' = pub /\ run' = run /\ at'[p] \in {"refused", "undo-row"}
         \/ pub' = [pub EXCEPT ![o] = "rolled_back"] /\ run' = [run EXCEPT ![o] = "failed"]
            /\ at'[p] = "hook"
      /\ \A q \in Proc \ {p} : at'[q] = at[q]
  BY DEF RemoveStage, RollBack, Mark, Close, Goto, tracker, files, RInv, Placed
<1>3. /\ pub'[o] \in {pub[o], "rolled_back"} /\ run'[o] # None /\ stage'[o] \in {stage[o], {}}
      /\ \A x \in Population \ {o} : pub'[x] = pub[x] /\ run'[x] = run[x] /\ stage'[x] = stage[x]
  BY <1>1, <1>2 DEF RInv, Rowed, Op, RowAt, None
<1>4. Made' = Made /\ Only(o)
  BY <1>1, <1>2, <1>3 DEF Made, Only
<1>5. Rows'
  <2>1. RowAt(o)'
    BY <1>1, <1>2, <1>3 DEF RowAt, None
  <2> QED BY <1>1, <1>4, <2>1, OneRow DEF RInv, PInv
<1>6. PlaceAt(p)'
  <2>1. cmd[p] = "apply" => seen[p].own # o /\ seen[p].own \in Population /\ run[seen[p].own] = None
    BY <1>1, NotProposed DEF RInv, Mine, MineAt, PInv, PlaceAt, Proposing
  <2>2. Proposing(p)'
    BY <1>2, <1>3, <2>1 DEF Proposing
  <2>3. at'[p] = "undo-row" => Recovering(p)'
    BY <1>1, <1>2, <1>3 DEF Recovering
  <2> QED BY <1>2, <2>2, <2>3 DEF PlaceAt, Recovering, Applying
<1>7. ASSUME NEW q \in Proc \ {p} PROVE PlaceAt(q)'
  <2>1. cmd[q] = "apply" /\ at[q] \in {"hook", "pop-begin"} \cup Undoing => seen[q].own # o
    BY <1>1, NotProposed
  <2>2. CASE op[q] # o \/ at[q] \notin Undoing \cup Making
    BY <1>1, <1>4, <2>1, <2>2, OtherPlaces
  <2>3. CASE op[q] = o /\ at[q] \in Undoing \cup Making
    <3>1. at[q] \notin Making
      BY <1>1, <2>3, Apart
    <3>2. PlaceAt(q) /\ MineAt(q) /\ at'[q] = at[q] /\ cmd'[q] = cmd[q] /\ op'[q] = op[q] /\ seen'[q] = seen[q]
      BY DEF Elsewhere, PInv, RInv, Mine
    <3>3. at[q] \in {"undo", "undo-row"}
      BY <1>1, <2>3, <3>1, <3>2 DEF PlaceAt, Recovering, Undoing
    <3>4. Recovering(q)'
      BY <1>1, <1>2, <1>3, <2>3, <3>2, <3>3 DEF Recovering
    <3>5. Proposing(q)'
      BY <1>3, <2>1, <3>2, <3>3 DEF PlaceAt, Proposing, MineAt
    <3> QED BY <3>2, <3>3, <3>4, <3>5 DEF PlaceAt, Applying
  <2> QED BY <2>2, <2>3
<1>8. ASSUME Files PROVE Files'
  <2>1. \A x \in Population : pub'[x] = "published" => pub[x] = "published"
    BY <1>1, <1>3
  <2>2. ASSUME NEW q \in Proc, at'[q] = "pop-delivery" \/ (at'[q] = "republish-delivery" /\ stage'[op'[q]] # {})
        PROVE  definitions = receipts
    <3>1. q # p /\ at'[q] = at[q] /\ op'[q] = op[q] /\ MineAt(q)
      BY <1>2, <2>2 DEF RInv, Mine
    <3>2. at[q] = "republish-delivery" => op[q] \in Population
      BY <3>1 DEF MineAt, Undoing
    <3>3. at[q] = "republish-delivery" => stage[op[q]] # {}
      BY <1>3, <2>2, <3>1, <3>2
    <3> QED BY <1>8, <2>2, <3>1, <3>3 DEF Files
  <2> QED BY <1>2, <1>4, <1>8, <2>1, <2>2 DEF Files
<1> QED BY <1>5, <1>6, <1>7, <1>8 DEF PInv

(* It is in the tracker: the files are written from the staged copy.       *)
LEMMA RepublishStep ==
  ASSUME RInv, PInv, Owners, ~Overlap, OneUnfinished', NEW p \in Proc, Elsewhere(p),
         Republish(p) \/ RepublishDelivery(p)
  PROVE  PInv' /\ (Files => Files')
<1> PICK o : o = op[p]
  OBVIOUS
<1>1. /\ o \in Population /\ o \in receipts /\ (pub[o] = "committed" => stage[o] = {}) /\ RowAt(o)
      /\ at[p] \in {"republish", "republish-delivery"} /\ at[p] \in Undoing
  BY DEF Republish, RepublishDelivery, RInv, Mine, MineAt, Undoing, PInv, PlaceAt, Recovering, Rows
<1>2. /\ UNCHANGED <<receipts, snapshots, stage, run, cmd, seen, op>>
      /\ at'[p] \in {"refused", "republish-delivery", "conclude"}
      /\ \A q \in Proc \ {p} : at'[q] = at[q]
  BY DEF Republish, RepublishDelivery, Mark, Goto, tracker, RInv, Placed
<1>3. CASE stage[o] = {}
  <2>1. Still /\ at'[p] = "refused" /\ definitions' = definitions /\ delivery' = delivery
    BY <1>2, <1>3 DEF Republish, RepublishDelivery, Still, Goto, RInv, Placed
  <2>2. PlaceAt(p)'
    BY <2>1, NoPlace DEF Undoing, Making
  <2>3. PInv' /\ Made' = Made
    BY <2>1, <2>2, StillPopulations, StillRows DEF PInv
  <2> QED BY <1>2, <2>1, <2>3 DEF Files, Still
<1>4. CASE stage[o] # {}
  <2>1. stage[o] = receipts /\ pub[o] \in {"staged", "tracker_committed", "published"}
    BY <1>1, <1>4 DEF RowAt
  <2>2. /\ definitions' = receipts /\ delivery' = delivery /\ pub' = pub /\ at'[p] = "republish-delivery"
        \/ /\ definitions' = definitions /\ delivery' = receipts /\ at[p] = "republish-delivery"
           /\ \/ pub' = pub /\ at'[p] = "refused"
              \/ pub' = [pub EXCEPT ![o] = "published"] /\ at'[p] = "conclude"
    BY <1>1, <1>4, <2>1 DEF Republish, RepublishDelivery, Mark, Goto, RInv, Placed
  <2>3. /\ pub'[o] \in {pub[o], "published"} /\ (at'[p] = "conclude" => pub'[o] = "published")
        /\ \A x \in Population \ {o} : pub'[x] = pub[x]
    BY <1>1, <2>2 DEF RInv, Rowed, Op
  <2>4. Made' = Made /\ Only(o)
    BY <1>1, <1>2, <2>1, <2>3 DEF Made, Only
  <2>5. Rows'
    <3>1. RowAt(o)'
      BY <1>1, <1>2, <2>1, <2>3 DEF RowAt, None
    <3> QED BY <1>1, <2>4, <3>1, OneRow DEF RInv, PInv
  <2>6. PlaceAt(p)'
    <3>1. Proposing(p)'
      BY <1>1, <1>2 DEF PInv, PlaceAt, Proposing
    <3>2. Recovering(p)'
      BY <1>1, <1>2, <2>1, <2>3 DEF Recovering
    <3> QED BY <1>2, <3>1, <3>2 DEF PlaceAt, Applying
  <2>7. ASSUME NEW q \in Proc \ {p} PROVE PlaceAt(q)'
    <3>1. cmd[q] = "apply" /\ at[q] \in {"hook", "pop-begin"} \cup Undoing => seen[q].own # o
      BY <1>1, NotProposed
    <3>2. CASE op[q] # o \/ at[q] \notin Undoing \cup Making
      BY <1>1, <2>4, <3>1, <3>2, OtherPlaces
    <3>3. CASE op[q] = o /\ at[q] \in Undoing \cup Making
      <4>1. at[q] \notin Making
        BY <1>1, <3>3, Apart
      <4>2. PlaceAt(q) /\ at'[q] = at[q] /\ cmd'[q] = cmd[q] /\ op'[q] = op[q] /\ seen'[q] = seen[q]
        BY DEF Elsewhere, PInv
      <4>3. at[q] \in {"republish", "republish-delivery", "conclude"}
        BY <1>1, <3>3, <4>1, <4>2 DEF PlaceAt, Recovering, Undoing
      <4>4. Recovering(q)'
        BY <1>1, <1>2, <2>1, <2>3, <3>3, <4>2, <4>3 DEF PlaceAt, Recovering
      <4>5. Proposing(q)'
        BY <1>2, <4>2 DEF PlaceAt, Proposing
      <4> QED BY <4>2, <4>3, <4>4, <4>5 DEF PlaceAt, Applying
    <3> QED BY <3>2, <3>3
  <2>8. ASSUME Files PROVE Files'
    <3>1. definitions' \in {definitions, receipts} /\ delivery' \in {delivery, receipts}
      BY <2>2
    <3>2. at[p] = "republish-delivery" => definitions = receipts
      BY <1>1, <1>4, <2>8 DEF Files
    <3>3. ASSUME NEW x \in Population, pub'[x] = "published"
          PROVE  definitions' = receipts /\ delivery' = receipts
      BY <1>1, <2>2, <2>3, <2>8, <3>1, <3>2, <3>3 DEF Files
    <3>4. ASSUME NEW q \in Proc, at'[q] = "pop-delivery" \/ (at'[q] = "republish-delivery" /\ stage'[op'[q]] # {})
          PROVE  definitions' = receipts
      BY <1>2, <2>2, <2>8, <3>1, <3>2, <3>4 DEF Files
    <3> QED BY <1>2, <2>4, <2>8, <3>1, <3>3, <3>4 DEF Files
  <2> QED BY <2>5, <2>6, <2>7, <2>8 DEF PInv
<1> QED BY <1>3, <1>4

(* Its snapshot is written and it is made.                                 *)
LEMMA ConcludeStep ==
  ASSUME RInv, PInv, Owners, ~Overlap, OneUnfinished', NEW p \in Proc, Elsewhere(p), Conclude(p)
  PROVE  PInv' /\ (Files => Files')
<1> PICK o : o = op[p]
  OBVIOUS
<1>1. /\ o \in Population /\ pub[o] \in {"published", "committed"} /\ RowAt(o)
      /\ at[p] = "conclude" /\ at[p] \in Undoing
  BY DEF Conclude, RInv, Mine, MineAt, Undoing, PInv, PlaceAt, Recovering, Rows
<1>2. /\ receipts' = receipts /\ snapshots' = snapshots \cup {o} /\ definitions' = definitions
      /\ delivery' = delivery /\ cmd' = cmd /\ seen' = seen /\ op' = op
      /\ \/ pub' = pub /\ run' = run /\ stage' = stage /\ at'[p] = "refused"
         \/ /\ pub' = [pub EXCEPT ![o] = "committed"] /\ run' = [run EXCEPT ![o] = "completed"]
            /\ stage' = [stage EXCEPT ![o] = {}] /\ at'[p] = "hook"
      /\ \A q \in Proc \ {p} : at'[q] = at[q]
  BY DEF Conclude, Mark, Close, Goto, RInv, Placed
<1>3. /\ \/ pub'[o] = pub[o] /\ stage'[o] = stage[o]
         \/ pub'[o] = "committed" /\ stage'[o] = {}
      /\ run'[o] # None
      /\ \A x \in Population \ {o} : pub'[x] = pub[x] /\ run'[x] = run[x] /\ stage'[x] = stage[x]
  BY <1>1, <1>2 DEF RInv, Rowed, Op, RowAt, None
<1>4. Only(o)
  BY <1>2, <1>3 DEF Only
<1>5. Rows'
  <2>1. RowAt(o)'
    BY <1>1, <1>2, <1>3 DEF RowAt, None
  <2> QED BY <1>1, <1>4, <2>1, OneRow DEF RInv, PInv
<1>6. PlaceAt(p)'
  <2>1. cmd[p] = "apply" => seen[p].own # o /\ seen[p].own \in Population /\ run[seen[p].own] = None
    BY <1>1, NotProposed DEF RInv, Mine, MineAt, PInv, PlaceAt, Proposing
  <2>2. Proposing(p)'
    BY <1>2, <1>3, <2>1 DEF Proposing
  <2> QED BY <1>2, <2>2 DEF PlaceAt, Recovering, Applying
<1>7. ASSUME NEW q \in Proc \ {p} PROVE PlaceAt(q)'
  <2>1. cmd[q] = "apply" /\ at[q] \in {"hook", "pop-begin"} \cup Undoing => seen[q].own # o
    BY <1>1, NotProposed
  <2>2. CASE op[q] # o \/ at[q] \notin Undoing \cup Making
    BY <1>1, <1>4, <2>1, <2>2, OtherPlaces
  <2>3. CASE op[q] = o /\ at[q] \in Undoing \cup Making
    <3>1. at[q] \notin Making
      BY <1>1, <2>3, Apart
    <3>2. PlaceAt(q) /\ MineAt(q) /\ at'[q] = at[q] /\ cmd'[q] = cmd[q] /\ op'[q] = op[q] /\ seen'[q] = seen[q]
      BY DEF Elsewhere, PInv, RInv, Mine
    <3>3. at[q] \in {"republish", "republish-delivery", "conclude"}
      BY <1>1, <2>3, <3>1, <3>2 DEF PlaceAt, Recovering, Undoing
    <3>4. Recovering(q)'
      BY <1>1, <1>2, <1>3, <2>3, <3>2, <3>3 DEF PlaceAt, Recovering
    <3>5. Proposing(q)'
      BY <1>3, <2>1, <3>2, <3>3 DEF PlaceAt, Proposing, MineAt
    <3> QED BY <3>2, <3>3, <3>4, <3>5 DEF PlaceAt, Applying
  <2> QED BY <2>2, <2>3
<1>8. ASSUME Files PROVE Files'
  <2>1. Made' = Made \/ (o \in Unfinished /\ Made' = Made \cup {o} /\ pub[o] = "published")
    <3>1. CASE pub'[o] = pub[o]
      BY <1>1, <1>3, <3>1 DEF Made
    <3>2. CASE pub[o] = "published" /\ pub'[o] = "committed"
      <4>1. \A x \in Population : pub'[x] = "committed" <=> pub[x] = "committed" \/ x = o
        BY <1>3, <3>2
      <4> QED BY <1>1, <3>2, <4>1 DEF Made, Unfinished, None
    <3> QED BY <1>1, <1>3, <3>1, <3>2
  <2>2. definitions \in {Made', receipts} /\ delivery \in {Made', receipts}
    <3>1. CASE Made' = Made
      BY <1>8, <3>1 DEF Files
    <3>2. CASE o \in Unfinished /\ Made' = Made \cup {o} /\ pub[o] = "published"
      BY <1>1, <1>8, <3>2, MadeReceipts DEF RInv, PInv, RowAt, Files
    <3> QED BY <2>1, <3>1, <3>2
  <2>3. \A x \in Population : pub'[x] = "published" => pub[x] = "published"
    BY <1>1, <1>3
  <2>4. ASSUME NEW q \in Proc, at'[q] = "pop-delivery" \/ (at'[q] = "republish-delivery" /\ stage'[op'[q]] # {})
        PROVE  definitions = receipts
    <3>1. q # p /\ at'[q] = at[q] /\ op'[q] = op[q] /\ MineAt(q)
      BY <1>2, <2>4 DEF RInv, Mine
    <3>2. at[q] = "republish-delivery" => op[q] \in Population
      BY <3>1 DEF MineAt, Undoing
    <3>3. at[q] = "republish-delivery" => stage[op[q]] # {}
      BY <1>3, <2>4, <3>1, <3>2
    <3> QED BY <1>8, <2>4, <3>1, <3>3 DEF Files
  <2> QED BY <1>2, <1>8, <2>2, <2>3, <2>4 DEF Files
<1> QED BY <1>5, <1>6, <1>7, <1>8 DEF PInv

(* The steps of a population, which nobody else is at.                     *)
LEMMA OwnPlaces ==
  ASSUME RInv, PInv, Owners, ~Overlap, NEW p \in Proc, Elsewhere(p), cmd[p] = "apply",
         NEW o \in Population, o = seen[p].own, at[p] \in Making \/ (at[p] = "pop-begin" /\ pub[o] = None),
         Only(o), PlaceAt(p)', RowAt(o)', OneUnfinished'
  PROVE  PInv'
<1>1. at[p] \in Making => op[p] = o
  BY DEF Owners
<1>2. ASSUME NEW q \in Proc \ {p} PROVE PlaceAt(q)'
  <2>1. cmd[q] = "apply" => seen[q].own # o
    BY DEF Owners
  <2>2. at[q] \in Making => op[q] # o
    BY <2>1 DEF Owners, RInv, Mine, MineAt
  <2>3. at[q] \in Undoing => op[q] # o
    <3>1. CASE at[p] \in Making
      BY <1>1, <3>1, Apart
    <3>2. CASE at[p] = "pop-begin" /\ pub[o] = None
      <4>1. at[q] \in Undoing => op[q] \in Population /\ RowAt(op[q]) /\ Recovering(q)
        BY DEF RInv, Mine, MineAt, PInv, Rows, PlaceAt
      <4> QED BY <3>2, <4>1 DEF RowAt, Recovering, Undoing, None
    <3> QED BY <3>1, <3>2
  <2> QED BY <1>1, <2>1, <2>2, <2>3, OtherPlaces
<1>3. Rows'
  BY <1>1, OneRow DEF RInv, PInv
<1> QED BY <1>2, <1>3 DEF PInv

(* A population begins.                                                    *)
LEMMA PopBeginStep ==
  ASSUME RInv, PInv, Owners, ~Overlap, OneUnfinished', NEW p \in Proc, Elsewhere(p), PopBegin(p)
  PROVE  PInv' /\ (Files => Files')
<1> PICK o : o = seen[p].own
  OBVIOUS
<1>1. cmd[p] = "apply" /\ o \in Population /\ run[o] = None /\ RowAt(o) /\ at[p] = "pop-begin"
  BY DEF PopBegin, RInv, Mine, MineAt, PInv, PlaceAt, Proposing, Rows
<1>2. pub[o] = None /\ o \notin receipts /\ o \notin snapshots
  BY <1>1 DEF RowAt, None
<1>3. /\ UNCHANGED <<receipts, snapshots, definitions, delivery, stage, seen, cmd>>
      /\ run' = [run EXCEPT ![o] = "running"] /\ op'[p] = o
      /\ \/ pub' = [pub EXCEPT ![o] = "prepared"] /\ at'[p] = "pop-stage"
         \/ pub' = pub /\ at'[p] = "leave"
      /\ \A q \in Proc \ {p} : at'[q] = at[q] /\ op'[q] = op[q]
  BY DEF PopBegin, Mark, Close, Goto, tracker, files, RInv, Placed
<1>4. /\ run'[o] # None /\ pub'[o] \in {None, "prepared"}
         /\ (at'[p] = "pop-stage" => pub'[o] = "prepared")
      /\ \A x \in Population \ {o} : pub'[x] = pub[x] /\ run'[x] = run[x] /\ stage'[x] = stage[x]
  BY <1>1, <1>2, <1>3 DEF RInv, Rowed, Op, None
<1>5. RowAt(o)' /\ Only(o)
  BY <1>2, <1>3, <1>4 DEF RowAt, Only, None
<1>6. PlaceAt(p)'
  BY <1>1, <1>2, <1>3, <1>4 DEF PlaceAt, Recovering, Proposing, Applying, Undoing, Making
<1>7. Made' = Made
  BY <1>1, <1>2, <1>4 DEF Made, None
<1>8. PInv'
  BY <1>1, <1>2, <1>5, <1>6, OwnPlaces
<1>9. \A x \in Population : pub'[x] = "published" => pub[x] = "published"
  BY <1>1, <1>4 DEF None
<1> QED BY <1>3, <1>7, <1>8, <1>9 DEF Files

(* It goes on.                                                             *)
PopulationWrite(p) == PopStage(p) \/ PopCommit(p) \/ PopMark(p) \/ PopPublishDelivery(p)
  \/ PopFinish(p) \/ PopClose(p)

(* A population is proposed over what has a receipt.                       *)
LEMMA Proposal ==
  ASSUME RInv, PInv, Owners, Files, ~Overlap, NEW p \in Proc, at[p] = "pop-stage"
  PROVE  seen[p].tickets = receipts \cup {op[p]}
<1>1. op[p] \in Population /\ pub[op[p]] = "prepared" /\ op[p] \notin receipts
  BY DEF RInv, Mine, MineAt, Making, PInv, PlaceAt, Applying
<1>2. Made \subseteq receipts /\ receipts \subseteq Made \cup {op[p]}
  BY <1>1, MadeReceipts DEF RInv, PInv, Unfinished, None
<1>3. definitions = receipts
  BY <1>1, <1>2 DEF Files
<1> QED BY <1>3 DEF Overlap

(* Each of these moves its row one place on and nothing else.              *)
LEMMA PopulationWriteStep ==
  ASSUME RInv, PInv, Owners, Files, ~Overlap, OneUnfinished', NEW p \in Proc, Elsewhere(p),
         PopulationWrite(p)
  PROVE  PInv'
<1> PICK o : o = op[p]
  OBVIOUS
<1>1. /\ cmd[p] = "apply" /\ o \in Population /\ RowAt(o) /\ Applying(p) /\ op' = op /\ cmd' = cmd
      /\ at[p] \in Making /\ o = seen[p].own
  BY DEF PopulationWrite, PopStage, PopCommit, PopMark, PopPublishDelivery, PopFinish, PopClose,
    Making, RInv, Mine, MineAt, PInv, PlaceAt, Rows, Owners
<1> USE DEF RInv, Rowed, Placed, Goto, Mark, Close, tracker, files, Op
<1>2. \A x \in Population \ {o} : /\ pub'[x] = pub[x] /\ run'[x] = run[x] /\ stage'[x] = stage[x]
                                  /\ x \in snapshots' <=> x \in snapshots
  BY <1>1 DEF PopulationWrite, PopStage, PopCommit, PopMark, PopPublishDelivery, PopFinish,
    PopClose
<1> SUFFICES /\ RowAt(o)'
             /\ receipts' = receipts \/ (receipts' = receipts \cup {o} /\ Unfinished \subseteq {o})
             /\ PlaceAt(p)'
  BY <1>1, <1>2, OwnPlaces DEF Only
<1>3. pub[o] \notin {None, "committed", "rolled_back"} => Unfinished \subseteq {o}
  BY <1>1 DEF PInv, Rows, OneUnfinished, Unfinished
<1>4. CASE PopStage(p)
  <2>1. /\ receipts' = receipts /\ snapshots' = snapshots /\ run' = run /\ pub'[o] = "staged"
        /\ at'[p] = "pop-commit" /\ o \notin receipts /\ pub[o] = "prepared"
    BY <1>1, <1>4 DEF PopStage, Applying
  <2>2. stage'[o] = receipts \cup {o}
    BY <1>1, <1>4, Proposal DEF PopStage
  <2> QED BY <1>1, <1>3, <2>1, <2>2 DEF RowAt, PlaceAt, Recovering, Proposing, Applying, Undoing,
    Making, None
<1>5. CASE PopCommit(p)
  <2>1. /\ receipts' = receipts \cup {o} /\ snapshots' = snapshots /\ run' = run /\ pub' = pub
           /\ pub[o] = "staged"
        /\ stage'[o] = receipts \cup {o} /\ at'[p] = "pop-mark"
    BY <1>1, <1>5 DEF PopCommit, Applying
  <2> QED BY <1>1, <1>3, <2>1 DEF RowAt, PlaceAt, Recovering, Proposing, Applying, Undoing,
    Making, None
<1>6. CASE PopMark(p)
  <2>1. /\ receipts' = receipts /\ snapshots' = snapshots /\ run' = run
           /\ pub'[o] = "tracker_committed" /\ pub[o] = "staged"
        /\ stage' = stage /\ at'[p] = "pop-tickets" /\ o \in receipts
    BY <1>1, <1>6 DEF PopMark, Applying
  <2> QED BY <1>1, <1>3, <2>1 DEF RowAt, PlaceAt, Recovering, Proposing, Applying, Undoing,
    Making, None
<1>7. CASE PopPublishDelivery(p)
  <2>1. /\ receipts' = receipts /\ snapshots' = snapshots /\ run' = run
           /\ pub[o] = "tracker_committed"
        /\ stage' = stage /\ \/ at'[p] = "pop-release" /\ pub' = pub
                             \/ at'[p] = "pop-finish" /\ pub'[o] = "published"
    BY <1>1, <1>7 DEF PopPublishDelivery, Applying
  <2> QED BY <1>1, <1>3, <2>1 DEF RowAt, PlaceAt, Recovering, Proposing, Applying, Undoing,
    Making, None
<1>8. CASE PopFinish(p)
  <2>1. /\ receipts' = receipts /\ snapshots' = snapshots \cup {o} /\ run' = run
           /\ pub[o] = "published" /\ pub'[o] = "committed"
        /\ stage' = stage /\ at'[p] = "pop-close"
    BY <1>1, <1>8 DEF PopFinish, Applying
  <2> QED BY <1>1, <1>3, <2>1 DEF RowAt, PlaceAt, Recovering, Proposing, Applying, Undoing,
    Making, None
<1>9. CASE PopClose(p)
  <2>1. /\ receipts' = receipts /\ snapshots' = snapshots /\ run'[o] # None /\ pub[o] = "committed"
           /\ pub' = pub
        /\ at'[p] = "pop-release"
    BY <1>1, <1>9 DEF PopClose, Applying, None
  <2> QED BY <1>1, <2>1 DEF RowAt, PlaceAt, Recovering, Proposing, Applying, Undoing,
    Making, None
<1> QED BY <1>4, <1>5, <1>6, <1>7, <1>8, <1>9 DEF PopulationWrite

(* Nobody else is in the middle of the two files.                          *)
LEMMA NotBetween ==
  ASSUME RInv, PInv, Owners, ~Overlap, NEW p \in Proc, at[p] \in Making,
         pub[op[p]] \notin {None, "committed", "rolled_back"}, NEW q \in Proc \ {p}
  PROVE  /\ at[q] # "pop-delivery"
         /\ at[q] = "republish-delivery" => op[q] # op[p] /\ stage[op[q]] = {}
<1>1. op[p] \in Population /\ Unfinished = {op[p]}
  BY DEF RInv, Mine, MineAt, PInv, Rows, OneUnfinished, Unfinished
<1>2. at[q] \in Making \cup Undoing => op[q] \in Population /\ op[q] # op[p] /\ op[q] \notin Unfinished
  BY <1>1, Apart DEF RInv, Mine, MineAt
<1>3. at[q] # "pop-delivery"
  BY <1>2 DEF PInv, PlaceAt, Applying, Unfinished, Making, None
<1>4. at[q] = "republish-delivery" => op[q] \in receipts /\ RowAt(op[q]) /\ Recovering(q)
  BY <1>2 DEF PInv, PlaceAt, Recovering, Rows, Undoing
<1> QED BY <1>2, <1>3, <1>4 DEF RowAt, Recovering, Unfinished, Undoing, None

(* The files follow the tracker.                                           *)
LEMMA FilesWritten ==
  ASSUME RInv, PInv, Owners, ~Overlap, Files, NEW p \in Proc, Elsewhere(p), PopulationWrite(p)
  PROVE  Files'
<1> PICK o : o = op[p]
  OBVIOUS
<1>1. /\ o \in Population /\ RowAt(o) /\ Applying(p) /\ cmd[p] = "apply" /\ at[p] \in Making
      /\ op' = op
  BY DEF PopulationWrite, PopStage, PopCommit, PopMark, PopPublishDelivery, PopFinish, PopClose,
    Making, RInv, Mine, MineAt, PInv, PlaceAt, Rows
<1>2. pub[o] \notin {None, "committed", "rolled_back"} => Unfinished = {o}
  BY <1>1 DEF PInv, Rows, OneUnfinished, Unfinished
<1>3. at'[p] \notin {"pop-delivery", "republish-delivery"}
  BY DEF PopulationWrite, PopStage, PopCommit, PopMark, PopPublishDelivery, PopFinish, PopClose,
    Goto, RInv, Placed
<1>4. Made \subseteq receipts /\ \A x \in Unfinished : receipts \subseteq Made \cup {x}
  BY MadeReceipts DEF RInv, PInv
<1>9. ASSUME stage' = stage \/ PopStage(p), pub[o] \notin {None, "committed", "rolled_back"},
             NEW q \in Proc
      PROVE  at'[q] # "pop-delivery" /\ (at'[q] = "republish-delivery" => stage'[op'[q]] = {})
  <2>1. CASE q = p
    BY <1>3, <2>1
  <2>2. CASE q # p
    <3>1. at'[q] = at[q] /\ op'[q] = op[q]
      BY <2>2 DEF Elsewhere
    <3>2. at[q] # "pop-delivery" /\ (at[q] = "republish-delivery" => op[q] # o /\ stage[op[q]] = {})
      BY <1>1, <1>9, <2>2, NotBetween
    <3>3. at[q] = "republish-delivery" => stage'[op[q]] = stage[op[q]]
      BY <1>9, <3>2 DEF PopStage, RInv, Rowed, Mine, MineAt, Undoing
    <3> QED BY <3>1, <3>2, <3>3
  <2> QED BY <2>1, <2>2
<1> USE DEF RInv, Rowed, Placed, Goto, Mark, Close, tracker, files, Op
<1>5. CASE PopStage(p) \/ PopCommit(p) \/ PopMark(p)
  <2>1. /\ definitions' = definitions /\ delivery' = delivery /\ (stage' = stage \/ PopStage(p))
        /\ pub[o] \in {"prepared", "staged"} /\ pub'[o] \in {"staged", "tracker_committed"}
        /\ receipts' = receipts \/ o \notin receipts
        /\ \A x \in Population \ {o} : pub'[x] = pub[x]
    BY <1>1, <1>5 DEF PopStage, PopCommit, PopMark, Applying
  <2>2. Made' = Made /\ \A x \in Population : pub[x] # "published" /\ pub'[x] # "published"
    BY <1>1, <1>2, <2>1 DEF Made, Unfinished, None
  <2>3. o \notin receipts => Made = receipts
    <3>1. o \in Unfinished
      BY <1>1, <2>1 DEF Unfinished, None
    <3>2. receipts \subseteq Made \cup {o}
      BY <1>4, <3>1
    <3>3. o \notin receipts => receipts \subseteq Made
      BY <3>2
    <3> QED BY <1>4, <3>3, Zenon
  <2>4. definitions' \in {Made', receipts'} /\ delivery' \in {Made', receipts'}
    BY <2>1, <2>2, <2>3 DEF Files
  <2>5. pub[o] \notin {None, "committed", "rolled_back"}
    BY <2>1 DEF None
  <2>6. \A q \in Proc : at'[q] # "pop-delivery" /\ (at'[q] = "republish-delivery" => stage'[op'[q]] = {})
    BY <1>9, <2>1, <2>5
  <2> QED BY <2>2, <2>4, <2>6 DEF Files
<1>6. CASE PopPublishDelivery(p)
  <2>1. receipts' = receipts /\ definitions' = definitions /\ definitions = receipts
    BY <1>6 DEF PopPublishDelivery, Files
  <2>2. /\ pub[o] = "tracker_committed" /\ pub'[o] \in {pub[o], "published"}
        /\ \A x \in Population \ {o} : pub'[x] = pub[x]
        /\ \/ delivery' = stage[o]
           \/ stage[o] = {} /\ pub' = pub /\ delivery' = delivery
    BY <1>1, <1>6 DEF PopPublishDelivery, Applying
  <2>3. Made' = Made /\ \A x \in Population : pub[x] # "published"
    BY <1>1, <1>2, <2>2 DEF Made, Unfinished, None
  <2>4. stage[o] = receipts
    BY <1>1, <2>2 DEF RowAt
  <2> QED BY <1>1, <2>1, <2>2, <2>3, <2>4 DEF Files, RowAt
<1>7. CASE PopFinish(p)
  <2>1. /\ receipts' = receipts /\ definitions' = definitions /\ delivery' = delivery
        /\ stage' = stage /\ pub[o] = "published" /\ pub'[o] = "committed"
        /\ \A x \in Population \ {o} : pub'[x] = pub[x]
    BY <1>1, <1>7 DEF PopFinish, Applying
  <2>2. definitions = receipts /\ delivery = receipts
    BY <1>1, <2>1 DEF Files
  <2>3. Unfinished = {o} /\ o \in receipts
    BY <1>1, <1>2, <2>1 DEF None, RowAt
  <2>4. Made' = Made \cup {o}
    BY <1>1, <2>1 DEF Made
  <2>5. Made' = receipts
    BY <1>4, <2>3, <2>4
  <2> QED BY <2>1, <2>2, <2>5 DEF Files
<1>8. CASE PopClose(p)
  <2>1. /\ receipts' = receipts /\ definitions' = definitions /\ delivery' = delivery
        /\ pub' = pub /\ stage' = [stage EXCEPT ![o] = {}]
    BY <1>1, <1>8 DEF PopClose
  <2>2. ASSUME NEW q \in Proc, at'[q] = "pop-delivery" \/ (at'[q] = "republish-delivery" /\ stage'[op'[q]] # {})
        PROVE  definitions = receipts
    <3>1. at'[q] = at[q] /\ op'[q] = op[q] /\ MineAt(q)
      BY <1>3, <2>2 DEF Elsewhere, Mine
    <3>2. at[q] = "republish-delivery" => stage[op[q]] # {}
      BY <2>1, <2>2, <3>1 DEF MineAt, Undoing
    <3> QED BY <2>2, <3>1, <3>2 DEF Files
  <2> QED BY <2>1, <2>2 DEF Files, Made
<1> QED BY <1>5, <1>6, <1>7, <1>8 DEF PopulationWrite

(* The other steps write neither file but with what it has.                *)
LEMMA FilesCalm ==
  ASSUME RInv, PInv, Owners, ~Overlap, Files, NEW p \in Proc, Elsewhere(p), Calmly(p), Still
  PROVE  Files'
<1>1. Made' = Made /\ UNCHANGED <<receipts, stage>> /\ \A x \in Population : pub'[x] = pub[x]
  BY StillRows DEF PInv, Still
<1>2. CASE PopPublishTickets(p)
  <2>1. /\ op[p] \in Population /\ pub[op[p]] = "tracker_committed" /\ RowAt(op[p])
        /\ at[p] \in Making
    BY <1>2 DEF PopPublishTickets, RInv, Mine, MineAt, Making, PInv, PlaceAt, Applying, Rows
  <2>2. \A x \in Population : pub[x] # "published"
    BY <2>1 DEF PInv, Rows, OneUnfinished, Unfinished, None
  <2>3. /\ delivery' = delivery
        /\ \/ definitions' = receipts
           \/ definitions' = definitions /\ at'[p] # "pop-delivery"
        /\ at'[p] # "republish-delivery"
    BY <1>2, <2>1 DEF PopPublishTickets, RowAt, Goto, RInv, Placed
  <2>4. definitions' \in {definitions, receipts}
    BY <2>3
  <2> QED BY <1>1, <2>2, <2>3, <2>4 DEF Files, Elsewhere
<1>3. CASE ~PopPublishTickets(p)
  <2>1. definitions' = definitions /\ delivery' = delivery
    BY <1>3 DEF Calmly, Begin, HookDone, RecoverPopulation, PopRead, PopRelease, RecoverReset,
      ResetCommand, ResetBegin, ResetCommit, ResetStage, ResetPublish, ResetClose, ResetFails,
      Update, Release, Leave, Crash, files
  <2>2. at'[p] \notin {"pop-delivery", "republish-delivery"}
    <3>1. CASE HookDone(p)
      <4>1. cmd[p] \in {"populate", "apply", "reset", "update"}
        BY <3>1 DEF HookDone, RInv, Mine, MineAt
      <4> QED BY <3>1, <4>1 DEF HookDone, Entry, Goto, RInv, Placed
    <3>2. CASE ~HookDone(p)
      BY <1>3, <3>2 DEF Calmly, Begin, RecoverPopulation, PopRead, PopRelease, RecoverReset,
        ResetCommand, ResetBegin, ResetCommit, ResetStage, ResetPublish, ResetClose, ResetFails,
        Update, Release, Leave, Crash, Goto, RInv, Placed
    <3> QED BY <3>1, <3>2
  <2> QED BY <1>1, <2>1, <2>2 DEF Files, Elsewhere
<1> QED BY <1>2, <1>3

(* Every step of the tracker keeps the invariant of populations, as long   *)
(* as they do not overlap.                                                 *)
LEMMA PopulationsStep ==
  ASSUME RInv, Rowed', Owners, ~Overlap, ~Overlap', PInv, Files, NEW p \in Proc, TrackerStep(p),
         Elsewhere(p)
  PROVE  PInv' /\ Files'
<1>1. OneUnfinished'
  BY OneLeft
<1>2. CASE Calmly(p)
  BY <1>2, CalmSteps, FilesCalm
<1>3. CASE ~Calmly(p)
  BY <1>1, <1>3, UndoStep, RepublishStep, ConcludeStep, PopBeginStep, PopulationWriteStep, FilesWritten
    DEF TrackerStep, PopulationStep, Calmly, PopulationWrite
<1> QED BY <1>2, <1>3

(* A tracker at rest.                                                      *)
LEMMA PopulationsAtRest ==
  ASSUME NEW old \in SUBSET Population, Populated(old)
  PROVE  Owners /\ Receipted /\ Noticed /\ PInv /\ Files
<1> USE DEF Populated, Op, None
<1>1. Owners /\ Receipted
  BY DEF Owners, Receipted, Making, Nothing
<1>2. Made = old /\ Unfinished = {}
  BY DEF Made, Unfinished
<1>3. Rows
  BY <1>2 DEF Rows, RowAt, OneUnfinished
<1>4. \A p \in Proc : PlaceAt(p)
  BY DEF PlaceAt, Recovering, Proposing, Applying, Undoing
<1>5. Files
  BY <1>2 DEF Files
<1>6. Noticed
  BY DEF Noticed, Overlap, Incomplete, Undoing
<1> QED BY <1>1, <1>3, <1>4, <1>5, <1>6 DEF PInv

(* The invariant of populations, and that it says they are whole.          *)
Populating == Owners /\ Receipted /\ Noticed /\ (~overlapped => PInv /\ Files)

LEMMA PopulatingStands ==
  ASSUME Populating, UNCHANGED tvars
  PROVE  Populating'
<1> USE DEF tvars, tracker, files, owners, local
<1>1. (Owners /\ Receipted /\ Noticed)'
  BY DEF Populating, Owners, Receipted, Noticed, Overlap, Incomplete
<1>2. PInv /\ Files => (PInv /\ Files)'
  BY DEF PInv, Files, Made, Rows, RowAt, OneUnfinished, Unfinished, PlaceAt, Recovering, Proposing, Applying
<1> QED BY <1>1, <1>2 DEF Populating

LEMMA PopulatingStep ==
  ASSUME RInv, Rowed', Populating, NEW p \in Proc, TrackerStep(p), Elsewhere(p), MineAt(p)', Watched
  PROVE  Populating'
<1>1. Owners' /\ Receipted'
  BY OwnersKept, ReceiptedKept DEF Populating
<1>2. Noticed' /\ (~overlapped' => ~overlapped /\ ~Overlap /\ ~Overlap')
  BY DEF Watched, Noticed, Populating
<1> QED BY <1>1, <1>2, PopulationsStep DEF Populating

LEMMA Whole ==
  ASSUME RInv, Populating
  PROVE  PopulationWhole
<1>1. definitions \subseteq receipts /\ delivery \subseteq receipts
  BY DEF Populating, Receipted
<1>2. ASSUME Incomplete = {}, ~overlapped
      PROVE receipts = Made /\ definitions = Made /\ delivery = Made /\ snapshots = Made
  <2>1. Unfinished = {} /\ Rows /\ Files
    BY <1>2, UnfinishedRows DEF RInv, Populating, PInv
  <2>2. receipts = Made /\ definitions = Made /\ delivery = Made
    BY <2>1, MadeReceipts DEF RInv, Files
  <2>3. snapshots \subseteq Population
        /\ \A o \in Population : o \in snapshots <=> pub[o] = "committed"
    BY <2>1 DEF RInv, Rowed, Rows, RowAt, Unfinished, None
  <2> QED BY <2>2, <2>3 DEF Made
<1> QED BY <1>1, <1>2 DEF PopulationWhole, Made

(* Whatever runs beside what and dies on the way, nothing is in the files  *)
(* without a receipt; and until two commands were at populations at once,  *)
(* all stores agree whenever nothing is left to recover.                   *)
THEOREM PopulationsAreWhole == Spec => []PopulationWhole
<1>1. Init => Populating
  BY PopulationsAtRest DEF Init, Populating
<1>2. RInv /\ Populating /\ [Next]_tvars => Populating'
  <2> SUFFICES ASSUME RInv, Populating, [Next]_tvars PROVE Populating'
    OBVIOUS
  <2>1. CASE UNCHANGED tvars
    BY <2>1, PopulatingStands
  <2>2. CASE Next
    BY <2>2, TrackerKeeps, PopulatingStep DEF Next, Local, RInv
  <2> QED BY <2>1, <2>2
<1>3. RInv /\ Populating => PopulationWhole
  BY Whole
<1> QED BY <1>1, <1>2, <1>3, RowsInvariant, PTL DEF Spec

-----------------------------------------------------------------------------
(* What makes a run superseded, whoever starts over.                        *)

(* A planned reset was made, and is in nobody's hands any more.            *)
Sure == \E o \in Planned : o \in resets /\ \A p \in Proc : at[p] \in Resetting => op[p] # o

SupersedesAt(p) ==
  /\ view[p].so.reset => Sure
  /\ So(p) /\ at[p] \in {"so-reset-done", "so-supersede"} => Sure
  /\ So(p) /\ at[p] \in {"so-complete"} \cup Saving => heir # 0
  /\ at[p] = "save-settle" => agrees
Supersedes == \A i \in DOMAIN so : /\ so[i].reset => Sure
                                   /\ so[i].status = "completed" => heir # 0
Settled == (heir # 0 => Sure) /\ (proj = "settled" => agrees)
EInv == Settled /\ Supersedes /\ \A p \in Proc : SupersedesAt(p)

(* A step of p leaves all of it to the others.                             *)
Unharmed(p) ==
  /\ Sure => Sure'
  /\ heir # 0 => heir' # 0
  /\ \A q \in Proc \ {p} : view'[q] = view[q]
  /\ agrees' \in {agrees, TRUE} \/ at[p] \in Owning

LEMMA EFramed ==
  ASSUME RInv, EInv, NEW p \in Proc, Elsewhere(p), Unharmed(p), Settled', Supersedes', SupersedesAt(p)'
  PROVE  EInv'
<1>1. ASSUME NEW q \in Proc \ {p} PROVE SupersedesAt(q)'
  <2>1. /\ SupersedesAt(q) /\ view'[q] = view[q] /\ at'[q] = at[q] /\ cmd'[q] = cmd[q]
    BY DEF EInv, Unharmed, Elsewhere
  <2>2. at[q] = "save-settle" => at[p] \notin Owning
    BY ProcessesNamed DEF RInv, Held, Owning, Saving, Holds
  <2> QED BY <2>1, <2>2 DEF SupersedesAt, Unharmed, So
<1> QED BY <1>1 DEF EInv

(* Nothing but a reset in hand is taken back.                              *)
LEMMA SureStays ==
  ASSUME RInv, RInv', NEW p \in Proc, Elsewhere(p),
         resets \subseteq resets' \/ (at[p] \in Resetting /\ resets \ {op[p]} \subseteq resets'),
         at'[p] \in Resetting => at'[p] = "reset-commit" \/ (at[p] \in Resetting /\ op'[p] = op[p]),
         Sure
  PROVE  Sure'
<1>1. PICK o \in Planned : o \in resets /\ \A q \in Proc : at[q] \in Resetting => op[q] # o
  BY DEF Sure
<1>2. o \in resets'
  BY <1>1
<1>3. ASSUME NEW q \in Proc, at'[q] \in Resetting PROVE op'[q] # o
  <2>1. CASE q # p
    BY <1>1, <1>3, <2>1 DEF Elsewhere
  <2>2. CASE at'[q] = "reset-commit"
    BY <1>2, <2>2 DEF RInv, Resets, Resetting
  <2> QED BY <1>1, <1>3, <2>1, <2>2
<1> QED BY <1>2, <1>3 DEF Sure

(* Who holds the admission and has a planned reset in the tracker is sure. *)
LEMMA SureOfOwn ==
  ASSUME RInv', NEW p \in Proc, at'[p] \in Owning \ Resetting, NEW o \in Planned, o \in resets'
  PROVE  Sure'
<1>1. ASSUME NEW q \in Proc PROVE at'[q] \notin Resetting
  BY ProcessesNamed DEF RInv, Held, Owning, Holds
<1> QED BY <1>1 DEF Sure

(* Steps that write no operation and no run.                               *)
LEMMA SupersedesStays ==
  ASSUME EInv, UNCHANGED <<runs, so>>, Sure => Sure'
  PROVE  Settled' /\ Supersedes'
BY DEF EInv, Settled, Supersedes, runs

LEMMA TrackersSure ==
  ASSUME BInv, BInv', EInv, NEW p \in Proc, TrackerStep(p), Tracker(p), Elsewhere(p)
  PROVE  EInv'
<1> USE DEF BInv
<1>1. /\ resets \subseteq resets' \/ (at[p] \in Resetting /\ resets \ {op[p]} \subseteq resets')
      /\ at'[p] \in Resetting => at'[p] = "reset-commit" \/ (at[p] \in Resetting /\ op'[p] = op[p])
      /\ at'[p] # "save-settle"
  <2> USE DEF RInv, Placed, Goto, tracker
  <2>1. CASE HookDone(p)
    <3>1. cmd[p] \in {"populate", "apply", "reset", "update"}
      BY <2>1 DEF HookDone, Mine, MineAt
    <3> QED BY <2>1, <3>1 DEF HookDone, Entry, Resetting
  <2>2. CASE ResetCommit(p) \/ ResetStage(p) \/ ResetPublish(p) \/ ResetClose(p, "release")
             \/ ResetFails(p, "release")
    BY <2>2 DEF ResetCommit, ResetStage, ResetPublish, ResetClose, ResetFails, Resetting
  <2>3. CASE \E o \in Reset : RecoverReset(p, o) \/ ResetCommand(p, o)
    BY <2>3 DEF RecoverReset, ResetCommand, ResetBegin, Resetting
  <2>4. CASE \/ (\E c \in Command : Begin(p, c)) \/ (\E o \in Population : RecoverPopulation(p, o))
             \/ (\E o \in Population : PopRead(p, o)) \/ PopulationStep(p)
             \/ Release(p) \/ (\E t \in Ticket : Update(p, t)) \/ Leave(p) \/ Crash(p)
    BY <2>4 DEF PopulationStep, Begin, RecoverPopulation, PopRead, RemoveStage, RollBack, Republish,
      RepublishDelivery, Conclude, PopBegin, PopStage, PopCommit, PopMark, PopPublishTickets,
      PopPublishDelivery, PopFinish, PopClose, PopRelease, Update, Release, Leave, Crash, Resetting
  <2> QED BY <2>1, <2>2, <2>3, <2>4 DEF TrackerStep
<1>2. Sure => Sure'
  BY <1>1, SureStays
<1>3. /\ UNCHANGED <<runs, so>> /\ view'[p] \in {view[p], NoView}
      /\ \A q \in Proc \ {p} : view'[q] = view[q]
      /\ So(p)' => at'[p] \in Resetting \cup {"leave"}
  <2>1. CASE ~So(p)
    BY <2>1, Bystander DEF Unseen
  <2>2. CASE So(p)
    <3>1. Unseen(p) /\ view'[p] \in {view[p], NoView}
      BY <2>2, OwnTracker
    <3>2. So(p)' => at'[p] \in Resetting \cup {"leave"}
      BY <2>2, OwnTracker DEF ResetCommit, ResetStage, ResetPublish, Goto, RInv, Placed, Resetting, So, None
    <3> QED BY <3>1, <3>2 DEF Unseen
  <2> QED BY <2>1, <2>2
<1>4. SupersedesAt(p)'
  BY <1>1, <1>2, <1>3 DEF SupersedesAt, EInv, NoView, NoOp, Resetting, Saving
<1>5. Unharmed(p)
  BY <1>2, <1>3 DEF Unharmed, runs
<1> QED BY <1>2, <1>3, <1>4, <1>5, SupersedesStays, EFramed

(* The reset of an operation: its end makes sure.                          *)
LEMMA OwnResetsSure ==
  ASSUME BInv, BInv', EInv, NEW p \in Proc, So(p), OwnReset(p), ResetTickets(p) \/ Tracker(p), Local(p)
  PROVE  EInv'
<1> USE DEF BInv
<1>1. /\ Unseen(p) /\ view' = view /\ Elsewhere(p)
      /\ at[p] \in {"so-reset"} \cup Resetting
      /\ at'[p] \in {"so-supersede", "so-reset-done", "leave", "reset-commit", "so-fail"}
  <2>1. at[p] = "so-reset" => view[p].so.planned \in Planned
    BY DEF VInv, KnowsAt
  <2> QED BY <2>1, OwnResetsKnown, OwnResets DEF Local, So, OwnReset, ResetTickets, ResetClose,
    ResetFails, Resetting
<1>2. resets \subseteq resets' \/ (at[p] \in Resetting /\ resets \ {op[p]} \subseteq resets')
  BY DEF OwnReset, ResetTickets, ResetBegin, ResetClose, ResetFails, tracker, Resetting
<1>3. Sure => Sure'
  BY <1>1, <1>2, SureStays DEF Resetting
<1>4. at'[p] = "so-supersede" => Sure'
  <2>1. ASSUME at'[p] = "so-supersede" PROVE view[p].so.reset
    BY <2>1 DEF OwnReset, ResetTickets, ResetBegin, ResetClose, ResetFails, Goto, RInv, Placed
  <2> QED BY <1>3, <2>1 DEF EInv, SupersedesAt
<1>5. ASSUME at'[p] = "so-reset-done" PROVE Sure'
  <2>1. CASE ResetTickets(p)
    <3>1. view[p].so.reset \/ (view[p].so.planned \in resets /\ resets' = resets)
      BY <1>5, <2>1 DEF ResetTickets, ResetBegin, Applied, Goto, RInv, Placed, tracker
    <3>2. view[p].so.planned \in Planned
      BY <2>1 DEF ResetTickets, VInv, KnowsAt
    <3>3. CASE view[p].so.reset
      BY <1>3, <3>3 DEF EInv, SupersedesAt
    <3>4. CASE view[p].so.planned \in resets /\ resets' = resets
      BY <1>5, <3>2, <3>4, SureOfOwn DEF Owning, Ending, Resetting
    <3> QED BY <3>1, <3>3, <3>4
  <2>2. CASE ResetClose(p, "so-reset-done")
    <3>1. op[p] \in Planned /\ op[p] \in resets /\ resets' = resets
      BY <2>2 DEF ResetClose, VInv, KnowsAt, Resetting, RInv, Resets, tracker
    <3> QED BY <1>5, <3>1, SureOfOwn DEF Owning, Ending, Resetting
  <2>3. CASE ResetFails(p, "so-fail")
    BY <1>5, <2>3 DEF ResetFails, Goto, RInv, Placed
  <2> QED BY <2>1, <2>2, <2>3 DEF OwnReset
<1>6. SupersedesAt(p)'
  BY <1>1, <1>3, <1>4, <1>5 DEF SupersedesAt, EInv, Saving
<1>7. Unharmed(p)
  BY <1>1, <1>3 DEF Unharmed, Unseen, runs
<1> QED BY <1>1, <1>3, <1>6, <1>7, SupersedesStays, EFramed DEF Unseen

(* The other steps make and take back no reset.                            *)
LEMMA ModestSure ==
  ASSUME NEW p \in Proc, Modest(p)
  PROVE  (Sure => Sure') /\ Elsewhere(p)
BY DEF Modest, Sure, Elsewhere

(* Preview, cleaning, confirmation and the archive.                        *)
LEMMA AsksSure ==
  ASSUME BInv, EInv, NEW p \in Proc, Asks(p), Modest(p)
  PROVE  EInv'
<1>0. /\ so \in Seq(OpRow) /\ Len(so) \in Nat /\ DOMAIN so = 1..Len(so) /\ KnowsAt(p)
      /\ DOMAIN view = Proc /\ (Sure => Sure') /\ Elsewhere(p)
  BY ModestSure, LenProperties DEF BInv, VInv, OpRows
<1>1. /\ runs' = runs /\ at'[p] \in {"so-preview", "so-cleaned", "so-retire", "so-admit", "leave",
         "so-recollect", "so-reset", "so-plan"}
      /\ \A q \in Proc \ {p} : view'[q] = view[q]
  <2>1. runs' = runs /\ \A q \in Proc \ {p} : view'[q] = view[q]
    BY <1>0 DEF Asks, Preview, Clean, Cleaned, Confirm, Retire, Admit, View, runs
  <2>2. at'[p] \in {"so-preview", "so-cleaned", "so-retire", "so-admit", "leave",
         "so-recollect", "so-reset", "so-plan"}
    BY DEF Asks, Preview, Clean, Cleaned, Confirm, Retire, Admit, Refused, Enter, Goto, BInv, RInv, Placed
  <2> QED BY <2>1, <2>2
<1>2. view'[p].so.reset => Sure'
  <2>1. ASSUME NEW i \in {0} \cup DOMAIN so, NEW a \in Action, NEW pushed \in BOOLEAN, Preview(p, i, a, pushed)
        PROVE  view'[p].so.reset => Sure'
    <3> DEFINE pending == IF Open THEN so[i] ELSE [NoOp EXCEPT !.action = a]
    <3>1. view' = [view EXCEPT ![p] = [NoView EXCEPT !.id = i, !.so = pending, !.pushed = pushed, !.tree = Tree]]
      BY <2>1 DEF Preview, View
    <3>2. view'[p].so = pending
      BY <1>0, <3>1 DEF NoView
    <3>3. CASE Open
      <4>1. i \in DOMAIN so
        BY <2>1, <3>3 DEF Preview, Pending, Resumable
      <4> QED BY <1>0, <3>2, <3>3, <4>1 DEF EInv, Supersedes
    <3>4. CASE ~Open
      BY <3>2, <3>4 DEF NoOp
    <3> QED BY <3>3, <3>4
  <2>2. CASE Clean(p) \/ Cleaned(p) \/ Confirm(p) \/ Retire(p) \/ Admit(p)
    <3>1. view'[p].so = view[p].so
      BY <1>0, <2>2 DEF Clean, Cleaned, Confirm, Retire, Admit, View, KnowsAt, Shaped
    <3> QED BY <1>0, <3>1 DEF EInv, SupersedesAt
  <2> QED BY <2>1, <2>2 DEF Asks
<1>3. Supersedes'
  <2>1. CASE so' = so
    BY <1>0, <1>1, <2>1 DEF EInv, Supersedes, runs
  <2>2. CASE so' = Append(so, [view[p].so EXCEPT !.status = "running"])
    <3> DEFINE r == [view[p].so EXCEPT !.status = "running"]
    <3>1. r \in OpRow /\ r.status = "running" /\ r.reset = view[p].so.reset
      BY <1>0 DEF KnowsAt, OpRow
    <3>2. /\ DOMAIN so' = 1..Len(so) + 1 /\ so'[Len(so) + 1] = r
          /\ \A i \in 1..Len(so) : so'[i] = so[i]
      BY <1>0, <2>2, <3>1, AppendProperties, LenProperties
    <3> HIDE DEF r
    <3> QED BY <1>0, <1>1, <3>1, <3>2 DEF EInv, Supersedes, SupersedesAt, runs
  <2>3. CASE view[p].id \in DOMAIN so /\ so' = [so EXCEPT ![view[p].id].status = "paused"]
    <3>1. \A i \in DOMAIN so : so[i] \in OpRow
      BY <1>0
    <3>2. \A i \in DOMAIN so' : i \in DOMAIN so /\ so'[i].reset = so[i].reset
             /\ so'[i].status \in {so[i].status, "paused"}
      BY <2>3, <3>1 DEF OpRow
    <3> QED BY <1>0, <1>1, <3>2 DEF EInv, Supersedes, runs
  <2>4. so' = so \/ so' = Append(so, [view[p].so EXCEPT !.status = "running"])
        \/ (at[p] \in {"so-retire", "so-admit"} /\ so' = [so EXCEPT ![view[p].id].status = "paused"])
    BY DEF Asks, Preview, Clean, Cleaned, Confirm, Retire, Admit, Refused
  <2>5. at[p] \in {"so-retire", "so-admit"} => view[p].id \in DOMAIN so
    BY <1>0 DEF KnowsAt, BInv, RInv, Mine, MineAt, Asking, So, Going
  <2> QED BY <2>1, <2>2, <2>3, <2>4, <2>5
<1>4. Settled'
  BY <1>0, <1>1 DEF EInv, Settled, runs
<1>5. SupersedesAt(p)'
  BY <1>1, <1>2 DEF SupersedesAt, Saving
<1>6. Unharmed(p)
  BY <1>0, <1>1 DEF Unharmed, runs
<1> QED BY <1>0, <1>3, <1>4, <1>5, <1>6, EFramed DEF BInv

LEMMA ArchivesSure ==
  ASSUME BInv, EInv, NEW p \in Proc, Archives(p), Modest(p)
  PROVE  EInv'
<1>0. /\ so \in Seq(OpRow) /\ Len(so) \in Nat /\ DOMAIN so = 1..Len(so) /\ KnowsAt(p)
      /\ DOMAIN view = Proc /\ (Sure => Sure') /\ Elsewhere(p)
  BY ModestSure, LenProperties DEF BInv, VInv, OpRows
<1>1. /\ runs' = runs /\ at'[p] \in Archiving \cup {"so-fail", "so-reset"} /\ at[p] \in Archiving
      /\ \A q \in Proc \ {p} : view'[q] = view[q]
  <2>1. runs' = runs /\ (\A q \in Proc \ {p} : view'[q] = view[q]) /\ at[p] \in Archiving
    BY <1>0 DEF Archives, Recollect, Plan, Switching, GitSwitch, GitCommit, GitBack, GitReset,
      GitFresh, GitFails, RestoreFiles, Preserve, Record, View, runs, Archiving, Git
  <2>2. at'[p] \in Archiving \cup {"so-fail", "so-reset"}
    BY DEF Archives, Recollect, Plan, Switching, GitSwitch, GitCommit, GitBack, GitReset,
      GitFresh, GitFails, RestoreFiles, Preserve, Goto, BInv, RInv, Placed, Archiving, Git
  <2> QED BY <2>1, <2>2
<1>2. view[p].id \in DOMAIN so
  BY <1>0, <1>1 DEF KnowsAt, BInv, RInv, Mine, MineAt, So, Going
<1>3. \/ so' = so
      \/ \E r \in OpRow : so' = [so EXCEPT ![view[p].id] = r] /\ r.status = so[view[p].id].status /\ ~r.reset
  <2>0. so[view[p].id] \in OpRow
    BY <1>0, <1>2
  <2>1. CASE Plan(p)
    <3> DEFINE r == [so[view[p].id] EXCEPT !.preserved = FALSE, !.planned = None, !.reset = FALSE]
    <3>1. r \in OpRow /\ r.status = so[view[p].id].status /\ ~r.reset
      BY <2>0 DEF OpRow
    <3>2. so' = [so EXCEPT ![view[p].id] = r]
      BY <2>1 DEF Plan
    <3> HIDE DEF r
    <3> QED BY <3>1, <3>2
  <2>2. ASSUME NEW o \in Planned, Preserve(p, o)
        PROVE  \E r \in OpRow : so' = [so EXCEPT ![view[p].id] = r] /\ r.status = so[view[p].id].status /\ ~r.reset
    <3> DEFINE r == [so[view[p].id] EXCEPT !.preserved = TRUE, !.planned = o, !.reset = FALSE]
    <3>1. r \in OpRow /\ r.status = so[view[p].id].status /\ ~r.reset
      BY <2>0 DEF OpRow
    <3>2. so' = [so EXCEPT ![view[p].id] = r]
      BY <2>2 DEF Preserve, Record
    <3> HIDE DEF r
    <3> QED BY <3>1, <3>2
  <2> QED BY <2>1, <2>2 DEF Archives, Recollect, Switching, GitSwitch, GitCommit, GitBack, GitReset,
    GitFresh, GitFails, RestoreFiles
<1>4. view'[p].so.reset => view[p].so.reset
  <2>0. so[view[p].id] \in OpRow
    BY <1>0, <1>2
  <2>1. ASSUME NEW o \in Planned, Preserve(p, o) PROVE view'[p].so.reset = FALSE
    BY <1>0, <2>0, <2>1 DEF Preserve, Record, View, KnowsAt, Shaped, OpRow
  <2>2. CASE ~\E o \in Planned : Preserve(p, o)
    BY <1>0, <2>2 DEF Archives, Recollect, Plan, Switching, GitSwitch, GitCommit, GitBack, GitReset,
      GitFresh, GitFails, RestoreFiles, View, KnowsAt, Shaped
  <2> QED BY <2>1, <2>2
<1>5. Supersedes'
  BY <1>0, <1>1, <1>2, <1>3 DEF EInv, Supersedes, runs
<1>6. Settled'
  BY <1>0, <1>1 DEF EInv, Settled, runs
<1>7. SupersedesAt(p)'
  BY <1>0, <1>1, <1>4 DEF SupersedesAt, EInv, Saving, Archiving, Git
<1>8. Unharmed(p)
  BY <1>0, <1>1 DEF Unharmed, runs
<1> QED BY <1>0, <1>5, <1>6, <1>7, <1>8, EFramed DEF BInv

(* The end of an operation.                                                *)
LEMMA EndsSure ==
  ASSUME BInv, EInv, NEW p \in Proc, Ends(p), Modest(p)
  PROVE  EInv'
<1>0. /\ so \in Seq(OpRow) /\ Len(so) \in Nat /\ DOMAIN so = 1..Len(so) /\ KnowsAt(p)
      /\ DOMAIN view = Proc /\ (Sure => Sure') /\ Elsewhere(p)
  BY ModestSure, LenProperties DEF BInv, VInv, OpRows
<1>1. /\ at[p] \in {"so-reset-done", "so-supersede", "so-complete", "so-fail"} /\ So(p)
      /\ SupersedesAt(p) /\ \A q \in Proc \ {p} : view'[q] = view[q]
  BY <1>0 DEF Ends, ResetDone, Supersede, Complete, Fail, Record, View, BInv, RInv, Mine, MineAt,
    Ending, So, EInv
<1>2. view[p].id \in 1..Len(so) /\ so[view[p].id] \in OpRow /\ view[p].so \in OpRow
  BY <1>0, <1>1 DEF KnowsAt, Going, Ending
<1>3. CASE ResetDone(p)
  <2> DEFINE r == [so[view[p].id] EXCEPT !.preserved = TRUE, !.planned = view[p].so.planned, !.reset = TRUE]
  <2>1. r.status = so[view[p].id].status
    BY <1>2 DEF OpRow
  <2>2. so' = [so EXCEPT ![view[p].id] = r] /\ view'[p].so = r /\ at'[p] = "so-supersede" /\ runs' = runs
    BY <1>0, <1>3 DEF ResetDone, Record, View, KnowsAt, Shaped, Goto, BInv, RInv, Placed
  <2>3. Sure'
    BY <1>0, <1>1, <1>3 DEF SupersedesAt, ResetDone
  <2> HIDE DEF r
  <2>4. Supersedes'
    BY <1>0, <1>2, <2>1, <2>2, <2>3 DEF EInv, Supersedes, runs
  <2>5. Settled' /\ SupersedesAt(p)' /\ Unharmed(p)
    BY <1>1, <2>2, <2>3 DEF EInv, Settled, SupersedesAt, Unharmed, Saving, runs
  <2> QED BY <1>0, <2>4, <2>5, EFramed DEF BInv
<1>4. CASE Supersede(p)
  <2>1. /\ so' = so /\ view' = view /\ heir' = view[p].id /\ agrees' = FALSE /\ proj' = "open"
        /\ at'[p] = "save-rename" /\ at[p] \in Owning
    BY <1>4 DEF Supersede, Goto, BInv, RInv, Placed, Owning, Ending
  <2>2. heir' # 0
    BY <1>2, <2>1
  <2>3. Sure'
    BY <1>0, <1>1, <1>4 DEF SupersedesAt, Supersede
  <2>4. Supersedes' /\ Settled' /\ SupersedesAt(p)' /\ Unharmed(p)
    BY <1>1, <2>1, <2>2, <2>3 DEF EInv, Supersedes, Settled, SupersedesAt, Unharmed
  <2> QED BY <1>0, <2>4, EFramed DEF BInv
<1>5. CASE Complete(p) \/ Fail(p)
  <2>1. /\ at'[p] = "release" /\ view' = view /\ runs' = runs
        /\ \/ so' = [so EXCEPT ![view[p].id] = [view[p].so EXCEPT !.status = "completed", !.planned = None]]
              /\ heir # 0
           \/ so' = [so EXCEPT ![view[p].id] = so[view[p].id]]
           \/ so' = [so EXCEPT ![view[p].id] = [view[p].so EXCEPT !.status = "paused"]]
    BY <1>1, <1>5 DEF Complete, Fail, Goto, BInv, RInv, Placed, SupersedesAt, So
  <2>2. PICK r \in OpRow : /\ so' = [so EXCEPT ![view[p].id] = r]
                           /\ r.reset => view[p].so.reset \/ so[view[p].id].reset
                           /\ r.status = "completed" => heir # 0
    <3>1. [view[p].so EXCEPT !.status = "completed", !.planned = None] \in OpRow
          /\ [view[p].so EXCEPT !.status = "paused"] \in OpRow
      BY <1>2 DEF OpRow
    <3>2. so[view[p].id].status = "completed" => heir # 0
      BY <1>0, <1>2 DEF EInv, Supersedes
    <3> QED BY <1>2, <2>1, <3>1, <3>2 DEF OpRow
  <2>3. Supersedes'
    BY <1>0, <1>1, <1>2, <2>1, <2>2 DEF EInv, Supersedes, SupersedesAt, runs
  <2>4. Settled' /\ SupersedesAt(p)' /\ Unharmed(p)
    BY <1>0, <1>1, <2>1 DEF EInv, Settled, SupersedesAt, Unharmed, Saving, runs
  <2> QED BY <1>0, <2>3, <2>4, EFramed DEF BInv
<1> QED BY <1>3, <1>4, <1>5 DEF Ends

(* The run's file, and builds.                                             *)
LEMMA SavesSure ==
  ASSUME BInv, EInv, NEW p \in Proc, Saves(p) \/ Builds(p), Modest(p)
  PROVE  EInv'
<1>1. so' = so /\ view' = view /\ (Sure => Sure') /\ Elsewhere(p) /\ heir' = heir /\ SupersedesAt(p)
  BY SavesKnown, ModestSure DEF BInv, EInv, Saves, Builds, SaveRename, SaveSettle, BuildBegin,
    BuildWork, runs
<1>2. /\ proj' = "settled" => agrees'
      /\ agrees' \in {agrees, TRUE} \/ at[p] \in Owning
      /\ at'[p] = "save-settle" => agrees'
      /\ So(p)' /\ at'[p] \in {"so-complete"} \cup Saving => So(p) /\ at[p] \in Saving
      /\ ~(So(p)' /\ at'[p] \in {"so-reset-done", "so-supersede"})
  <2>1. CASE SaveRename(p) \/ SaveSettle(p)
    BY <1>1, <2>1 DEF SaveRename, SaveSettle, StartingOver, Goto, BInv, RInv, Placed, So, Saving,
      SupersedesAt, EInv, Settled
  <2>2. CASE Builds(p)
    <3>1. cmd'[p] = "build" /\ at'[p] # "save-settle"
      BY <2>2 DEF Builds, BuildBegin, BuildWork, Enter, Goto, BInv, RInv, Placed, Mine, MineAt
    <3>2. /\ proj' = "settled" => agrees'
          /\ agrees' \in {agrees, TRUE} \/ at[p] \in Owning
      BY <2>2 DEF Builds, BuildBegin, BuildWork, EInv, Settled, runs, Owning
    <3> QED BY <3>1, <3>2 DEF So
  <2> QED BY <2>1, <2>2 DEF Saves
<1>3. Supersedes' /\ Settled'
  BY <1>1, <1>2 DEF EInv, Supersedes, Settled
<1>4. SupersedesAt(p)' /\ Unharmed(p)
  BY <1>1, <1>2 DEF SupersedesAt, Unharmed
<1> QED BY <1>1, <1>3, <1>4, EFramed DEF BInv

LEMMA SettledInvariant == SSpec => []EInv
<1>1. SInit => EInv
  BY DEF SInit, Populated, EInv, Settled, Supersedes, SupersedesAt, NoView, NoOp, So, Saving, None
<1>2. BInv /\ BInv' /\ EInv /\ [SNext]_svars => EInv'
  <2> SUFFICES ASSUME BInv, BInv', EInv, [SNext]_svars PROVE EInv'
    OBVIOUS
  <2>1. CASE UNCHANGED <<tracker, local, runs, so, view>>
    BY <2>1 DEF EInv, Settled, Supersedes, SupersedesAt, Sure, So, tracker, local, runs
  <2>2. ASSUME NEW p \in Proc, TrackerStep(p), Tracker(p) PROVE EInv'
    BY <2>2, TrackersSure, TrackerKeeps DEF BInv, Local
  <2>3. ASSUME NEW p \in Proc, So(p), OwnReset(p), ResetTickets(p) \/ Tracker(p) PROVE EInv'
    <3>1. at[p] = "so-reset" => view[p].so.planned \in Planned
      BY <2>3 DEF BInv, VInv, KnowsAt
    <3> QED BY <2>3, <3>1, OwnResetsSure, OwnResetsKeep DEF BInv, So
  <2>4. ASSUME NEW p \in Proc, Asks(p) \/ Archives(p) \/ Ends(p) \/ Saves(p) \/ Builds(p), Modest(p)
        PROVE  EInv'
    BY <2>4, AsksSure, ArchivesSure, EndsSure, SavesSure
  <2>5. ASSUME NEW w \in {"fix", "touch"}, Edit(w), Unmoved PROVE EInv'
    BY <2>1, <2>5 DEF Edit, Unmoved
  <2>6. CASE SNext
    BY <2>2, <2>3, <2>4, <2>5, <2>6, StartSteps DEF BInv
  <2> QED BY <2>1, <2>6 DEF svars, tvars
<1> QED BY <1>1, <1>2, BesideInvariant, PTL DEF SSpec

(* However many processes start over, die, resume and confirm beside each  *)
(* other, builds and populations: a run is superseded only after a planned *)
(* reset was made, a completed operation has superseded it, and the run's  *)
(* file says what its row says or has a publication open.                  *)
THEOREM StartOversAreWhole == SSpec => []StartOverWhole
<1>1. EInv => StartOverWhole
  BY DEF EInv, Settled, Supersedes, Sure, StartOverWhole
<1> QED BY <1>1, SettledInvariant, PTL

-----------------------------------------------------------------------------
(* Where the work is, while no two processes start over.                    *)

One     == \A p, q \in Proc : So(p) /\ So(q) => p = q
Kept    == known \ aside
Stores  == (UNION {branches[b] : b \in DOMAIN branches}) \cup dirty
First   == Archive(1)

(* The branch an operation archives, or takes its archive from.            *)
Source  == IF First \in DOMAIN branches THEN First ELSE head

(* There is one operation at most, and it found no work before.  While it  *)
(* archives and restarts, what it found is in that branch or still to be   *)
(* committed there.                                                        *)
Stored ==
  /\ head \in DOMAIN branches /\ Kept \subseteq Stores
  /\ Len(so) <= 1
  /\ Len(so) = 0 => known = {} /\ First \notin DOMAIN branches
  /\ Len(so) = 1 /\ so[1].action = "archive-restart" =>
       Kept \subseteq branches[Source] \cup (dirty \ Initial)

(* Where its process is.                                                   *)
WorksAt(p) == So(p) =>
  /\ at[p] \in {"so-preview", "so-cleaned"} /\ Fresh(p) => Len(so) = 0
  /\ at[p] \in Going \/ (at[p] \in {"so-preview", "so-cleaned"} /\ ~Fresh(p)) =>
       Len(so) = 1 /\ view[p].id = 1 /\ view[p].so.action = so[1].action
  /\ at[p] = "git-commit" => head = First
  /\ at[p] \in {"git-back", "git-reset"} =>
       so[1].action = "archive-restart" /\ First \in DOMAIN branches /\ Kept \subseteq branches[First]
  /\ at[p] = "git-reset" => head = Original
  /\ at[p] = "git-fresh" => so[1].action # "archive-restart"
Works == Stored /\ \A p \in Proc : WorksAt(p)
WInv == "start-over" \notin crossed => One /\ Works

(* Nobody else is there when its process moves,                            *)
LEMMA OwnWorks ==
  ASSUME NEW p \in Proc, So(p)', One', Stored', WorksAt(p)'
  PROVE  Works'
BY DEF One, Works, WorksAt

(* and when another one moves it is away from Git, or nothing does.        *)
LEMMA OthersWork ==
  ASSUME RInv, VInv, Works, NEW p \in Proc, Elsewhere(p), ~So(p)', so' = so,
         \A q \in Proc \ {p} : view'[q] = view[q],
         UNCHANGED <<head, known, aside>>, dirty' = dirty,
         branches' = branches \/ (at[p] \in Owning /\ branches' = [branches EXCEPT ![head] = @ \cup {"new"}])
  PROVE  Works'
<1>1. ASSUME NEW q \in Proc PROVE WorksAt(q)'
  <2>1. CASE q = p
    BY <2>1 DEF WorksAt
  <2>2. CASE q # p
    <3>1. /\ WorksAt(q) /\ at'[q] = at[q] /\ cmd'[q] = cmd[q] /\ view'[q] = view[q]
      BY <2>2 DEF Works, Elsewhere
    <3>2. at[q] \in Git => branches' = branches
      BY <2>2, ProcessesNamed DEF RInv, Held, Owning, Archiving, Holds
    <3> QED BY <3>1, <3>2 DEF WorksAt, So, Fresh, Kept, Git
  <2> QED BY <2>1, <2>2
<1>2. Stored'
  <2>1. CASE branches' = branches
    BY <2>1 DEF Works, Stored, Kept, Stores, Source
  <2>2. CASE branches' = [branches EXCEPT ![head] = @ \cup {"new"}]
    <3>1. /\ DOMAIN branches' = DOMAIN branches /\ head \in DOMAIN branches
          /\ \A b \in DOMAIN branches : branches[b] \subseteq branches'[b]
      BY <2>2 DEF Works, Stored
    <3>2. Stores \subseteq Stores'
      BY <3>1 DEF Stores
    <3> QED BY <3>1, <3>2 DEF Works, Stored, Kept, Source
  <2> QED BY <2>1, <2>2
<1> QED BY <1>1, <1>2 DEF Works

(* An operation keeps its action.                                          *)
Lasting == Len(so') = Len(so) /\ (Len(so) = 1 => so'[1].action = so[1].action)

LEMMA StoredLasts ==
  ASSUME Stored, repo' = repo, Lasting, Len(so) \in Nat
  PROVE  Stored'
BY DEF Stored, Kept, Stores, Source, Lasting, repo

(* Before any operation there is nothing to go on with.                    *)
LEMMA NoneBefore ==
  ASSUME BInv, EInv, Stored, ~Open, heir = 0 \/ heir \in Resumable
  PROVE  Len(so) = 0
<1>1. so \in Seq(OpRow) /\ Len(so) \in Nat /\ DOMAIN so = 1..Len(so)
  BY LenProperties DEF BInv, VInv, OpRows
<1>2. heir = 0 /\ \A i \in DOMAIN so : so[i].status \notin {None, "running", "paused", "completed"}
  BY <1>1 DEF Open, Resumable, BInv, VInv, OpRows, EInv, Supersedes
<1>3. \A i \in DOMAIN so : so[i] \in OpRow
  BY <1>1
<1> QED BY <1>1, <1>2, <1>3 DEF Stored, OpRow

(* Preview, cleaning, confirmation.                                        *)
LEMMA AsksWork ==
  ASSUME BInv, EInv, One, Works, One', NEW p \in Proc, Asks(p), Modest(p)
  PROVE  Works'
<1>0. /\ so \in Seq(OpRow) /\ Len(so) \in Nat /\ DOMAIN so = 1..Len(so) /\ KnowsAt(p)
      /\ DOMAIN view = Proc /\ Stored /\ WorksAt(p)
  BY LenProperties DEF BInv, VInv, OpRows, Works
<1>a. So(p)'
  BY DEF Asks, Preview, Clean, Cleaned, Confirm, Retire, Admit, Enter, BInv, RInv, Placed, Mine, MineAt, Asking, So
<1> SUFFICES Stored' /\ WorksAt(p)'
  BY <1>a, OwnWorks
<1>1. ASSUME NEW i \in {0} \cup DOMAIN so, NEW a \in Action, NEW pushed \in BOOLEAN, Preview(p, i, a, pushed)
      PROVE  Stored' /\ WorksAt(p)'
  <2> DEFINE pending == IF Open THEN so[i] ELSE [NoOp EXCEPT !.action = a]
  <2>1. /\ view' = [view EXCEPT ![p] = [NoView EXCEPT !.id = i, !.so = pending, !.pushed = pushed, !.tree = Tree]]
        /\ so' = so /\ repo' = repo /\ at'[p] = "so-preview"
    BY <1>1 DEF Preview, View, Enter, BInv, RInv, Placed
  <2>2. view'[p].so = pending /\ view'[p].id = i
    BY <1>0, <2>1 DEF NoView
  <2>3. Stored'
    BY <1>0, <2>1, StoredLasts DEF Lasting
  <2>4. CASE Open
    <3>1. i \in 1..Len(so) /\ pending = so[i] /\ so[i].status # None
      BY <1>0, <1>1, <2>4 DEF Preview, Pending, Resumable, None
    <3>2. Len(so) = 1 /\ i = 1
      BY <1>0, <3>1 DEF Stored
    <3> HIDE DEF pending
    <3> QED BY <2>1, <2>2, <2>3, <3>1, <3>2 DEF WorksAt, Fresh, Going, Archiving, Ending, Resetting, Saving, Git
  <2>5. CASE ~Open
    <3>1. Len(so) = 0
      BY <1>0, <1>1, <2>5, NoneBefore DEF Preview
    <3>2. pending.status = None
      BY <2>5 DEF NoOp
    <3> HIDE DEF pending
    <3> QED BY <2>1, <2>2, <2>3, <3>1, <3>2 DEF WorksAt, Fresh, Going, Archiving, Ending, Resetting, Saving, Git
  <2> QED BY <2>4, <2>5
<1>2. CASE Clean(p)
  <2>1. /\ so' = so /\ at[p] = "so-preview" /\ at'[p] = "so-cleaned" /\ Fresh(p) /\ So(p)
        /\ aside' = aside \cup dirty /\ dirty' = {} /\ UNCHANGED <<known, branches, head>>
        /\ view'[p].so = view[p].so
    BY <1>0, <1>2 DEF Clean, View, Goto, BInv, RInv, Placed, Mine, MineAt, Asking, So, KnowsAt, Shaped
  <2>2. Len(so) = 0 /\ known = {}
    BY <1>0, <2>1 DEF WorksAt, Stored
  <2>3. Stored'
    BY <1>0, <2>1, <2>2 DEF Stored, Kept
  <2> QED BY <2>1, <2>2, <2>3 DEF WorksAt, Fresh, Going, Archiving, Ending, Resetting, Saving, Git
<1>3. CASE Cleaned(p)
  <2>1. /\ so' = so /\ at[p] = "so-cleaned" /\ at'[p] = "so-preview" /\ So(p) /\ repo' = repo
        /\ view'[p].so = view[p].so /\ view'[p].id = view[p].id
    BY <1>0, <1>3 DEF Cleaned, View, Goto, BInv, RInv, Placed, Mine, MineAt, Asking, So, KnowsAt, Shaped
  <2>2. Stored'
    BY <1>0, <2>1, StoredLasts DEF Lasting
  <2> QED BY <1>0, <2>1, <2>2 DEF WorksAt, Fresh, Going, Archiving, Ending, Resetting, Saving, Git
<1>4. CASE Confirm(p)
  <2>0. at[p] = "so-preview" /\ So(p)
    BY <1>4 DEF Confirm, BInv, RInv, Mine, MineAt, Asking, So
  <2>1. CASE at'[p] = "leave" /\ so' = so /\ repo' = repo
    BY <1>0, <2>1, StoredLasts DEF Lasting, WorksAt, Going, Archiving, Ending, Resetting, Saving, Git
  <2>2. CASE ~Fresh(p) /\ at'[p] = "so-retire" /\ so' = so /\ repo' = repo
             /\ view'[p].so = view[p].so /\ view'[p].id = view[p].id
    <3>1. Stored'
      BY <1>0, <2>2, StoredLasts DEF Lasting
    <3> QED BY <1>0, <2>0, <2>2, <3>1 DEF WorksAt, Going, Archiving, Ending, Resetting, Saving, Git
  <2>3. CASE /\ Fresh(p) /\ Unexpected(view[p]) = {} /\ at'[p] = "so-retire"
             /\ so' = Append(so, [view[p].so EXCEPT !.status = "running"])
             /\ known' = known \cup branches[head] \cup dirty /\ UNCHANGED <<branches, head, dirty, aside>>
             /\ view' = [view EXCEPT ![p] = [view[p] EXCEPT !.id = Len(so'), !.tree = {}, !.pushed = FALSE]]
    <3> DEFINE r == [view[p].so EXCEPT !.status = "running"]
    <3>1. r \in OpRow /\ r.action = view[p].so.action
      BY <1>0 DEF KnowsAt, OpRow
    <3>2. Len(so) = 0 /\ known = {} /\ First \notin DOMAIN branches
      BY <1>0, <2>0, <2>3 DEF WorksAt, Stored
    <3>3. Len(so') = 1 /\ so'[1] = r
      BY <1>0, <2>3, <3>1, <3>2, AppendProperties DEF r
    <3> HIDE DEF r
    <3>4. view'[p].so = view[p].so /\ view'[p].id = Len(so')
      BY <1>0, <2>3 DEF KnowsAt, Shaped
    <3>5. r.action = "archive-restart" => dirty \cap Initial = {}
      BY <2>3, <3>1 DEF Unexpected
    <3>6. Stored'
      <4>1. Kept' \subseteq branches[head] \cup dirty /\ head \in DOMAIN branches
        BY <1>0, <2>3, <3>2 DEF Stored, Kept
      <4>2. Stores' = Stores /\ Source' = head /\ branches[head] \subseteq UNION {branches[b] : b \in DOMAIN branches}
        BY <2>3, <3>2, <4>1 DEF Stores, Source
      <4>3. Kept' \subseteq Stores'
        BY <4>1, <4>2 DEF Stores
      <4>4. so'[1].action = "archive-restart" => Kept' \subseteq branches[head] \cup (dirty \ Initial)
        BY <3>3, <3>5, <4>1
      <4> QED BY <2>3, <3>3, <4>1, <4>2, <4>3, <4>4 DEF Stored
    <3>7. at'[p] \notin {"so-preview", "so-cleaned"} \cup Git
      BY <2>3 DEF Git
    <3>8. Len(so') = 1 /\ view'[p].id = 1 /\ view'[p].so.action = so'[1].action
      BY <3>1, <3>3, <3>4
    <3> QED BY <3>6, <3>7, <3>8 DEF WorksAt, Git
  <2> QED
    <3>1. at'[p] \in {"leave", "so-retire"}
      BY <1>4 DEF Confirm, Goto, BInv, RInv, Placed
    <3>2. ~Fresh(p) => at'[p] = "so-retire" /\ so' = so /\ repo' = repo
                       /\ view'[p].so = view[p].so /\ view'[p].id = view[p].id
      BY <1>0, <1>4 DEF Confirm, View, Goto, BInv, RInv, Placed, repo, KnowsAt, Shaped
    <3>3. Fresh(p) /\ view[p].tree # Tree => at'[p] = "leave" /\ so' = so /\ repo' = repo
      BY <1>4 DEF Confirm, Goto, BInv, RInv, Placed, repo
    <3>4. Fresh(p) /\ view[p].tree = Tree =>
             /\ Unexpected(view[p]) = {} /\ at'[p] = "so-retire"
             /\ so' = Append(so, [view[p].so EXCEPT !.status = "running"])
             /\ known' = known \cup branches[head] \cup dirty /\ UNCHANGED <<branches, head, dirty, aside>>
             /\ view' = [view EXCEPT ![p] = [view[p] EXCEPT !.id = Len(so'), !.tree = {}, !.pushed = FALSE]]
      BY <1>4 DEF Confirm, View, Goto, BInv, RInv, Placed
    <3> QED BY <2>1, <2>2, <2>3, <3>2, <3>3, <3>4
<1>5. CASE Retire(p) \/ Admit(p)
  <2>1. /\ at[p] \in {"so-retire", "so-admit"} /\ So(p) /\ view' = view /\ repo' = repo
        /\ at'[p] \in {"leave", "so-admit", "so-recollect", "so-reset", "so-plan"}
        /\ so' = so \/ so' = [so EXCEPT ![view[p].id].status = "paused"]
    BY <1>5 DEF Retire, Admit, Refused, Goto, BInv, RInv, Placed, Mine, MineAt, Asking, So
  <2>2. Len(so) = 1 /\ view[p].id = 1 /\ view[p].so.action = so[1].action
    BY <1>0, <2>1 DEF WorksAt, Going
  <2>3. 1 \in DOMAIN so /\ so[1] \in OpRow
    <3>1. 1 \in 1..Len(so)
      BY <1>0, <2>2
    <3> QED BY <1>0, <3>1
  <2>4. Lasting
    <3>1. CASE so' = [so EXCEPT ![1] = [so[1] EXCEPT !.status = "paused"]]
      <4>1. [so[1] EXCEPT !.status = "paused"] \in OpRow
        BY <2>3 DEF OpRow
      <4>2. Len(so') = Len(so) /\ so'[1] = [so[1] EXCEPT !.status = "paused"]
        BY <1>0, <2>2, <2>3, <3>1, <4>1, ExceptSeq
      <4> QED BY <2>3, <4>2 DEF Lasting, OpRow
    <3> QED BY <2>1, <2>2, <3>1 DEF Lasting
  <2>5. Stored'
    BY <1>0, <2>1, <2>4, StoredLasts
  <2> QED BY <2>1, <2>2, <2>4, <2>5 DEF WorksAt, Lasting, Going, Archiving, Ending, Resetting, Saving, Git
<1> QED BY <1>1, <1>2, <1>3, <1>4, <1>5 DEF Asks

(* A branch is checked out: nothing is lost.                               *)
LEMMA Switched ==
  ASSUME NEW b, NEW start, Switch(b, start), dirty' = dirty
  PROVE  /\ head' = b /\ DOMAIN branches' = DOMAIN branches \cup {b} /\ Stores \subseteq Stores'
         /\ \A c \in DOMAIN branches : branches'[c] = branches[c]
         /\ b \notin DOMAIN branches => branches'[b] = start
BY DEF Switch, Stores

(* The work is archived, or left where it is.                              *)
LEMMA ArchivesWork ==
  ASSUME BInv, BInv', One', Works, NEW p \in Proc, Archives(p)
  PROVE  Works'
<1>0. /\ so \in Seq(OpRow) /\ Len(so) \in Nat /\ DOMAIN so = 1..Len(so) /\ KnowsAt(p)
      /\ DOMAIN view = Proc /\ Stored /\ WorksAt(p)
  BY LenProperties DEF BInv, VInv, OpRows, Works
<1>1. at[p] \in Archiving /\ So(p) /\ So(p)'
  BY DEF Archives, Recollect, Plan, Switching, GitSwitch, GitCommit, GitBack, GitReset,
    GitFresh, GitFails, RestoreFiles, Preserve, BInv, RInv, Mine, MineAt, Archiving, Git, So
<1>2. Len(so) = 1 /\ view[p].id = 1 /\ view[p].so.action = so[1].action
  BY <1>0, <1>1 DEF WorksAt, Going
<1>3. 1 \in DOMAIN so /\ so[1] \in OpRow
  <2>1. 1 \in 1..Len(so)
    BY <1>2
  <2> QED BY <1>0, <2>1
<1> SUFFICES Stored' /\ WorksAt(p)'
  BY <1>1, OwnWorks
<1>4. CASE Recollect(p) \/ RestoreFiles(p) \/ GitFails(p)
  <2>1. /\ so' = so /\ view' = view /\ repo' = repo
        /\ at'[p] \in {"so-plan", "so-preserve", "so-fail"}
    BY <1>4 DEF Recollect, RestoreFiles, GitFails, Goto, BInv, RInv, Placed
  <2>2. Stored'
    BY <1>0, <2>1, StoredLasts DEF Lasting
  <2> QED BY <1>2, <2>1, <2>2 DEF WorksAt, Git
<1>5. CASE Plan(p)
  <2> DEFINE r == [so[1] EXCEPT !.preserved = FALSE, !.planned = None, !.reset = FALSE]
  <2>1. r \in OpRow /\ r.action = so[1].action
    BY <1>3 DEF OpRow
  <2>2. so' = [so EXCEPT ![1] = r] /\ repo' = repo
    BY <1>2, <1>5 DEF Plan
  <2>3. /\ at'[p] \in {"so-preserve", "git-fresh", "git-switch"}
        /\ at'[p] = "git-fresh" => view[p].so.action # "archive-restart"
    BY <1>5 DEF Plan, Goto, BInv, RInv, Placed
  <2>4. view'[p].so = view[p].so /\ view'[p].id = view[p].id
    BY <1>0, <1>5 DEF Plan, View, KnowsAt, Shaped
  <2> HIDE DEF r
  <2>5. Len(so') = 1 /\ so'[1] = r
    BY <1>0, <1>2, <1>3, <2>1, <2>2, ExceptSeq
  <2>6. Stored'
    BY <1>0, <1>2, <2>1, <2>2, <2>5, StoredLasts DEF Lasting
  <2> QED BY <1>2, <2>1, <2>3, <2>4, <2>5, <2>6 DEF WorksAt, Git
<1>6. CASE GitSwitch(p)
  <2>1. /\ Switch(First, branches[head]) /\ so' = so /\ view' = view /\ at'[p] = "git-commit"
        /\ UNCHANGED <<dirty, known, aside>>
    BY <1>2, <1>6 DEF GitSwitch, Goto, BInv, RInv, Placed, First
  <2>2. Stores \subseteq Stores' /\ head' = First /\ First \in DOMAIN branches' /\ branches'[First] = branches[Source]
    BY <2>1, Switched DEF Source
  <2>3. Stored'
    <3>1. Source' = First /\ Kept' = Kept
      BY <2>1, <2>2 DEF Source, Kept
    <3>2. Kept' \subseteq Stores'
      BY <1>0, <2>2, <3>1 DEF Stored
    <3>3. so[1].action = "archive-restart" => Kept \subseteq branches[Source] \cup (dirty \ Initial)
      BY <1>0, <1>2 DEF Stored
    <3>4. so'[1].action = "archive-restart" => Kept' \subseteq branches'[Source'] \cup (dirty' \ Initial)
      BY <2>1, <2>2, <3>1, <3>3
    <3>5. Len(so') = 1 /\ head' \in DOMAIN branches'
      BY <1>2, <2>1, <2>2
    <3> QED BY <3>2, <3>4, <3>5 DEF Stored
  <2> QED BY <1>2, <2>1, <2>2, <2>3 DEF WorksAt, Git
<1>7. CASE GitCommit(p)
  <2> DEFINE d == Archived(view[p].so.action)
  <2>1. /\ branches' = [branches EXCEPT ![First] = @ \cup d] /\ dirty' = dirty \ d /\ head = First
        /\ so' = so /\ view' = view /\ UNCHANGED <<head, known, aside>> /\ First \in DOMAIN branches
        /\ d \subseteq dirty
    BY <1>0, <1>1, <1>7 DEF GitCommit, WorksAt, Stored, Archived
  <2>2. at'[p] = IF so[1].action = "archive-restart" THEN "git-back" ELSE "git-fresh"
    BY <1>2, <1>7 DEF GitCommit, Goto, BInv, RInv, Placed
  <2>3. so[1].action = "archive-restart" => d = dirty \ Initial
    BY <1>2 DEF Archived
  <2> HIDE DEF d
  <2>4. Stores \subseteq Stores'
    <3>1. DOMAIN branches' = DOMAIN branches /\ branches'[First] = branches[First] \cup d
          /\ \A b \in DOMAIN branches : branches[b] \subseteq branches'[b]
      BY <2>1
    <3> QED BY <2>1, <3>1 DEF Stores
  <2>5. so[1].action = "archive-restart" => First \in DOMAIN branches' /\ Kept' \subseteq branches'[First]
    BY <1>0, <1>2, <2>1, <2>3 DEF Stored, Kept, Source
  <2>6. Stored'
    BY <1>0, <1>2, <2>1, <2>4, <2>5 DEF Stored, Kept, Source
  <2> QED BY <1>2, <2>1, <2>2, <2>5, <2>6 DEF WorksAt, Git
<1>8. CASE GitBack(p)
  <2>1. /\ Switch(Original, {}) /\ so' = so /\ view' = view /\ at'[p] = "git-reset"
        /\ UNCHANGED <<dirty, known, aside>> /\ First \in DOMAIN branches /\ Kept \subseteq branches[First]
        /\ so[1].action = "archive-restart"
    BY <1>0, <1>1, <1>8 DEF GitBack, Goto, BInv, RInv, Placed, WorksAt
  <2>2. Stores \subseteq Stores' /\ head' = Original /\ DOMAIN branches' = DOMAIN branches \cup {Original}
        /\ branches'[First] = branches[First]
    BY <2>1, Switched
  <2>3. Stored'
    BY <1>0, <1>2, <2>1, <2>2 DEF Stored, Kept, Source
  <2> QED BY <1>2, <2>1, <2>2, <2>3 DEF WorksAt, Git, Kept
<1>9. CASE GitReset(p)
  <2>1. /\ branches' = [branches EXCEPT ![Original] = {}] /\ so' = so /\ view' = view /\ at'[p] = "so-restore"
        /\ UNCHANGED <<head, known, aside>> /\ First \in DOMAIN branches /\ Kept \subseteq branches[First]
        /\ head \in DOMAIN branches
    BY <1>0, <1>1, <1>9 DEF GitReset, Goto, BInv, RInv, Placed, WorksAt, Stored
  <2>2. First # Original
    BY DEF First, Archive, Original
  <2>3. DOMAIN branches' = DOMAIN branches /\ branches'[First] = branches[First]
    BY <2>1, <2>2
  <2>4. Kept' \subseteq branches'[First] /\ Kept' \subseteq Stores'
    BY <2>1, <2>3 DEF Kept, Stores
  <2>5. Stored'
    <3>1. Source' = First /\ Len(so') = 1 /\ head' \in DOMAIN branches'
      BY <1>2, <2>1, <2>3 DEF Source
    <3> QED BY <2>4, <3>1 DEF Stored
  <2> QED BY <1>2, <2>1, <2>5 DEF WorksAt, Git
<1>10. CASE GitFresh(p)
  <2>1. /\ Switch(Restart, {}) /\ so' = so /\ view' = view /\ at'[p] = "so-restore"
        /\ UNCHANGED <<dirty, known, aside>> /\ so[1].action # "archive-restart"
    BY <1>0, <1>1, <1>10 DEF GitFresh, Goto, BInv, RInv, Placed, WorksAt
  <2>2. Stores \subseteq Stores' /\ head' = Restart /\ DOMAIN branches' = DOMAIN branches \cup {Restart}
    BY <2>1, Switched
  <2>3. Stored'
    <3>1. Kept' = Kept /\ Len(so') = 1 /\ so'[1].action # "archive-restart" /\ head' \in DOMAIN branches'
      BY <1>2, <2>1, <2>2 DEF Kept
    <3>2. Kept' \subseteq Stores'
      BY <1>0, <2>2, <3>1 DEF Stored
    <3> QED BY <3>1, <3>2 DEF Stored
  <2> QED BY <1>2, <2>1, <2>3 DEF WorksAt, Git
<1>11. ASSUME NEW o \in Planned, Preserve(p, o) PROVE Stored' /\ WorksAt(p)'
  <2> DEFINE r == [so[1] EXCEPT !.preserved = TRUE, !.planned = o, !.reset = FALSE]
  <2>1. r \in OpRow /\ r.action = so[1].action
    BY <1>3 DEF OpRow
  <2>2. so' = [so EXCEPT ![1] = r] /\ repo' = repo /\ at'[p] = "so-reset"
    BY <1>2, <1>11 DEF Preserve, Record, Goto, BInv, RInv, Placed
  <2>3. view'[p].so = r /\ view'[p].id = view[p].id
    BY <1>0, <1>2, <1>11 DEF Preserve, Record, View, KnowsAt, Shaped
  <2> HIDE DEF r
  <2>4. Len(so') = 1 /\ so'[1] = r
    BY <1>0, <1>2, <1>3, <2>1, <2>2, ExceptSeq
  <2>5. Stored'
    BY <1>0, <1>2, <2>1, <2>2, <2>4, StoredLasts DEF Lasting
  <2> QED BY <1>2, <2>2, <2>3, <2>4, <2>5 DEF WorksAt, Git
<1> QED BY <1>4, <1>5, <1>6, <1>7, <1>8, <1>9, <1>10, <1>11 DEF Archives, Switching

(* The operation ends or fails, and keeps its action.                      *)
LEMMA EndsWork ==
  ASSUME BInv, BInv', One', Works, NEW p \in Proc, Ends(p)
  PROVE  Works'
<1>0. /\ so \in Seq(OpRow) /\ Len(so) \in Nat /\ DOMAIN so = 1..Len(so) /\ KnowsAt(p)
      /\ DOMAIN view = Proc /\ Stored /\ WorksAt(p)
  BY LenProperties DEF BInv, VInv, OpRows, Works
<1>1. /\ at[p] \in {"so-reset-done", "so-supersede", "so-complete", "so-fail"} /\ So(p) /\ So(p)'
      /\ repo' = repo /\ at'[p] \in {"so-supersede", "save-rename", "release"}
  BY DEF Ends, ResetDone, Supersede, Complete, Fail, Goto, BInv, RInv, Placed, Mine, MineAt, Ending, So
<1>2. Len(so) = 1 /\ view[p].id = 1 /\ view[p].so.action = so[1].action
  BY <1>0, <1>1 DEF WorksAt, Going, Ending
<1>3. 1 \in DOMAIN so /\ so[1] \in OpRow /\ view[p].so \in OpRow
  <2>1. 1 \in 1..Len(so)
    BY <1>2
  <2> QED BY <1>0, <2>1 DEF KnowsAt
<1>4. ASSUME NEW r \in OpRow, so' = [so EXCEPT ![1] = r], r.action = so[1].action,
             view'[p].id = 1, view'[p].so.action = r.action
      PROVE  Works'
  <2>1. Len(so') = 1 /\ so'[1] = r
    BY <1>0, <1>2, <1>3, <1>4, ExceptSeq
  <2>2. Stored'
    BY <1>0, <1>1, <1>2, <1>4, <2>1, StoredLasts DEF Lasting
  <2>3. WorksAt(p)'
    BY <1>1, <1>4, <2>1 DEF WorksAt, Git
  <2> QED BY <1>1, <2>2, <2>3, OwnWorks
<1>5. CASE ResetDone(p)
  <2> DEFINE r == [so[1] EXCEPT !.preserved = TRUE, !.planned = view[p].so.planned, !.reset = TRUE]
  <2>1. r \in OpRow /\ r.action = so[1].action
    BY <1>3 DEF OpRow
  <2>2. so' = [so EXCEPT ![1] = r] /\ view'[p].so = r /\ view'[p].id = 1
    BY <1>0, <1>2, <1>5 DEF ResetDone, Record, View, KnowsAt, Shaped
  <2> HIDE DEF r
  <2> QED BY <1>4, <2>1, <2>2
<1>6. CASE Supersede(p)
  <2>1. so' = so /\ view' = view
    BY <1>6 DEF Supersede
  <2>2. Stored'
    BY <1>0, <1>1, <2>1, StoredLasts DEF Lasting
  <2>3. WorksAt(p)'
    BY <1>1, <1>2, <2>1 DEF WorksAt, Git
  <2> QED BY <1>1, <2>2, <2>3, OwnWorks
<1>7. CASE Complete(p) \/ Fail(p)
  <2>1. /\ view' = view
        /\ \/ so' = [so EXCEPT ![1] = [view[p].so EXCEPT !.status = "completed", !.planned = None]]
           \/ so' = [so EXCEPT ![1] = so[1]]
           \/ so' = [so EXCEPT ![1] = [view[p].so EXCEPT !.status = "paused"]]
    BY <1>2, <1>7 DEF Complete, Fail
  <2>2. PICK r \in OpRow : so' = [so EXCEPT ![1] = r] /\ r.action = so[1].action
    <3>1. \A s \in {"completed", "paused"} :
            /\ [view[p].so EXCEPT !.status = s] \in OpRow
            /\ [view[p].so EXCEPT !.status = s, !.planned = None] \in OpRow
            /\ [view[p].so EXCEPT !.status = s].action = so[1].action
            /\ [view[p].so EXCEPT !.status = s, !.planned = None].action = so[1].action
      BY <1>2, <1>3 DEF OpRow
    <3> QED BY <1>3, <2>1, <3>1
  <2> QED BY <1>2, <1>4, <2>1, <2>2
<1> QED BY <1>5, <1>6, <1>7 DEF Ends

(* The run's file, and builds: a later one may commit.                     *)
LEMMA SavesWork ==
  ASSUME BInv, BInv', One', Works, NEW p \in Proc, Saves(p) \/ Builds(p), Elsewhere(p)
  PROVE  Works'
<1>1. so' = so /\ view' = view /\ Stored /\ WorksAt(p) /\ Len(so) \in Nat
  BY SavesKnown, LenProperties DEF BInv, VInv, OpRows, Works
<1>2. CASE Saves(p)
  <2>1. /\ at[p] \in Saving /\ cmd' = cmd /\ repo' = repo
        /\ at'[p] \in {"save-settle", "so-complete", "release"}
    BY <1>2 DEF Saves, SaveRename, SaveSettle, Goto, BInv, RInv, Placed, Saving
  <2>2. CASE So(p)
    <3>1. Stored'
      BY <1>1, <2>1, StoredLasts DEF Lasting
    <3>2. WorksAt(p)'
      BY <1>1, <2>1, <2>2 DEF WorksAt, Going, Git
    <3> QED BY <2>1, <2>2, <3>1, <3>2, OwnWorks DEF So
  <2>3. CASE ~So(p)
    BY <1>1, <2>1, <2>3, OthersWork DEF BInv, So, repo
  <2> QED BY <2>2, <2>3
<1>3. CASE Builds(p)
  <2>1. ~So(p)' /\ UNCHANGED <<head, known, aside, dirty>>
    BY <1>3 DEF Builds, BuildBegin, BuildWork, Enter, BInv, RInv, Placed, Mine, MineAt, So, repo
  <2>2. branches' = branches \/ (at[p] \in Owning /\ branches' = [branches EXCEPT ![head] = @ \cup {"new"}])
    BY <1>3 DEF Builds, BuildBegin, BuildWork, Owning, repo
  <2> QED BY <1>1, <2>1, <2>2, OthersWork DEF BInv
<1> QED BY <1>2, <1>3

(* The tracker's commands, and the steps of a reset.                       *)
LEMMA TrackersWork ==
  ASSUME BInv, BInv', One', Works, NEW p \in Proc, TrackerStep(p), Tracker(p), Elsewhere(p)
  PROVE  Works'
<1>1. Stored /\ WorksAt(p) /\ Len(so) \in Nat
  BY LenProperties DEF BInv, VInv, OpRows, Works
<1>2. CASE ~So(p)'
  <2>1. Unseen(p)
    BY Bystander, OwnTracker DEF BInv
  <2> QED BY <1>2, <2>1, OthersWork DEF BInv, Unseen, repo
<1>3. CASE So(p)'
  <2>1. So(p)
    BY <1>3, Bystander DEF BInv
  <2>2. Unseen(p) /\ \/ at[p] \in Resetting /\ at'[p] \in Resetting /\ view' = view
                     \/ at'[p] = "leave"
    BY <1>3, <2>1, OwnTracker DEF ResetCommit, ResetStage, ResetPublish, Goto, BInv, RInv, Placed,
      Resetting, So, None
  <2>3. Stored'
    BY <1>1, <2>2, StoredLasts DEF Lasting, Unseen
  <2>4. WorksAt(p)'
    BY <1>1, <2>1, <2>2 DEF WorksAt, Unseen, Going, Resetting, Saving, Archiving, Git, Ending
  <2> QED BY <1>3, <2>3, <2>4, OwnWorks
<1> QED BY <1>2, <1>3

LEMMA OwnResetsWork ==
  ASSUME BInv, One', Works, NEW p \in Proc, So(p), OwnReset(p), ResetTickets(p) \/ Tracker(p)
  PROVE  Works'
<1>1. Stored /\ WorksAt(p) /\ Len(so) \in Nat /\ Unseen(p) /\ view' = view
  BY OwnResetsKnown, LenProperties DEF BInv, VInv, OpRows, Works
<1>2. /\ cmd' = cmd /\ at[p] \in {"so-reset"} \cup Resetting
      /\ at'[p] \in {"so-supersede", "so-reset-done", "leave", "reset-commit", "so-fail"}
  <2>1. at[p] = "so-reset" => view[p].so.planned \in Planned
    BY DEF BInv, VInv, KnowsAt
  <2> QED BY <2>1, OwnResets DEF BInv, So, OwnReset, ResetTickets, ResetClose, ResetFails, Resetting
<1>3. Stored'
  BY <1>1, StoredLasts DEF Lasting, Unseen
<1>4. WorksAt(p)'
  BY <1>1, <1>2 DEF WorksAt, Unseen, So, Going, Resetting, Saving, Archiving, Git, Ending
<1> QED BY <1>2, <1>3, <1>4, OwnWorks DEF So

(* As long as no two processes were at start-overs at once, what a         *)
(* confirmed start-over found is in a branch or the worktree, unless the   *)
(* operator had it stashed or discarded: in whatever order steps, deaths,  *)
(* resumes, edits, populations, resets and later builds come.              *)
THEOREM WorkIsPreserved == SSpec => []WorkPreserved
<1>1. SInit => WInv
  <2> SUFFICES ASSUME SInit PROVE One /\ Works
    BY DEF WInv
  <2>1. \A p \in Proc : ~So(p)
    BY DEF SInit, Populated, So, None
  <2>2. Len(so) = 0 /\ known = {} /\ head \in DOMAIN branches /\ First \notin DOMAIN branches
    BY EmptySeq DEF SInit, First, Archive, Original
  <2> QED BY <2>1, <2>2 DEF One, Works, WorksAt, Stored, Kept
<1>2. BInv /\ BInv' /\ EInv /\ WInv /\ [SNext]_svars => WInv'
  <2> SUFFICES ASSUME BInv, BInv', EInv, WInv, [SNext]_svars, "start-over" \notin crossed'
               PROVE  One' /\ Works'
    BY DEF WInv
  <2>1. CASE UNCHANGED svars
    <3>1. One /\ Works
      BY <2>1 DEF WInv, svars
    <3> QED BY <2>1, <3>1 DEF svars, tvars, local, repo, One, Works, WorksAt, Stored, Kept, Stores,
      Source, So, Fresh
  <2>2. CASE SNext
    <3>1. One /\ Works /\ One'
      <4>1. "start-over" \notin crossed /\ "start-over" \notin Crossing'
        BY <2>2 DEF SNext
      <4>2. ~\E p, q \in Proc : p # q /\ StartingOver(p)' /\ StartingOver(q)'
        BY <4>1 DEF Crossing
      <4>3. \A p \in Proc : So(p)' => StartingOver(p)'
        BY DEF BInv, RInv, Mine, MineAt, So, StartingOver, None
      <4> QED BY <4>1, <4>2, <4>3 DEF WInv, One
    <3>2. ASSUME NEW p \in Proc, TrackerStep(p), Tracker(p) PROVE Works'
      BY <3>1, <3>2, TrackersWork, TrackerKeeps DEF BInv, Local
    <3>3. ASSUME NEW p \in Proc, So(p), OwnReset(p), ResetTickets(p) \/ Tracker(p) PROVE Works'
      BY <3>1, <3>3, OwnResetsWork
    <3>4. ASSUME NEW p \in Proc, Asks(p) \/ Archives(p) \/ Ends(p) \/ Saves(p) \/ Builds(p), Modest(p)
          PROVE  Works'
      BY <3>1, <3>4, AsksWork, ArchivesWork, EndsWork, SavesWork DEF Modest
    <3>5. ASSUME NEW w \in {"fix", "touch"}, Edit(w), Unmoved PROVE Works'
      <4>1. /\ dirty \subseteq dirty' /\ UNCHANGED <<branches, head, aside, known, so, view, at, cmd>>
        BY <3>5 DEF Edit, Unmoved, local
      <4>2. Stored'
        BY <3>1, <4>1 DEF Works, Stored, Kept, Stores, Source
      <4> QED BY <3>1, <4>1, <4>2 DEF Works, WorksAt, So, Fresh, Kept
    <3> QED BY <2>2, <3>1, <3>2, <3>3, <3>4, <3>5, StartSteps DEF BInv
  <2> QED BY <2>1, <2>2
<1>3. WInv => WorkPreserved
  BY DEF WInv, Works, Stored, Kept, Stores, WorkPreserved
<1> QED BY <1>1, <1>2, <1>3, BesideInvariant, SettledInvariant, PTL DEF SSpec

=============================================================================
