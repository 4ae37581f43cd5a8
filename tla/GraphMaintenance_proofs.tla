----------------------- MODULE GraphMaintenance_proofs -----------------------
(***************************************************************************)
(* Publication in fence order and the directories of heads, for any number *)
(* of processes and scopes.                                                *)
(*                                                                         *)
(* A generation is published under the lease of its scope as it is at that *)
(* moment, and publishing expires that lease.  So no published generation  *)
(* has a higher fence than the lease, and the one that has the same fence  *)
(* shows that the lease was used up (IInv).                                *)
(*                                                                         *)
(* A head that a pruning did not find when it began was published since.   *)
(* It is the newest of its scope, so the pruning keeps it unless there is  *)
(* no room beside the protected ones; and in one scope the refresh that    *)
(* published it had reserved that room, as nothing else is published while *)
(* it owns the lease (JInv).                                               *)
(***************************************************************************)
EXTENDS GraphMaintenance, FiniteSetTheorems, TLAPS

Working == {"read", "measure", "reserve", "stage", "extract", "rename", "publish", "finish"}

Behind ==
  \A g \in published :
    /\ g[2] <= lease[g[1]].fence
    /\ g[2] = lease[g[1]].fence => ~lease[g[1]].live

LeaseType == lease \in [Scope -> [fence : 0 .. MaxFence, live : BOOLEAN]]
AtType    == at \in [Proc -> Working \cup {"idle", "sweep", "list", "remove"}]
MyType    == my \in [Proc -> Generation \cup {NoLease}]
Named     == \A p \in Proc : at[p] \in Working => my[p] \in Generation

IInv == LeaseType /\ AtType /\ MyType /\ Named /\ published \subseteq Generation /\ Behind

(* The expiry of a lease changes no fence and revives no lease.            *)
LEMMA ExpiryOnly ==
  ASSUME LeaseType, NEW g \in Generation, Expired(g)
  PROVE  /\ LeaseType'
         /\ \A s \in Scope : lease'[s].fence = lease[s].fence /\ (lease'[s].live => lease[s].live)
         /\ g[2] = lease[g[1]].fence => ~lease'[g[1]].live
BY DEF LeaseType, Expired, Generation

LEMMA InitHolds == Init => IInv
BY Bounds DEF Init, IInv, LeaseType, AtType, MyType, Named, Behind, Generation, NoLease, Working

LEMMA StepHolds == IInv /\ [Next]_gvars => IInv'
<1> SUFFICES ASSUME IInv, [Next]_gvars PROVE IInv'
  OBVIOUS
<1> USE Bounds DEF IInv
<1>1. CASE UNCHANGED gvars
  BY <1>1 DEF gvars, records, disk, refresh, pruning, LeaseType, AtType, MyType, Named, Behind
<1>2. ASSUME NEW p \in Proc, NEW s \in Scope, Acquire(p, s) PROVE IInv'
  <2>1. /\ LeaseType' /\ lease'[s].fence = lease[s].fence + 1
        /\ \A r \in Scope : r # s => lease'[r] = lease[r]
    BY <1>2 DEF Acquire, LeaseType
  <2>2. <<s, lease[s].fence + 1>> \in Generation
    BY <1>2 DEF Acquire, LeaseType, Generation
  <2>3. AtType' /\ MyType' /\ Named'
    BY <1>2, <2>2 DEF Acquire, AtType, MyType, Named, Goto, Working
  <2>4. published' = published
    BY <1>2 DEF Acquire, records
  <2>5. Behind'
    <3> SUFFICES ASSUME NEW g \in published
                 PROVE  g[2] <= lease'[g[1]].fence
                        /\ (g[2] = lease'[g[1]].fence => ~lease'[g[1]].live)
      BY <2>4 DEF Behind
    <3>1. g[1] \in Scope /\ g[2] \in Nat
      BY DEF Generation
    <3>2. CASE g[1] = s
      BY <2>1, <3>1, <3>2 DEF Behind, LeaseType
    <3>3. CASE g[1] # s
      BY <2>1, <3>1, <3>3 DEF Behind
    <3> QED BY <3>2, <3>3
  <2> QED BY <2>1, <2>3, <2>4, <2>5
<1>3. ASSUME NEW p \in Proc, \/ ReadHead(p) \/ Measure(p) \/ Reserve(p) \/ Stage(p) \/ Extract(p)
                             \/ GiveUp(p) \/ Rename(p)
      PROVE  IInv'
  <2>1. lease' = lease /\ published' = published /\ my' = my
    BY <1>3 DEF ReadHead, Measure, Reserve, Stage, Extract, GiveUp, Rename, records, refresh
  <2>2. at[p] \in Working /\ \E pc \in Working : at' = [at EXCEPT ![p] = pc]
    BY <1>3 DEF ReadHead, Measure, Reserve, Stage, Extract, GiveUp, Rename, Checked, Goto,
      Working
  <2>3. AtType' /\ Named'
    BY <2>1, <2>2 DEF AtType, Named, MyType
  <2> QED BY <2>1, <2>3 DEF LeaseType, MyType, Behind
<1>4. ASSUME NEW p \in Proc, Publish(p) PROVE IInv'
  <2>1. my[p] \in Generation /\ my' = my
    BY <1>4 DEF Publish, Named, Working, refresh
  <2>2. AtType' /\ Named'
    BY <1>4, <2>1 DEF Publish, Goto, AtType, Named, Working
  <2>3. CASE MayPublish(p)
    <3>1. Expired(my[p]) /\ published' = published \cup {my[p]}
      BY <1>4, <2>3 DEF Publish
    <3>2. /\ LeaseType'
          /\ \A s \in Scope : lease'[s].fence = lease[s].fence /\ (lease'[s].live => lease[s].live)
          /\ my[p][2] = lease[my[p][1]].fence => ~lease'[my[p][1]].live
      BY <2>1, <3>1, ExpiryOnly
    <3>3. my[p][2] = lease[my[p][1]].fence /\ my[p][1] \in Scope /\ my[p][2] \in Nat
      BY <2>1, <2>3 DEF MayPublish, Owns, Generation
    <3>4. Behind'
      <4> SUFFICES ASSUME NEW g \in published \cup {my[p]}
                   PROVE  g[2] <= lease'[g[1]].fence
                          /\ (g[2] = lease'[g[1]].fence => ~lease'[g[1]].live)
        BY <3>1 DEF Behind
      <4>1. CASE g = my[p]
        BY <3>2, <3>3, <4>1
      <4>2. CASE g \in published
        BY <3>2, <4>2 DEF Behind, Generation
      <4> QED BY <4>1, <4>2
    <3> QED BY <2>1, <2>2, <3>1, <3>2, <3>4 DEF MyType
  <2>4. CASE ~MayPublish(p)
    BY <1>4, <2>1, <2>2, <2>4 DEF Publish, LeaseType, MyType, Behind
  <2> QED BY <2>3, <2>4
<1>5. ASSUME NEW p \in Proc, Finish(p) PROVE IInv'
  <2>1. my[p] \in Generation /\ published' = published /\ Expired(my[p])
    BY <1>5 DEF Finish, Named, Working
  <2>2. LeaseType' /\ \A s \in Scope : lease'[s].fence = lease[s].fence
        /\ (lease'[s].live => lease[s].live)
    BY <2>1, ExpiryOnly
  <2>3. AtType' /\ MyType' /\ Named'
    BY <1>5 DEF Finish, Goto, AtType, MyType, Named, Working
  <2>4. Behind'
    BY <2>1, <2>2 DEF Behind, Generation
  <2> QED BY <2>1, <2>2, <2>3, <2>4
<1>6. ASSUME NEW p \in Proc, PruneSnapshot(p) \/ PruneStages(p) \/ PruneList(p) \/ PruneRemove(p)
      PROVE IInv'
  <2>1. lease' = lease /\ published' = published /\ my' = my
    BY <1>6 DEF PruneSnapshot, PruneStages, PruneList, PruneRemove, records, refresh
  <2>2. \E pc \in {"idle", "sweep", "list", "remove"} : at' = [at EXCEPT ![p] = pc]
    BY <1>6 DEF PruneSnapshot, PruneStages, PruneList, PruneRemove, Goto, AtType
  <2>3. AtType' /\ Named'
    BY <2>1, <2>2 DEF AtType, Named, Working
  <2> QED BY <2>1, <2>3 DEF LeaseType, MyType, Behind
<1>7. ASSUME NEW p \in Proc, Crash(p) PROVE IInv'
  <2>1. lease' = lease /\ published' = published
    BY <1>7 DEF Crash, records
  <2>2. AtType' /\ MyType' /\ Named'
    BY <1>7 DEF Crash, Goto, AtType, MyType, Named, Working
  <2> QED BY <2>1, <2>2 DEF LeaseType, Behind
<1>8. ASSUME NEW s \in Scope, Expire(s) PROVE IInv'
  <2>1. /\ LeaseType' /\ published' = published /\ at' = at /\ my' = my
        /\ \A r \in Scope : lease'[r].fence = lease[r].fence /\ (lease'[r].live => lease[r].live)
    BY <1>8 DEF Expire, LeaseType, records, refresh
  <2> QED BY <2>1 DEF AtType, MyType, Named, Behind, Generation
<1>9. ASSUME NEW s \in Scope, Invalidate(s) PROVE IInv'
  BY <1>9 DEF Invalidate, refresh, LeaseType, AtType, MyType, Named, Behind
<1> QED BY <1>1, <1>2, <1>3, <1>4, <1>5, <1>6, <1>7, <1>8, <1>9 DEF Next

(* In every behaviour no published generation is ahead of its scope's      *)
(* lease, and one that is level with it has used it up.                    *)
THEOREM NeverAhead == Spec => []IInv
BY InitHolds, StepHolds, PTL DEF Spec

(* A step that publishes does so with a fence above those of every         *)
(* generation of the scope.                                                *)
LEMMA StepInOrder ==
  IInv /\ [Next]_gvars =>
    [\A g \in published' \ published, h \in published : h[1] = g[1] => h[2] < g[2]]_published
<1> SUFFICES ASSUME IInv, [Next]_gvars, published' # published,
                    NEW g \in published' \ published, NEW h \in published, h[1] = g[1]
             PROVE  h[2] < g[2]
  OBVIOUS
<1>1. PICK p \in Proc : Publish(p) /\ MayPublish(p)
  BY DEF Next, gvars, records, disk, refresh, pruning, Acquire, ReadHead, Measure, Reserve,
    Stage, Extract, GiveUp, Rename, Publish, Finish, PruneSnapshot, PruneStages, PruneList,
    PruneRemove, Crash, Expire, Invalidate
<1>2. g = my[p] /\ Owns(g)
  BY <1>1 DEF Publish, MayPublish
<1>3. h[2] \in Nat /\ g[2] \in Nat /\ h[2] <= lease[g[1]].fence /\ h[2] # lease[g[1]].fence
      /\ g[2] = lease[g[1]].fence
  <2>1. my[p] \in Generation
    BY <1>1 DEF IInv, Publish, Named, Working
  <2> QED BY <1>2, <2>1 DEF IInv, Behind, Owns, Generation
<1> QED BY <1>3

(* Generations of a scope are published in the order of their leases, for  *)
(* any number of processes, scopes and leases.                             *)
THEOREM PublicationInOrder == Spec => PublishedInOrder
BY NeverAhead, StepInOrder, PTL DEF Spec, PublishedInOrder

-----------------------------------------------------------------------------
(* Heads keep their directories, when there is one workspace or room for    *)
(* every generation.  Otherwise they may lose it: storage is measured       *)
(* before the transaction that reserves, and two workspaces may both find   *)
(* the room there was for one.                                              *)

Uncontended == \/ \A r, s \in Scope : r = s
         \/ Cardinality(Generation) <= Limit

Stores ==
  /\ dirs \subseteq Generation /\ stages \subseteq Generation /\ reserved \subseteq Generation
  /\ head \in [Scope -> 0 .. MaxFence]
  /\ used \in [Proc -> Nat]
  /\ DOMAIN safe = Proc /\ DOMAIN known = Proc /\ DOMAIN doomed = Proc

(* A generation at work has a name of its own, is not published, and once   *)
(* renamed nothing removes it.                                              *)
AtWork(p) ==
  at[p] \in Working =>
    /\ my[p][2] <= lease[my[p][1]].fence
    /\ \A q \in Proc \ {p} : at[q] \in Working => my[q] # my[p]
    /\ at[p] # "finish" => my[p] \notin published
    /\ at[p] = "publish" => my[p] \in dirs

(* A head is the newest generation published in its workspace.              *)
Newest ==
  \A h \in Heads : h \in published /\ h \in dirs /\ \A g \in published : g[1] = h[1] => g[2] <= h[2]

(* What a pruning will remove was published and is no head; a head it did   *)
(* not find was published after it began.                                   *)
PrunedAt(p) ==
  /\ doomed[p] \subseteq published /\ Heads \cap doomed[p] = {}
  /\ at[p] \in {"sweep", "list"} => known[p] \subseteq published
     /\ Heads \cap known[p] \subseteq safe[p]

(* In one workspace there is room for all that is published, and, once      *)
(* storage was reserved, for the generation to come.                        *)
Present == published \cap dirs
FitsAt(p) ==
  at[p] \in Working /\ Owns(my[p]) =>
    /\ at[p] = "reserve" => Cardinality(Present) <= used[p]
    /\ at[p] \in {"stage", "extract", "rename", "publish"} => Cardinality(Present) + 1 <= Limit
Fits == (\A r, s \in Scope : r = s) => Cardinality(Present) <= Limit /\ \A p \in Proc : FitsAt(p)

(* All of it.                                                               *)
JInv == Stores /\ (\A p \in Proc : AtWork(p)) /\ Newest /\ (\A p \in Proc : PrunedAt(p)) /\ Fits

(* Sets of generations are finite.                                          *)
LEMMA FiniteGenerations ==
  ASSUME IsFiniteSet(Scope)
  PROVE  /\ IsFiniteSet(Generation)
         /\ \A S \in SUBSET Generation :
              /\ IsFiniteSet(S) /\ Cardinality(S) \in Nat
              /\ \A T \in SUBSET S : Cardinality(T) <= Cardinality(S)
<1>1. IsFiniteSet(1 .. MaxFence)
  BY Bounds, FS_Interval
<1>2. IsFiniteSet(Generation)
  BY <1>1, FS_Product DEF Generation
<1>3. ASSUME NEW S \in SUBSET Generation
      PROVE  /\ IsFiniteSet(S) /\ Cardinality(S) \in Nat
             /\ \A T \in SUBSET S : Cardinality(T) <= Cardinality(S)
  BY <1>2, FS_Subset, FS_CardinalityType
<1> QED BY <1>2, <1>3

(* The stores keep their types.                                             *)
LEMMA StoresStep ==
  ASSUME IsFiniteSet(Scope), IInv, Stores, Next
  PROVE  Stores'
<1> USE Bounds DEF Stores, IInv, records, disk, refresh, pruning
<1>1. ASSUME NEW p \in Proc, NEW s \in Scope, Acquire(p, s) PROVE Stores'
  BY <1>1 DEF Acquire
<1>2. ASSUME NEW p \in Proc, ReadHead(p) \/ Extract(p) \/ GiveUp(p) PROVE Stores'
  BY <1>2 DEF ReadHead, Extract, GiveUp
<1>3. ASSUME NEW p \in Proc, Measure(p) PROVE Stores'
  <2>1. Stored \in Nat
    BY FiniteGenerations DEF Stored
  <2> QED BY <1>3, <2>1 DEF Measure
<1>4. ASSUME NEW p \in Proc, Reserve(p) \/ Stage(p) \/ Rename(p) \/ Publish(p) PROVE Stores'
  <2>1. my[p] \in Generation /\ my[p][1] \in Scope /\ my[p][2] \in 0 .. MaxFence
    BY <1>4 DEF Reserve, Stage, Rename, Publish, Named, Working, Generation
  <2> QED BY <1>4, <2>1 DEF Reserve, Stage, Rename, Publish
<1>5. ASSUME NEW p \in Proc, Finish(p) PROVE Stores'
  BY <1>5 DEF Finish
<1>6. ASSUME NEW p \in Proc, PruneSnapshot(p) \/ PruneStages(p) \/ PruneList(p) \/ PruneRemove(p)
      PROVE  Stores'
  BY <1>6 DEF PruneSnapshot, PruneStages, PruneList, PruneRemove
<1>7. ASSUME NEW p \in Proc, Crash(p) PROVE Stores'
  BY <1>7 DEF Crash
<1>8. ASSUME NEW s \in Scope, Expire(s) \/ Invalidate(s) PROVE Stores'
  BY <1>8 DEF Expire, Invalidate
<1> QED BY <1>1, <1>2, <1>3, <1>4, <1>5, <1>6, <1>7, <1>8 DEF Next

(* A step of one process.                                                   *)
StepOf(p) ==
  \/ \E s \in Scope : Acquire(p, s)
  \/ ReadHead(p) \/ Measure(p) \/ Reserve(p) \/ Stage(p) \/ Extract(p) \/ GiveUp(p)
  \/ Rename(p) \/ Publish(p) \/ Finish(p)
  \/ PruneSnapshot(p) \/ PruneStages(p) \/ PruneList(p) \/ PruneRemove(p)
  \/ Crash(p)

(* What a step of p does to the others.                                     *)
Besides(p) ==
  /\ \A q \in Proc \ {p} : /\ at'[q] = at[q] /\ my'[q] = my[q] /\ used'[q] = used[q]
                           /\ safe'[q] = safe[q] /\ known'[q] = known[q] /\ doomed'[q] = doomed[q]
  /\ \A s \in Scope : lease[s].fence <= lease'[s].fence
  /\ \A g \in Generation : Owns(g)' => Owns(g) \/ at[p] = "idle"

(* Others are where they were, with what they had.                          *)
LEMMA Alongside ==
  ASSUME IInv, Stores, NEW p \in Proc, StepOf(p)
  PROVE  Besides(p)
<1>1. /\ \A q \in Proc \ {p} : at'[q] = at[q] /\ my'[q] = my[q] /\ used'[q] = used[q]
      /\ \A q \in Proc \ {p} : safe'[q] = safe[q] /\ known'[q] = known[q] /\ doomed'[q] = doomed[q]
  BY DEF StepOf, IInv, AtType, MyType, Stores, Acquire, ReadHead, Measure, Reserve, Stage,
    Extract, GiveUp, Rename, Publish, Finish, PruneSnapshot, PruneStages, PruneList,
    PruneRemove, Crash, Goto, Checked, refresh, pruning
<1>2. CASE lease' = lease
  BY <1>1, <1>2 DEF Besides, IInv, LeaseType, Owns
<1>3. CASE \E s \in Scope : Acquire(p, s)
  <2>1. at[p] = "idle" /\ \A s \in Scope : lease[s].fence <= lease'[s].fence
    BY <1>3 DEF Acquire, IInv, LeaseType
  <2> QED BY <1>1, <2>1 DEF Besides
<1>4. CASE (Publish(p) \/ Finish(p)) /\ lease' # lease
  <2>1. my[p] \in Generation /\ Expired(my[p])
    BY <1>4 DEF Publish, Finish, IInv, Named, Working
  <2>2. \A s \in Scope : lease'[s].fence = lease[s].fence /\ (lease'[s].live => lease[s].live)
    BY <2>1, ExpiryOnly DEF IInv
  <2> QED BY <1>1, <2>2 DEF Besides, IInv, LeaseType, Owns, Generation
<1> QED BY <1>2, <1>3, <1>4 DEF StepOf, ReadHead, Measure, Reserve, Stage, Extract, GiveUp,
  Rename, Publish, PruneSnapshot, PruneStages, PruneList, PruneRemove, Crash

(* Time and checkouts touch no process and no directory; all other steps    *)
(* are those of a process.                                                  *)
Outside == \E s \in Scope : Expire(s) \/ Invalidate(s)

LEMMA StepsBeside ==
  ASSUME IInv, Stores, Next
  PROVE  \/ \E p \in Proc : Besides(p) /\ StepOf(p)
         \/ Outside
BY Alongside DEF Next, Outside, StepOf

(* What a step writes, and where its process goes.                          *)
Moves(p) ==
  /\ published' = published
       \/ (/\ Publish(p) /\ MayPublish(p) /\ my[p] \in Generation
           /\ published' = published \cup {my[p]}
           /\ head' = [head EXCEPT ![my[p][1]] = my[p][2]] /\ dirs' = dirs)
  /\ published' = published => head' = head
  /\ dirs \subseteq dirs' \cup doomed[p]
  /\ at'[p] \in Working =>
       \/ /\ at[p] \in Working /\ my'[p] = my[p] /\ at[p] # "finish"
          /\ at'[p] # "finish" => published' = published
          /\ at'[p] = "publish" => my[p] \in dirs'
       \/ \E s \in Scope : Acquire(p, s)

(* Every step is one of those.                                              *)
LEMMA StepMoves ==
  ASSUME IInv, Stores, NEW p \in Proc, StepOf(p)
  PROVE  Moves(p)
<1> USE DEF IInv, AtType, MyType, Moves, Working, Goto, records, disk, refresh, pruning
<1>1. CASE \E s \in Scope : Acquire(p, s)
  BY <1>1 DEF Acquire
<1>2. CASE ReadHead(p) \/ Measure(p) \/ Reserve(p) \/ Stage(p) \/ Extract(p) \/ GiveUp(p)
  BY <1>2 DEF ReadHead, Measure, Reserve, Stage, Extract, GiveUp, Checked
<1>3. CASE Rename(p)
  BY <1>3 DEF Rename
<1>4. CASE Publish(p)
  <2>1. my[p] \in Generation /\ at'[p] = "finish" /\ at[p] = "publish" /\ my' = my /\ dirs' = dirs
    BY <1>4 DEF Publish, Named
  <2>2. CASE MayPublish(p)
    <3>1. /\ published' = published \cup {my[p]}
          /\ head' = [head EXCEPT ![my[p][1]] = my[p][2]]
      BY <1>4, <2>2 DEF Publish
    <3>2. my[p] \notin published
      BY <2>1, <2>2 DEF MayPublish, Owns, Behind, Generation, LeaseType
    <3> QED BY <1>4, <2>1, <2>2, <3>1, <3>2
  <2>3. CASE ~MayPublish(p)
    BY <1>4, <2>1, <2>3 DEF Publish
  <2> QED BY <2>2, <2>3
<1>5. CASE Finish(p)
  BY <1>5 DEF Finish
<1>6. CASE PruneSnapshot(p) \/ PruneStages(p) \/ PruneList(p)
  BY <1>6 DEF PruneSnapshot, PruneStages, PruneList
<1>7. CASE PruneRemove(p)
  BY <1>7 DEF PruneRemove
<1>8. CASE Crash(p)
  BY <1>8 DEF Crash
<1> QED BY <1>1, <1>2, <1>3, <1>4, <1>5, <1>6, <1>7, <1>8 DEF StepOf

(* What is at work keeps its name and its directory.                        *)
LEMMA AtWorkStep ==
  ASSUME IInv, IInv', Stores, \A q \in Proc : AtWork(q), \A q \in Proc : PrunedAt(q),
         NEW p \in Proc, Besides(p), Moves(p)
  PROVE  \A q \in Proc : AtWork(q)'
<1>1. \A q \in Proc : at[q] \in Working => /\ my[q] \in Generation /\ my[q][1] \in Scope
                                           /\ my[q][2] \in Nat /\ lease[my[q][1]].fence \in Nat
  BY Bounds DEF IInv, Named, Generation, LeaseType
<1>2. \A s \in Scope : /\ lease[s].fence \in Nat /\ lease'[s].fence \in Nat
                       /\ lease[s].fence <= lease'[s].fence
  BY Bounds DEF Besides, IInv, LeaseType
<1>3. ASSUME NEW s \in Scope, Acquire(p, s)
      PROVE  /\ at'[p] = "read" /\ my'[p] = <<s, lease[s].fence + 1>>
             /\ lease'[s].fence = lease[s].fence + 1
             /\ my'[p] \notin published
  BY <1>2, <1>3, Bounds DEF Acquire, Goto, IInv, AtType, MyType, LeaseType, Behind
<1>4. ASSUME NEW q \in Proc, NEW r \in Proc \ {q}, at'[q] \in Working, at'[r] \in Working
      PROVE  my'[q] # my'[r]
  <2>1. CASE q # p /\ r # p
    BY <1>4, <2>1 DEF Besides, AtWork
  <2>2. ASSUME NEW x \in Proc \ {p}, at[x] \in Working, at'[p] \in Working PROVE my'[p] # my[x]
    <3>1. CASE \E s \in Scope : Acquire(p, s)
      BY <1>1, <1>3, <2>2, <3>1 DEF AtWork
    <3>2. CASE at[p] \in Working /\ my'[p] = my[p]
      BY <2>2, <3>2 DEF AtWork
    <3> QED BY <2>2, <3>1, <3>2 DEF Moves
  <2> QED BY <1>4, <2>1, <2>2 DEF Besides
<1>5. ASSUME NEW q \in Proc \ {p} PROVE AtWork(q)'
  <2>1. at'[q] = at[q] /\ my'[q] = my[q]
    BY DEF Besides
  <2>2. CASE at[q] \in Working
    <3>1. my[q][2] <= lease'[my[q][1]].fence
      BY <1>1, <1>2, <2>2 DEF AtWork, Besides, IInv, LeaseType
    <3>2. published' = published \/ (at[p] = "publish" /\ published' = published \cup {my[p]})
      BY DEF Moves, Publish
    <3>3. at[q] # "finish" => my[q] \notin published'
      BY <2>2, <3>2 DEF AtWork, Working
    <3>4. at[q] = "publish" => my[q] \in dirs'
      BY <2>2 DEF AtWork, Moves, PrunedAt, Working
    <3> QED BY <1>4, <2>1, <3>1, <3>3, <3>4 DEF AtWork
  <2> QED BY <2>1, <2>2 DEF AtWork
<1>6. AtWork(p)'
  <2>1. CASE \E s \in Scope : Acquire(p, s)
    <3>1. PICK s \in Scope : Acquire(p, s)
      BY <2>1
    <3>2. published' = published
      BY <3>1 DEF Acquire, records
    <3>3. at'[p] = "read" /\ my'[p] = <<s, lease[s].fence + 1>>
          /\ lease'[s].fence = lease[s].fence + 1
          /\ my'[p] \notin published
      BY <1>3, <3>1
    <3>4. my'[p][2] <= lease'[my'[p][1]].fence
      BY <1>2, <3>3
    <3> QED BY <1>4, <3>2, <3>3, <3>4 DEF AtWork
  <2>2. CASE at'[p] \in Working /\ at[p] \in Working /\ my'[p] = my[p] /\ at[p] # "finish"
             /\ Moves(p)
             /\ (at'[p] # "finish" => published' = published)
             /\ (at'[p] = "publish" => my[p] \in dirs')
    <3>1. my[p][2] <= lease'[my[p][1]].fence
      BY <1>1, <1>2, <2>2 DEF AtWork
    <3> QED BY <1>4, <2>2, <3>1 DEF AtWork
  <2>3. CASE at'[p] \notin Working
    BY <2>3 DEF AtWork
  <2> QED BY <2>1, <2>2, <2>3 DEF Moves
<1> QED BY <1>5, <1>6

(* Which heads there are after a step.                                      *)
LEMMA HeadsAfter ==
  ASSUME Stores, NEW p \in Proc, Moves(p)
  PROVE  \/ published' = published /\ Heads' = Heads
         \/ /\ Publish(p) /\ MayPublish(p) /\ my[p] \in Generation
            /\ published' = published \cup {my[p]} /\ dirs' = dirs
            /\ \A h \in Heads' : h = my[p] \/ (h \in Heads /\ h[1] # my[p][1])
<1>1. CASE published' = published
  BY <1>1 DEF Moves, Heads
<1>2. CASE /\ Publish(p) /\ MayPublish(p) /\ my[p] \in Generation
              /\ published' = published \cup {my[p]}
           /\ head' = [head EXCEPT ![my[p][1]] = my[p][2]] /\ dirs' = dirs
  <2>1. PICK s \in Scope, f \in 1 .. MaxFence : my[p] = <<s, f>>
    BY <1>2 DEF Generation
  <2>2. ASSUME NEW h \in Heads' PROVE h = my[p] \/ (h \in Heads /\ h[1] # my[p][1])
    <3>1. PICK r \in Scope : h = <<r, head'[r]>> /\ head'[r] # 0
      BY DEF Heads
    <3>2. CASE r = s
      BY <1>2, <2>1, <3>1, <3>2 DEF Stores
    <3>3. CASE r # s
      <4>1. head'[r] = head[r]
        BY <1>2, <2>1, <3>3 DEF Stores
      <4> QED BY <2>1, <3>1, <3>3, <4>1 DEF Heads
    <3> QED BY <3>2, <3>3
  <2> QED BY <1>2, <2>2
<1> QED BY <1>1, <1>2 DEF Moves

(* Heads stay the newest, and in place.                                     *)
LEMMA NewestStep ==
  ASSUME IInv, IInv', Stores, Newest, NEW p \in Proc, AtWork(p), PrunedAt(p), Moves(p)
  PROVE  Newest'
<1>1. CASE published' = published /\ Heads' = Heads
  BY <1>1 DEF Newest, PrunedAt, Moves
<1>2. CASE /\ Publish(p) /\ MayPublish(p) /\ my[p] \in Generation
           /\ published' = published \cup {my[p]} /\ dirs' = dirs
           /\ \A h \in Heads' : h = my[p] \/ (h \in Heads /\ h[1] # my[p][1])
  <2>1. my[p] \in dirs
    BY <1>2 DEF AtWork, Publish, Working
  <2>2. \A g \in published : g[1] = my[p][1] => g[2] <= my[p][2]
    BY <1>2 DEF MayPublish, Owns, IInv, Behind
  <2>3. my[p][2] <= my[p][2]
    BY <1>2, Bounds DEF Generation
  <2>4. ASSUME NEW h \in Heads', h = my[p]
        PROVE  h \in published' /\ h \in dirs' /\ \A g \in published' : g[1] = h[1] => g[2] <= h[2]
    BY <1>2, <2>1, <2>2, <2>3, <2>4
  <2>5. ASSUME NEW h \in Heads, h[1] # my[p][1]
        PROVE  h \in published' /\ h \in dirs' /\ \A g \in published' : g[1] = h[1] => g[2] <= h[2]
    BY <1>2, <2>5 DEF Newest
  <2> QED BY <1>2, <2>4, <2>5 DEF Newest
<1> QED BY <1>1, <1>2, HeadsAfter

(* A list that was made keeps to what was published and is no head.         *)
LEMMA ListsStand ==
  ASSUME IInv, Stores, \A q \in Proc : PrunedAt(q),
         NEW p \in Proc, AtWork(p), Moves(p), NEW q \in Proc,
         at'[q] = at[q], safe'[q] = safe[q], known'[q] = known[q], doomed'[q] = doomed[q]
  PROVE  PrunedAt(q)'
<1>1. CASE published' = published /\ Heads' = Heads
  BY <1>1 DEF PrunedAt
<1>2. CASE /\ Publish(p) /\ MayPublish(p) /\ my[p] \in Generation
           /\ published' = published \cup {my[p]} /\ dirs' = dirs
           /\ \A h \in Heads' : h = my[p] \/ (h \in Heads /\ h[1] # my[p][1])
  <2>1. my[p] \notin published
    BY <1>2 DEF AtWork, Publish, Working
  <2> QED BY <1>2, <2>1 DEF PrunedAt
<1> QED BY <1>1, <1>2, HeadsAfter

(* There is room for the newest generation of a workspace beside those that *)
(* are protected, and unless that is the only workspace for all others.     *)
LEMMA RoomForHead ==
  ASSUME IsFiniteSet(Scope), Uncontended, IInv, Stores, Fits,
         NEW T, NEW C, T \cup C = Present, T \cap C = {}, NEW h \in C
  PROVE  /\ Cardinality(T) \in Nat /\ Cardinality(T) < Limit
         /\ \/ \A r, s \in Scope : r = s
            \/ \A S \in SUBSET C : Cardinality(S) <= Limit - Cardinality(T)
<1>1. /\ Present \in SUBSET Generation /\ T \in SUBSET Generation /\ C \in SUBSET Generation
      /\ Generation \in SUBSET Generation
  BY DEF IInv, Present
<1>2. /\ IsFiniteSet(T) /\ IsFiniteSet(C) /\ Cardinality(T) \in Nat /\ Cardinality(C) \in Nat
      /\ Cardinality(Present) \in Nat /\ Cardinality(Present) <= Cardinality(Generation)
      /\ Cardinality(Generation) \in Nat
  BY <1>1, FiniteGenerations
<1>3. Cardinality(Present) = Cardinality(T) + Cardinality(C)
  <2>1. Cardinality(T \cup C) = Cardinality(T) + Cardinality(C) - Cardinality(T \cap C)
    BY <1>2, FS_Union
  <2>2. Cardinality(T \cap C) = 0
    BY FS_EmptySet
  <2>3. Cardinality(Present) = Cardinality(T) + Cardinality(C) - 0
    BY <2>1, <2>2
  <2> QED BY <1>2, <2>3
<1>4. Cardinality(C) >= 1
  <2>1. Cardinality(C) # 0
    BY <1>2, FS_EmptySet
  <2> QED BY <1>2, <2>1
<1>5. Cardinality(Present) <= Limit
  BY <1>2, Bounds DEF Uncontended, Fits
<1>6. ASSUME NEW S \in SUBSET C PROVE Cardinality(S) \in Nat /\ Cardinality(S) <= Cardinality(C)
  BY <1>1, FiniteGenerations
<1>7. Cardinality(C) <= Limit - Cardinality(T)
  BY <1>2, <1>3, <1>5, Bounds
<1> QED BY <1>2, <1>4, <1>6, <1>7, Bounds

(* A pruning dooms no head.                                                 *)
LEMMA NoHeadDoomed ==
  ASSUME IsFiniteSet(Scope), Uncontended, IInv, Stores, Newest, Fits, NEW p \in Proc, PrunedAt(p),
         PruneList(p)
  PROVE  PrunedAt(p)'
<1> DEFINE C == (published \cap dirs) \ safe[p]
           T == published \cap dirs \cap safe[p]
           room == IF Cardinality(T) > Limit THEN 0 ELSE Limit - Cardinality(T)
<1>1. /\ C = (published \cap dirs) \ safe[p] /\ T = published \cap dirs \cap safe[p]
      /\ room = IF Cardinality(T) > Limit THEN 0 ELSE Limit - Cardinality(T)
  OBVIOUS
<1>2. PICK old \in SUBSET (C \cap known[p]) :
        \E kept \in SUBSET {g \in C \ old : Cardinality(Newer(C, g)) < Kept} :
          /\ Cardinality(kept) = IF Cardinality({g \in C \ old : Cardinality(Newer(C,
             g)) < Kept}) < room
                                 THEN Cardinality({g \in C \ old : Cardinality(Newer(C, g)) < Kept})
                                 ELSE room
          /\ \A g \in kept : Newer({x \in C \ old : Cardinality(Newer(C, x)) < Kept},
             g) \subseteq kept
          /\ doomed' = [doomed EXCEPT ![p] = C \ kept]
  BY Zenon DEF PruneList
<1> HIDE DEF C, T, room
<1>3. PICK fit : fit = {g \in C \ old : Cardinality(Newer(C, g)) < Kept}
  OBVIOUS
<1>4. PICK kept \in SUBSET fit :
          /\ Cardinality(kept) = IF Cardinality(fit) < room THEN Cardinality(fit) ELSE room
          /\ \A g \in kept : Newer(fit, g) \subseteq kept
          /\ doomed' = [doomed EXCEPT ![p] = C \ kept]
  BY <1>2, <1>3, Zenon
<1>5. /\ at[p] = "list" /\ at'[p] = "remove" /\ published' = published /\ Heads' = Heads
      /\ doomed'[p] = C \ kept
  BY <1>4 DEF PruneList, Goto, IInv, AtType, Stores, records, Heads
<1>6. /\ C \subseteq Generation /\ fit \subseteq C /\ kept \subseteq fit
      /\ T \cup C = Present /\ T \cap C = {}
  BY <1>1, <1>3, <1>4 DEF IInv, Present
<1>7. ASSUME NEW h \in Heads, h \in C PROVE h \in kept
  <2>1. h \in Generation /\ \A g \in C : g[1] = h[1] => g[2] <= h[2]
    BY <1>1, <1>7 DEF Newest, IInv
  <2>2. Newer(C, h) = {}
    BY <1>6, <2>1 DEF Newer, Generation
  <2>3. h \notin old
    BY <1>1, <1>5, <1>7 DEF PrunedAt
  <2>4. h \in fit
    <3>1. Cardinality(Newer(C, h)) = 0
      BY <2>2, FS_EmptySet
    <3>2. Cardinality(Newer(C, h)) < Kept
      BY <3>1, Bounds
    <3> QED BY <1>3, <1>7, <2>3, <3>2
  <2>5. /\ IsFiniteSet(fit) /\ IsFiniteSet(kept) /\ Cardinality(fit) \in Nat
           /\ Cardinality(kept) \in Nat
    BY <1>6, FiniteGenerations
  <2>6. Cardinality(fit) # 0
    BY <2>4, <2>5, FS_EmptySet
  <2>7. /\ Cardinality(T) \in Nat /\ Cardinality(T) < Limit
        /\ \/ \A r, s \in Scope : r = s
           \/ \A S \in SUBSET C : Cardinality(S) <= Limit - Cardinality(T)
    BY <1>6, <1>7, RoomForHead
  <2>8. room \in Nat /\ room # 0 /\ room = Limit - Cardinality(T)
    BY <1>1, <2>7, Bounds
  <2>9. CASE \A r, s \in Scope : r = s
    <3>1. Cardinality(kept) # 0
      BY <1>4, <2>5, <2>6, <2>8
    <3>2. PICK k \in kept : TRUE
      BY <2>5, <3>1, FS_EmptySet
    <3>3. k \in Generation /\ h \in Generation /\ k[2] <= h[2]
      BY <1>6, <2>1, <2>9, <3>2 DEF Generation
    <3>4. k = h \/ h \in Newer(fit, k)
      BY <2>4, <2>9, <3>3 DEF Newer, Generation
    <3> QED BY <1>4, <3>2, <3>4
  <2>10. CASE \A S \in SUBSET C : Cardinality(S) <= Limit - Cardinality(T)
    <3>1. Cardinality(fit) <= room
      BY <1>6, <2>8, <2>10
    <3>2. Cardinality(kept) = Cardinality(fit)
      BY <1>4, <2>5, <2>8, <3>1
    <3>3. kept = fit
      BY <2>5, <3>2, FS_Subset
    <3> QED BY <2>4, <3>3
  <2> QED BY <2>7, <2>9, <2>10
<1>8. doomed'[p] \subseteq published
  BY <1>1, <1>5
<1> QED BY <1>5, <1>7, <1>8 DEF PrunedAt

(* Lists, after a step.                                                     *)
LEMMA PrunedStep ==
  ASSUME IsFiniteSet(Scope), Uncontended, IInv, Stores, Newest, Fits, \A q \in Proc : PrunedAt(q),
         NEW p \in Proc, AtWork(p), Besides(p), Moves(p),
         StepOf(p)
  PROVE  \A q \in Proc : PrunedAt(q)'
<1>1. ASSUME NEW q \in Proc \ {p} PROVE PrunedAt(q)'
  BY ListsStand DEF Besides
<1> SUFFICES PrunedAt(p)'
  BY <1>1
<1>2. CASE \/ \E s \in Scope : Acquire(p, s)
           \/ ReadHead(p) \/ Measure(p) \/ Reserve(p) \/ Stage(p) \/ Extract(p) \/ GiveUp(p)
           \/ Rename(p) \/ Finish(p)
  <2>1. published' = published /\ Heads' = Heads /\ doomed' = doomed
        /\ at'[p] \notin {"sweep", "list"}
    BY <1>2 DEF Acquire, ReadHead, Measure, Reserve, Stage, Extract, GiveUp, Rename, Finish,
      Checked, Goto, IInv, AtType, records, pruning, Heads
  <2> QED BY <2>1 DEF PrunedAt
<1>3. CASE Publish(p)
  <2>1. at'[p] = "finish" /\ doomed' = doomed
    BY <1>3 DEF Publish, Goto, IInv, AtType, pruning
  <2>2. CASE published' = published /\ Heads' = Heads
    BY <2>1, <2>2 DEF PrunedAt
  <2>3. CASE /\ my[p] \in Generation /\ published' = published \cup {my[p]}
             /\ \A h \in Heads' : h = my[p] \/ (h \in Heads /\ h[1] # my[p][1])
    <3>1. my[p] \notin published
      BY <1>3 DEF AtWork, Publish, Working
    <3> QED BY <2>1, <2>3, <3>1 DEF PrunedAt
  <2> QED BY <2>2, <2>3, HeadsAfter
<1>4. CASE PruneSnapshot(p)
  <2>1. /\ published' = published /\ Heads' = Heads /\ doomed' = doomed /\ known'[p] = published
        /\ Heads \subseteq safe'[p]
    BY <1>4 DEF PruneSnapshot, Protected, records, Heads, Stores
  <2> QED BY <2>1 DEF PrunedAt
<1>5. CASE PruneStages(p)
  <2>1. /\ published' = published /\ Heads' = Heads /\ doomed' = doomed /\ known' = known
           /\ safe' = safe
        /\ at[p] = "sweep"
    BY <1>5 DEF PruneStages, records, pruning, Heads
  <2> QED BY <2>1 DEF PrunedAt
<1>6. CASE PruneRemove(p)
  <2>1. published' = published /\ Heads' = Heads /\ doomed'[p] \subseteq doomed[p]
    BY <1>6 DEF PruneRemove, records, Heads, Stores
  <2>2. at'[p] \notin {"sweep", "list"}
    BY <1>6 DEF PruneRemove, Goto, IInv, AtType
  <2> QED BY <2>1, <2>2 DEF PrunedAt
<1>7. CASE Crash(p)
  <2>1. published' = published /\ Heads' = Heads /\ doomed'[p] = {} /\ at'[p] = "idle"
    BY <1>7 DEF Crash, Goto, IInv, AtType, records, Heads, Stores
  <2> QED BY <2>1 DEF PrunedAt
<1>8. CASE PruneList(p)
  BY <1>8, NoHeadDoomed
<1> QED BY <1>2, <1>3, <1>4, <1>5, <1>6, <1>7, <1>8 DEF StepOf

(* Room, in one workspace.                                                  *)
LEMMA FitsStep ==
  ASSUME IsFiniteSet(Scope), \A r, s \in Scope : r = s, IInv, IInv', Stores, Fits,
         \A q \in Proc : PrunedAt(q),
         NEW p \in Proc, \A q \in Proc : AtWork(q), Besides(p), Moves(p),
         StepOf(p)
  PROVE  Fits'
<1>1. /\ Present \in SUBSET Generation /\ IsFiniteSet(Present) /\ Cardinality(Present) \in Nat
      /\ Cardinality(Present) <= Limit /\ \A q \in Proc : FitsAt(q)
  BY FiniteGenerations DEF Fits, Present, IInv
<1>2. \A q \in Proc : at[q] \in Working => my[q] \in Generation
  BY DEF IInv, Named
(* A step that publishes nothing adds nothing to what is present.           *)
<1>3. ASSUME Present' \subseteq Present, FitsAt(p)' PROVE Fits'
  <2>1. Cardinality(Present') \in Nat /\ Cardinality(Present') <= Cardinality(Present)
    BY <1>1, <1>3, FiniteGenerations
  <2>2. ASSUME NEW q \in Proc \ {p} PROVE FitsAt(q)'
    <3>1. CASE at[p] # "idle" \/ ~Owns(my[q])' \/ at[q] \notin Working
      <4>1. at[q] \in Working /\ Owns(my[q])' => Owns(my[q])
        BY <1>2, <3>1 DEF Besides
      <4> QED BY <1>1, <2>1, <4>1, Bounds DEF FitsAt, Besides, Stores
    <3>2. CASE at[p] = "idle" /\ ~\E s \in Scope : Acquire(p, s)
      <4>1. lease' = lease
        BY <3>2 DEF StepOf, ReadHead, Measure, Reserve, Stage, Extract, GiveUp, Rename, Publish,
          Finish, PruneSnapshot, PruneStages, PruneList, PruneRemove, Crash
      <4> QED BY <1>1, <2>1, <4>1, Bounds DEF FitsAt, Besides, Stores, Owns
    <3>3. CASE (\E s \in Scope : Acquire(p, s)) /\ at[q] \in Working
      <4>1. PICK s \in Scope : Acquire(p, s)
        BY <3>3
      <4>2. my[q] \in Generation /\ my[q][1] = s /\ lease'[s].fence = lease[s].fence + 1
            /\ lease[s].fence \in Nat
        BY <1>2, <3>3, <4>1, Bounds DEF Generation, Acquire, IInv, LeaseType
      <4>3. my[q][2] <= lease[s].fence /\ my[q][2] \in Nat
        BY <3>3, <4>2, Bounds DEF AtWork, Generation
      <4>4. ~(lease'[my[q][1]].fence = my[q][2])
        BY <4>2, <4>3
      <4>5. my'[q] = my[q]
        BY DEF Besides
      <4> QED BY <4>4, <4>5 DEF FitsAt, Owns
    <3> QED BY <3>1, <3>2, <3>3
  <2>3. Cardinality(Present') <= Limit
    BY <1>1, <2>1, Bounds
  <2> QED BY <1>3, <2>2, <2>3 DEF Fits
<1>4. CASE \/ \E s \in Scope : Acquire(p, s)
           \/ ReadHead(p) \/ Finish(p) \/ GiveUp(p) \/ Crash(p)
           \/ PruneSnapshot(p) \/ PruneStages(p) \/ PruneList(p) \/ PruneRemove(p)
  <2>1. Present' \subseteq Present
    BY <1>4 DEF Acquire, ReadHead, Finish, GiveUp, Crash, PruneSnapshot, PruneStages, PruneList,
      PruneRemove, Present, records, disk
  <2>2. at'[p] \notin {"reserve", "stage", "extract", "rename", "publish"}
    BY <1>4 DEF Acquire, ReadHead, Finish, GiveUp, Crash, PruneSnapshot, PruneStages, PruneList,
      PruneRemove, Checked, Goto, IInv, AtType
  <2> QED BY <1>3, <2>1, <2>2 DEF FitsAt
<1>5. CASE Measure(p)
  <2>1. Present' = Present /\ at'[p] = "reserve" /\ used'[p] = Stored
    BY <1>5 DEF Measure, Goto, IInv, AtType, Stores, Present, records, disk
  <2>2. /\ Cardinality(dirs) \in Nat /\ Cardinality(stages) \in Nat
        /\ Cardinality(Present) <= Cardinality(dirs)
    BY FiniteGenerations DEF Stores, Present
  <2>3. Cardinality(Present) <= Stored
    BY <1>1, <2>2 DEF Stored
  <2> QED BY <1>3, <2>1, <2>3 DEF FitsAt
<1>6. CASE Reserve(p)
  <2>1. Present' = Present /\ my' = my /\ lease' = lease /\ at[p] = "reserve"
        /\ at'[p] \in {"stage", "finish"}
    BY <1>6 DEF Reserve, Goto, IInv, AtType, Present, records, disk, refresh
  <2>2. PICK others : others = {g \in reserved : Owns(g)} \ {my[p]}
    OBVIOUS
  <2>3. Cardinality(others) \in Nat
    BY <2>2, FiniteGenerations DEF Stores
  <2>4. at'[p] = "stage" => ~(used[p] + Cardinality(others) + 1 > Limit)
    BY <1>6, <2>2 DEF Reserve, Goto, IInv, AtType
  <2>5. Owns(my[p]) => Cardinality(Present) <= used[p]
    BY <1>1, <2>1 DEF FitsAt, Working
  <2>6. Owns(my[p]) /\ at'[p] = "stage" => Cardinality(Present) + 1 <= Limit
    BY <1>1, <2>3, <2>4, <2>5, Bounds DEF Stores
  <2> QED BY <1>3, <2>1, <2>6 DEF FitsAt, Owns
<1>7. CASE Stage(p) \/ Extract(p) \/ Rename(p)
  <2>1. /\ my' = my /\ lease' = lease /\ at[p] \in {"stage", "extract", "rename"}
        /\ at'[p] \in {"extract", "rename", "publish", "finish"}
    BY <1>7 DEF Stage, Extract, Rename, Checked, Goto, IInv, AtType, refresh
  <2>2. Present' = Present
    <3>1. my[p] \notin published
      BY <2>1 DEF AtWork, Working
    <3> QED BY <1>7, <3>1 DEF Stage, Extract, Rename, Present, records, disk
  <2>3. Owns(my[p]) => Cardinality(Present) + 1 <= Limit
    BY <1>1, <2>1 DEF FitsAt, Working
  <2> QED BY <1>3, <2>1, <2>2, <2>3 DEF FitsAt, Owns
<1>8. CASE Publish(p)
  <2>1. at[p] = "publish" /\ at'[p] = "finish" /\ dirs' = dirs
    BY <1>8 DEF Publish, Goto, IInv, AtType, disk
  <2>2. CASE published' = published
    BY <1>3, <2>1, <2>2 DEF FitsAt, Present
  <2>3. CASE published' = published \cup {my[p]} /\ MayPublish(p) /\ my[p] \in Generation
             /\ published' # published
    <3>1. Present' = Present \cup {my[p]} \/ Present' = Present
      BY <2>1, <2>3 DEF Present
    <3>2. Cardinality(Present) + 1 <= Limit
      BY <1>1, <2>1, <2>3 DEF FitsAt, MayPublish, Working
    <3>3. Cardinality(Present') <= Limit
      <4>1. my[p] \notin Present => Cardinality(Present \cup {my[p]}) = Cardinality(Present) + 1
        BY <1>1, FS_AddElement
      <4>2. my[p] \in Present => Present \cup {my[p]} = Present
        OBVIOUS
      <4> QED BY <1>1, <3>1, <3>2, <4>1, <4>2
    <3>4. ASSUME NEW q \in Proc, at'[q] \in Working PROVE ~Owns(my[q])'
      <4>1. Expired(my[p])
        BY <1>8, <2>3 DEF Publish
      <4>2. my[p][2] = lease[my[p][1]].fence
        BY <2>3 DEF MayPublish, Owns
      <4>3. ~lease'[my[p][1]].live
        BY <2>3, <4>1, <4>2, ExpiryOnly DEF IInv
      <4>4. my'[q] \in Generation
        BY <3>4 DEF IInv, Named
      <4>5. my'[q][1] = my[p][1]
        BY <2>3, <4>4 DEF Generation
      <4> QED BY <4>3, <4>5 DEF Owns
    <3> QED BY <3>3, <3>4 DEF Fits, FitsAt
  <2> QED BY <2>2, <2>3 DEF Moves
<1> QED BY <1>4, <1>5, <1>6, <1>7, <1>8 DEF StepOf

(* Time and checkouts take away leases and heads.                           *)
LEMMA OutsideStep ==
  ASSUME IsFiniteSet(Scope), IInv, JInv, Outside
  PROVE  JInv'
<1>1. PICK s \in Scope : Expire(s) \/ Invalidate(s)
  BY DEF Outside
<1>2. /\ published' = published /\ dirs' = dirs /\ stages' = stages /\ reserved' = reserved
         /\ at' = at
      /\ my' = my /\ used' = used /\ safe' = safe /\ known' = known /\ doomed' = doomed
  BY <1>1 DEF Expire, Invalidate, records, disk, refresh, pruning
<1>3. \A r \in Scope : lease'[r].fence = lease[r].fence /\ (lease'[r].live => lease[r].live)
  BY <1>1 DEF Expire, Invalidate, IInv, LeaseType
<1>4. \A p \in Proc : at[p] \in Working => my[p] \in Generation /\ my[p][1] \in Scope
  BY DEF IInv, Named, Generation
<1>5. Heads' \subseteq Heads /\ head' \in [Scope -> 0 .. MaxFence]
  BY <1>1, Bounds DEF Expire, Invalidate, Heads, records, JInv, Stores
<1>6. Stores'
  BY <1>2, <1>5 DEF JInv, Stores
<1>7. \A p \in Proc : AtWork(p)'
  BY <1>2, <1>3, <1>4 DEF JInv, AtWork
<1>8. Newest'
  BY <1>2, <1>5 DEF JInv, Newest
<1>9. \A p \in Proc : PrunedAt(p)'
  BY <1>2, <1>5 DEF JInv, PrunedAt
<1>10. Fits'
  <2>1. Present' = Present
    BY <1>2 DEF Present
  <2>2. ASSUME NEW p \in Proc, FitsAt(p) PROVE FitsAt(p)'
    BY <1>2, <1>3, <1>4, <2>1, <2>2 DEF FitsAt, Owns
  <2> QED BY <2>1, <2>2 DEF JInv, Fits
<1> QED BY <1>6, <1>7, <1>8, <1>9, <1>10 DEF JInv

(* Before the first refresh there is nothing.                               *)
LEMMA NothingYet == Init => JInv
<1> SUFFICES ASSUME Init PROVE JInv
  OBVIOUS
<1> USE Bounds DEF Init
<1>1. Stores
  BY DEF Stores
<1>2. \A p \in Proc : AtWork(p) /\ FitsAt(p)
  BY DEF AtWork, FitsAt, Working
<1>3. Heads = {}
  BY DEF Heads
<1>4. Newest /\ \A p \in Proc : PrunedAt(p)
  BY <1>3 DEF Newest, PrunedAt
<1>5. Present = {} /\ Cardinality({}) = 0
  BY FS_EmptySet DEF Present
<1> QED BY <1>1, <1>2, <1>4, <1>5 DEF JInv, Fits

(* Every step keeps it.                                                     *)
LEMMA JInvStep ==
  ASSUME IsFiniteSet(Scope), Uncontended, IInv, JInv, [Next]_gvars
  PROVE  JInv'
<1>1. IInv'
  BY StepHolds
<1>2. CASE UNCHANGED gvars
  <2>1. Present' = Present /\ Heads' = Heads
    BY <1>2 DEF gvars, records, disk, Present, Heads
  <2> QED BY <1>2, <2>1 DEF gvars, records, disk, refresh, pruning, JInv, Stores, AtWork,
    Newest, PrunedAt, Fits, FitsAt, Owns
<1>3. CASE Next
  <2>1. CASE Outside
    BY <2>1, OutsideStep
  <2>2. ASSUME NEW p \in Proc, Besides(p),
               StepOf(p)
        PROVE  JInv'
    <3>1. Moves(p)
      BY <2>2, StepMoves DEF JInv
    <3>2. Stores'
      BY <1>3, StoresStep DEF JInv
    <3>3. \A q \in Proc : AtWork(q)'
      BY <1>1, <2>2, <3>1, AtWorkStep DEF JInv
    <3>4. Newest'
      BY <1>1, <3>1, NewestStep DEF JInv
    <3>5. \A q \in Proc : PrunedAt(q)'
      BY <2>2, <3>1, PrunedStep DEF JInv
    <3>6. Fits'
      <4>1. CASE \A r, s \in Scope : r = s
        BY <1>1, <2>2, <3>1, <4>1, FitsStep DEF JInv
      <4>2. CASE ~\A r, s \in Scope : r = s
        BY <4>2 DEF Fits
      <4> QED BY <4>1, <4>2
    <3> QED BY <3>2, <3>3, <3>4, <3>5, <3>6 DEF JInv
  <2> QED BY <1>3, <2>1, <2>2, StepsBeside DEF JInv
<1> QED BY <1>2, <1>3

(* The directory of a head is there, whatever is pruned beside and whoever  *)
(* dies, in one workspace for any limit of storage, and in any number of    *)
(* workspaces when all their generations have room.                         *)
THEOREM HeadsLoad ==
  ASSUME IsFiniteSet(Scope), Uncontended
  PROVE  Spec => []HeadLoads
<1>1. JInv => HeadLoads
  BY DEF JInv, Newest, HeadLoads
<1>2. IInv /\ JInv /\ [Next]_gvars => JInv'
  BY JInvStep
<1> QED BY <1>1, <1>2, NothingYet, NeverAhead, PTL DEF Spec
=============================================================================
