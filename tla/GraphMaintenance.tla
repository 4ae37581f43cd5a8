--------------------------- MODULE GraphMaintenance ---------------------------
(***************************************************************************)
(* The knowledge graph of a workspace is a generation: a directory that a  *)
(* refresh extracts into a stage, renames and then publishes as the head   *)
(* of its scope.  A refresh takes minutes and runs outside transactions;   *)
(* its lease carries a fence, so that one that outlived its lease cannot   *)
(* publish.  Pruning deletes directories beside it, from a list it read    *)
(* before.  A refresh validates the directory of the head it replaces, so  *)
(* a head without a directory stops the maintenance of its scope.          *)
(*                                                                         *)
(* A generation, a stage and a reservation are named by the lease they     *)
(* were made under: a scope and a fence.  Each takes one unit of storage.  *)
(***************************************************************************)
EXTENDS Naturals, FiniteSets

CONSTANTS Proc,      \* slots of processes
          Scope,     \* workspaces
          MaxFence,  \* bound: leases of a scope
          Kept,      \* unprotected generations pruning keeps per scope, 3 in the code
          Limit      \* storageBytes, in units

ASSUME Bounds == MaxFence \in Nat /\ Kept \in Nat \ {0} /\ Limit \in Nat

VARIABLES
  lease,      \* graph_leases: fence of each scope, and whether it is unexpired
  head,       \* record of kind head: the fence of the generation, 0 for none
  rev,        \* its revision, 0 when there is none
  published,  \* records of kind generation
  reserved,   \* records of kind storage-reservation
  dirs,       \* directories under generations/
  stages,     \* directories under staging/
  at,         \* next step of each process
  my,         \* the lease a refresh took: scope and fence
  prior,      \* the head it read: fence and revision
  used,       \* the storage it measured
  safe,       \* generations a pruning found protected
  known,      \* generations published when it began
  doomed      \* generations it will remove

records == <<head, rev, published, reserved>>
disk    == <<dirs, stages>>
refresh == <<my, prior, used>>
pruning == <<safe, known, doomed>>
gvars   == <<lease, records, disk, at, refresh, pruning>>

Generation == Scope \X (1 .. MaxFence)
NoLease == <<>>
NoHead  == [fence |-> 0, rev |-> 0]

Owns(g) == lease[g[1]].fence = g[2] /\ lease[g[1]].live
Heads == {<<s, head[s]>> : s \in {r \in Scope : head[r] # 0}}
Stored == Cardinality(dirs) + Cardinality(stages)
Goto(p, pc) == at' = [at EXCEPT ![p] = pc]
Expired(g) == lease' = [lease EXCEPT ![g[1]] = [fence |-> @.fence, live |-> @.live /\ @.fence # g[2]]]

Init ==
  /\ lease = [s \in Scope |-> [fence |-> 0, live |-> FALSE]]
  /\ head = [s \in Scope |-> 0] /\ rev = [s \in Scope |-> 0]
  /\ published = {} /\ reserved = {} /\ dirs = {} /\ stages = {}
  /\ at = [p \in Proc |-> "idle"] /\ my = [p \in Proc |-> NoLease]
  /\ prior = [p \in Proc |-> NoHead] /\ used = [p \in Proc |-> 0]
  /\ safe = [p \in Proc |-> {}] /\ known = [p \in Proc |-> {}] /\ doomed = [p \in Proc |-> {}]

(***************************************************************************)
(* A refresh                                                               *)
(***************************************************************************)

(* A lease that has not expired defers the refresh; any other one is       *)
(* replaced under the next fence.                                          *)
Acquire(p, s) ==
  /\ at[p] = "idle" /\ ~lease[s].live /\ lease[s].fence < MaxFence
  /\ lease' = [lease EXCEPT ![s] = [fence |-> @.fence + 1, live |-> TRUE]]
  /\ my' = [my EXCEPT ![p] = <<s, lease[s].fence + 1>>] /\ Goto(p, "read")
  /\ UNCHANGED <<records, disk, prior, used, pruning>>

(* The checks of owner, fence and expiry, and their failures.              *)
Checked(p, next) == Goto(p, IF Owns(my[p]) THEN next ELSE "finish")

ReadHead(p) ==
  /\ at[p] = "read" /\ Checked(p, "measure")
  /\ prior' = [prior EXCEPT ![p] = [fence |-> head[my[p][1]], rev |-> rev[my[p][1]]]]
  /\ UNCHANGED <<lease, records, disk, my, used, pruning>>

(* Storage is measured by a walk over the directories, before the          *)
(* transaction that reserves.                                              *)
Measure(p) ==
  /\ at[p] = "measure" /\ used' = [used EXCEPT ![p] = Stored] /\ Goto(p, "reserve")
  /\ UNCHANGED <<lease, records, disk, my, prior, pruning>>

(* Reservations of lost leases are dropped; the rest and the measure must  *)
(* leave room.                                                             *)
Reserve(p) ==
  LET others == {g \in reserved : Owns(g)} \ {my[p]} IN
  /\ at[p] = "reserve"
  /\ IF used[p] + Cardinality(others) + 1 > Limit THEN Goto(p, "finish") /\ UNCHANGED reserved
     ELSE reserved' = others \cup {my[p]} /\ Goto(p, "stage")
  /\ UNCHANGED <<lease, head, rev, published, disk, refresh, pruning>>

Stage(p) ==
  /\ at[p] = "stage" /\ stages' = stages \cup {my[p]} /\ Checked(p, "extract")
  /\ UNCHANGED <<lease, records, dirs, refresh, pruning>>

(* The extraction, which compares its result with the parent's directory.  *)
Extract(p) ==
  /\ at[p] = "extract"
  /\ Goto(p, IF Owns(my[p]) /\ (prior[p].fence # 0 => <<my[p][1], prior[p].fence>> \in dirs)
             THEN "rename" ELSE "finish")
  /\ UNCHANGED <<lease, records, disk, refresh, pruning>>

(* Cancellation, a failed extraction, drift of the source or the policy.   *)
GiveUp(p) ==
  /\ at[p] \in {"read", "extract"} /\ Goto(p, "finish")
  /\ UNCHANGED <<lease, records, disk, refresh, pruning>>

Rename(p) ==
  /\ at[p] = "rename" /\ stages' = stages \ {my[p]} /\ dirs' = dirs \cup {my[p]} /\ Goto(p, "publish")
  /\ UNCHANGED <<lease, records, refresh, pruning>>

MutMayPublish(p) == rev[my[p][1]] = prior[p].rev

(* The transaction that publishes: the lease is still owned and the head   *)
(* is the one that was read.                                               *)
MayPublish(p) == Owns(my[p]) /\ rev[my[p][1]] = prior[p].rev

Publish(p) ==
  LET s == my[p][1] IN
  /\ at[p] = "publish" /\ Goto(p, "finish")
  /\ IF MayPublish(p)
     THEN /\ published' = published \cup {my[p]} /\ Expired(my[p])
          /\ head' = [head EXCEPT ![s] = my[p][2]] /\ rev' = [rev EXCEPT ![s] = @ + 1]
     ELSE UNCHANGED <<lease, head, rev, published>>
  /\ UNCHANGED <<reserved, disk, refresh, pruning>>

Finish(p) ==
  /\ at[p] = "finish" /\ reserved' = reserved \ {my[p]} /\ Expired(my[p]) /\ Goto(p, "idle")
  /\ my' = [my EXCEPT ![p] = NoLease] /\ prior' = [prior EXCEPT ![p] = NoHead] /\ used' = [used EXCEPT ![p] = 0]
  /\ UNCHANGED <<head, rev, published, disk, pruning>>

(***************************************************************************)
(* Pruning                                                                 *)
(***************************************************************************)

MutProtected(pins) == pins

(* Heads, and the generations other records pin.                           *)
Protected(pins) == Heads \cup pins

PruneSnapshot(p) ==
  /\ at[p] = "idle" /\ \E pins \in SUBSET published : safe' = [safe EXCEPT ![p] = Protected(pins)]
  /\ known' = [known EXCEPT ![p] = published] /\ Goto(p, "sweep")
  /\ UNCHANGED <<lease, records, disk, refresh, doomed>>

(* Stages a day old that no lease owns; by then no process works in them.  *)
PruneStages(p) ==
  /\ at[p] = "sweep" /\ Goto(p, "list")
  /\ \E old \in SUBSET {g \in stages : ~Owns(g) /\ \A q \in Proc : my[q] # g} : stages' = stages \ old
  /\ UNCHANGED <<lease, records, dirs, refresh, pruning>>

(* The generations, as published now: of those that are not protected a    *)
(* scope keeps its newest ones, when they are less than a week old and     *)
(* while there is room beside the protected ones.                          *)
Newer(candidates, g) == {h \in candidates : h[1] = g[1] /\ h[2] > g[2]}

PruneList(p) ==
  LET candidates == (published \cap dirs) \ safe[p]
      room == LET taken == Cardinality(published \cap dirs \cap safe[p]) IN IF taken > Limit THEN 0 ELSE Limit - taken
  IN
  /\ at[p] = "list" /\ Goto(p, "remove")
  /\ \E old \in SUBSET (candidates \cap known[p]) :
       LET fit == {g \in candidates \ old : Cardinality(Newer(candidates, g)) < Kept} IN
       \E kept \in SUBSET fit :
         /\ Cardinality(kept) = IF Cardinality(fit) < room THEN Cardinality(fit) ELSE room
         /\ \A g \in kept : Newer(fit, g) \subseteq kept
         /\ doomed' = [doomed EXCEPT ![p] = candidates \ kept]
  /\ UNCHANGED <<lease, records, disk, refresh, safe, known>>

PruneRemove(p) ==
  /\ at[p] = "remove"
  /\ IF doomed[p] = {} THEN /\ Goto(p, "idle") /\ safe' = [safe EXCEPT ![p] = {}] /\ known' = [known EXCEPT ![p] = {}]
                            /\ UNCHANGED <<dirs, doomed>>
     ELSE /\ \E g \in doomed[p] : dirs' = dirs \ {g} /\ doomed' = [doomed EXCEPT ![p] = @ \ {g}]
          /\ UNCHANGED <<at, safe, known>>
  /\ UNCHANGED <<lease, records, stages, refresh>>

(***************************************************************************)
(* Time, checkouts and deaths                                              *)
(***************************************************************************)
Expire(s) ==
  /\ lease[s].live /\ lease' = [lease EXCEPT ![s] = [fence |-> @.fence, live |-> FALSE]]
  /\ UNCHANGED <<records, disk, at, refresh, pruning>>

(* A merge, or a worktree made or removed, takes the head of its scope.    *)
Invalidate(s) ==
  /\ head[s] # 0 /\ head' = [head EXCEPT ![s] = 0] /\ rev' = [rev EXCEPT ![s] = 0]
  /\ UNCHANGED <<lease, published, reserved, disk, at, refresh, pruning>>

Crash(p) ==
  /\ at[p] # "idle" /\ Goto(p, "idle")
  /\ my' = [my EXCEPT ![p] = NoLease] /\ prior' = [prior EXCEPT ![p] = NoHead] /\ used' = [used EXCEPT ![p] = 0]
  /\ safe' = [safe EXCEPT ![p] = {}] /\ known' = [known EXCEPT ![p] = {}] /\ doomed' = [doomed EXCEPT ![p] = {}]
  /\ UNCHANGED <<lease, records, disk>>

Next ==
  \/ \E p \in Proc, s \in Scope : Acquire(p, s)
  \/ \E p \in Proc :
       \/ ReadHead(p) \/ Measure(p) \/ Reserve(p) \/ Stage(p) \/ Extract(p) \/ GiveUp(p)
       \/ Rename(p) \/ Publish(p) \/ Finish(p)
       \/ PruneSnapshot(p) \/ PruneStages(p) \/ PruneList(p) \/ PruneRemove(p)
       \/ Crash(p)
  \/ \E s \in Scope : Expire(s) \/ Invalidate(s)

Spec == Init /\ [][Next]_gvars

(***************************************************************************)
(* Properties                                                              *)
(***************************************************************************)
(* Generations of a scope are published in the order their leases were     *)
(* taken: a refresh that outlived its lease never replaces the head of a   *)
(* later one, nor does anything twice.                                     *)
PublishedInOrder ==
  [][\A g \in published' \ published, h \in published : h[1] = g[1] => h[2] < g[2]]_published

(* The directory of a head is there, whatever is pruned beside: without it *)
(* every later refresh of the scope fails.                                 *)
HeadLoads == Heads \subseteq dirs
=============================================================================
